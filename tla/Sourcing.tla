------------------------------- MODULE Sourcing -------------------------------
(* match_suppliers of matchers/__init__.py: one product after another is     *)
(* matched with offers, from the result cache, the imports, the open         *)
(* platform, Scrapling, the browser or mocks; the offers are completed from  *)
(* their pages, verified, cached and gated.  The caches, the cooldown and    *)
(* the manual queue (agent/manual_queue.py) are files that outlive a match.  *)
(*                                                                           *)
(* The matches run one at a time on the worker thread of one process; a      *)
(* person works on the queue through API requests at the same time.          *)
EXTENDS SupplierSources

CONSTANTS
  Products,      \* products that may be matched: image, title, queries, ...
  Offers,        \* ids of 1688 offers: digits, eight or more
  HexMock, DigitMock,  \* ids of mocks: hashes with and without a letter
  Sales,         \* the monthly sales of every offer
  Answers,       \* what a search page may answer
  OfferPages(_), \* what opening the page of an offer may show
  Understandings, \* what the picture may be understood as
  ImportTerms,   \* the words of the offers that may be imported
  TopK, DetailLimit, ResultTTL, DetailTTL,
  MaxClock, MaxMatches, MaxEdits

ASSUME SourcingAssumption ==
  /\ HexMock # DigitMock /\ {HexMock, DigitMock, None} \cap Offers = {}
  /\ DOMAIN ImportTerms \subseteq Offers
  /\ TopK \in Nat

\* A search page names offers of 1688.
ASSUME AnswersAssumption ==
  \A a \in Answers : a.page \in {"offers", "tmd", "login", "error"} /\ a.offers \in Seq(Offers)

\* A page that names offers names the one it shows; a marker is the code of an
\* error.
ASSUME PagesAssumption ==
  \A o \in Offers : \A page \in OfferPages(o) :
    /\ page.marker # "detail" /\ page.signs \in Nat
    /\ page.marker = None /\ NamedIds(page) # {} => page.of \in NamedIds(page)

\* The plans are sequences, as folds over the words of the products.
ASSUME PlansAssumption ==
  \A p \in Products, vision \in Understandings : Len(SearchPlan(p, vision)) \in Nat

VARIABLES
  product,   \* the product of this behaviour
  clock,
  cache,     \* real_supplier_results.json: search plan -> [at, offers]
  details,   \* offer_details.json: offer -> [at, detail]
  cooldown,  \* circuit_breaker.json: blocked_until
  queue,     \* manual_sourcing_queue.json: the item of the product
  held,      \* the copy of the queue a writer has read and not yet written
  imports,   \* the imported offers: offer -> [terms, at]
  match,     \* the call of match_suppliers under way
  log,       \* what was queued and decided, and whether two copies were out
  used       \* the matches and edits so far

stores == <<cache, details, cooldown, imports>>
desk   == <<queue, held, log>>
vars   == <<product, clock, stores, desk, match, used>>

Writers  == {"worker", "request"}
Mocks    == {HexMock, DigitMock}
NoItem   == [attempts |-> 0, status |-> None]
NoCopy   == [attempts |-> -1, status |-> None]
NoDetail == [outcome |-> None]
NoEntry  == [at |-> -1, detail |-> NoDetail]
Nothing  == [o \in {} |-> NoDetail]

\* A product of a target category has the twelve queries.
Target == product.queries # <<>>

Idle == [pc |-> "idle", plan |-> <<>>, mockOk |-> FALSE, found |-> Nothing, left |-> {}, opened |-> 0,
         attempts |-> <<>>, answers |-> <<>>, kept |-> {}, cancelled |-> FALSE]

-----------------------------------------------------------------------------
(* Offers.                                                                   *)

\* An offer as a search, an import or the mock fallback gives it; the score is
\* in hundredths, -1 for None.
Offer(mock) ==
  [mock |-> mock, method |-> IF mock THEN "mock" ELSE None, score |-> IF mock THEN 50 ELSE -1,
   has |-> {}, detail |-> NoDetail]

Listed(ids) == [o \in ids |-> Offer(FALSE)]

\* _item_to_supplier of the open platform: the search result is also read as
\* a first detail of the offer.
ListedWithDetail(ids) ==
  [o \in ids |-> [Offer(FALSE) EXCEPT !.detail =
                      [outcome |-> "detail", fields |-> {}, of |-> o, read |-> clock]]]

\* _mock_suppliers: more or fewer than TopK.
MockSuppliers == [o \in Mocks |-> Offer(TRUE)]

Only(found, ids) == [o \in ids |-> found[o]]

\* Mutant of IsReal: whatever is not marked as a mock is real.
IsReal_ByMethod(id, o) == o.method # "mock"

\* is_real_supplier, is_reusable_supplier.
IsReal(id, o) == o.method # "mock" /\ id \in Offers \cup {DigitMock}
IsReusable(id, o) == IsReal(id, o) /\ o.method # "heuristic_rejected" /\ (o.score = -1 \/ o.score > 40)
Reusable(found)   == Only(found, {o \in DOMAIN found : IsReusable(o, found[o])})

\* make_cache_key: the first five keywords stand for the plan.
CacheKey(plan) == Heading(plan, 5)

\* load_cached_suppliers: the reusable offers of an entry that is not too old.
CachedSuppliers(key) ==
  IF key \in DOMAIN cache /\ clock - cache[key].at <= ResultTTL THEN Reusable(cache[key].offers) ELSE Nothing

\* save_cached_suppliers: nothing is saved when nothing is reusable.
SavedSuppliers(key, found) ==
  IF DOMAIN Reusable(found) = {} THEN cache
  ELSE [k \in DOMAIN cache \cup {key} |->
          IF k = key THEN [at |-> clock, offers |-> Reusable(found)] ELSE cache[k]]

\* load_cached_offer_detail.
CachedDetail(o) ==
  IF details[o].at >= 0 /\ details[o].at + DetailTTL > clock THEN details[o].detail ELSE NoDetail

\* _should_enrich_supplier_detail.
ShouldEnrich(o) == ~o.mock /\ o.method # "mock" /\ ~(NeededFields \subseteq o.has)

-----------------------------------------------------------------------------
(* The manual queue.                                                         *)

\* _read_queue by one of the two writers.
ReadQueue(w) ==
  /\ held' = [held EXCEPT ![w] = queue]
  /\ log' = [log EXCEPT !.overlap = @ \/ \E v \in Writers \ {w} : held[v] # NoCopy]

\* Mutant of Enqueued: a block opens the item again.
Enqueued_Reopens(item) == [attempts |-> item.attempts + 1, status |-> "open"]

\* enqueue_sourcing_block: one attempt more on the item, which keeps its
\* status; a new one is open.
Enqueued(item) ==
  [attempts |-> item.attempts + 1, status |-> IF item = NoItem THEN "open" ELSE item.status]

EnqueueSourcingBlock ==
  /\ match.pc = "enqueue"
  /\ queue' = Enqueued(held["worker"])
  /\ held' = [held EXCEPT !["worker"] = NoCopy]
  /\ log' = [log EXCEPT !.enqueued = @ + 1, !.decided = IF log.enqueued = 0 THEN "open" ELSE @]
  /\ match' = [match EXCEPT !.pc = "returned"]
  /\ UNCHANGED <<product, clock, stores, used>>

\* update_manual_item: an item that is not there is an error.
OpenItem ==
  /\ held["request"] = NoCopy
  /\ queue # NoItem
  /\ used.edits < MaxEdits
  /\ used' = [used EXCEPT !.edits = @ + 1]
  /\ ReadQueue("request")
  /\ UNCHANGED <<product, clock, stores, queue, match>>

UpdateManualItem(status) ==
  /\ held["request"] # NoCopy
  /\ queue' = [held["request"] EXCEPT !.status = status]
  /\ held' = [held EXCEPT !["request"] = NoCopy]
  /\ log' = [log EXCEPT !.decided = status]
  /\ UNCHANGED <<product, clock, stores, match, used>>

-----------------------------------------------------------------------------
(* A match.                                                                  *)

Init ==
  /\ product \in Products
  /\ clock = 0
  /\ cache = Nothing
  /\ details = [o \in Offers \cup {DigitMock} |-> NoEntry]
  /\ cooldown \in {0, 1}
  /\ queue = NoItem
  /\ held = [w \in Writers |-> NoCopy]
  /\ imports = Nothing
  /\ match = Idle
  /\ log = [enqueued |-> 0, decided |-> None, overlap |-> FALSE]
  /\ used = [matches |-> 0, edits |-> 0]

\* match_suppliers goes on with what was found, or else with the next source.
Gathered(found, next) ==
  [match EXCEPT !.found = found, !.left = DOMAIN found, !.pc = IF DOMAIN found = {} THEN next ELSE "enrich"]

\* The start, up to the cache and the imports.  The picture may be understood
\* or not; with no keyword the product goes to the queue.
Start(vision, mockOk) ==
  LET plan   == SearchPlan(product, vision)
      cached == CachedSuppliers(CacheKey(plan))
      begun  == [Idle EXCEPT !.plan = plan, !.mockOk = mockOk]
  IN  /\ match.pc = "idle"
      /\ used.matches < MaxMatches
      /\ used' = [used EXCEPT !.matches = @ + 1]
      /\ \/ /\ plan = <<>>
            /\ match' = [begun EXCEPT !.pc = "enqueue"]
            /\ ReadQueue("worker")
         \/ /\ plan # <<>>
            /\ \E first \in BestSelling(DOMAIN cached, Sales, TopK),
                  imported \in ImportedSuppliers(imports, plan, TopK) :
                 LET known == IF DOMAIN cached # {} THEN Only(cached, first) ELSE Listed(imported)
                 IN  match' = [begun EXCEPT !.found = known, !.left = DOMAIN known,
                                            !.pc = IF DOMAIN known = {} THEN "platform" ELSE "enrich"]
            /\ UNCHANGED <<held, log>>
      /\ UNCHANGED <<product, clock, stores, queue>>

AnswerLists == [1..Len(match.plan) -> Answers]

\* What the open platform's two interfaces (here the first configured one and a
\* candidate) or Scrapling find.  One that is switched off finds nothing.
PlatformFinds ==
  CASE match.pc = "platform" -> UNION {PifatuanSearch(a, b, Sales, TopK) : a, b \in AnswerLists}
    [] match.pc = "text"     -> UNION {TextSearch(a, Sales, TopK) : a \in AnswerLists}
    [] OTHER                 -> {ScraplingSearch(Heading(a, 2), TopK) : a \in AnswerLists}

NextSource == [platform |-> "text", text |-> "scrapling", scrapling |-> "browser"]

SearchPlatform ==
  /\ match.pc \in DOMAIN NextSource
  /\ ~match.cancelled
  /\ \E ids \in PlatformFinds :
       match' = Gathered(IF match.pc = "platform" THEN ListedWithDetail(ids) ELSE Listed(ids), NextSource[match.pc])
  /\ UNCHANGED <<product, clock, stores, desk, used>>

\* The browser, and the mocks when it finds nothing.  No exception leaves
\* search_by_keyword, so the branch that opens the circuit and fills the queue
\* is never entered.
SearchBrowser ==
  /\ match.pc = "browser"
  /\ cooldown <= clock
  /\ ~match.cancelled
  /\ \E answers \in AnswerLists :
       \E search \in BrowserSearch(IF Target THEN answers ELSE Heading(answers, 5), Sales, TopK, Target) :
         LET found == IF search.found = {} /\ match.mockOk THEN MockSuppliers ELSE Listed(search.found)
         IN  match' = [Gathered(found, "gate") EXCEPT !.attempts = search.attempts,
                         !.answers = [i \in DOMAIN search.attempts |-> answers[i]]]
  /\ UNCHANGED <<product, clock, stores, desk, used>>

\* The cooldown is active: no browser and no mocks, the product is queued.
CoolDown ==
  /\ match.pc = "browser"
  /\ cooldown > clock
  /\ match' = [match EXCEPT !.pc = "enqueue"]
  /\ ReadQueue("worker")
  /\ UNCHANGED <<product, clock, stores, queue, used>>

\* The offers _enrich_supplier_details has still to complete.
Incomplete ==
  IF match.opened >= DetailLimit THEN {} ELSE {o \in match.left : ShouldEnrich(match.found[o])}

\* _enrich_supplier_details for the next of them, in the order of the search: a
\* detail from the cache, or its page.  A page that is blocked or not that of
\* the offer is no error: the offer stays as it is, and a detail it already
\* carried is saved again.
EnrichDetail ==
  /\ match.pc = "enrich"
  /\ ~match.cancelled
  /\ \E o \in Incomplete :
       /\ \A p \in Incomplete : Sales[p] <= Sales[o]
       /\ \E page \in OfferPages(o) :
            LET stored  == CachedDetail(o)
                read    == OfferDetail(page, o)
                updated == CASE stored # NoDetail -> WithDetail(match.found[o], stored)
                             [] stored = NoDetail /\ read.outcome = "detail" ->
                                  WithDetail(match.found[o], [outcome |-> "detail", fields |-> read.fields,
                                                              of |-> page.of, read |-> clock])
                             [] OTHER -> match.found[o]
            IN  /\ match' = [match EXCEPT !.found[o] = updated, !.left = @ \ {o}, !.opened = @ + 1]
                /\ details' = IF stored = NoDetail /\ updated.detail # NoDetail
                              THEN [details EXCEPT ![o] = [at |-> clock, detail |-> updated.detail]]
                              ELSE details
  /\ UNCHANGED <<product, clock, cache, cooldown, imports, desk, used>>

\* What a verifier writes on an offer.
Judged(offer, score, method) == [offer EXCEPT !.score = score, !.method = method]

\* The heuristic verifier (SupplierMatching tells how it comes to its scores):
\* it takes the method 'mock' from the mocks as well.  A target product keeps
\* what was gathered, another one only what passed.
Verify ==
  /\ match.pc = "enrich"
  /\ ~match.cancelled
  /\ Incomplete = {}
  /\ \E refused \in SUBSET DOMAIN match.found :
       LET judged == [o \in DOMAIN match.found |->
                        IF o \in refused THEN Judged(match.found[o], 0, "heuristic_rejected")
                        ELSE Judged(match.found[o], 50, "heuristic")]
       IN  match' = [match EXCEPT !.pc = "look", !.left = {},
                       !.found = IF Target THEN judged ELSE Only(judged, DOMAIN judged \ refused)]
  /\ UNCHANGED <<product, clock, stores, desk, used>>

\* The visual verifier, if it is switched on and works: a target product's
\* offers lose their score when the picture differs, another product's are
\* dropped, and may stay with a weak score.
Look ==
  /\ match.pc = "look"
  /\ ~match.cancelled
  /\ \E differ, weak \in SUBSET DOMAIN match.found :
       /\ differ \cap weak = {}
       /\ Target => weak = {}
       /\ ~Target /\ Cardinality(DOMAIN match.found) < 2 => differ \cup weak = {}
       /\ LET seen == [o \in DOMAIN match.found |->
                         CASE o \in differ -> Judged(match.found[o], 0, "llm_rejected")
                           [] o \in weak   -> Judged(match.found[o], 35, "llm")
                           [] OTHER -> match.found[o]]
          IN  match' = [match EXCEPT !.pc = "gate",
                          !.found = IF Target THEN seen ELSE Only(seen, DOMAIN seen \ differ)]
  /\ UNCHANGED <<product, clock, stores, desk, used>>

\* The end: the reusable offers are cached, with the present time, also those
\* that came from the cache; the strict gate keeps some of the offers of a
\* target product that are no mocks; a real offer ends the cooldown.
Finish ==
  /\ match.pc = "gate"
  /\ cache' = SavedSuppliers(CacheKey(match.plan), match.found)
  /\ \E kept \in SUBSET DOMAIN match.found :
       /\ IF Target THEN \A o \in kept : ~match.found[o].mock ELSE kept = DOMAIN match.found
       /\ match' = [match EXCEPT !.pc = "returned", !.kept = kept]
       /\ cooldown' = IF \E o \in kept : IsReal(o, match.found[o]) THEN 0 ELSE cooldown
  /\ UNCHANGED <<product, clock, details, imports, desk, used>>

Return ==
  /\ match.pc = "returned"
  /\ match' = Idle
  /\ UNCHANGED <<product, clock, stores, desk, used>>

\* raise_if_cancelled: on the way to the next source and before the offers are
\* completed, verified and looked at; an active cooldown comes before it.
CheckCancel ==
  /\ match.cancelled
  /\ match.pc \in {"platform", "text", "scrapling", "browser", "enrich", "look"}
  /\ match.pc = "browser" => cooldown <= clock
  /\ match' = Idle
  /\ UNCHANGED <<product, clock, stores, desk, used>>

-----------------------------------------------------------------------------
(* What happens around a match.                                              *)

Cancel ==
  /\ match.pc \notin {"idle", "returned"}
  /\ ~match.cancelled
  /\ match' = [match EXCEPT !.cancelled = TRUE]
  /\ UNCHANGED <<product, clock, stores, desk, used>>

\* The process ends; the files stay.
Crash ==
  /\ match.pc # "idle"
  /\ match' = Idle
  /\ held' = [w \in Writers |-> NoCopy]
  /\ UNCHANGED <<product, clock, stores, queue, log, used>>

\* import_alibaba_supplier_payload, for a payload of one offer.
ImportPayload(o) ==
  /\ o \notin DOMAIN imports
  /\ imports' = [p \in DOMAIN imports \cup {o} |->
                   IF p = o THEN [terms |-> ImportTerms[o], at |-> clock] ELSE imports[p]]
  /\ UNCHANGED <<product, clock, cache, details, cooldown, desk, match, used>>

Tick ==
  /\ clock < MaxClock
  /\ clock' = clock + 1
  /\ UNCHANGED <<product, stores, desk, match, used>>

Next ==
  \/ \E vision \in Understandings, mockOk \in BOOLEAN : Start(vision, mockOk)
  \/ SearchPlatform \/ SearchBrowser
  \/ CoolDown \/ EnqueueSourcingBlock
  \/ EnrichDetail \/ Verify \/ Look \/ Finish \/ Return \/ CheckCancel
  \/ OpenItem \/ \E status \in {"open", "resolved"} : UpdateManualItem(status)
  \/ \E o \in DOMAIN ImportTerms : ImportPayload(o)
  \/ Cancel \/ Crash \/ Tick

Spec == Init /\ [][Next]_vars

-----------------------------------------------------------------------------
(* Properties.                                                               *)

\* What a match without mocks returns holds no mock (README.md:287), also
\* when earlier matches were allowed to use them and filled the cache.  The
\* one exception is a mock whose hash happens to have only decimal digits:
\* the verifier renames its method and the cache takes its id for a real one;
\* a target product's gate stops even that.
NoMockInFormalMode ==
  match.pc = "returned" /\ ~match.mockOk =>
    \A o \in match.kept : match.found[o].mock => o = DigitMock /\ ~Target

\* What is recorded of the queries of a target product is what happened: a
\* blocked page, a login page and an error count as failures with their code
\* and never as a search without results; "completed" means that every offer
\* that was taken from the page is among those evaluated; nothing is said of a
\* query that was not asked.
AttemptsAreHonest ==
  match.pc = "returned" /\ Target =>
    \A i \in DOMAIN match.plan :
      LET kept == QueryAttempt(match.attempts, i, DOMAIN match.found)
          page == IF i \in DOMAIN match.answers THEN match.answers[i].page ELSE None
      IN  CASE page = None    -> kept.status = "not_started"
            [] page = "tmd"   -> kept.status = "failed" /\ kept.error = "CAPTCHA"
            [] page = "login" -> kept.status = "failed" /\ kept.error = "AUTH_REQUIRED"
            [] page = "error" -> kept.status = "failed"
            [] OTHER -> /\ kept.status \in {"completed", "partial"}
                        /\ kept.status = "completed" =>
                             Batch(match.answers[i], PageLimit({}, TopK, TRUE)) \subseteq DOMAIN match.found
                        /\ kept.error = "NO_RESULTS" => match.answers[i].offers = <<>>

\* The detail an offer carries or the cache keeps under its id was read from
\* that offer's page, whatever page the site led to.
DetailIsOwn ==
  /\ \A o \in DOMAIN details : details[o].at >= 0 => details[o].detail.of = o
  /\ \A o \in DOMAIN match.found : match.found[o].detail # NoDetail => match.found[o].detail.of = o

\* As long as the worker and a request never held a copy of the queue at the
\* same time, the item counts every block and shows the last decision: queuing
\* a product again neither reopens it nor forgets anything.  When they did, the
\* later writer wins.
QueueExactUnlessOverlap ==
  ~log.overlap => queue.attempts = log.enqueued /\ queue.status = log.decided

\* tests/test_matchers_manual_queue.py:97 asserts that a product whose search
\* is stopped by the TMD page is put on the manual queue.
BlockIsQueued ==
  match.pc = "returned" /\ match.answers # <<>>
    /\ (\A i \in DOMAIN match.answers : match.answers[i].page = "tmd") => queue # NoItem
=============================================================================
