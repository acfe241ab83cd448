--------------------------- MODULE Suppliers_proofs ---------------------------
(* The suppliers of a product, from the searches to the recommendation.       *)
(*                                                                            *)
(* For any products, offers, answers, pages and bounds, of Sourcing: no mock  *)
(* is passed off as an offer, the attempts tell what happened, a page is      *)
(* applied to its own offer only, and the manual queue forgets nothing.       *)
(*                                                                            *)
(* For any products, finds, market data, answers and bounds, of Appraisal: a  *)
(* recommendation is earned and stays, the export agrees with it, and a       *)
(* profit is recorded with its offer.                                         *)
EXTENDS Sourcing, Appraisal, WellFoundedInduction, FiniteSetTheorems, TLAPS

------------------------------------------------------------------------------
(* What the searches find are offers *)

LEMMA LeadingFound ==
  ASSUME NEW found, NEW better, NEW limit, NEW first \in Leading(found, better, limit)
  PROVE  first \subseteq found
BY DEF Leading

LEMMA BestFound ==
  ASSUME NEW found, NEW limit, NEW first \in BestSelling(found, Sales, limit)
  PROVE  first \subseteq found
BY LeadingFound DEF BestSelling

LEMMA AnsweredOffers ==
  ASSUME NEW answers \in Seq(Answers), NEW asked, asked \subseteq DOMAIN answers
  PROVE  OffersOf(answers, asked) \subseteq Offers
<1>1. \A i \in asked : answers[i] \in Answers
  OBVIOUS
<1>2. \A i \in asked : answers[i].offers \in Seq(Offers)
  BY <1>1, AnswersAssumption
<1>3. \A i \in asked : ToSet(answers[i].offers) \subseteq Offers
  BY <1>2 DEF ToSet
<1>. QED
  BY <1>3 DEF OffersOf

LEMMA TextFinds ==
  ASSUME NEW answers \in Seq(Answers), NEW ids \in TextSearch(answers, Sales, TopK)
  PROVE  ids \subseteq Offers
<1>1. Asked(answers, TopK) \subseteq DOMAIN answers
  BY DEF Asked
<1>. QED
  BY <1>1, AnsweredOffers, BestFound DEF TextSearch

LEMMA PifatuanFinds ==
  ASSUME NEW a \in Seq(Answers), NEW b \in Seq(Answers),
         NEW ids \in PifatuanSearch(a, b, Sales, TopK)
  PROVE  ids \subseteq Offers
<1>1. \A c \in Seq(Answers) : \A found \in PifatuanWith(c, Sales, TopK) : found \subseteq Offers
  BY TextFinds DEF PifatuanWith
<1>. QED
  BY <1>1 DEF PifatuanSearch

LEMMA ScraplingFinds ==
  ASSUME NEW answers \in Seq(Answers)
  PROVE  ScraplingSearch(answers, TopK) \subseteq Offers
BY AnsweredOffers DEF ScraplingSearch

\* The first answers of a list are a list.
LEMMA Headings ==
  ASSUME NEW S, NEW s \in Seq(S), NEW n \in Nat
  PROVE  Heading(s, n) \in Seq(S)
BY DEF Heading

\* An answer for each keyword is a list of answers.
LEMMA AnswersListed ==
  ASSUME NEW n \in Nat, NEW answers \in [1..n -> Answers]
  PROVE  answers \in Seq(Answers) /\ Len(answers) = n
OBVIOUS

Earlier == {p \in Nat \X Nat : p[1] < p[2]}

\* A set of numbers that is not empty has a least one.
LEMMA LeastNumber ==
  ASSUME NEW T, T \subseteq Nat, T # {}
  PROVE  \E x \in T : \A y \in T : x <= y
<1>1. IsWellFoundedOn(Earlier, Nat)
  <2>1. OpToRel(<, Nat) = Earlier
    BY DEF OpToRel, Earlier
  <2>. QED
    BY <2>1, NatLessThanWellFounded
<1>2. PICK x \in T : \A y \in T : ~ (<<y, x>> \in Earlier)
  BY <1>1, WFMin
<1>3. \A y \in T : ~(y < x)
  BY <1>2 DEF Earlier
<1>. QED
  BY <1>3

\* What the browser has after n keywords, given what it had before.
Gain(answers, exhaustive, found, n) ==
  IF n = 0 THEN {}
  ELSE found[n - 1] \cup Batch(answers[n], PageLimit(found[n - 1], TopK, exhaustive))

IsGain(answers, exhaustive, found, m) ==
  found = [n \in 0..m |-> Gain(answers, exhaustive, found, n)]

\* The recursion of Gained has a solution for any number of keywords.
LEMMA GainExists ==
  ASSUME NEW answers, NEW exhaustive, NEW m \in Nat
  PROVE  \E found : IsGain(answers, exhaustive, found, m)
<1>. DEFINE Missed == {n \in Nat : ~ \E found : IsGain(answers, exhaustive, found, n)}
<1>1. SUFFICES ASSUME Missed # {} PROVE FALSE
  OBVIOUS
<1>2. PICK n \in Missed : \A k \in Missed : n <= k
  BY <1>1, LeastNumber
<1>3. n # 0
  <2>. DEFINE first == [k \in 0..0 |-> {}]
  <2>1. IsGain(answers, exhaustive, first, 0)
    BY DEF IsGain, Gain
  <2>. QED
    BY <1>2, <2>1
<1>4. PICK before : IsGain(answers, exhaustive, before, n - 1)
  BY <1>2, <1>3
<1>. DEFINE found == [k \in 0..n |-> Gain(answers, exhaustive, before, k)]
<1>5. \A k \in 0..(n - 1) : found[k] = before[k]
  BY <1>2, <1>3, <1>4 DEF IsGain
<1>6. ASSUME NEW k \in 0..n
      PROVE  Gain(answers, exhaustive, before, k) = Gain(answers, exhaustive, found, k)
  <2>1. k = 0 \/ k - 1 \in 0..(n - 1)
    BY <1>2
  <2>2. k = 0 \/ found[k - 1] = before[k - 1]
    BY <1>5, <2>1
  <2>. HIDE DEF found
  <2>. QED
    BY <2>2 DEF Gain
<1>7. IsGain(answers, exhaustive, found, n)
  BY <1>6 DEF IsGain
<1>. QED
  BY <1>2, <1>7

LEMMA GainedEquation ==
  ASSUME NEW answers \in Seq(Answers), NEW exhaustive
  PROVE  IsGain(answers, exhaustive, Gained(answers, TopK, exhaustive), Len(answers))
<1>. DEFINE Equation(f) == f = [n \in 0..Len(answers) |->
              IF n = 0 THEN {}
              ELSE f[n - 1] \cup Batch(answers[n], PageLimit(f[n - 1], TopK, exhaustive))]
<1>1. \A f : Equation(f) <=> IsGain(answers, exhaustive, f, Len(answers))
  BY DEF IsGain, Gain
<1>2. \E f : Equation(f)
  <2>1. \E f : IsGain(answers, exhaustive, f, Len(answers))
    <3>1. Len(answers) \in Nat
      OBVIOUS
    <3>. QED
      BY <3>1, GainExists
  <2>. HIDE DEF Equation
  <2>. QED
    BY <1>1, <2>1
<1>3. Gained(answers, TopK, exhaustive) = CHOOSE f : Equation(f)
  BY DEF Gained
<1>. HIDE DEF Equation
<1>. QED
  BY <1>1, <1>2, <1>3

LEMMA BrowserFinds ==
  ASSUME NEW answers \in Seq(Answers), NEW exhaustive,
         NEW search \in BrowserSearch(answers, Sales, TopK, exhaustive)
  PROVE  /\ search.found \subseteq Offers
         /\ DOMAIN search.attempts \subseteq DOMAIN answers
         /\ exhaustive => \A i \in DOMAIN search.attempts :
              search.attempts[i] = Attempt(answers[i], PageLimit({}, TopK, TRUE))
         /\ exhaustive => DOMAIN search.attempts = DOMAIN answers
<1>1. PICK found : found = Gained(answers, TopK, exhaustive)
  OBVIOUS
<1>2. IsGain(answers, exhaustive, found, Len(answers))
  BY <1>1, GainedEquation
<1>3. \A i \in DOMAIN answers : \A n : Batch(answers[i], n) \subseteq Offers
  <2>1. \A i \in DOMAIN answers : answers[i].offers \in Seq(Offers)
    BY AnswersAssumption
  <2>. QED
    BY <2>1 DEF Batch, Shown
<1>4. \A n \in 0..Len(answers) : found[n] \subseteq Offers
  <2>. DEFINE Bad == {n \in 0..Len(answers) : ~(found[n] \subseteq Offers)}
  <2>1. SUFFICES ASSUME Bad # {} PROVE FALSE
    OBVIOUS
  <2>2. PICK n \in Bad : \A k \in Bad : n <= k
    <3>1. Bad \subseteq Nat
      OBVIOUS
    <3>. HIDE DEF Bad
    <3>. QED
      BY <2>1, <3>1, LeastNumber
  <2>3. n \in 0..Len(answers) /\ found[n] = Gain(answers, exhaustive, found, n)
    BY <1>2 DEF IsGain
  <2>4. n # 0
    BY <2>2, <2>3 DEF Gain
  <2>5. n - 1 \in 0..Len(answers) /\ n - 1 < n /\ n \in DOMAIN answers
    BY <2>3, <2>4
  <2>6. found[n - 1] \subseteq Offers
    BY <2>2, <2>5
  <2>7. found[n] \subseteq Offers
    BY <1>3, <2>3, <2>4, <2>5, <2>6 DEF Gain
  <2>. QED
    BY <2>2, <2>7
<1>5. search.found \in BestSelling(found[Len(answers)], Sales, TopK)
  BY <1>1 DEF BrowserSearch
<1>6. search.found \subseteq Offers
  <2>1. Len(answers) \in 0..Len(answers)
    OBVIOUS
  <2>. QED
    BY <1>4, <1>5, <2>1, BestFound
<1>. DEFINE asked == {i \in DOMAIN answers : exhaustive \/ Cardinality(found[i - 1]) < TopK}
<1>7. search.attempts = [i \in asked |-> Attempt(answers[i], PageLimit(found[i - 1], TopK, exhaustive))]
  BY <1>1 DEF BrowserSearch
<1>8. \A had : exhaustive => PageLimit(had, TopK, exhaustive) = PageLimit({}, TopK, TRUE)
  BY SourcingAssumption DEF PageLimit
<1>. QED
  BY <1>6, <1>7, <1>8

------------------------------------------------------------------------------
(* The inductive invariant *)

ItemOK(q) ==
  /\ q = [attempts |-> q.attempts, status |-> q.status]
  /\ q.attempts \in Nat
  /\ q.attempts = 0 => q = NoItem

\* The queue q, the copies h of it, what the log l says of it, and where the
\* match is: the worker has a copy while it is about to write it, and as long as
\* there was one copy at a time, a copy that is held is the queue.
Desk(h, q, l, at) ==
  /\ h = [w \in Writers |-> h[w]]
  /\ ItemOK(q)
  /\ h["worker"] # NoCopy <=> at = "enqueue"
  /\ \A w \in Writers : h[w] # NoCopy => ItemOK(h[w])
  /\ h["request"] # NoCopy => h["request"] # NoItem
  /\ l = [enqueued |-> l.enqueued, decided |-> l.decided, overlap |-> l.overlap]
  /\ l.enqueued \in Nat /\ l.overlap \in BOOLEAN
  /\ ~l.overlap =>
       /\ q.attempts = l.enqueued /\ q.status = l.decided
       /\ \A w \in Writers : h[w] # NoCopy => h[w] = q
       /\ h["worker"] = NoCopy \/ h["request"] = NoCopy

\* An offer as it is kept under the id o.
Own(o, row) ==
  /\ row = [mock |-> row.mock, method |-> row.method, score |-> row.score, has |-> row.has,
            detail |-> row.detail]
  /\ row.mock \in BOOLEAN /\ (row.mock <=> o \in Mocks)
  /\ row.detail # NoDetail => row.detail.of = o

OffersOK(found) ==
  /\ DOMAIN found \subseteq Offers \cup Mocks
  /\ \A o \in DOMAIN found : Own(o, found[o])

AttemptsOK(attempts, answers, target) ==
  /\ DOMAIN attempts = DOMAIN answers
  /\ \A i \in DOMAIN answers : answers[i] \in Answers
  /\ target => \A i \in DOMAIN answers :
       attempts[i] = Attempt(answers[i], PageLimit({}, TopK, TRUE))

Fields == {"pc", "plan", "mockOk", "found", "left", "opened", "attempts", "answers", "kept", "cancelled"}

\* A match: the one mock that is known by its id comes from the mocks; what is
\* to be completed has been found, and so has what is kept.
Run(m, target) ==
  /\ m = [f \in Fields |-> m[f]]
  /\ Len(m.plan) \in Nat
  /\ OffersOK(m.found)
  /\ m.mockOk = FALSE => HexMock \notin DOMAIN m.found
  /\ m.mockOk \in BOOLEAN
  /\ m.pc = "enrich" => m.left \subseteq DOMAIN m.found
  /\ m.kept \subseteq DOMAIN m.found
  /\ m.pc # "returned" => m.kept = {}
  /\ target => m.kept \cap Mocks = {}
  /\ AttemptsOK(m.attempts, m.answers, target)

Stored(entries) ==
  /\ DOMAIN entries = Offers \cup {DigitMock}
  /\ \A o \in DOMAIN entries : entries[o].at >= 0 => entries[o].detail.of = o

Cached(entries) == \A key \in DOMAIN entries : OffersOK(entries[key].offers)

IInv ==
  /\ product \in Products
  /\ Desk(held, queue, log, match.pc)
  /\ Run(match, Target)
  /\ Stored(details) /\ Cached(cache)
  /\ DOMAIN imports \subseteq DOMAIN ImportTerms

------------------------------------------------------------------------------
(* The manual queue *)

LEMMA DeskRests ==
  ASSUME NEW h, NEW q, NEW l, NEW at, NEW new, Desk(h, q, l, at), at = "enqueue" <=> new = "enqueue"
  PROVE  Desk(h, q, l, new)
BY DEF Desk

LEMMA DeskCleared ==
  ASSUME NEW h, NEW q, NEW l, NEW at, Desk(h, q, l, at)
  PROVE  Desk([w \in Writers |-> NoCopy], q, l, "idle")
BY DEF Desk, Writers

\* One of the writers reads the queue.
LEMMA DeskRead ==
  ASSUME NEW at, NEW new, NEW w \in Writers, Desk(held, queue, log, at), held[w] = NoCopy,
         ReadQueue(w), w = "request" => queue # NoItem,
         new = "enqueue" <=> at = "enqueue" \/ w = "worker"
  PROVE  Desk(held', queue, log', new)
<1>1. /\ held' = [v \in Writers |-> IF v = w THEN queue ELSE held[v]]
      /\ log'.enqueued = log.enqueued /\ log'.decided = log.decided
      /\ log' = [enqueued |-> log'.enqueued, decided |-> log'.decided, overlap |-> log'.overlap]
      /\ log'.overlap = (log.overlap \/ \E v \in Writers \ {w} : held[v] # NoCopy)
  BY DEF Desk, ReadQueue
<1>2. queue # NoCopy
  BY DEF Desk, ItemOK, NoCopy
<1>3. log'.overlap \in BOOLEAN
  BY <1>1, Zenon
<1>4. ASSUME ~log'.overlap PROVE ~log.overlap /\ \A v \in Writers \ {w} : held[v] = NoCopy
  BY <1>1, <1>4, Zenon
<1>5. Writers = {"worker", "request"}
  BY DEF Writers
<1>. QED
  BY <1>1, <1>2, <1>3, <1>4, <1>5 DEF Desk

LEMMA DeskEnqueued ==
  ASSUME match.pc = "enqueue", Desk(held, queue, log, match.pc), EnqueueSourcingBlock
  PROVE  Desk(held', queue', log', "returned")
<1>1. /\ held' = [v \in Writers |-> IF v = "worker" THEN NoCopy ELSE held[v]]
      /\ log'.enqueued = log.enqueued + 1 /\ log'.overlap = log.overlap
      /\ log' = [enqueued |-> log'.enqueued, decided |-> log'.decided, overlap |-> log'.overlap]
      /\ log'.decided = IF log.enqueued = 0 THEN "open" ELSE log.decided
      /\ queue' = Enqueued(held["worker"])
  BY DEF Desk, EnqueueSourcingBlock
<1>2. Writers = {"worker", "request"}
  BY DEF Writers
<1>3. held["worker"] # NoCopy /\ ItemOK(held["worker"])
  BY <1>2 DEF Desk
<1>4. ItemOK(queue')
  BY <1>1, <1>3 DEF ItemOK, Enqueued
<1>5. ASSUME ~log.overlap
      PROVE  /\ queue'.attempts = log'.enqueued /\ queue'.status = log'.decided
             /\ held'["request"] = NoCopy
  <2>1. held["worker"] = queue /\ held["request"] = NoCopy
    BY <1>2, <1>3, <1>5 DEF Desk
  <2>2. queue.attempts = log.enqueued /\ queue.status = log.decided
    BY <1>5 DEF Desk
  <2>3. queue.attempts = 0 <=> queue = NoItem
    BY <1>3, <2>1 DEF ItemOK, NoItem
  <2>. QED
    BY <1>1, <1>2, <2>1, <2>2, <2>3 DEF Enqueued
<1>. QED
  BY <1>1, <1>2, <1>4, <1>5 DEF Desk

LEMMA DeskUpdated ==
  ASSUME NEW status \in {"open", "resolved"}, Desk(held, queue, log, match.pc), UpdateManualItem(status)
  PROVE  Desk(held', queue', log', match.pc)
<1>1. /\ held' = [v \in Writers |-> IF v = "request" THEN NoCopy ELSE held[v]]
      /\ log'.enqueued = log.enqueued /\ log'.overlap = log.overlap /\ log'.decided = status
      /\ log' = [enqueued |-> log'.enqueued, decided |-> log'.decided, overlap |-> log'.overlap]
      /\ queue' = [held["request"] EXCEPT !.status = status]
  BY DEF Desk, UpdateManualItem
<1>2. Writers = {"worker", "request"}
  BY DEF Writers
<1>3. held["request"] # NoCopy /\ ItemOK(held["request"]) /\ held["request"] # NoItem
  BY <1>2 DEF Desk, UpdateManualItem
<1>4. /\ queue'.attempts = held["request"].attempts /\ queue'.status = status
      /\ queue' = [attempts |-> queue'.attempts, status |-> queue'.status]
  BY <1>1, <1>3 DEF ItemOK
<1>5. ItemOK(queue')
  BY <1>3, <1>4 DEF ItemOK
<1>6. ASSUME ~log.overlap
      PROVE  /\ queue'.attempts = log'.enqueued /\ queue'.status = log'.decided
             /\ held'["worker"] = NoCopy
  <2>1. held["request"] = queue /\ held["worker"] = NoCopy
    BY <1>2, <1>3, <1>6 DEF Desk
  <2>. QED
    BY <1>1, <1>2, <1>4, <1>6, <2>1 DEF Desk
<1>. QED
  BY <1>1, <1>2, <1>5, <1>6 DEF Desk

------------------------------------------------------------------------------
(* Offers as they are found, kept and cached *)

LEMMA MocksApart ==
  /\ Mocks \cap Offers = {} /\ HexMock \notin Offers \cup {DigitMock}
  /\ HexMock \in Mocks /\ DigitMock \in Mocks /\ Mocks = {HexMock, DigitMock}
BY SourcingAssumption DEF Mocks

LEMMA ListedOK ==
  ASSUME NEW ids, ids \subseteq Offers
  PROVE  /\ OffersOK(Listed(ids)) /\ DOMAIN Listed(ids) = ids
         /\ OffersOK(ListedWithDetail(ids)) /\ DOMAIN ListedWithDetail(ids) = ids
<1>1. \A o \in ids : o \notin Mocks
  BY MocksApart
<1>2. \A o \in ids : Own(o, Listed(ids)[o])
  BY <1>1 DEF Own, Listed, Offer
<1>3. \A o \in ids : Own(o, ListedWithDetail(ids)[o])
  <2>. SUFFICES ASSUME NEW o \in ids PROVE Own(o, ListedWithDetail(ids)[o])
    OBVIOUS
  <2>1. PICK detail : detail = [outcome |-> "detail", fields |-> {}, of |-> o, read |-> clock]
    OBVIOUS
  <2>2. detail.of = o
    BY <2>1
  <2>3. ListedWithDetail(ids)[o] = [Offer(FALSE) EXCEPT !.detail = detail]
    BY <2>1 DEF ListedWithDetail
  <2>. HIDE DEF Offer
  <2>4. [Offer(FALSE) EXCEPT !.detail = detail].mock = FALSE /\
        [Offer(FALSE) EXCEPT !.detail = detail].detail = detail
    BY DEF Offer
  <2>5. PICK row : row = [Offer(FALSE) EXCEPT !.detail = detail]
    OBVIOUS
  <2>6. row = [mock |-> row.mock, method |-> row.method, score |-> row.score, has |-> row.has,
               detail |-> row.detail]
    BY <2>5 DEF Offer
  <2>. QED
    BY <1>1, <2>2, <2>3, <2>4, <2>5, <2>6 DEF Own
<1>. QED
  BY <1>2, <1>3 DEF OffersOK, Listed, ListedWithDetail

LEMMA MockSuppliersOK == OffersOK(MockSuppliers) /\ DOMAIN MockSuppliers = Mocks
BY DEF OffersOK, MockSuppliers, Own, Offer, NoDetail

LEMMA OnlyOK ==
  ASSUME NEW found, OffersOK(found), NEW ids, ids \subseteq DOMAIN found
  PROVE  OffersOK(Only(found, ids)) /\ DOMAIN Only(found, ids) = ids
BY DEF OffersOK, Only

LEMMA ReusableOK ==
  ASSUME NEW found, OffersOK(found)
  PROVE  OffersOK(Reusable(found)) /\ DOMAIN Reusable(found) \subseteq Offers \cup {DigitMock}
<1>. DEFINE ids == {o \in DOMAIN found : IsReusable(o, found[o])}
<1>1. ids \subseteq DOMAIN found /\ ids \subseteq Offers \cup {DigitMock}
  BY DEF IsReusable, IsReal
<1>2. Reusable(found) = Only(found, ids)
  BY DEF Reusable
<1>. HIDE DEF ids
<1>. QED
  BY <1>1, <1>2, OnlyOK

LEMMA NothingOK == OffersOK(Nothing) /\ DOMAIN Nothing = {}
BY DEF OffersOK, Nothing

LEMMA CachedSuppliersOK ==
  ASSUME Cached(cache), NEW key
  PROVE  /\ OffersOK(CachedSuppliers(key))
         /\ DOMAIN CachedSuppliers(key) \subseteq Offers \cup {DigitMock}
BY ReusableOK, NothingOK DEF Cached, CachedSuppliers

LEMMA SavedSuppliersOK ==
  ASSUME Cached(cache), NEW key, NEW found, OffersOK(found)
  PROVE  Cached(SavedSuppliers(key, found))
<1>1. CASE DOMAIN Reusable(found) = {}
  BY <1>1 DEF SavedSuppliers
<1>2. CASE DOMAIN Reusable(found) # {}
  <2>1. PICK entry : entry = [at |-> clock, offers |-> Reusable(found)]
    OBVIOUS
  <2>2. OffersOK(entry.offers)
    BY <2>1, ReusableOK
  <2>3. SavedSuppliers(key, found) = [k \in DOMAIN cache \cup {key} |-> IF k = key THEN entry ELSE cache[k]]
    BY <1>2, <2>1 DEF SavedSuppliers
  <2>. QED
    BY <2>2, <2>3 DEF Cached
<1>. QED
  BY <1>1, <1>2

\* A page is applied to the offer it is the page of.
LEMMA DetailsOwn ==
  ASSUME NEW o \in Offers, NEW page \in OfferPages(o), OfferDetail(page, o).outcome = "detail"
  PROVE  page.of = o
<1>. DEFINE ids == NamedIds(page)
<1>1. page.marker # "detail" /\ page.signs \in Nat /\ o # None
  BY PagesAssumption, SourcingAssumption
<1>2. page.marker = None
  <2>1. CASE page.marker # None
    <3>1. OfferDetail(page, o) = [outcome |-> page.marker]
      BY <2>1 DEF OfferDetail
    <3>. QED
      BY <1>1, <3>1
  <2>. QED
    BY <2>1
<1>3. ids # {}
  <2>1. ASSUME ids = {} PROVE OfferDetail(page, o).outcome \in {"INVALID_OFFER_PAGE", "OFFER_ID_UNVERIFIED"}
    BY <1>1, <1>2, <2>1 DEF OfferDetail
  <2>. QED
    BY <2>1
<1>4. SameOffer(ids, o)
  <2>1. ASSUME ~SameOffer(ids, o) PROVE OfferDetail(page, o).outcome = "OFFER_ID_MISMATCH"
    <3>. HIDE DEF ids
    <3>1. ids = NamedIds(page)
      BY DEF ids
    <3>. QED
      BY <1>1, <1>2, <1>3, <2>1, <3>1 DEF OfferDetail
  <2>. QED
    BY <2>1
<1>5. page.of \in ids
  BY <1>2, <1>3, PagesAssumption
<1>. QED
  BY <1>4, <1>5 DEF SameOffer

------------------------------------------------------------------------------
(* The steps *)

LEMMA IdleRun == Run(Idle, Target)
BY NothingOK DEF Run, Idle, Fields, AttemptsOK

LEMMA InitInv == Init => IInv
<1>. SUFFICES ASSUME Init PROVE IInv
  OBVIOUS
<1>1. Desk(held, queue, log, match.pc)
  BY DEF Init, Desk, Writers, NoCopy, NoItem, ItemOK, Idle
<1>2. Run(match, Target)
  BY IdleRun DEF Init
<1>3. Stored(details)
  BY DEF Init, Stored, NoEntry
<1>4. Cached(cache) /\ DOMAIN imports \subseteq DOMAIN ImportTerms
  BY DEF Init, Cached, Nothing
<1>. QED
  BY <1>1, <1>2, <1>3, <1>4 DEF Init, IInv

\* A step that leaves desk and stores alone.
LEMMA MatchMoves ==
  ASSUME IInv, Run(match', Target), product' = product,
         held' = held, queue' = queue, log' = log,
         details' = details, cache' = cache, imports' = imports,
         match.pc = "enqueue" <=> match'.pc = "enqueue"
  PROVE  IInv'
<1>1. Target' <=> Target
  BY DEF Target
<1>2. Desk(held', queue', log', match'.pc)
  BY DeskRests DEF IInv
<1>3. Run(match', Target')
  BY <1>1 DEF Run, AttemptsOK
<1>. QED
  BY <1>2, <1>3 DEF IInv

\* A match goes on with what it has found.
LEMMA RunGathers ==
  ASSUME IInv, NEW found, NEW next, OffersOK(found), match.kept = {}, next # "returned",
         match.mockOk = FALSE => HexMock \notin DOMAIN found
  PROVE  Run(Gathered(found, next), Target)
<1>1. PICK m : m = Gathered(found, next)
  OBVIOUS
<1>2. /\ m = [f \in Fields |-> m[f]]
      /\ m.found = found /\ m.left = DOMAIN found /\ m.pc # "returned"
      /\ m.kept = {} /\ m.plan = match.plan /\ m.mockOk = match.mockOk
      /\ m.attempts = match.attempts /\ m.answers = match.answers
  BY <1>1 DEF Gathered, IInv, Run, Fields
<1>3. Run(m, Target)
  BY <1>2 DEF IInv, Run
<1>. QED
  BY <1>1, <1>3

LEMMA PlansListed ==
  ASSUME IInv, NEW answers \in AnswerLists
  PROVE  /\ answers \in Seq(Answers) /\ DOMAIN answers = 1..Len(match.plan)
         /\ \A n \in Nat : Heading(answers, n) \in Seq(Answers)
<1>1. Len(match.plan) \in Nat
  BY DEF IInv, Run
<1>. QED
  BY <1>1, AnswersListed, Headings DEF AnswerLists

LEMMA SearchPlatformStep ==
  ASSUME IInv, SearchPlatform
  PROVE  IInv'
<1>1. PICK ids \in PlatformFinds :
        match' = Gathered(IF match.pc = "platform" THEN ListedWithDetail(ids) ELSE Listed(ids),
                          NextSource[match.pc])
  BY DEF SearchPlatform
<1>2. match.pc \in {"platform", "text", "scrapling"}
  BY DEF SearchPlatform, NextSource
<1>3. ids \subseteq Offers
  <2>1. CASE match.pc = "platform"
    <3>1. PICK a \in AnswerLists, b \in AnswerLists : ids \in PifatuanSearch(a, b, Sales, TopK)
      BY <2>1 DEF PlatformFinds
    <3>. QED
      BY <3>1, PlansListed, PifatuanFinds
  <2>2. CASE match.pc = "text"
    <3>1. PICK a \in AnswerLists : ids \in TextSearch(a, Sales, TopK)
      BY <2>2 DEF PlatformFinds
    <3>. QED
      BY <3>1, PlansListed, TextFinds
  <2>3. CASE match.pc = "scrapling"
    <3>1. PICK a \in AnswerLists : ids = ScraplingSearch(Heading(a, 2), TopK)
      BY <2>3 DEF PlatformFinds
    <3>. QED
      BY <3>1, PlansListed, ScraplingFinds
  <2>. QED
    BY <1>2, <2>1, <2>2, <2>3
<1>4. PICK found : found = IF match.pc = "platform" THEN ListedWithDetail(ids) ELSE Listed(ids)
  OBVIOUS
<1>5. OffersOK(found) /\ HexMock \notin DOMAIN found
  BY <1>3, <1>4, ListedOK, MocksApart
<1>6. NextSource[match.pc] \notin {"returned", "enqueue"} /\ match.kept = {}
  <2>1. NextSource[match.pc] \notin {"returned", "enqueue"}
    BY <1>2 DEF NextSource
  <2>. QED
    BY <1>2, <2>1 DEF IInv, Run
<1>7. Run(match', Target)
  BY <1>1, <1>4, <1>5, <1>6, RunGathers
<1>8. match.pc # "enqueue" /\ match'.pc # "enqueue"
  BY <1>1, <1>2, <1>4, <1>6 DEF Gathered, IInv, Run, Fields
<1>. QED
  BY <1>7, <1>8, MatchMoves DEF SearchPlatform, stores, desk

LEMMA SearchBrowserStep ==
  ASSUME IInv, SearchBrowser
  PROVE  IInv'
<1>1. PICK answers \in AnswerLists :
        \E search \in BrowserSearch(IF Target THEN answers ELSE Heading(answers, 5), Sales, TopK, Target) :
          LET found == IF search.found = {} /\ match.mockOk THEN MockSuppliers ELSE Listed(search.found)
          IN  match' = [Gathered(found, "gate") EXCEPT !.attempts = search.attempts,
                          !.answers = [i \in DOMAIN search.attempts |-> answers[i]]]
  BY DEF SearchBrowser
<1>2. PICK asked : asked = IF Target THEN answers ELSE Heading(answers, 5)
  OBVIOUS
<1>3. PICK search :
        /\ search \in BrowserSearch(asked, Sales, TopK, Target)
        /\ LET found == IF search.found = {} /\ match.mockOk THEN MockSuppliers ELSE Listed(search.found)
           IN  match' = [Gathered(found, "gate") EXCEPT !.attempts = search.attempts,
                           !.answers = [i \in DOMAIN search.attempts |-> answers[i]]]
  BY <1>1, <1>2
<1>4. PICK found : found = IF search.found = {} /\ match.mockOk THEN MockSuppliers ELSE Listed(search.found)
  OBVIOUS
<1>5. PICK told : told = [i \in DOMAIN search.attempts |-> answers[i]]
  OBVIOUS
<1>6. match' = [Gathered(found, "gate") EXCEPT !.attempts = search.attempts, !.answers = told]
  BY <1>3, <1>4, <1>5
<1>7. asked \in Seq(Answers) /\ answers \in Seq(Answers) /\ DOMAIN asked \subseteq DOMAIN answers
  BY <1>2, PlansListed DEF Heading
<1>8. /\ search.found \subseteq Offers
      /\ DOMAIN search.attempts \subseteq DOMAIN asked
      /\ Target => \A i \in DOMAIN search.attempts :
              search.attempts[i] = Attempt(asked[i], PageLimit({}, TopK, TRUE))
  <2>1. CASE Target
    <3>1. search \in BrowserSearch(asked, Sales, TopK, TRUE)
      BY <1>3, <2>1, Zenon
    <3>. QED
      BY <1>7, <3>1, BrowserFinds
  <2>2. CASE ~Target
    <3>1. Target = FALSE
      BY <2>2 DEF Target
    <3>2. search \in BrowserSearch(asked, Sales, TopK, FALSE)
      BY <1>3, <3>1, Zenon
    <3>. QED
      BY <1>7, <2>2, <3>2, BrowserFinds
  <2>. QED
    BY <2>1, <2>2
<1>9. OffersOK(found) /\ (match.mockOk = FALSE => HexMock \notin DOMAIN found)
  BY <1>4, <1>8, ListedOK, MockSuppliersOK, MocksApart
<1>10. match.kept = {} /\ match.pc = "browser"
  BY DEF SearchBrowser, IInv, Run
<1>11. Run(Gathered(found, "gate"), Target)
  BY <1>9, <1>10, RunGathers
<1>12. AttemptsOK(search.attempts, told, Target)
  <2>1. \A i \in DOMAIN told : told[i] \in Answers
    BY <1>5, <1>7, <1>8
  <2>2. Target => \A i \in DOMAIN told : told[i] = asked[i]
    BY <1>2, <1>5
  <2>. QED
    BY <1>5, <1>8, <2>1, <2>2 DEF AttemptsOK
<1>13. PICK m : m = Gathered(found, "gate")
  OBVIOUS
<1>14. /\ match' = [f \in Fields |-> match'[f]]
       /\ match'.attempts = search.attempts /\ match'.answers = told
       /\ match'.pc = m.pc /\ match'.found = m.found /\ match'.left = m.left /\ match'.mockOk = m.mockOk
       /\ match'.plan = m.plan /\ match'.kept = m.kept
  BY <1>6, <1>11, <1>13 DEF Run, Fields
<1>15. Run(match', Target)
  BY <1>11, <1>12, <1>13, <1>14 DEF Run
<1>16. m.pc # "enqueue"
  BY <1>13 DEF Gathered, IInv, Run, Fields
<1>. QED
  BY <1>10, <1>14, <1>15, <1>16, MatchMoves DEF SearchBrowser, stores, desk

LEMMA Assembled ==
  ASSUME IInv, product' = product, Run(match', Target), Desk(held', queue', log', match'.pc),
         Stored(details'), Cached(cache'), DOMAIN imports' \subseteq DOMAIN ImportTerms
  PROVE  IInv'
<1>1. Target' <=> Target
  BY DEF Target
<1>2. Run(match', Target')
  BY <1>1 DEF Run, AttemptsOK
<1>. QED
  BY <1>2 DEF IInv

\* A match that has just begun, with the offers it knows already.
LEMMA RunBegins ==
  ASSUME NEW plan, Len(plan) \in Nat, NEW mockOk \in BOOLEAN, NEW known, OffersOK(known),
         HexMock \notin DOMAIN known, NEW at, at # "returned",
         NEW m, m = [f \in Fields |-> m[f]],
         m.plan = plan, m.mockOk = mockOk, m.found = known, m.pc = at,
         at = "enrich" => m.left = DOMAIN known,
         m.kept = Idle.kept, m.attempts = Idle.attempts, m.answers = Idle.answers
  PROVE  Run(m, Target)
<1>1. AttemptsOK(m.attempts, m.answers, Target) /\ m.kept = {}
  BY IdleRun DEF Run, Idle
<1>. QED
  BY <1>1 DEF Run

LEMMA StartStep ==
  ASSUME IInv, NEW vision \in Understandings, NEW mockOk \in BOOLEAN, Start(vision, mockOk)
  PROVE  IInv'
<1>1. PICK plan : plan = SearchPlan(product, vision)
  OBVIOUS
<1>2. Len(plan) \in Nat
  BY <1>1, PlansAssumption DEF IInv
<1>3. match.pc = "idle" /\ held["worker"] = NoCopy /\ product' = product
      /\ details' = details /\ cache' = cache /\ imports' = imports /\ queue' = queue
  BY DEF Start, stores, IInv, Desk, Writers
<1>4. CASE plan = <<>>
  <2>1. match' = [[Idle EXCEPT !.plan = plan, !.mockOk = mockOk] EXCEPT !.pc = "enqueue"] /\ ReadQueue("worker")
    BY <1>1, <1>4 DEF Start
  <2>2. /\ match' = [f \in Fields |-> match'[f]]
        /\ match'.plan = plan /\ match'.mockOk = mockOk /\ match'.found = Nothing /\ match'.pc = "enqueue"
        /\ match'.kept = Idle.kept /\ match'.attempts = Idle.attempts /\ match'.answers = Idle.answers
    BY <2>1 DEF Idle, Fields
  <2>3. Run(match', Target) /\ match'.pc = "enqueue"
    BY <1>2, <2>2, NothingOK, RunBegins
  <2>4. Desk(held', queue', log', match'.pc)
    BY <1>3, <2>1, <2>3, DeskRead DEF IInv, Writers
  <2>. QED
    BY <1>3, <2>3, <2>4, Assembled DEF IInv
<1>5. CASE plan # <<>>
  <2>1. PICK cached : cached = CachedSuppliers(CacheKey(plan))
    OBVIOUS
  <2>2. PICK first \in BestSelling(DOMAIN cached, Sales, TopK), imported \in ImportedSuppliers(imports, plan, TopK) :
          LET known == IF DOMAIN cached # {} THEN Only(cached, first) ELSE Listed(imported)
          IN  match' = [[Idle EXCEPT !.plan = plan, !.mockOk = mockOk]
                          EXCEPT !.found = known, !.left = DOMAIN known,
                                 !.pc = IF DOMAIN known = {} THEN "platform" ELSE "enrich"]
    BY <1>1, <1>5, <2>1 DEF Start
  <2>3. PICK known : known = IF DOMAIN cached # {} THEN Only(cached, first) ELSE Listed(imported)
    OBVIOUS
  <2>4. PICK at : at = IF DOMAIN known = {} THEN "platform" ELSE "enrich"
    OBVIOUS
  <2>5. OffersOK(cached) /\ HexMock \notin DOMAIN cached
    BY <2>1, CachedSuppliersOK, MocksApart DEF IInv
  <2>6. imported \subseteq Offers
    <3>1. imported \subseteq DOMAIN imports
      BY LeadingFound DEF ImportedSuppliers
    <3>. QED
      BY <3>1, SourcingAssumption DEF IInv
  <2>7. OffersOK(known) /\ HexMock \notin DOMAIN known
    BY <2>3, <2>5, <2>6, BestFound, OnlyOK, ListedOK, MocksApart
  <2>8. Run(match', Target) /\ match'.pc = at
    <3>1. match' = [[Idle EXCEPT !.plan = plan, !.mockOk = mockOk]
                      EXCEPT !.found = known, !.left = DOMAIN known, !.pc = at]
      BY <2>2, <2>3, <2>4
    <3>2. /\ match' = [f \in Fields |-> match'[f]]
          /\ match'.plan = plan /\ match'.mockOk = mockOk /\ match'.found = known /\ match'.pc = at
          /\ match'.left = DOMAIN known
          /\ match'.kept = Idle.kept /\ match'.attempts = Idle.attempts /\ match'.answers = Idle.answers
      BY <3>1 DEF Idle, Fields
    <3>. QED
      BY <1>2, <2>4, <2>7, <3>2, RunBegins
  <2>9. held' = held /\ log' = log
    BY <1>1, <1>5 DEF Start
  <2>. QED
    BY <1>3, <2>4, <2>8, <2>9, MatchMoves
<1>. QED
  BY <1>4, <1>5

\* A step that only says where the match is.
LEMMA RunGoesOn ==
  ASSUME IInv, NEW at, at # "enrich", match.kept = {}, NEW m, m = [match EXCEPT !.pc = at]
  PROVE  Run(m, Target) /\ m.pc = at
<1>1. /\ m = [f \in Fields |-> m[f]] /\ m.pc = at
      /\ m.found = match.found /\ m.kept = {} /\ m.plan = match.plan /\ m.mockOk = match.mockOk
      /\ m.attempts = match.attempts /\ m.answers = match.answers
  BY DEF IInv, Run, Fields
<1>. QED
  BY <1>1 DEF IInv, Run

LEMMA CoolDownStep ==
  ASSUME IInv, CoolDown
  PROVE  IInv'
<1>1. match' = [match EXCEPT !.pc = "enqueue"] /\ match.pc = "browser" /\ ReadQueue("worker")
  BY DEF CoolDown
<1>2. match.kept = {} /\ held["worker"] = NoCopy
  BY <1>1 DEF IInv, Run, Desk, Writers
<1>3. Run(match', Target) /\ match'.pc = "enqueue"
  BY <1>1, <1>2, RunGoesOn
<1>4. Desk(held', queue', log', match'.pc)
  BY <1>1, <1>2, <1>3, DeskRead DEF IInv, Writers, CoolDown
<1>. QED
  BY <1>3, <1>4, Assembled DEF CoolDown, stores, IInv

LEMMA EnqueueStep ==
  ASSUME IInv, EnqueueSourcingBlock
  PROVE  IInv'
<1>1. match' = [match EXCEPT !.pc = "returned"] /\ match.pc = "enqueue"
  BY DEF EnqueueSourcingBlock
<1>2. match.kept = {}
  BY <1>1 DEF IInv, Run
<1>3. Run(match', Target) /\ match'.pc = "returned"
  BY <1>1, <1>2, RunGoesOn
<1>4. Desk(held', queue', log', match'.pc)
  BY <1>1, <1>3, DeskEnqueued DEF IInv
<1>. QED
  BY <1>3, <1>4, Assembled DEF EnqueueSourcingBlock, stores, IInv

\* A match goes on with what is left of the offers it has found.
LEMMA RunNarrows ==
  ASSUME IInv, match.kept = {}, NEW m, m = [f \in Fields |-> m[f]], m.pc # "returned",
         OffersOK(m.found), DOMAIN m.found \subseteq DOMAIN match.found,
         m.pc = "enrich" => m.left \subseteq DOMAIN m.found,
         m.kept = match.kept, m.plan = match.plan, m.mockOk = match.mockOk,
         m.attempts = match.attempts, m.answers = match.answers
  PROVE  Run(m, Target)
BY DEF IInv, Run

LEMMA WithDetailOwn ==
  ASSUME NEW o, NEW row, Own(o, row), NEW detail, detail.of = o
  PROVE  Own(o, WithDetail(row, detail)) /\ WithDetail(row, detail).detail = detail
<1>1. PICK full : full = WithDetail(row, detail)
  OBVIOUS
<1>2. /\ full = [mock |-> full.mock, method |-> full.method, score |-> full.score, has |-> full.has,
                 detail |-> full.detail]
      /\ full.mock = row.mock /\ full.detail = detail
  BY <1>1 DEF WithDetail, Own
<1>. QED
  BY <1>1, <1>2 DEF Own

LEMMA EnrichStep ==
  ASSUME IInv, EnrichDetail
  PROVE  IInv'
<1>0. PICK o \in Incomplete :
        \E page \in OfferPages(o) :
          LET stored  == CachedDetail(o)
              read    == OfferDetail(page, o)
              updated == CASE stored # NoDetail -> WithDetail(match.found[o], stored)
                           [] stored = NoDetail /\ read.outcome = "detail" ->
                                WithDetail(match.found[o], [outcome |-> "detail", fields |-> read.fields,
                                                            of |-> page.of, read |-> clock])
                           [] OTHER -> match.found[o]
          IN  /\ match' = [match EXCEPT !.found[o] = updated, !.left = @ \ {o}, !.opened = @ + 1]
              /\ details' = IF stored = NoDetail /\ updated.detail # NoDetail
                            THEN [details EXCEPT ![o] = [at |-> clock, detail |-> updated.detail]]
                            ELSE details
  BY DEF EnrichDetail
<1>1. PICK page \in OfferPages(o) :
        LET stored  == CachedDetail(o)
            read    == OfferDetail(page, o)
            updated == CASE stored # NoDetail -> WithDetail(match.found[o], stored)
                         [] stored = NoDetail /\ read.outcome = "detail" ->
                              WithDetail(match.found[o], [outcome |-> "detail", fields |-> read.fields,
                                                          of |-> page.of, read |-> clock])
                         [] OTHER -> match.found[o]
        IN  /\ match' = [match EXCEPT !.found[o] = updated, !.left = @ \ {o}, !.opened = @ + 1]
            /\ details' = IF stored = NoDetail /\ updated.detail # NoDetail
                          THEN [details EXCEPT ![o] = [at |-> clock, detail |-> updated.detail]]
                          ELSE details
  BY <1>0
<1>2. PICK stored : stored = CachedDetail(o)
  OBVIOUS
<1>3. PICK fresh : fresh = [outcome |-> "detail", fields |-> OfferDetail(page, o).fields,
                            of |-> page.of, read |-> clock]
  OBVIOUS
<1>4. PICK updated :
        /\ updated = CASE stored # NoDetail -> WithDetail(match.found[o], stored)
                       [] stored = NoDetail /\ OfferDetail(page, o).outcome = "detail" ->
                            WithDetail(match.found[o], fresh)
                       [] OTHER -> match.found[o]
        /\ match' = [match EXCEPT !.found[o] = updated, !.left = @ \ {o}, !.opened = @ + 1]
        /\ details' = IF stored = NoDetail /\ updated.detail # NoDetail
                      THEN [details EXCEPT ![o] = [at |-> clock, detail |-> updated.detail]]
                      ELSE details
  BY <1>1, <1>2, <1>3
<1>5. match.pc = "enrich" /\ match.kept = {}
  BY DEF EnrichDetail, IInv, Run
<1>6. o \in DOMAIN match.found /\ Own(o, match.found[o]) /\ o \in Offers
  <2>1. o \in match.left /\ ShouldEnrich(match.found[o])
    BY DEF Incomplete
  <2>2. o \in DOMAIN match.found
    BY <1>5, <2>1 DEF IInv, Run
  <2>3. Own(o, match.found[o]) /\ o \in Offers \cup Mocks
    BY <2>2 DEF IInv, Run, OffersOK
  <2>4. o \notin Mocks
    BY <2>1, <2>3 DEF ShouldEnrich, Own
  <2>. QED
    BY <2>2, <2>3, <2>4
<1>7. Own(o, updated)
  <2>1. CASE stored # NoDetail
    <3>1. stored.of = o
      BY <1>2, <1>6, <2>1 DEF CachedDetail, IInv, Stored
    <3>. QED
      BY <1>4, <1>6, <2>1, <3>1, WithDetailOwn
  <2>2. CASE stored = NoDetail /\ OfferDetail(page, o).outcome = "detail"
    <3>1. fresh.of = o
      BY <1>3, <1>6, <2>2, DetailsOwn
    <3>. QED
      BY <1>4, <1>6, <2>2, <3>1, WithDetailOwn
  <2>3. CASE stored = NoDetail /\ OfferDetail(page, o).outcome # "detail"
    BY <1>4, <1>6, <2>3
  <2>. QED
    BY <2>1, <2>2, <2>3
<1>8. /\ match' = [f \in Fields |-> match'[f]]
      /\ match'.found = [match.found EXCEPT ![o] = updated]
      /\ match'.left = match.left \ {o}
      /\ match'.pc = match.pc /\ match'.kept = match.kept /\ match'.plan = match.plan
      /\ match'.mockOk = match.mockOk /\ match'.attempts = match.attempts /\ match'.answers = match.answers
  BY <1>4 DEF IInv, Run, Fields
<1>9. OffersOK(match'.found) /\ DOMAIN match'.found = DOMAIN match.found
  BY <1>6, <1>7, <1>8 DEF IInv, Run, OffersOK
<1>10. match.left \subseteq DOMAIN match.found
  BY <1>5 DEF IInv, Run
<1>11. Run(match', Target)
  BY <1>5, <1>8, <1>9, <1>10, RunNarrows
<1>12. Stored(details')
  <2>1. CASE details' = details
    BY <2>1 DEF IInv, Stored
  <2>2. CASE details' # details
    <3>1. PICK entry : entry = [at |-> clock, detail |-> updated.detail]
      OBVIOUS
    <3>2. updated.detail # NoDetail /\ details' = [details EXCEPT ![o] = entry]
      BY <1>4, <2>2, <3>1
    <3>3. entry.detail.of = o
      BY <1>7, <3>1, <3>2 DEF Own
    <3>. QED
      BY <3>2, <3>3 DEF IInv, Stored
  <2>. QED
    BY <2>1, <2>2
<1>13. Desk(held', queue', log', match'.pc)
  BY <1>8 DEF EnrichDetail, desk, IInv
<1>. QED
  BY <1>11, <1>12, <1>13, Assembled DEF EnrichDetail, IInv

\* An offer the verifiers have judged is still the same offer.
LEMMA JudgedOwn ==
  ASSUME NEW o, NEW row, Own(o, row), NEW score, NEW method
  PROVE  Own(o, Judged(row, score, method))
<1>0. PICK judged : judged = Judged(row, score, method)
  OBVIOUS
<1>1. /\ judged = [mock |-> judged.mock, method |-> judged.method, score |-> judged.score,
                   has |-> judged.has, detail |-> judged.detail]
      /\ judged.mock = row.mock /\ judged.detail = row.detail
  BY <1>0 DEF Own, Judged
<1>2. Own(o, judged)
  BY <1>1 DEF Own
<1>. QED
  BY <1>0, <1>2

LEMMA VerifyStep ==
  ASSUME IInv, Verify
  PROVE  IInv'
<1>1. PICK refused \in SUBSET DOMAIN match.found :
        LET judged == [o \in DOMAIN match.found |->
                         IF o \in refused THEN Judged(match.found[o], 0, "heuristic_rejected")
                         ELSE Judged(match.found[o], 50, "heuristic")]
        IN  match' = [match EXCEPT !.pc = "look", !.left = {},
                        !.found = IF Target THEN judged ELSE Only(judged, DOMAIN judged \ refused)]
  BY DEF Verify
<1>2. PICK judged : judged = [o \in DOMAIN match.found |->
                                IF o \in refused THEN Judged(match.found[o], 0, "heuristic_rejected")
                                ELSE Judged(match.found[o], 50, "heuristic")]
  OBVIOUS
<1>3. PICK found : found = IF Target THEN judged ELSE Only(judged, DOMAIN judged \ refused)
  OBVIOUS
<1>4. match' = [match EXCEPT !.pc = "look", !.left = {}, !.found = found]
  BY <1>1, <1>2, <1>3
<1>5. OffersOK(judged) /\ DOMAIN judged = DOMAIN match.found
  <2>1. \A o \in DOMAIN judged : Own(o, judged[o])
    <3>. SUFFICES ASSUME NEW o \in DOMAIN judged PROVE Own(o, judged[o])
      OBVIOUS
    <3>1. o \in DOMAIN match.found /\ Own(o, match.found[o])
      BY <1>2 DEF IInv, Run, OffersOK
    <3>2. \A score, method : Own(o, Judged(match.found[o], score, method))
      BY <3>1, JudgedOwn
    <3>. QED
      BY <1>2, <3>1, <3>2
  <2>. QED
    BY <1>2, <2>1 DEF IInv, Run, OffersOK
<1>6. OffersOK(found) /\ DOMAIN found \subseteq DOMAIN match.found
  BY <1>3, <1>5, OnlyOK
<1>7. match.pc = "enrich" /\ match.kept = {}
  BY DEF Verify, IInv, Run
<1>8. /\ match' = [f \in Fields |-> match'[f]] /\ match'.found = found /\ match'.pc = "look"
      /\ match'.kept = match.kept /\ match'.plan = match.plan
      /\ match'.mockOk = match.mockOk /\ match'.attempts = match.attempts /\ match'.answers = match.answers
  BY <1>4 DEF IInv, Run, Fields
<1>9. Run(match', Target)
  BY <1>6, <1>7, <1>8, RunNarrows
<1>. QED
  BY <1>7, <1>8, <1>9, MatchMoves DEF Verify, stores, desk

LEMMA LookStep ==
  ASSUME IInv, Look
  PROVE  IInv'
<1>1. PICK differ \in SUBSET DOMAIN match.found, weak \in SUBSET DOMAIN match.found :
        LET seen == [o \in DOMAIN match.found |->
                       CASE o \in differ -> Judged(match.found[o], 0, "llm_rejected")
                         [] o \in weak   -> Judged(match.found[o], 35, "llm")
                         [] OTHER -> match.found[o]]
        IN  match' = [match EXCEPT !.pc = "gate",
                        !.found = IF Target THEN seen ELSE Only(seen, DOMAIN seen \ differ)]
  BY DEF Look
<1>2. PICK seen : seen = [o \in DOMAIN match.found |->
                            CASE o \in differ -> Judged(match.found[o], 0, "llm_rejected")
                              [] o \in weak   -> Judged(match.found[o], 35, "llm")
                              [] OTHER -> match.found[o]]
  OBVIOUS
<1>3. PICK found : found = IF Target THEN seen ELSE Only(seen, DOMAIN seen \ differ)
  OBVIOUS
<1>4. match' = [match EXCEPT !.pc = "gate", !.found = found]
  BY <1>1, <1>2, <1>3
<1>5. OffersOK(seen) /\ DOMAIN seen = DOMAIN match.found
  <2>1. \A o \in DOMAIN seen : Own(o, seen[o])
    <3>. SUFFICES ASSUME NEW o \in DOMAIN seen PROVE Own(o, seen[o])
      OBVIOUS
    <3>1. o \in DOMAIN match.found /\ Own(o, match.found[o])
      BY <1>2 DEF IInv, Run, OffersOK
    <3>2. \A score, method : Own(o, Judged(match.found[o], score, method))
      BY <3>1, JudgedOwn
    <3>. QED
      BY <1>2, <3>1, <3>2
  <2>. QED
    BY <1>2, <2>1 DEF IInv, Run, OffersOK
<1>6. OffersOK(found) /\ DOMAIN found \subseteq DOMAIN match.found
  BY <1>3, <1>5, OnlyOK
<1>7. match.pc = "look" /\ match.kept = {}
  BY DEF Look, IInv, Run
<1>8. /\ match' = [f \in Fields |-> match'[f]] /\ match'.found = found /\ match'.pc = "gate"
      /\ match'.kept = match.kept /\ match'.plan = match.plan
      /\ match'.mockOk = match.mockOk /\ match'.attempts = match.attempts /\ match'.answers = match.answers
  BY <1>4 DEF IInv, Run, Fields
<1>9. Run(match', Target)
  BY <1>6, <1>7, <1>8, RunNarrows
<1>. QED
  BY <1>7, <1>8, <1>9, MatchMoves DEF Look, stores, desk

LEMMA FinishStep ==
  ASSUME IInv, Finish
  PROVE  IInv'
<1>1. PICK kept \in SUBSET DOMAIN match.found :
        /\ IF Target THEN \A o \in kept : ~match.found[o].mock ELSE kept = DOMAIN match.found
        /\ match' = [match EXCEPT !.pc = "returned", !.kept = kept]
  BY DEF Finish
<1>2. match.pc = "gate"
  BY DEF Finish
<1>3. Target => kept \cap Mocks = {}
  BY <1>1 DEF IInv, Run, OffersOK, Own
<1>4. /\ match' = [f \in Fields |-> match'[f]] /\ match'.found = match.found /\ match'.pc = "returned"
      /\ match'.kept = kept /\ match'.plan = match.plan
      /\ match'.mockOk = match.mockOk /\ match'.attempts = match.attempts /\ match'.answers = match.answers
  BY <1>1 DEF IInv, Run, Fields
<1>5. Run(match', Target)
  BY <1>3, <1>4 DEF IInv, Run
<1>6. Desk(held', queue', log', match'.pc)
  BY <1>2, <1>4, DeskRests DEF Finish, desk, IInv
<1>7. Cached(cache')
  BY SavedSuppliersOK DEF Finish, IInv, Run
<1>. QED
  BY <1>5, <1>6, <1>7, Assembled DEF Finish, IInv

LEMMA CancelStep ==
  ASSUME IInv, Cancel
  PROVE  IInv'
<1>1. match' = [match EXCEPT !.cancelled = TRUE] /\ match.pc # "returned"
  BY DEF Cancel
<1>2. match.kept = {}
  BY <1>1 DEF IInv, Run
<1>3. /\ match' = [f \in Fields |-> match'[f]] /\ match'.found = match.found /\ match'.pc = match.pc
      /\ match'.left = match.left /\ match'.kept = match.kept /\ match'.plan = match.plan
      /\ match'.mockOk = match.mockOk /\ match'.attempts = match.attempts /\ match'.answers = match.answers
  BY <1>1 DEF IInv, Run, Fields
<1>4. match.pc = "enrich" => match.left \subseteq DOMAIN match.found
  BY DEF IInv, Run
<1>5. OffersOK(match.found)
  BY DEF IInv, Run
<1>6. Run(match', Target)
  BY <1>1, <1>2, <1>3, <1>4, <1>5, RunNarrows
<1>. QED
  BY <1>3, <1>6, MatchMoves DEF Cancel, stores, desk

LEMMA EndStep ==
  ASSUME IInv, Return \/ CheckCancel
  PROVE  IInv'
<1>1. match' = Idle /\ match.pc # "enqueue" /\ match'.pc # "enqueue"
  BY DEF Return, CheckCancel, Idle
<1>2. Run(match', Target)
  BY <1>1, IdleRun
<1>. QED
  BY <1>1, <1>2, MatchMoves DEF Return, CheckCancel, stores, desk

LEMMA CrashStep ==
  ASSUME IInv, Crash
  PROVE  IInv'
<1>1. match' = Idle /\ match'.pc = "idle"
  BY DEF Crash, Idle
<1>2. Run(match', Target)
  BY <1>1, IdleRun
<1>3. Desk(held', queue', log', match'.pc)
  BY <1>1, DeskCleared DEF Crash, IInv
<1>. QED
  BY <1>2, <1>3, Assembled DEF Crash, stores, IInv

LEMMA DeskStep ==
  ASSUME IInv, OpenItem \/ \E status \in {"open", "resolved"} : UpdateManualItem(status)
  PROVE  IInv'
<1>1. match' = match /\ product' = product /\ details' = details /\ cache' = cache /\ imports' = imports
  BY DEF OpenItem, UpdateManualItem, stores
<1>2. Desk(held', queue', log', match'.pc)
  <2>1. CASE OpenItem
    <3>1. held["request"] = NoCopy /\ ReadQueue("request") /\ queue # NoItem /\ queue' = queue
      BY <2>1 DEF OpenItem
    <3>. QED
      BY <1>1, <3>1, DeskRead DEF IInv, Writers
  <2>2. ASSUME NEW status \in {"open", "resolved"}, UpdateManualItem(status)
        PROVE  Desk(held', queue', log', match'.pc)
    BY <1>1, <2>2, DeskUpdated DEF IInv
  <2>. QED
    BY <2>1, <2>2
<1>3. Run(match', Target)
  BY <1>1 DEF IInv
<1>. QED
  BY <1>1, <1>2, <1>3, Assembled DEF IInv

LEMMA AroundStep ==
  ASSUME IInv, Tick \/ \E o \in DOMAIN ImportTerms : ImportPayload(o)
  PROVE  IInv'
<1>1. /\ match' = match /\ product' = product /\ details' = details /\ cache' = cache
      /\ held' = held /\ queue' = queue /\ log' = log
  BY DEF Tick, ImportPayload, stores, desk
<1>2. DOMAIN imports' \subseteq DOMAIN ImportTerms
  <2>1. CASE Tick
    BY <2>1 DEF Tick, stores, IInv
  <2>2. ASSUME NEW o \in DOMAIN ImportTerms, ImportPayload(o)
        PROVE  DOMAIN imports' \subseteq DOMAIN ImportTerms
    <3>1. DOMAIN imports' = DOMAIN imports \cup {o}
      BY <2>2 DEF ImportPayload
    <3>. QED
      BY <3>1 DEF IInv
  <2>. QED
    BY <2>1, <2>2
<1>3. Run(match', Target)
  BY <1>1 DEF IInv
<1>4. Desk(held', queue', log', match'.pc)
  BY <1>1 DEF IInv
<1>. QED
  BY <1>1, <1>2, <1>3, <1>4, Assembled DEF IInv

LEMMA StutterStep ==
  ASSUME IInv, UNCHANGED vars
  PROVE  IInv'
<1>1. /\ match' = match /\ product' = product /\ details' = details /\ cache' = cache
      /\ imports' = imports /\ held' = held /\ queue' = queue /\ log' = log
  BY DEF vars, stores, desk
<1>2. Run(match', Target) /\ Desk(held', queue', log', match'.pc)
  BY <1>1 DEF IInv
<1>. QED
  BY <1>1, <1>2, Assembled DEF IInv

LEMMA NextInv == IInv /\ [Next]_vars => IInv'
<1>. SUFFICES ASSUME IInv, [Next]_vars PROVE IInv'
  OBVIOUS
<1>1. ASSUME NEW vision \in Understandings, NEW mockOk \in BOOLEAN, Start(vision, mockOk) PROVE IInv'
  BY <1>1, StartStep
<1>2. CASE SearchPlatform
  BY <1>2, SearchPlatformStep
<1>3. CASE SearchBrowser
  BY <1>3, SearchBrowserStep
<1>4. CASE CoolDown
  BY <1>4, CoolDownStep
<1>5. CASE EnqueueSourcingBlock
  BY <1>5, EnqueueStep
<1>6. CASE EnrichDetail
  BY <1>6, EnrichStep
<1>7. CASE Verify
  BY <1>7, VerifyStep
<1>8. CASE Look
  BY <1>8, LookStep
<1>9. CASE Finish
  BY <1>9, FinishStep
<1>10. CASE Return \/ CheckCancel
  BY <1>10, EndStep
<1>11. CASE OpenItem \/ \E status \in {"open", "resolved"} : UpdateManualItem(status)
  BY <1>11, DeskStep
<1>12. CASE Cancel
  BY <1>12, CancelStep
<1>13. CASE Crash
  BY <1>13, CrashStep
<1>14. CASE Tick \/ \E o \in DOMAIN ImportTerms : ImportPayload(o)
  BY <1>14, AroundStep
<1>15. CASE UNCHANGED vars
  BY <1>15, StutterStep
<1>. QED
  BY <1>1, <1>2, <1>3, <1>4, <1>5, <1>6, <1>7, <1>8, <1>9, <1>10, <1>11, <1>12, <1>13, <1>14, <1>15
  DEF Next

LEMMA Invariant == Spec => []IInv
BY InitInv, NextInv, PTL DEF Spec

------------------------------------------------------------------------------
(* The theorems *)

\* As long as no request worked on the queue while the worker had read it and
\* not yet written it (agent/manual_queue.py has no lock), the item counts every
\* time the product was queued and shows the last decision of a person: queuing
\* it again neither reopens it nor forgets anything.
THEOREM QueueForgetsNothing == Spec => []QueueExactUnlessOverlap
<1>1. IInv => QueueExactUnlessOverlap
  BY DEF IInv, Desk, QueueExactUnlessOverlap
<1>. QED
  BY <1>1, Invariant, PTL

\* No detail of another offer's page is ever applied to an offer or kept in the
\* detail cache, wherever the site led the browser; the offer page is believed
\* only when the ids it names are the expected one alone.
THEOREM DetailsStayOwn == Spec => []DetailIsOwn
<1>1. IInv => DetailIsOwn
  BY DEF IInv, Stored, Run, OffersOK, Own, DetailIsOwn
<1>. QED
  BY <1>1, Invariant, PTL

\* A match that may not use mocks returns none, whatever earlier matches left
\* in the cache, but for one whose hash has only decimal digits; a product of a
\* target category returns none at all.
THEOREM MocksStayOut == Spec => []NoMockInFormalMode
<1>1. ASSUME IInv PROVE NoMockInFormalMode
  <2>. SUFFICES ASSUME match.pc = "returned", ~match.mockOk, NEW o \in match.kept, match.found[o].mock
                PROVE  o = DigitMock /\ ~Target
    BY DEF NoMockInFormalMode
  <2>1. o \in DOMAIN match.found /\ Own(o, match.found[o])
    BY <1>1 DEF IInv, Run, OffersOK
  <2>2. o \in Mocks
    BY <2>1 DEF Own
  <2>3. match.mockOk = FALSE
    BY <1>1 DEF IInv, Run
  <2>4. o # HexMock
    BY <1>1, <2>1, <2>3 DEF IInv, Run
  <2>5. ~Target
    BY <1>1, <2>2 DEF IInv, Run
  <2>. QED
    BY <2>2, <2>4, <2>5, MocksApart
<1>. QED
  BY <1>1, Invariant, PTL

\* What is recorded of the queries of a target product is what became of them:
\* a block, a login page and an error are failures with their code and never a
\* search without results, a completed query had all its offers evaluated, and
\* one that was not asked is not started.
THEOREM AttemptsTellTruth == Spec => []AttemptsAreHonest
<1>. DEFINE Truth(i, kept, page) ==
       CASE page = None    -> kept.status = "not_started"
         [] page = "tmd"   -> kept.status = "failed" /\ kept.error = "CAPTCHA"
         [] page = "login" -> kept.status = "failed" /\ kept.error = "AUTH_REQUIRED"
         [] page = "error" -> kept.status = "failed"
         [] OTHER -> /\ kept.status \in {"completed", "partial"}
                     /\ kept.status = "completed" =>
                          Batch(match.answers[i], PageLimit({}, TopK, TRUE)) \subseteq DOMAIN match.found
                     /\ kept.error = "NO_RESULTS" => match.answers[i].offers = <<>>
<1>1. ASSUME IInv PROVE AttemptsAreHonest
  <2>. SUFFICES ASSUME match.pc = "returned", Target, NEW i \in DOMAIN match.plan,
                       NEW kept, kept = QueryAttempt(match.attempts, i, DOMAIN match.found),
                       NEW page, page = IF i \in DOMAIN match.answers THEN match.answers[i].page ELSE None
                PROVE  Truth(i, kept, page)
    BY DEF AttemptsAreHonest
  <2>2. CASE i \notin DOMAIN match.answers
    <3>1. i \notin DOMAIN match.attempts
      BY <1>1, <2>2 DEF IInv, Run, AttemptsOK
    <3>2. kept.status = "not_started" /\ page = None
      BY <2>2, <3>1 DEF QueryAttempt
    <3>. QED
      BY <3>2 DEF None
  <2>3. CASE i \in DOMAIN match.answers
    <3>1. PICK answer \in Answers : answer = match.answers[i]
      BY <1>1, <2>3 DEF IInv, Run, AttemptsOK
    <3>2. PICK n : n = PageLimit({}, TopK, TRUE)
      OBVIOUS
    <3>3. n \in Nat /\ n >= 1
      BY <3>2, SourcingAssumption DEF PageLimit
    <3>4. PICK attempt : attempt = Attempt(answer, n)
      OBVIOUS
    <3>5. i \in DOMAIN match.attempts /\ match.attempts[i] = attempt
      BY <1>1, <2>3, <3>1, <3>2, <3>4 DEF IInv, Run, AttemptsOK
    <3>6. answer.page \in {"offers", "tmd", "login", "error"} /\ answer.offers \in Seq(Offers)
          /\ page = answer.page
      BY <2>3, <3>1, AnswersAssumption
    <3>7. CASE page # "offers"
      <4>1. /\ attempt.status = "failed"
            /\ page = "tmd" => attempt.error = "CAPTCHA"
            /\ page = "login" => attempt.error = "AUTH_REQUIRED"
        BY <3>4, <3>6, <3>7 DEF Attempt
      <4>2. kept.status = "failed" /\ kept.error = attempt.error
        BY <3>5, <4>1 DEF QueryAttempt
      <4>. QED
        BY <3>6, <3>7, <4>1, <4>2 DEF None
    <3>8. CASE page = "offers"
      <4>1. attempt.status = "completed" /\ attempt.refs = Shown(answer.offers, n)
        BY <3>4, <3>6, <3>8 DEF Attempt
      <4>2. \/ /\ kept.status = "partial" /\ kept.error = None
            \/ /\ kept.status = "completed" /\ attempt.refs \subseteq DOMAIN match.found
               /\ kept.error = IF attempt.refs = {} THEN "NO_RESULTS" ELSE None
        BY <3>5, <4>1 DEF QueryAttempt
      <4>3. Batch(answer, n) = attempt.refs
        BY <3>6, <3>8, <4>1 DEF Batch
      <4>4. ASSUME attempt.refs = {} PROVE answer.offers = <<>>
        <5>1. 1 \notin DOMAIN answer.offers
          BY <3>3, <4>1, <4>4 DEF Shown
        <5>. QED
          BY <3>6, <5>1
      <4>5. /\ kept.status \in {"completed", "partial"}
            /\ kept.status = "completed" => Batch(answer, n) \subseteq DOMAIN match.found
            /\ kept.error = "NO_RESULTS" => answer.offers = <<>>
        BY <4>2, <4>3, <4>4 DEF None
      <4>. QED
        BY <3>1, <3>2, <3>8, <4>5 DEF None
    <3>. QED
      BY <3>7, <3>8
  <2>. QED
    BY <2>2, <2>3
<1>. QED
  BY <1>1, Invariant, PTL

(* Lists that are sorted and filtered.                                       *)

\* Min finds the least number there is.
LEMMA MinIsLeast ==
  ASSUME NEW T, T \subseteq Nat, T # {}
  PROVE  Min(T) \in T /\ \A y \in T : Min(T) <= y
<1>1. \E x \in T : \A y \in T : x <= y
  BY LeastNumber
<1>. QED
  BY <1>1 DEF Min

\* Before is a strict order of S in which no two are level.
StrictlyOrders(before, S) ==
  /\ \A i \in S : <<i, i>> \notin before
  /\ \A i, j \in S : i # j => <<i, j>> \in before \/ <<j, i>> \in before
  /\ \A i, j, k \in S : <<i, j>> \in before /\ <<j, k>> \in before => <<i, k>> \in before

Ahead(i, S, before) == {j \in S : <<j, i>> \in before}

\* How many come before an element tells it from every other.
LEMMA PlacesDiffer ==
  ASSUME NEW S, IsFiniteSet(S), NEW before, StrictlyOrders(before, S), NEW i \in S, NEW j \in S,
         <<i, j>> \in before
  PROVE  Cardinality(Ahead(i, S, before)) < Cardinality(Ahead(j, S, before))
<1>1. Ahead(i, S, before) \subseteq Ahead(j, S, before)
  BY DEF Ahead, StrictlyOrders
<1>2. i \in Ahead(j, S, before) /\ i \notin Ahead(i, S, before)
  BY DEF Ahead, StrictlyOrders
<1>3. IsFiniteSet(Ahead(j, S, before))
  BY FS_Subset DEF Ahead
<1>4. /\ IsFiniteSet(Ahead(i, S, before))
      /\ Cardinality(Ahead(i, S, before)) <= Cardinality(Ahead(j, S, before))
      /\ Cardinality(Ahead(j, S, before)) = Cardinality(Ahead(i, S, before))
           => Ahead(j, S, before) = Ahead(i, S, before)
  BY <1>1, <1>3, FS_Subset
<1>5. Cardinality(Ahead(i, S, before)) \in Nat /\ Cardinality(Ahead(j, S, before)) \in Nat
  BY <1>3, <1>4, FS_CardinalityType
<1>. QED
  BY <1>2, <1>4, <1>5

\* Every place of an arrangement is taken by the element with as many before
\* it, and every element has a place.
LEMMA ArrangedPlaces ==
  ASSUME NEW S, IsFiniteSet(S), NEW before, StrictlyOrders(before, S)
  PROVE  /\ Cardinality(S) \in Nat
         /\ DOMAIN Arranged(S, before) = 1..Cardinality(S)
         /\ \A n \in 1..Cardinality(S) : Arranged(S, before)[n] \in S
         /\ \A i \in S : \E n \in 1..Cardinality(S) : Arranged(S, before)[n] = i
<1>. DEFINE place == [i \in S |-> Cardinality(Ahead(i, S, before))]
            places == 0..(Cardinality(S) - 1)
<1>1. Cardinality(S) \in Nat
  BY FS_CardinalityType
<1>2. ASSUME NEW i \in S PROVE place[i] \in places
  <2>1. Ahead(i, S, before) \subseteq S /\ i \notin Ahead(i, S, before)
    BY DEF Ahead, StrictlyOrders
  <2>2. /\ IsFiniteSet(Ahead(i, S, before))
        /\ Cardinality(Ahead(i, S, before)) <= Cardinality(S)
        /\ Cardinality(S) = Cardinality(Ahead(i, S, before)) => S = Ahead(i, S, before)
    BY <2>1, FS_Subset
  <2>3. Cardinality(Ahead(i, S, before)) \in Nat
    BY <2>2, FS_CardinalityType
  <2>. QED
    BY <1>1, <2>1, <2>2, <2>3
<1>3. ASSUME NEW i \in S, NEW j \in S, place[i] = place[j] PROVE i = j
  <2>1. \A a \in S : Cardinality(Ahead(a, S, before)) \in Nat
    BY <1>1, <1>2
  <2>2. CASE <<i, j>> \in before
    BY <1>3, <2>1, <2>2, PlacesDiffer
  <2>3. CASE <<j, i>> \in before
    BY <1>3, <2>1, <2>3, PlacesDiffer
  <2>. QED
    BY <2>2, <2>3 DEF StrictlyOrders
<1>4. place \in Injection(S, places)
  BY <1>2, <1>3 DEF Injection, IsInjective
<1>5. IsFiniteSet(places) /\ Cardinality(places) = Cardinality(S)
  BY <1>1, FS_Interval
<1>6. place \in Surjection(S, places)
  BY <1>4, <1>5, FS_Injection
<1>7. \A n \in places : \E i \in S : place[i] = n
  BY <1>6 DEF Surjection
<1>8. ASSUME NEW n \in 1..Cardinality(S)
      PROVE  /\ Arranged(S, before)[n] \in S
             /\ Cardinality(Ahead(Arranged(S, before)[n], S, before)) = n - 1
  <2>1. n - 1 \in places
    BY <1>1
  <2>2. PICK i \in S : Cardinality(Ahead(i, S, before)) = n - 1
    BY <1>7, <2>1
  <2>3. Arranged(S, before)[n] = CHOOSE e \in S : Cardinality({j \in S : <<j, e>> \in before}) = n - 1
    BY DEF Arranged
  <2>4. \E e \in S : Cardinality({j \in S : <<j, e>> \in before}) = n - 1
    BY <2>2 DEF Ahead
  <2>. QED
    BY <2>3, <2>4 DEF Ahead
<1>9. ASSUME NEW i \in S PROVE \E n \in 1..Cardinality(S) : Arranged(S, before)[n] = i
  <2>. DEFINE n == place[i] + 1
  <2>1. n \in 1..Cardinality(S) /\ n - 1 = place[i]
    BY <1>1, <1>2
  <2>2. place[Arranged(S, before)[n]] = place[i]
    BY <1>8, <2>1
  <2>3. Arranged(S, before)[n] \in S
    BY <1>8, <2>1
  <2>. QED
    BY <1>3, <2>1, <2>2, <2>3
<1>10. DOMAIN Arranged(S, before) = 1..Cardinality(S)
  BY DEF Arranged
<1>. QED
  BY <1>1, <1>8, <1>9, <1>10

\* Of finitely many that are ordered one has none before it.
LEMMA OneIsFirst ==
  ASSUME NEW S, IsFiniteSet(S), S # {}, NEW before, StrictlyOrders(before, S)
  PROVE  \E i \in S : \A j \in S : <<j, i>> \notin before
<1>. DEFINE counts == {Cardinality(Ahead(i, S, before)) : i \in S}
<1>1. counts \subseteq Nat /\ counts # {}
  <2>1. \A i \in S : Ahead(i, S, before) \subseteq S
    BY DEF Ahead
  <2>. QED
    BY <2>1, FS_Subset, FS_CardinalityType
<1>2. \E x \in counts : \A y \in counts : x <= y
  <2>. HIDE DEF counts
  <2>. QED
    BY <1>1, LeastNumber
<1>3. PICK i \in S : \A j \in S : Cardinality(Ahead(i, S, before)) <= Cardinality(Ahead(j, S, before))
  BY <1>2
<1>4. ASSUME NEW j \in S, <<j, i>> \in before PROVE FALSE
  <2>1. Cardinality(Ahead(j, S, before)) < Cardinality(Ahead(i, S, before))
    BY <1>4, PlacesDiffer
  <2>2. Cardinality(Ahead(i, S, before)) \in Nat /\ Cardinality(Ahead(j, S, before)) \in Nat
    BY <1>1
  <2>. QED
    BY <1>3, <2>1, <2>2
<1>. QED
  BY <1>4

\* What stands in picked is what stands in list at the positions in S.
Picks(picked, list, S) ==
  /\ Cardinality(S) \in Nat
  /\ DOMAIN picked = 1..Cardinality(S)
  /\ \A n \in 1..Cardinality(S) : \E i \in S : picked[n] = list[i]
  /\ \A i \in S : \E n \in 1..Cardinality(S) : picked[n] = list[i]

LEMMA PickedPlaces ==
  ASSUME NEW list, NEW S, S \subseteq Nat, IsFiniteSet(S)
  PROVE  Picks(Picked(list, S), list, S)
<1>. DEFINE before == {pair \in S \X S : pair[1] < pair[2]}
            order  == Arranged(S, before)
<1>1. StrictlyOrders(before, S)
  BY DEF StrictlyOrders
<1>2. /\ Cardinality(S) \in Nat
      /\ DOMAIN order = 1..Cardinality(S)
      /\ \A n \in 1..Cardinality(S) : order[n] \in S
      /\ \A i \in S : \E n \in 1..Cardinality(S) : order[n] = i
  <2>. HIDE DEF before
  <2>. QED
    BY <1>1, ArrangedPlaces
<1>3. DOMAIN Picked(list, S) = 1..Cardinality(S)
  BY <1>2 DEF Picked
<1>4. \A n \in 1..Cardinality(S) : Picked(list, S)[n] = list[order[n]]
  BY <1>2 DEF Picked
<1>5. ASSUME NEW i \in S PROVE \E n \in 1..Cardinality(S) : Picked(list, S)[n] = list[i]
  BY <1>2, <1>4
<1>6. ASSUME NEW n \in 1..Cardinality(S) PROVE \E i \in S : Picked(list, S)[n] = list[i]
  BY <1>2, <1>4
<1>7. Cardinality(S) \in Nat
  BY <1>2
<1>. QED
  BY <1>3, <1>5, <1>6, <1>7 DEF Picks

Above(i, S, f) == {j \in S : f[j] > f[i]}

\* Of finitely many numbers one is not exceeded.
LEMMA OneIsGreatest ==
  ASSUME NEW S, IsFiniteSet(S), S # {}, NEW f \in [S -> Int]
  PROVE  \E i \in S : \A j \in S : f[j] <= f[i]
<1>. DEFINE size == [i \in S |-> Cardinality(Above(i, S, f))]
<1>1. ASSUME NEW i \in S PROVE IsFiniteSet(Above(i, S, f)) /\ Cardinality(Above(i, S, f)) \in Nat
  <2>1. IsFiniteSet(Above(i, S, f))
    BY FS_Subset DEF Above
  <2>. QED
    BY <2>1, FS_CardinalityType
<1>2. size \in [S -> Nat]
  BY <1>1
<1>3. \E i \in S : \A j \in S : size[i] <= size[j]
  <2>. HIDE DEF size
  <2>. DEFINE counts == {size[i] : i \in S}
  <2>1. counts \subseteq Nat /\ counts # {}
    BY <1>2
  <2>2. \E x \in counts : \A y \in counts : x <= y
    BY <2>1, LeastNumber
  <2>. QED
    BY <2>2
<1>4. PICK i \in S : \A j \in S : Cardinality(Above(i, S, f)) <= Cardinality(Above(j, S, f))
  BY <1>3
<1>5. ASSUME NEW j \in S, f[j] > f[i] PROVE FALSE
  <2>1. Above(j, S, f) \subseteq Above(i, S, f) /\ j \in Above(i, S, f) /\ j \notin Above(j, S, f)
    BY <1>5 DEF Above
  <2>2. /\ Cardinality(Above(j, S, f)) <= Cardinality(Above(i, S, f))
        /\ Cardinality(Above(i, S, f)) = Cardinality(Above(j, S, f)) => Above(i, S, f) = Above(j, S, f)
    BY <1>1, <2>1, FS_Subset
  <2>. QED
    BY <1>1, <1>4, <2>1, <2>2
<1>. QED
  BY <1>5

-----------------------------------------------------------------------------
(* An offer keeps its fields, and what it and its page say of its category,  *)
(* from the reading of the search to the gate.                               *)

IsOffer(o) == DOMAIN o = DOMAIN BlankOffer

\* How an offer is when a search or an import has read it.
IsRead(o) == IsOffer(o) /\ o.visual = None /\ o.detail = BlankDetail

LEMMA CardIsRead ==
  ASSUME NEW card
  PROVE  IsRead(CardOffer(card))
BY DEF IsRead, IsOffer, CardOffer, BlankOffer

LEMMA TextIsRead ==
  ASSUME NEW item
  PROVE  IsRead(TextSearchOffer(item))
BY DEF IsRead, IsOffer, TextSearchOffer, BlankOffer

LEMMA PifatuanIsRead ==
  ASSUME NEW item
  PROVE  IsRead(PifatuanOffer(item))
BY DEF IsRead, IsOffer, PifatuanOffer, BlankOffer

LEMMA ImportIsRead ==
  ASSUME NEW item
  PROVE  IsRead(ImportedOffer(item))
BY DEF IsRead, IsOffer, ImportedOffer, BlankOffer

LEMMA FindIsRead ==
  ASSUME NEW find, find.from \in {"card", "text", "pifatuan"} \/ find.item.title # {} \/ find.item.named
  PROVE  IsRead(ReadOffer(find))
<1>1. CASE find.from \in {"card", "text", "pifatuan"}
  BY <1>1, CardIsRead, TextIsRead, PifatuanIsRead DEF ReadOffer
<1>2. CASE find.from \notin {"card", "text", "pifatuan"}
  <2>. DEFINE payload == [isObject |-> FALSE, items |-> <<find.item>>]
              titled  == {i \in DOMAIN payload.items : payload.items[i].title # {} \/ payload.items[i].named}
              named   == Picked(payload.items, titled)
  <2>1. payload.items = <<find.item>> /\ payload.isObject = FALSE
    OBVIOUS
  <2>2. titled = {1}
    BY <1>2, <2>1
  <2>3. 1 \in DOMAIN named
    <3>1. titled \subseteq Nat /\ IsFiniteSet(titled) /\ Cardinality(titled) = 1
      <4>1. IsFiniteSet({1}) /\ Cardinality({1}) = 1
        BY FS_Singleton
      <4>. HIDE DEF titled
      <4>. QED
        BY <2>2, <4>1
    <3>2. DOMAIN named = 1..Cardinality(titled)
      <4>. HIDE DEF titled, payload
      <4>. QED
        BY <3>1, PickedPlaces DEF Picks
    <3>. HIDE DEF named, titled
    <3>. QED
      BY <3>1, <3>2
  <2>4. ImportedOffers(payload)
          = [i \in DOMAIN named |-> ImportedOffer([named[i] EXCEPT !.id = IF @ = None THEN named[i].digest ELSE @])]
    BY <2>1 DEF ImportedOffers
  <2>5. IsRead(ImportedOffers(payload)[1])
    <3>. HIDE DEF named
    <3>. QED
      BY <2>3, <2>4, ImportIsRead
  <2>6. ReadOffer(find) = ImportedOffers(payload)[1]
    BY <1>2 DEF ReadOffer
  <2>. QED
    BY <2>5, <2>6
<1>. QED
  BY <1>1, <1>2

\* A profile without a family is no profile.
LEMMA TextProfile ==
  ASSUME NEW text
  PROVE  ProfileFromText(text).family = None <=> ProfileFromText(text) = NoProfile
BY DEF ProfileFromText, WithMissing, NoProfile

\* What the page says of the category is read from its text, however it is
\* merged with the page's data.
LEMMA DetailProfile ==
  ASSUME NEW data, NEW text
  PROVE  /\ "profile" \in DOMAIN ParsedDetail(data, text)
         /\ ParsedDetail(data, text).profile = ProfileFromText(text.words)
<1>1. ASSUME NEW detail, DOMAIN detail = DOMAIN BlankDetail, NEW profile, NEW pack
      PROVE  /\ "profile" \in DOMAIN Described(detail, profile, pack)
             /\ Described(detail, profile, pack).profile = profile
  BY <1>1 DEF Described, BlankDetail
<1>2. \E detail, pack : /\ DOMAIN detail = DOMAIN BlankDetail
                         /\ ParsedDetail(data, text) = Described(detail, ProfileFromText(text.words), pack)
  <2>. DEFINE spec   == SpecFromText(text.words)
              tiers  == DedupedTiers(IF data.tiers # <<>> THEN data.tiers
                                     ELSE SelectSeq(text.tiers, LAMBDA t : t.price > 0))
              detail == [BlankDetail EXCEPT
                !.moq = FirstKnown(<<data.moq, text.moq>>, Unknown),
                !.price = IF tiers # <<>> THEN Min({tiers[i].price : i \in DOMAIN tiers}) ELSE data.price,
                !.tiers = tiers,
                !.delivery = FirstKnown(<<data.delivery, text.delivery>>, Unknown),
                !.dimensions = spec.dimensions, !.weight = spec.weight,
                !.material = spec.material, !.color = spec.color,
                !.supplierType = data.supplierType,
                !.risks = spec.risks \cup text.claims]
  <2>1. ParsedDetail(data, text) = Described(detail, ProfileFromText(text.words), spec.pack)
    BY DEF ParsedDetail
  <2>2. DOMAIN detail = DOMAIN BlankDetail
    <3>. HIDE DEF spec, tiers
    <3>. QED
      OBVIOUS
  <2>. HIDE DEF detail
  <2>. QED
    BY <2>1, <2>2
<1>. QED
  BY <1>1, <1>2

LEMMA PageProfile ==
  ASSUME NEW noData, NEW data, NEW text
  PROVE  MergedDetail(ParsedDetail(noData, text), ParsedDetail(data, text)).profile = ProfileFromText(text.words)
BY DetailProfile DEF MergedDetail

LEMMA AppliedKeeps ==
  ASSUME NEW o, IsOffer(o), NEW detail
  PROVE  IsOffer(DetailApplied(o, detail)) /\ DetailApplied(o, detail).visual = o.visual
           /\ DetailApplied(o, detail).detail = detail
BY DEF IsOffer, DetailApplied, BlankOffer

\* What the offer and its page say of the category, and no verdict yet.
ReadFrom(o, find) ==
  /\ IsOffer(o) /\ o.visual = None
  /\ o.profile = ProfileFromText(find.words)
  /\ o.detail.profile \in {NoProfile, ProfileFromText(find.page.text.words)}

LEMMA PageIsRead ==
  ASSUME NEW find, find.from \in {"card", "text", "pifatuan"} \/ find.item.title # {} \/ find.item.named
  PROVE  ReadFrom(WithPage(find), find)
<1>. DEFINE read == [ReadOffer(find) EXCEPT !.text = find.words]
            page == MergedDetail(ParsedDetail(find.page.noData, find.page.text),
                                 ParsedDetail(find.page.data, find.page.text))
            full == IF find.page.found THEN DetailApplied(read, page) ELSE read
<1>1. IsRead(read)
  BY FindIsRead DEF IsRead, IsOffer, BlankOffer
<1>2. page.profile = ProfileFromText(find.page.text.words)
  BY PageProfile
<1>3. IsOffer(full) /\ full.visual = None /\ full.detail.profile \in {NoProfile, ProfileFromText(find.page.text.words)}
  <2>1. BlankDetail.profile = NoProfile
    BY DEF BlankDetail
  <2>. HIDE DEF read, page
  <2>. QED
    BY <1>1, <1>2, <2>1, AppliedKeeps DEF IsRead
<1>4. WithPage(find) = [full EXCEPT !.spec = SpecFromSupplier(full), !.profile = ProfileFromText(find.words),
                                    !.keywords = find.keywords]
  BY DEF WithPage
<1>. HIDE DEF full
<1>. QED
  BY <1>3, <1>4 DEF ReadFrom, IsOffer, BlankOffer

\* What the verifiers do not touch.
Keeps(o, before) ==
  IsOffer(o) /\ o.profile = before.profile /\ o.detail = before.detail /\ o.id = before.id

LEMMA RankedKeeps ==
  ASSUME NEW o, IsOffer(o)
  PROVE  Keeps(Ranked(o), o) /\ Ranked(o).visual = o.visual
BY DEF Keeps, IsOffer, Ranked, BlankOffer

LEMMA JudgedKeeps ==
  ASSUME NEW o, IsOffer(o), NEW judgement
  PROVE  Keeps(OfferJudged(o, judgement), o) /\ OfferJudged(o, judgement).visual = o.visual
<1>. DEFINE judged == [o EXCEPT !.score = judgement.score, !.specScore = judgement.specScore,
                                !.conflicts = judgement.conflicts, !.method = judgement.method]
<1>1. Keeps(judged, o) /\ judged.visual = o.visual
  BY DEF Keeps, IsOffer, BlankOffer
<1>2. OfferJudged(o, judgement) = Ranked(judged)
  BY DEF OfferJudged
<1>. HIDE DEF judged
<1>. QED
  BY <1>1, <1>2, RankedKeeps DEF Keeps

LEMMA ImagesKeep ==
  ASSUME NEW offers, NEW profile, NEW topK, NEW pair, NEW i \in DOMAIN offers, IsOffer(offers[i])
  PROVE  /\ Keeps(TargetImagesVerified(offers, profile, topK, pair)[i], offers[i])
         /\ TargetImagesVerified(offers, profile, topK, pair)[i].rank = offers[i].rank
BY DEF TargetImagesVerified, Keeps, IsOffer, BlankOffer

\* The two scores of an offer that do not depend on the match.
SameBusiness(o, p) ==
  /\ o.sales = p.sales /\ o.repeat = p.repeat /\ o.factory = p.factory
  /\ o.delivery = p.delivery /\ o.moq = p.moq /\ o.price = p.price

LEMMA SameScores ==
  ASSUME NEW o, NEW p, SameBusiness(o, p)
  PROVE  QualityScore(o) = QualityScore(p) /\ BusinessScore(o) = BusinessScore(p)
BY DEF SameBusiness, QualityScore, BusinessScore

\* An offer that can be ranked.
Numbered(o) ==
  /\ IsOffer(o) /\ o.score \in Int /\ o.rank \in Int
  /\ QualityScore(o) \in Int /\ BusinessScore(o) \in Int

LEMMA RankedNumbered ==
  ASSUME NEW o, IsOffer(o), o.score \in Int, QualityScore(o) \in Int, BusinessScore(o) \in Int
  PROVE  Numbered(Ranked(o))
<1>. DEFINE rank == CandidateScore(o.score, QualityScore(o), BusinessScore(o))
<1>1. rank \in Int
  BY DEF CandidateScore, OrZero, Clamp, Larger, Smaller
<1>2. Ranked(o) = [o EXCEPT !.rank = rank]
  BY DEF Ranked
<1>. HIDE DEF rank
<1>3. /\ IsOffer(Ranked(o)) /\ Ranked(o).score = o.score /\ Ranked(o).rank = rank
      /\ SameBusiness(Ranked(o), o)
  BY <1>2 DEF IsOffer, BlankOffer, SameBusiness
<1>. QED
  BY <1>1, <1>3, SameScores DEF Numbered

LEMMA JudgedNumbered ==
  ASSUME NEW o, IsOffer(o), NEW judgement, NEW p, p = OfferJudged(o, judgement),
         p.score \in Int, QualityScore(p) \in Int, BusinessScore(p) \in Int
  PROVE  Numbered(p)
<1>. DEFINE judged == [o EXCEPT !.score = judgement.score, !.specScore = judgement.specScore,
                                !.conflicts = judgement.conflicts, !.method = judgement.method]
<1>1. IsOffer(judged)
  BY DEF IsOffer, BlankOffer
<1>2. p = Ranked(judged)
  BY DEF OfferJudged
<1>. HIDE DEF judged
<1>3. p.score = judged.score /\ SameBusiness(p, judged)
  BY <1>1, <1>2 DEF Ranked, IsOffer, BlankOffer, SameBusiness
<1>. QED
  BY <1>1, <1>2, <1>3, SameScores, RankedNumbered

LEMMA LlmJudgedNumbered ==
  ASSUME NEW o, Numbered(o), NEW answer, answer.outcome = "answered" => answer.confidence \in Int
  PROVE  Numbered(LlmJudged(o, answer))
<1>. DEFINE c == Comparison(answer)
            judged == CASE c.match = "yes" ->
                             [o EXCEPT !.score = (60 * c.confidence + 40 * OrZero(@)) \div 100,
                                       !.method = "llm", !.visual = "yes"]
                        [] c.match = "no" -> [o EXCEPT !.score = 0, !.method = "llm_rejected", !.visual = "no"]
                        [] OTHER -> [o EXCEPT !.score = 0, !.method = "llm_failed", !.visual = "malformed"]
<1>1. LlmJudged(o, answer) = Ranked(judged)
  BY DEF LlmJudged
<1>2. c.confidence \in Int
  BY DEF Comparison
<1>3. IsOffer(judged) /\ judged.score \in Int /\ SameBusiness(judged, o)
  <2>1. (60 * c.confidence + 40 * OrZero(o.score)) \div 100 \in Int
    <3>. HIDE DEF c
    <3>. QED
      BY <1>2 DEF Numbered, OrZero
  <2>. HIDE DEF c
  <2>. QED
    BY <2>1 DEF Numbered, IsOffer, BlankOffer, SameBusiness
<1>. HIDE DEF judged
<1>. QED
  BY <1>1, <1>3, SameScores, RankedNumbered DEF Numbered

-----------------------------------------------------------------------------
(* The list of offers sorted by rank.                                        *)

\* What is in one list is in another.
Within(list, from) == \A k \in DOMAIN list : \E i \in DOMAIN from : list[k] = from[i]

LEMMA SortedPlaces ==
  ASSUME NEW offers, DOMAIN offers \subseteq Nat, IsFiniteSet(DOMAIN offers),
         \A i \in DOMAIN offers : Numbered(offers[i])
  PROVE  Within(SortedByRank(offers), offers)
<1>. DEFINE before(i, j) == RanksBefore(offers[i], offers[j])
                              \/ (~RanksBefore(offers[j], offers[i]) /\ i < j)
            S == DOMAIN offers
            pairs == {pair \in S \X S : before(pair[1], pair[2])}
            order == Arranged(S, pairs)
<1>1. \A i \in S : /\ i \in Int /\ offers[i].rank \in Int /\ offers[i].score \in Int
                    /\ OrZero(QualityScore(offers[i])) \in Int
  BY DEF Numbered, OrZero
<1>2. \A i \in S : ~before(i, i)
  BY <1>1 DEF RanksBefore
<1>3. \A i, j \in S : i # j => before(i, j) \/ before(j, i)
  BY <1>1 DEF RanksBefore
<1>4. ASSUME NEW i \in S, NEW j \in S, NEW k \in S, before(i, j), before(j, k) PROVE before(i, k)
  BY <1>1, <1>4 DEF RanksBefore
<1>5. StrictlyOrders(pairs, S)
  <2>. HIDE DEF before, S
  <2>. QED
    BY <1>2, <1>3, <1>4 DEF StrictlyOrders
<1>6. DOMAIN order = 1..Cardinality(S) /\ \A n \in 1..Cardinality(S) : order[n] \in S
  <2>. HIDE DEF pairs
  <2>. QED
    BY <1>5, ArrangedPlaces
<1>7. SortedByRank(offers) = [k \in DOMAIN order |-> offers[order[k]]]
  BY DEF SortedByRank
<1>. HIDE DEF order
<1>. QED
  BY <1>6, <1>7 DEF Within

-----------------------------------------------------------------------------
(* What the gate keeps it keeps on evidence.                                 *)

\* A comparison without a conflict that needs no person keeps the offer.
LEMMA ComparisonKeeps ==
  ASSUME NEW target, NEW candidate,
         CompareTargetProfiles(target, candidate).conflicts = {},
         CompareTargetProfiles(target, candidate).decision # "manual_review"
  PROVE  CompareTargetProfiles(target, candidate).decision = "keep"
BY DEF CompareTargetProfiles

\* The gate decides for an offer only when nothing speaks against it: no
\* verdict of the pictures, no conflict of the profiles and no gap in them.
LEMMA MatchKept ==
  ASSUME NEW u, NEW d, NEW visual, NEW relation, NEW pm, NEW spec,
         MatchEvidence(u, d, visual, relation, TRUE, pm, spec).decision = "keep"
  PROVE  visual \notin {"no", "malformed"} /\ pm.conflicts = {} /\ pm.decision # "manual_review"
<1>. DEFINE states   == EvidenceStates(u, d, relation, TRUE)
            verdict  == VisualVerdict(visual)
            mismatch == {s \in DOMAIN states \ {"price", "moq"} : states[s] = 0}
                          \cup (IF BrandExclusive(u, d) THEN {"brand_exclusive_conflict"} ELSE {})
                          \cup (spec.conflicts \cap HardSpecConflicts)
                          \cup pm.conflicts
                          \cup (IF verdict = "no" THEN {"visual_mismatch"} ELSE {})
            missing  == {s \in DOMAIN states : states[s] = Unknown}
            known    == DOMAIN states \ missing
            agreeing == {s \in known : states[s] = 1000}
            mean     == (1000 * Cardinality(agreeing) + pm.score) \div (Cardinality(known) + 1)
            review   == verdict = "malformed" \/ pm.decision = "manual_review"
<1>1. MatchEvidence(u, d, visual, relation, TRUE, pm, spec).decision
        = CASE mismatch # {} -> "reject"
            [] mismatch = {} /\ review -> "manual_review"
            [] mismatch = {} /\ verdict # "malformed" /\ ~(pm.decision = "manual_review") /\ missing # {} -> "retry"
            [] OTHER -> IF mean >= 700 THEN "keep" ELSE "manual_review"
  BY DEF MatchEvidence
<1>2. mismatch = {} /\ ~review
  <2>. HIDE DEF mismatch, review, missing, mean, verdict
  <2>. QED
    BY <1>1
<1>3. pm.conflicts = {} /\ verdict # "no"
  <2>. HIDE DEF states, verdict
  <2>. QED
    BY <1>2
<1>. QED
  BY <1>2, <1>3 DEF VisualVerdict, None

LEMMA StatesFinite ==
  ASSUME NEW u, NEW d, NEW relation, NEW S \in SUBSET DOMAIN EvidenceStates(u, d, relation, TRUE)
  PROVE  IsFiniteSet(S) /\ Cardinality(S) \in Nat
<1>. DEFINE names == {"function", "product_type", "price", "moq", "manufacturer", "package_quantity"}
<1>1. S \subseteq names
  BY DEF EvidenceStates
<1>2. IsFiniteSet(names)
  <2>. DEFINE listed == <<"function", "product_type", "price", "moq", "manufacturer", "package_quantity">>
  <2>1. listed \in Seq(names) /\ \A n \in names : \E i \in 1..Len(listed) : listed[i] = n
    OBVIOUS
  <2>. HIDE DEF listed, names
  <2>. QED
    BY <2>1 DEF IsFiniteSet
<1>3. IsFiniteSet(S)
  <2>. HIDE DEF names
  <2>. QED
    BY <1>1, <1>2, FS_Subset
<1>. QED
  BY <1>3, FS_CardinalityType

\* How certain the gate is of an offer is a number.
LEMMA MatchConfidence ==
  ASSUME NEW u, NEW d, NEW visual, NEW relation, NEW pm, NEW spec, pm.score \in Int
  PROVE  MatchEvidence(u, d, visual, relation, TRUE, pm, spec).confidence \in Int
<1>. DEFINE states == EvidenceStates(u, d, relation, TRUE)
            known  == DOMAIN states \ {s \in DOMAIN states : states[s] = Unknown}
            agreeing == {s \in known : states[s] = 1000}
            mean   == (1000 * Cardinality(agreeing) + pm.score) \div (Cardinality(known) + 1)
<1>1. Cardinality(known) \in Nat /\ Cardinality(agreeing) \in Nat
  <2>1. known \in SUBSET DOMAIN states /\ agreeing \in SUBSET DOMAIN states
    <3>. HIDE DEF states
    <3>. QED
      OBVIOUS
  <2>. HIDE DEF known, agreeing
  <2>. QED
    BY <2>1, StatesFinite
<1>2. mean \in Int
  <2>. HIDE DEF known, agreeing
  <2>. QED
    BY <1>1
<1>. DEFINE verdict  == VisualVerdict(visual)
            mismatch == {s \in DOMAIN states \ {"price", "moq"} : states[s] = 0}
                          \cup (IF BrandExclusive(u, d) THEN {"brand_exclusive_conflict"} ELSE {})
                          \cup (spec.conflicts \cap HardSpecConflicts)
                          \cup pm.conflicts
                          \cup (IF verdict = "no" THEN {"visual_mismatch"} ELSE {})
            capped == mismatch = {} /\ (verdict = "malformed" \/ pm.decision = "manual_review"
                                          \/ {s \in DOMAIN states : states[s] = Unknown} # {})
<1>3. MatchEvidence(u, d, visual, relation, TRUE, pm, spec).confidence = IF capped THEN Smaller(mean, 490) ELSE mean
  BY DEF MatchEvidence
<1>4. Smaller(mean, 490) \in Int
  <2>. HIDE DEF mean
  <2>. QED
    BY <1>2 DEF Smaller
<1>. HIDE DEF mean, capped
<1>. QED
  BY <1>2, <1>3, <1>4

-----------------------------------------------------------------------------
(* What the strict gate leaves.                                              *)

\* An offer is only kept on what it, or its own page, says of its category.
LEMMA EvidenceKeeps ==
  ASSUME NEW u, NEW profile, NEW o, Evidence(u, profile, o).decision = "keep",
         o.detail.profile.family = None <=> o.detail.profile = NoProfile
  PROVE  /\ o.visual \notin {"no", "malformed"}
         /\ CompareTargetProfiles(profile, IF o.detail.profile = NoProfile THEN o.profile
                                           ELSE o.detail.profile).decision = "keep"
<1>. DEFINE seen == IF o.detail.profile.family # None THEN o.detail.profile ELSE o.profile
            pm   == CompareTargetProfiles(profile, seen)
            spec == SupplierSpec(o)
            by   == CompareSpecs(TargetSpec(u), spec, spec.features)
<1>1. Evidence(u, profile, o) = MatchEvidence(u, DetailEvidence(o), o.visual, None, TRUE, pm, by)
  BY DEF Evidence
<1>2. o.visual \notin {"no", "malformed"} /\ pm.conflicts = {} /\ pm.decision # "manual_review"
  <2>. HIDE DEF pm, by
  <2>1. PICK visual : visual = o.visual
    OBVIOUS
  <2>2. MatchEvidence(u, DetailEvidence(o), visual, None, TRUE, pm, by).decision = "keep"
    BY <1>1, <2>1
  <2>3. visual \notin {"no", "malformed"} /\ pm.conflicts = {} /\ pm.decision # "manual_review"
    BY <2>2, MatchKept
  <2>. QED
    BY <2>1, <2>3
<1>3. pm.decision = "keep"
  BY <1>2, ComparisonKeeps
<1>. QED
  BY <1>2, <1>3

\* What there is to hold against a product is a number.
LEMMA EvidenceConfidence ==
  ASSUME NEW u, NEW profile, NEW o,
         CompareTargetProfiles(profile, o.detail.profile).score \in Int \/ o.detail.profile.family = None,
         CompareTargetProfiles(profile, o.profile).score \in Int
  PROVE  Evidence(u, profile, o).confidence \in Int
<1>. DEFINE seen == IF o.detail.profile.family # None THEN o.detail.profile ELSE o.profile
            pm   == CompareTargetProfiles(profile, seen)
            spec == SupplierSpec(o)
            by   == CompareSpecs(TargetSpec(u), spec, spec.features)
<1>1. Evidence(u, profile, o) = MatchEvidence(u, DetailEvidence(o), o.visual, None, TRUE, pm, by)
  BY DEF Evidence
<1>2. pm.score \in Int
  OBVIOUS
<1>. HIDE DEF pm, by
<1>. QED
  BY <1>1, <1>2, MatchConfidence

\* What a gate has put out: the offers it accepts, the best of them named, and
\* no recommendation to buy.
Undecided(r) == r.status \notin {"recommend", None} /\ r.final = FALSE /\ DOMAIN r = DOMAIN NoRecommendation

Names(offers) == {offers[i].id : i \in DOMAIN offers}

IsList(list) == \E n \in Nat : DOMAIN list = 1..n /\ list = [i \in 1..n |-> list[i]]

IsGate(gate) ==
  /\ IsList(gate.offers)
  /\ Undecided(gate.recommendation)
  /\ gate.recommendation.accepted = [i \in DOMAIN gate.offers |-> gate.offers[i].id]
  /\ gate.offers # <<>> => gate.recommendation.offer \in Names(gate.offers)

LEMMA StrictGateKeeps ==
  ASSUME NEW offers, DOMAIN offers \subseteq Nat, IsFiniteSet(DOMAIN offers),
         \A i \in DOMAIN offers : IsOffer(offers[i]),
         NEW verdict, DOMAIN verdict \subseteq DOMAIN offers, \A i \in DOMAIN verdict : verdict[i].confidence \in Int
  PROVE  /\ IsGate(StrictGate(offers, verdict))
         /\ \A k \in DOMAIN StrictGate(offers, verdict).offers : \E i \in DOMAIN verdict :
              /\ verdict[i].decision = "keep"
              /\ Keeps(StrictGate(offers, verdict).offers[k], offers[i])
              /\ StrictGate(offers, verdict).offers[k].visual = offers[i].visual
              /\ StrictGate(offers, verdict).offers[k].rank = offers[i].rank
<1>. DEFINE real   == DOMAIN verdict
            such(D) == {i \in real : verdict[i].decision \in D}
            kept   == {i \in real : verdict[i].decision \in {"keep"}}
            review == such({"retry", "manual_review"})
            most   == {i \in kept : \A j \in kept : verdict[j].confidence <= verdict[i].confidence}
            best   == offers[Min(most)].id
            marked == [i \in DOMAIN offers |-> IF i \in real THEN [offers[i] EXCEPT !.decision = verdict[i].decision]
                                               ELSE offers[i]]
            taken  == Picked(marked, kept)
            status == CASE kept # {} -> "watchlist"
                        [] kept = {} /\ review # {} -> "needs_manual_review"
                        [] kept = {} /\ review = {} /\ such({"reject"}) # {} -> "reject"
                        [] OTHER -> "insufficient_data"
            reasons == IF kept # {} THEN {}
                       ELSE UNION {verdict[i].mismatch : i \in such({"reject"})}
                              \cup (IF real = {} THEN {"no_real_supplier_evidence"} ELSE {})
            tasks   == UNION {verdict[i].missing : i \in review}
                         \cup (IF kept = {} THEN {} ELSE {"calculate_profit", "evaluate_market"})
            named   == [i \in DOMAIN taken |-> taken[i].id]
            chosen  == IF kept = {} THEN None ELSE best
<1>1. StrictGate(offers, verdict)
        = [offers |-> taken,
           recommendation |-> [NoRecommendation EXCEPT !.status = status, !.offer = chosen, !.accepted = named,
                                                       !.reasons = reasons, !.tasks = tasks]]
  BY DEF StrictGate
<1>2. kept \subseteq DOMAIN offers /\ kept \subseteq Nat /\ IsFiniteSet(kept)
  <2>1. kept \subseteq DOMAIN offers /\ kept \subseteq Nat
    OBVIOUS
  <2>. HIDE DEF kept
  <2>. QED
    BY <2>1, FS_Subset
<1>3. /\ Cardinality(kept) \in Nat
      /\ DOMAIN taken = 1..Cardinality(kept)
      /\ \A n \in 1..Cardinality(kept) : \E i \in kept : taken[n] = marked[i]
      /\ \A i \in kept : \E n \in 1..Cardinality(kept) : taken[n] = marked[i]
  <2>1. kept \subseteq Nat /\ IsFiniteSet(kept)
    BY <1>2
  <2>. HIDE DEF kept, marked
  <2>2. Picks(taken, marked, kept)
    BY <2>1, PickedPlaces
  <2>. HIDE DEF taken
  <2>. QED
    BY <2>2 DEF Picks
<1>4. ASSUME NEW i \in kept
      PROVE  /\ verdict[i].decision = "keep" /\ Keeps(marked[i], offers[i])
             /\ marked[i].visual = offers[i].visual /\ marked[i].id = offers[i].id
             /\ marked[i].rank = offers[i].rank
  BY DEF Keeps, IsOffer, BlankOffer
<1>5. status \notin {"recommend", None}
  <2>. HIDE DEF kept, review, such
  <2>. QED
    BY DEF None
<1>6. kept # {} => Min(most) \in kept
  <2>. DEFINE sure == [i \in kept |-> verdict[i].confidence]
  <2>1. sure \in [kept -> Int]
    OBVIOUS
  <2>2. kept # {} => \E i \in kept : \A j \in kept : sure[j] <= sure[i]
    <3>. HIDE DEF kept, sure
    <3>. QED
      BY <1>2, <2>1, OneIsGreatest
  <2>3. kept # {} => most # {}
    <3>. HIDE DEF kept
    <3>. QED
      BY <2>2
  <2>4. most \subseteq kept /\ most \subseteq Nat
    <3>. HIDE DEF kept
    <3>. QED
      BY <1>2
  <2>. HIDE DEF most, kept
  <2>. QED
    BY <2>3, <2>4, MinIsLeast
<1>7. taken = [n \in DOMAIN taken |-> taken[n]]
  BY DEF Picked
<1>8. taken # <<>> => kept # {}
  <2>. HIDE DEF kept, taken
  <2>1. ASSUME kept = {} PROVE taken = <<>>
    <3>1. DOMAIN taken = {}
      BY <1>3, <2>1, FS_EmptySet
    <3>. QED
      BY <3>1, <1>7
  <2>. QED
    BY <2>1
<1>9. kept # {} => chosen \in Names(taken)
  <2>. HIDE DEF kept, most, marked, taken
  <2>1. ASSUME kept # {} PROVE \E n \in DOMAIN taken : taken[n].id = offers[Min(most)].id
    <3>1. Min(most) \in kept
      BY <1>6, <2>1
    <3>2. \E n \in 1..Cardinality(kept) : taken[n] = marked[Min(most)]
      BY <1>3, <3>1
    <3>3. marked[Min(most)].id = offers[Min(most)].id
      BY <1>4, <3>1
    <3>. QED
      BY <1>3, <3>2, <3>3
  <2>. QED
    BY <2>1 DEF Names
<1>. DEFINE gate == [offers |-> taken,
                     recommendation |-> [NoRecommendation EXCEPT !.status = status, !.offer = chosen,
                                           !.accepted = named, !.reasons = reasons, !.tasks = tasks]]
<1>10. /\ gate.offers = taken /\ gate.recommendation.status = status /\ gate.recommendation.final = FALSE
       /\ gate.recommendation.offer = chosen /\ gate.recommendation.accepted = named
       /\ DOMAIN gate.recommendation = DOMAIN NoRecommendation
  <2>. HIDE DEF taken, status, chosen, named, reasons, tasks
  <2>. QED
    BY DEF NoRecommendation
<1>11. IsGate(gate)
  <2>1. IsList(gate.offers)
    <3>. HIDE DEF taken, gate, kept
    <3>. QED
      BY <1>3, <1>7, <1>10 DEF IsList
  <2>2. Undecided(gate.recommendation)
    <3>. HIDE DEF status, gate
    <3>. QED
      BY <1>5, <1>10 DEF Undecided
  <2>3. gate.recommendation.accepted = [i \in DOMAIN gate.offers |-> gate.offers[i].id]
    <3>. HIDE DEF taken, gate
    <3>. QED
      BY <1>10
  <2>4. gate.offers # <<>> => gate.recommendation.offer \in Names(gate.offers)
    <3>. HIDE DEF taken, gate, kept, chosen
    <3>. QED
      BY <1>8, <1>9, <1>10
  <2>. HIDE DEF gate
  <2>. QED
    BY <2>1, <2>2, <2>3, <2>4 DEF IsGate
<1>12. ASSUME NEW k \in DOMAIN gate.offers
       PROVE  \E i \in DOMAIN verdict :
                /\ verdict[i].decision = "keep" /\ Keeps(gate.offers[k], offers[i])
                /\ gate.offers[k].visual = offers[i].visual /\ gate.offers[k].rank = offers[i].rank
  <2>1. k \in 1..Cardinality(kept) /\ gate.offers[k] = taken[k]
    <3>. HIDE DEF taken, gate, kept
    <3>. QED
      BY <1>3, <1>10
  <2>2. PICK i \in kept : taken[k] = marked[i]
    <3>. HIDE DEF taken, gate, kept, marked
    <3>. QED
      BY <1>3, <2>1
  <2>3. i \in DOMAIN verdict
    OBVIOUS
  <2>. HIDE DEF taken, gate, kept, marked
  <2>. QED
    BY <1>4, <2>1, <2>2, <2>3
<1>. HIDE DEF gate
<1>13. StrictGate(offers, verdict) = gate
  BY <1>1 DEF gate
<1>. QED
  BY <1>11, <1>12, <1>13

-----------------------------------------------------------------------------
(* What a match comes to.                                                    *)

Earned(s, offers) ==
  \A i \in DOMAIN offers :
    /\ offers[i].visual \notin {"no", "malformed"}
    /\ CompareTargetProfiles(TargetProfile(s.product),
         IF offers[i].detail.profile = NoProfile THEN offers[i].profile
         ELSE offers[i].detail.profile).decision = "keep"

LEMMA ListDomain ==
  ASSUME NEW list, IsList(list)
  PROVE  DOMAIN list \subseteq Nat /\ IsFiniteSet(DOMAIN list)
<1>1. PICK n \in Nat : DOMAIN list = 1..n
  BY DEF IsList
<1>2. IsFiniteSet(1..n)
  BY FS_Interval
<1>. QED
  BY <1>1, <1>2

LEMMA PickedList ==
  ASSUME NEW list, NEW S, S \subseteq Nat, IsFiniteSet(S)
  PROVE  IsList(Picked(list, S))
<1>1. Picks(Picked(list, S), list, S)
  BY PickedPlaces
<1>2. Picked(list, S) = [n \in DOMAIN Picked(list, S) |-> Picked(list, S)[n]]
  BY DEF Picked
<1>. QED
  BY <1>1, <1>2 DEF Picks, IsList

LEMMA PickedWithin ==
  ASSUME NEW list, NEW S, S \subseteq Nat, IsFiniteSet(S), S \subseteq DOMAIN list
  PROVE  Within(Picked(list, S), list)
<1>1. Picks(Picked(list, S), list, S)
  BY PickedPlaces
<1>. QED
  BY <1>1 DEF Picks, Within

LEMMA SortedDomain ==
  ASSUME NEW offers, DOMAIN offers \subseteq Nat, IsFiniteSet(DOMAIN offers)
  PROVE  DOMAIN SortedByRank(offers) \subseteq Nat /\ IsFiniteSet(DOMAIN SortedByRank(offers))
<1>. DEFINE n == Cardinality(DOMAIN offers)
<1>1. n \in Nat
  BY FS_CardinalityType
<1>2. DOMAIN SortedByRank(offers) = 1..n
  BY DEF SortedByRank, Arranged
<1>3. IsFiniteSet(1..n)
  BY <1>1, FS_Interval
<1>. HIDE DEF n
<1>. QED
  BY <1>1, <1>2, <1>3

LEMMA KeptList ==
  ASSUME NEW offers, DOMAIN offers \subseteq Nat, IsFiniteSet(DOMAIN offers),
         \A i \in DOMAIN offers : Numbered(offers[i])
  PROVE  IsList(KeptOf(offers)) /\ Within(KeptOf(offers), offers)
<1>. DEFINE sorted == SortedByRank(offers)
            above  == {i \in DOMAIN sorted : sorted[i].score > THRESHOLD_PASS}
<1>1. above \subseteq Nat /\ IsFiniteSet(above)
  <2>1. DOMAIN sorted \subseteq Nat /\ IsFiniteSet(DOMAIN sorted)
    BY SortedDomain
  <2>2. above \subseteq DOMAIN sorted
    OBVIOUS
  <2>. HIDE DEF above, sorted
  <2>. QED
    BY <2>1, <2>2, FS_Subset
<1>2. KeptOf(offers) = Picked(sorted, above)
  BY DEF KeptOf
<1>3. Within(sorted, offers)
  BY SortedPlaces
<1>4. Within(Picked(sorted, above), sorted)
  BY <1>1, PickedWithin
<1>. HIDE DEF above, sorted
<1>. QED
  BY <1>1, <1>2, <1>3, <1>4, PickedList DEF Within

LEMMA SeenList ==
  ASSUME NEW s \in Scenarios, NEW offers, IsList(offers), \A i \in DOMAIN offers : Numbered(offers[i])
  PROVE  IsList(Seen(s, offers)) /\ \A k \in DOMAIN Seen(s, offers) : Numbered(Seen(s, offers)[k])
<1>1. ASSUME NEW eligible, NEW topK
      PROVE  \E list : /\ list = LlmVerified(offers, eligible, topK, s.answer)
                       /\ IsList(list) /\ \A k \in DOMAIN list : Numbered(list[k])
  <2>. DEFINE first  == {i \in eligible : Cardinality({j \in eligible : j < i}) < topK}
              looked == [i \in DOMAIN offers |-> IF i \in first THEN LlmJudged(offers[i], s.answer) ELSE offers[i]]
              sorted == SortedByRank(looked)
              above  == {i \in DOMAIN sorted : OrZero(sorted[i].score) > 300}
              list   == IF first = {} THEN offers ELSE Picked(sorted, above)
  <2>1. DOMAIN looked \subseteq Nat /\ IsFiniteSet(DOMAIN looked)
    BY ListDomain
  <2>2. \A i \in DOMAIN looked : Numbered(looked[i])
    <3>. HIDE DEF first
    <3>. QED
      BY ScenariosAssumption, LlmJudgedNumbered
  <2>3. /\ DOMAIN sorted \subseteq Nat /\ IsFiniteSet(DOMAIN sorted)
        /\ Within(sorted, looked)
    <3>. HIDE DEF looked
    <3>. QED
      BY <2>1, <2>2, SortedDomain, SortedPlaces
  <2>4. above \subseteq Nat /\ IsFiniteSet(above) /\ above \subseteq DOMAIN sorted
    <3>1. above \subseteq DOMAIN sorted
      OBVIOUS
    <3>. HIDE DEF above, sorted
    <3>. QED
      BY <2>3, <3>1, FS_Subset
  <2>5. list = LlmVerified(offers, eligible, topK, s.answer)
    BY DEF LlmVerified
  <2>6. IsList(Picked(sorted, above)) /\ Within(Picked(sorted, above), sorted)
    <3>. HIDE DEF sorted, above
    <3>. QED
      BY <2>4, PickedList, PickedWithin
  <2>7. IsList(list) /\ \A k \in DOMAIN list : Numbered(list[k])
    <3>. HIDE DEF first, looked, sorted, above
    <3>. QED
      BY <2>2, <2>3, <2>6 DEF Within
  <2>. QED
    BY <2>5, <2>7
<1>. QED
  BY <1>1 DEF Seen

\* An offer that has been judged still says of its category what the search
\* and its page said.
SpeaksFor(o, find) ==
  /\ IsOffer(o)
  /\ o.profile = ProfileFromText(find.words)
  /\ o.detail.profile \in {NoProfile, ProfileFromText(find.page.text.words)}

\* Offers that can be ranked by what they earn.
Rankable(offers) == \A i \in DOMAIN offers : IsOffer(offers[i]) /\ offers[i].rank \in Int

LEMMA GatedEarned ==
  ASSUME NEW s \in Scenarios, NEW finds \in s.searches, NEW offers, DOMAIN offers = DOMAIN finds,
         \A i \in DOMAIN finds : SpeaksFor(offers[i], finds[i]) /\ offers[i].rank \in Int
  PROVE  /\ IsGate(Gated(s.product, TargetProfile(s.product), offers))
         /\ Earned(s, Gated(s.product, TargetProfile(s.product), offers).offers)
         /\ Rankable(Gated(s.product, TargetProfile(s.product), offers).offers)
<1>. DEFINE profile == TargetProfile(s.product)
            u == Understanding(s.product, profile)
            verdict == [i \in RealOffers(offers) |-> Evidence(u, profile, offers[i])]
            gate == StrictGate(offers, verdict)
<1>1. Gated(s.product, profile, offers) = gate
  BY DEF Gated
<1>2. DOMAIN offers \subseteq Nat /\ IsFiniteSet(DOMAIN offers)
  <2>1. Len(finds) \in Nat /\ DOMAIN finds = 1..Len(finds)
    BY ScenariosAssumption
  <2>2. IsFiniteSet(1..Len(finds))
    BY <2>1, FS_Interval
  <2>. QED
    BY <2>1, <2>2
<1>3. \A i \in DOMAIN offers : IsOffer(offers[i])
  BY DEF SpeaksFor
<1>4. DOMAIN verdict \subseteq DOMAIN offers
  BY DEF RealOffers
<1>5. ASSUME NEW i \in DOMAIN offers
      PROVE  /\ Evidence(u, profile, offers[i]).confidence \in Int
             /\ offers[i].detail.profile.family = None <=> offers[i].detail.profile = NoProfile
  <2>1. SpeaksFor(offers[i], finds[i])
    OBVIOUS
  <2>2. \A words \in WordsOf(finds[i]) : CompareTargetProfiles(profile, ProfileFromText(words)).score \in Int
    BY ScoresAssumption, Zenon
  <2>3. offers[i].detail.profile.family = None <=> offers[i].detail.profile = NoProfile
    <3>. DEFINE text == ProfileFromText(finds[i].page.text.words)
    <3>1. text.family = None <=> text = NoProfile
      BY TextProfile
    <3>2. NoProfile.family = None
      BY DEF NoProfile
    <3>3. offers[i].detail.profile \in {NoProfile, text}
      BY <2>1 DEF SpeaksFor
    <3>. HIDE DEF text
    <3>. QED
      BY <3>1, <3>2, <3>3
  <2>4. \/ CompareTargetProfiles(profile, offers[i].detail.profile).score \in Int
        \/ offers[i].detail.profile.family = None
    BY <2>1, <2>2, <2>3 DEF SpeaksFor, WordsOf
  <2>5. CompareTargetProfiles(profile, offers[i].profile).score \in Int
    BY <2>1, <2>2 DEF SpeaksFor, WordsOf
  <2>. HIDE DEF profile, u
  <2>. QED
    BY <2>3, <2>4, <2>5, EvidenceConfidence
<1>6. \A i \in DOMAIN verdict : verdict[i].confidence \in Int
  BY <1>4, <1>5
<1>7. /\ IsGate(gate)
      /\ \A k \in DOMAIN gate.offers : \E i \in DOMAIN verdict :
           /\ verdict[i].decision = "keep" /\ Keeps(gate.offers[k], offers[i])
           /\ gate.offers[k].visual = offers[i].visual /\ gate.offers[k].rank = offers[i].rank
  <2>. HIDE DEF verdict
  <2>. QED
    BY <1>2, <1>3, <1>4, <1>6, StrictGateKeeps
<1>8. ASSUME NEW k \in DOMAIN gate.offers
      PROVE  /\ IsOffer(gate.offers[k]) /\ gate.offers[k].rank \in Int
             /\ gate.offers[k].visual \notin {"no", "malformed"}
             /\ CompareTargetProfiles(profile, IF gate.offers[k].detail.profile = NoProfile THEN gate.offers[k].profile
                                               ELSE gate.offers[k].detail.profile).decision = "keep"
  <2>1. PICK i \in DOMAIN verdict : /\ verdict[i].decision = "keep" /\ Keeps(gate.offers[k], offers[i])
                                  /\ gate.offers[k].visual = offers[i].visual /\ gate.offers[k].rank = offers[i].rank
    <3>. HIDE DEF verdict
    <3>. QED
      BY <1>7
  <2>2. i \in DOMAIN offers /\ Evidence(u, profile, offers[i]).decision = "keep"
    BY <1>4, <2>1
  <2>3. offers[i].detail.profile.family = None <=> offers[i].detail.profile = NoProfile
    BY <1>5, <2>2
  <2>4. /\ offers[i].visual \notin {"no", "malformed"}
        /\ CompareTargetProfiles(profile, IF offers[i].detail.profile = NoProfile THEN offers[i].profile
                                          ELSE offers[i].detail.profile).decision = "keep"
    <3>. HIDE DEF profile, u
    <3>. QED
      BY <2>2, <2>3, EvidenceKeeps
  <2>5. offers[i].rank \in Int
    BY <2>2
  <2>. HIDE DEF gate
  <2>. QED
    BY <2>1, <2>4, <2>5 DEF Keeps
<1>. HIDE DEF gate
<1>. QED
  BY <1>1, <1>7, <1>8 DEF Earned, Rankable

\* A match of a product with a target category is what its gate accepts on
\* evidence; the match of another product recommends nothing.
IsMatch(s, m) ==
  /\ IsList(m.offers) /\ Rankable(m.offers)
  /\ Aimed(s.product) => IsGate(m) /\ Earned(s, m.offers)
  /\ ~Aimed(s.product) => m.recommendation = NoRecommendation

LEMMA MatchIsMatch ==
  ASSUME NEW s \in Scenarios, NEW m \in Matches[s]
  PROVE  IsMatch(s, m)
<1>. DEFINE profile == TargetProfile(s.product)
<1>1. PICK finds \in s.searches : m = Matched(s, profile, finds)
  BY DEF Matches
<1>. DEFINE judged == JudgedFinds(s, profile, finds)
            shown  == IF s.llm THEN TargetImagesVerified(judged, profile, ImageTopK, s.pair) ELSE judged
<1>2. m = IF Aimed(s.product) THEN Gated(s.product, profile, shown)
          ELSE [offers |-> Seen(s, KeptOf(judged)), recommendation |-> NoRecommendation]
  BY <1>1 DEF Matched
<1>3. /\ DOMAIN judged = DOMAIN finds
      /\ \A i \in DOMAIN finds : \E judgement : judged[i] = OfferJudged(WithPage(finds[i]), judgement)
  BY DEF JudgedFinds, Verified
<1>4. DOMAIN shown = DOMAIN finds
  BY <1>3 DEF TargetImagesVerified
<1>5. ASSUME NEW i \in DOMAIN finds
      PROVE  Numbered(judged[i]) /\ Keeps(judged[i], WithPage(finds[i])) /\ ReadFrom(WithPage(finds[i]), finds[i])
  <2>1. ReadFrom(WithPage(finds[i]), finds[i])
    BY ScenariosAssumption, PageIsRead
  <2>2. judged[i].score \in Int /\ QualityScore(judged[i]) \in Int /\ BusinessScore(judged[i]) \in Int
    BY ScoresAssumption
  <2>. HIDE DEF judged
  <2>3. PICK judgement : judged[i] = OfferJudged(WithPage(finds[i]), judgement)
    BY <1>3
  <2>. QED
    BY <2>1, <2>2, <2>3, JudgedKeeps, JudgedNumbered DEF ReadFrom
<1>6. DOMAIN judged \subseteq Nat /\ IsFiniteSet(DOMAIN judged)
  <2>1. Len(finds) \in Nat /\ DOMAIN finds = 1..Len(finds)
    BY ScenariosAssumption
  <2>2. IsFiniteSet(1..Len(finds))
    BY <2>1, FS_Interval
  <2>. HIDE DEF judged
  <2>. QED
    BY <1>3, <2>1, <2>2
<1>. HIDE DEF judged
<1>7. CASE Aimed(s.product)
  <2>1. ASSUME NEW i \in DOMAIN finds PROVE SpeaksFor(shown[i], finds[i]) /\ shown[i].rank \in Int
    <3>1. i \in DOMAIN judged /\ IsOffer(judged[i])
      BY <1>3, <1>5 DEF Numbered
    <3>2. /\ Keeps(TargetImagesVerified(judged, profile, ImageTopK, s.pair)[i], judged[i])
          /\ TargetImagesVerified(judged, profile, ImageTopK, s.pair)[i].rank = judged[i].rank
      BY <3>1, ImagesKeep
    <3>3. Keeps(shown[i], judged[i]) /\ shown[i].rank = judged[i].rank
      BY <3>1, <3>2 DEF Keeps
    <3>. HIDE DEF shown
    <3>. QED
      BY <1>5, <3>3 DEF Keeps, ReadFrom, SpeaksFor, Numbered
  <2>2. m = Gated(s.product, profile, shown)
    BY <1>2, <1>7
  <2>3. IsGate(m) /\ Earned(s, m.offers) /\ Rankable(m.offers)
    <3>. HIDE DEF shown
    <3>. QED
      BY <1>4, <2>1, <2>2, GatedEarned
  <2>. QED
    BY <1>7, <2>3 DEF IsMatch, IsGate
<1>8. CASE ~Aimed(s.product)
  <2>1. \A i \in DOMAIN judged : Numbered(judged[i])
    BY <1>3, <1>5
  <2>2. IsList(KeptOf(judged)) /\ \A i \in DOMAIN KeptOf(judged) : Numbered(KeptOf(judged)[i])
    BY <1>6, <2>1, KeptList DEF Within
  <2>3. IsList(Seen(s, KeptOf(judged))) /\ Rankable(Seen(s, KeptOf(judged)))
    BY <2>2, SeenList DEF Rankable, Numbered
  <2>. HIDE DEF shown
  <2>. QED
    BY <1>2, <1>8, <2>3 DEF IsMatch
<1>. QED
  BY <1>7, <1>8

-----------------------------------------------------------------------------
(* The ranking by profit.                                                    *)

\* The lexicographic order of tuples of numbers is strict.
LEMMA KeyOrder ==
  ASSUME NEW n \in Nat, NEW a \in [1..n -> Int], NEW b \in [1..n -> Int], NEW c \in [1..n -> Int]
  PROVE  /\ ~KeyBefore(a, a)
         /\ KeyBefore(a, b) /\ KeyBefore(b, c) => KeyBefore(a, c)
         /\ a # b => KeyBefore(a, b) \/ KeyBefore(b, a)
<1>1. ~KeyBefore(a, a)
  BY DEF KeyBefore
<1>2. ASSUME KeyBefore(a, b), KeyBefore(b, c) PROVE KeyBefore(a, c)
  <2>1. PICK k \in 1..n : a[k] > b[k] /\ \A h \in 1..(k - 1) : a[h] = b[h]
    BY <1>2 DEF KeyBefore
  <2>2. PICK l \in 1..n : b[l] > c[l] /\ \A h \in 1..(l - 1) : b[h] = c[h]
    BY <1>2 DEF KeyBefore
  <2>3. CASE k < l
    <3>1. a[k] > c[k] /\ \A h \in 1..(k - 1) : a[h] = c[h]
      BY <2>1, <2>2, <2>3
    <3>. QED
      BY <3>1 DEF KeyBefore
  <2>4. CASE l < k
    <3>1. a[l] > c[l] /\ \A h \in 1..(l - 1) : a[h] = c[h]
      BY <2>1, <2>2, <2>4
    <3>. QED
      BY <3>1 DEF KeyBefore
  <2>5. CASE k = l
    <3>1. a[k] > c[k] /\ \A h \in 1..(k - 1) : a[h] = c[h]
      BY <2>1, <2>2, <2>5
    <3>. QED
      BY <3>1 DEF KeyBefore
  <2>. QED
    BY <2>3, <2>4, <2>5
<1>3. ASSUME a # b PROVE KeyBefore(a, b) \/ KeyBefore(b, a)
  <2>. DEFINE differing == {k \in 1..n : a[k] # b[k]}
  <2>1. differing \subseteq Nat /\ differing # {}
    <3>1. ASSUME \A k \in 1..n : a[k] = b[k] PROVE a = b
      BY <3>1
    <3>2. \E k \in 1..n : a[k] # b[k]
      BY <1>3, <3>1
    <3>3. differing # {}
      BY <3>2
    <3>. QED
      BY <3>3
  <2>2. \E x \in differing : \A y \in differing : x <= y
    <3>. HIDE DEF differing
    <3>. QED
      BY <2>1, LeastNumber
  <2>3. PICK k \in differing : \A y \in differing : k <= y
    BY <2>2
  <2>4. \A h \in 1..(k - 1) : a[h] = b[h] /\ b[h] = a[h]
    BY <2>3
  <2>5. a[k] > b[k] \/ b[k] > a[k]
    BY <2>3
  <2>. QED
    BY <2>4, <2>5 DEF KeyBefore
<1>. QED
  BY <1>1, <1>2, <1>3

LEMMA FiveNumbers ==
  ASSUME NEW a \in Int, NEW b \in Int, NEW c \in Int, NEW d \in Int, NEW e \in Int
  PROVE  <<a, b, c, d, e>> \in [1..5 -> Int]
OBVIOUS

\* What the ranking of offers comes to: they are some of the offers; the profit
\* is that of one of them, and that of the first unless the first has none.
IsRanking(ranking, profit, offers) ==
  /\ IsList(ranking.offers) /\ ranking.offers # <<>>
  /\ \E j \in DOMAIN offers : ranking.profit = profit[j]
  /\ \E i \in DOMAIN offers : /\ Head(ranking.offers).id = offers[i].id
                              /\ profit[i].missing = {} => ranking.profit = profit[i]

LEMMA RankingRanks ==
  ASSUME NEW offers, IsList(offers), offers # <<>>, \A i \in DOMAIN offers : IsOffer(offers[i]), NEW profit,
         \A i \in DOMAIN offers : offers[i].rank \in Int /\ profit[i].net \in Int /\ profit[i].margin \in Int
  PROVE  IsRanking(RankedBy(profit, offers), profit, offers)
<1>. DEFINE worth(i) == IF profit[i].missing = {} THEN ProfitScoreOf(profit[i].margin) ELSE 0
            key(i) == <<(700 * offers[i].rank + 300 * worth(i)) \div 1000, offers[i].rank,
                        profit[i].margin, profit[i].net, -i>>
            before(i, j) == KeyBefore(key(i), key(j))
            kept == {i \in DOMAIN offers : ~\E j \in DOMAIN offers : offers[j].id = offers[i].id /\ before(j, i)}
            pairs(S) == {pair \in S \X S : before(pair[1], pair[2])}
            order == Arranged(kept, pairs(kept))
            priced == {n \in DOMAIN order : profit[order[n]].missing = {}}
            ranked == [n \in DOMAIN order |-> [offers[order[n]] EXCEPT !.sourceability = key(order[n])[1]]]
            earned == IF priced = {} THEN profit[Len(offers)] ELSE profit[order[Min(priced)]]
<1>1. RankedBy(profit, offers) = [offers |-> ranked, profit |-> earned]
  BY DEF RankedBy
<1>2. ASSUME NEW i \in DOMAIN offers PROVE key(i) \in [1..5 -> Int] /\ key(i)[5] = -i /\ i \in Int
  <2>1. worth(i) \in Int
    BY DEF ProfitScoreOf, Clamp, Larger, Smaller
  <2>2. i \in Int
    BY ListDomain
  <2>3. (700 * offers[i].rank + 300 * worth(i)) \div 1000 \in Int
    <3>. HIDE DEF worth
    <3>. QED
      BY <2>1
  <2>. DEFINE total == (700 * offers[i].rank + 300 * worth(i)) \div 1000
  <2>4. key(i) = <<total, offers[i].rank, profit[i].margin, profit[i].net, -i>>
    OBVIOUS
  <2>. HIDE DEF key, total
  <2>5. <<total, offers[i].rank, profit[i].margin, profit[i].net, -i>> \in [1..5 -> Int]
    <3>1. total \in Int /\ offers[i].rank \in Int /\ profit[i].margin \in Int /\ profit[i].net \in Int /\ -i \in Int
      BY <2>2, <2>3 DEF total
    <3>. QED
      BY <3>1, FiveNumbers
  <2>. QED
    BY <2>2, <2>4, <2>5
<1>3. ASSUME NEW S, S \subseteq DOMAIN offers PROVE StrictlyOrders(pairs(S), S)
  <2>. HIDE DEF key
  <2>1. ASSUME NEW i \in S PROVE key(i) \in [1..5 -> Int] /\ key(i)[5] = -i /\ i \in Int
    <3>1. i \in DOMAIN offers
      BY <1>3
    <3>. QED
      BY <1>2, <3>1
  <2>2. \A i \in S : ~before(i, i)
    BY <2>1, KeyOrder
  <2>3. ASSUME NEW i \in S, NEW j \in S, i # j PROVE before(i, j) \/ before(j, i)
    <3>1. key(i) # key(j)
      BY <2>1, <2>3
    <3>. QED
      BY <2>1, <3>1, KeyOrder
  <2>4. ASSUME NEW i \in S, NEW j \in S, NEW k \in S, before(i, j), before(j, k) PROVE before(i, k)
    BY <2>1, <2>4, KeyOrder
  <2>. HIDE DEF before
  <2>. QED
    BY <2>2, <2>3, <2>4 DEF StrictlyOrders
<1>4. DOMAIN offers \subseteq Nat /\ IsFiniteSet(DOMAIN offers) /\ DOMAIN offers # {}
  BY ListDomain DEF IsList
<1>5. kept # {}
  <2>1. StrictlyOrders(pairs(DOMAIN offers), DOMAIN offers)
    BY <1>3
  <2>2. PICK i \in DOMAIN offers : \A j \in DOMAIN offers : <<j, i>> \notin pairs(DOMAIN offers)
    <3>. HIDE DEF pairs
    <3>. QED
      BY <1>4, <2>1, OneIsFirst
  <2>. HIDE DEF before
  <2>. QED
    BY <2>2
<1>6. kept \subseteq DOMAIN offers /\ IsFiniteSet(kept)
  <2>1. kept \subseteq DOMAIN offers
    OBVIOUS
  <2>. HIDE DEF kept
  <2>. QED
    BY <1>4, <2>1, FS_Subset
<1>7. /\ Cardinality(kept) \in Nat
      /\ DOMAIN order = 1..Cardinality(kept)
      /\ \A n \in 1..Cardinality(kept) : order[n] \in kept
      /\ \A i \in kept : \E n \in 1..Cardinality(kept) : order[n] = i
  <2>1. StrictlyOrders(pairs(kept), kept)
    BY <1>3, <1>6
  <2>. HIDE DEF kept, pairs
  <2>. QED
    BY <1>6, <2>1, ArrangedPlaces
<1>8. 1 \in DOMAIN order /\ \A n \in DOMAIN order : order[n] \in DOMAIN offers
  <2>. HIDE DEF kept, order
  <2>. QED
    BY <1>5, <1>6, <1>7
<1>9. IsList(ranked) /\ ranked # <<>> /\ Head(ranked).id = offers[order[1]].id
  <2>1. DOMAIN ranked = DOMAIN order /\ ranked = [n \in DOMAIN ranked |-> ranked[n]]
    <3>. HIDE DEF order, key
    <3>. QED
      OBVIOUS
  <2>2. ranked[1].id = offers[order[1]].id
    <3>. HIDE DEF order, key
    <3>1. IsOffer(offers[order[1]])
      BY <1>8
    <3>. QED
      BY <1>8, <3>1 DEF IsOffer, BlankOffer
  <2>. HIDE DEF ranked, order, kept
  <2>3. IsList(ranked) /\ ranked # <<>>
    BY <1>7, <1>8, <2>1 DEF IsList
  <2>. QED
    BY <2>2, <2>3
<1>10. priced # {} => Min(priced) \in priced /\ \A n \in priced : Min(priced) <= n
  <2>1. priced \subseteq Nat
    <3>. HIDE DEF order, kept
    <3>. QED
      BY <1>7
  <2>. HIDE DEF priced
  <2>. QED
    BY <2>1, MinIsLeast
<1>11. \E j \in DOMAIN offers : earned = profit[j]
  <2>1. Len(offers) \in DOMAIN offers
    BY <1>4 DEF IsList
  <2>. HIDE DEF order, kept
  <2>. QED
    BY <1>8, <1>10, <2>1
<1>12. profit[order[1]].missing = {} => earned = profit[order[1]]
  <2>. HIDE DEF order, kept
  <2>1. ASSUME profit[order[1]].missing = {} PROVE Min(priced) = 1
    <3>1. 1 \in priced
      BY <1>8, <2>1
    <3>2. Min(priced) \in 1..Cardinality(kept) /\ Min(priced) <= 1
      BY <1>7, <1>10, <3>1
    <3>. QED
      BY <1>7, <3>2
  <2>2. profit[order[1]].missing = {} => priced # {}
    BY <1>8
  <2>. QED
    BY <2>1, <2>2
<1>. HIDE DEF ranked, earned, order
<1>. QED
  BY <1>1, <1>8, <1>9, <1>11, <1>12 DEF IsRanking

-----------------------------------------------------------------------------
(* The profit and the score of a product.                                    *)

\* What is missing tells whether the product has a price, and an offer whose
\* profit is known is the one it is the profit of.
LEMMA ProfitOf ==
  ASSUME NEW p, p.price \in Int, NEW o
  PROVE  /\ PredictProfit(p, o).missing = {"selling_price"} <=> p.price <= 0
         /\ PredictProfit(p, o).missing = {} => PredictProfit(p, o).offer = o.id
         /\ PredictProfit(p, o).missing # {} => PredictProfit(p, o).offer = None
<1>. DEFINE rates == CommissionRate(p.category) + (30 * ReturnRate(p.category)) \div 100 + 50 + 10
            cost  == (29 * PurchasePrice(o)) \div 2 + ShippingCost(p) + FbaFee(p) + PerMille(p.price, rates)
            known == [missing |-> {}, offer |-> o.id, net |-> p.price - cost,
                      margin |-> (1000 * (p.price - cost)) \div p.price]
<1>1. PredictProfit(p, o)
        = CASE p.price <= 0 -> Insufficient({"selling_price"})
            [] p.price > 0 /\ PurchasePrice(o) = Unknown -> Insufficient({"purchase_price"})
            [] p.price > 0 /\ PurchasePrice(o) # Unknown /\ MissingPhysical(p) # {} ->
                 Insufficient(MissingPhysical(p))
            [] OTHER -> known
  BY DEF PredictProfit
<1>2. known.missing = {} /\ known.offer = o.id
  OBVIOUS
<1>3. "selling_price" \notin MissingPhysical(p)
  BY DEF MissingPhysical, PhysicalFields
<1>4. \A fields : Insufficient(fields).missing = fields /\ Insufficient(fields).offer = None
  BY DEF Insufficient
<1>. HIDE DEF known
<1>5. CASE p.price <= 0
  BY <1>1, <1>4, <1>5
<1>6. CASE p.price > 0 /\ PurchasePrice(o) = Unknown
  BY <1>1, <1>4, <1>6
<1>7. CASE p.price > 0 /\ PurchasePrice(o) # Unknown /\ MissingPhysical(p) # {}
  BY <1>1, <1>3, <1>4, <1>7
<1>8. CASE p.price > 0 /\ PurchasePrice(o) # Unknown /\ MissingPhysical(p) = {}
  BY <1>1, <1>2, <1>8
<1>. QED
  BY <1>5, <1>6, <1>7, <1>8

\* The offer a ranking starts with is the one of its profit, or has none.
HeadedByItsOffer(ranking, p, offers) ==
  \E i \in DOMAIN offers :
    /\ Head(ranking.offers).id = offers[i].id
    /\ PredictProfit(p, offers[i]).missing # {} \/ ranking.profit.offer = offers[i].id

\* The ranking of what a match has put out.
LEMMA MatchRanking ==
  ASSUME NEW s \in Scenarios, NEW m \in Matches[s], m.offers # <<>>,
         NEW ranking, ranking = RankedByProfit(s.product, m.offers)
  PROVE  /\ IsList(ranking.offers) /\ ranking.offers # <<>>
         /\ ranking.profit.missing = {"selling_price"} <=> s.product.price <= 0
         /\ HasProfit(ranking.profit) => ranking.profit.offer \in Names(m.offers)
         /\ HeadedByItsOffer(ranking, s.product, m.offers)
<1>. DEFINE profit == [i \in DOMAIN m.offers |-> PredictProfit(s.product, m.offers[i])]
<1>1. IsMatch(s, m)
  BY MatchIsMatch
<1>2. \A i \in DOMAIN m.offers :
        m.offers[i].rank \in Int /\ profit[i].net \in Int /\ profit[i].margin \in Int
  BY <1>1, AmountsAssumption DEF IsMatch, Rankable
<1>3. ranking = RankedBy(profit, m.offers)
  BY DEF RankedByProfit
<1>4. IsRanking(ranking, profit, m.offers)
  <2>. HIDE DEF profit
  <2>. QED
    BY <1>1, <1>2, <1>3, RankingRanks DEF IsMatch, Rankable
<1>5. ASSUME NEW i \in DOMAIN m.offers
      PROVE  /\ profit[i].missing = {"selling_price"} <=> s.product.price <= 0
             /\ profit[i].missing = {} => profit[i].offer = m.offers[i].id
             /\ profit[i].missing # {} => profit[i].offer = None
             /\ profit[i].missing = PredictProfit(s.product, m.offers[i]).missing
  BY ProfitOf, ScenariosAssumption
<1>6. PICK j \in DOMAIN m.offers : ranking.profit = profit[j]
  <2>. HIDE DEF profit
  <2>. QED
    BY <1>4 DEF IsRanking
<1>7. PICK i \in DOMAIN m.offers : /\ Head(ranking.offers).id = m.offers[i].id
                                   /\ profit[i].missing = {} => ranking.profit = profit[i]
  <2>. HIDE DEF profit
  <2>. QED
    BY <1>4 DEF IsRanking
<1>. HIDE DEF profit
<1>8. ranking.profit.missing = {"selling_price"} <=> s.product.price <= 0
  BY <1>5, <1>6
<1>9. HasProfit(ranking.profit) => ranking.profit.offer \in Names(m.offers)
  BY <1>5, <1>6 DEF HasProfit, Names
<1>10. PredictProfit(s.product, m.offers[i]).missing # {} \/ ranking.profit.offer = m.offers[i].id
  BY <1>5, <1>7
<1>11. HeadedByItsOffer(ranking, s.product, m.offers)
  BY <1>7, <1>10 DEF HeadedByItsOffer
<1>. QED
  BY <1>4, <1>8, <1>9, <1>11 DEF IsRanking

\* What MissingForScore asks for, in its order.
LEMMA ScoredEvidence ==
  ASSUME NEW p, NEW market, NEW offers, MissingForScore(p, market, offers) = Scored
  PROVE  CompetitionEvidence(market) = Scored /\ SupplyEvidence(offers) = Scored
<1>. DEFINE checks == <<CompetitionEvidence(market), SupplyEvidence(offers), LogisticsEvidence(p)>>
            failed == {i \in 1..3 : checks[i] # Scored}
<1>1. MissingForScore(p, market, offers) = IF failed = {} THEN Scored ELSE checks[Min(failed)]
  BY DEF MissingForScore
<1>2. failed # {} => Min(failed) \in failed
  <2>1. failed \subseteq Nat
    OBVIOUS
  <2>. HIDE DEF failed
  <2>. QED
    BY <2>1, MinIsLeast
<1>3. failed = {}
  <2>. HIDE DEF checks
  <2>. QED
    BY <1>1, <1>2
<1>4. checks[1] = Scored /\ checks[2] = Scored
  <2>. HIDE DEF checks
  <2>. QED
    BY <1>3
<1>. QED
  BY <1>4

\* A product is only scored with market data and an offer, and only passes when
\* it is scored.
LEMMA ScoreHas ==
  ASSUME NEW s \in Scenarios, NEW offers, NEW profit,
         NEW score, score = ScoreOutput(s, offers, profit).score
  PROVE  /\ score = [scored |-> score.scored, total |-> score.total, passed |-> score.passed, reasons |-> score.reasons]
         /\ score.scored \in BOOLEAN /\ score.passed \in BOOLEAN
         /\ score.passed => score.scored
         /\ score.scored => s.market.given /\ offers # <<>>
<1>. DEFINE missing == MissingForScore(s.product, s.market, offers)
            result  == ScoreProduct(s.product, profit, s.market, offers)
<1>1. score = IF missing # Scored THEN NoScore
              ELSE [scored |-> TRUE, total |-> result.total, passed |-> result.passed, reasons |-> result.reasons]
  <2>. HIDE DEF missing, result
  <2>1. NoOutput.score = NoScore
    BY DEF NoOutput
  <2>. QED
    BY <2>1 DEF ScoreOutput, NoOutput, missing, result
<1>2. missing = Scored => s.market.given
  <2>1. ASSUME missing = Scored, ~s.market.given PROVE FALSE
    <3>1. CompetitionEvidence(s.market) = Scored
      BY <2>1, ScoredEvidence
    <3>2. s.market.listings = Unknown /\ s.market.top10 = Unknown
      BY <2>1, ScenariosAssumption
    <3>. QED
      BY <3>1, <3>2 DEF CompetitionEvidence, Scored, Unscored, None
  <2>2. s.market.given \in BOOLEAN
    BY ScenariosAssumption
  <2>. QED
    BY <2>1, <2>2
<1>3. missing = Scored => offers # <<>>
  <2>1. ASSUME missing = Scored, offers = <<>> PROVE FALSE
    <3>1. SupplyEvidence(offers) = Scored
      BY <2>1, ScoredEvidence
    <3>2. RealOffers(offers) = {}
      BY <2>1 DEF RealOffers
    <3>. QED
      BY <3>1, <3>2 DEF SupplyEvidence, Scored, Unscored, None
  <2>. QED
    BY <2>1
<1>4. result.passed \in BOOLEAN
  BY DEF ScoreProduct
<1>. HIDE DEF missing, result
<1>5. CASE missing # Scored
  BY <1>1, <1>5 DEF NoScore
<1>6. CASE missing = Scored
  <2>. DEFINE scored == [scored |-> TRUE, total |-> result.total, passed |-> result.passed, reasons |-> result.reasons]
  <2>1. /\ scored = [scored |-> scored.scored, total |-> scored.total, passed |-> scored.passed,
                      reasons |-> scored.reasons]
        /\ scored.scored = TRUE /\ scored.passed \in BOOLEAN
    BY <1>4
  <2>2. score = scored
    BY <1>1, <1>6
  <2>. HIDE DEF scored
  <2>. QED
    BY <1>2, <1>3, <1>6, <2>1, <2>2
<1>. QED
  BY <1>5, <1>6

-----------------------------------------------------------------------------
(* What the filter exports.                                                  *)

Asins(records) == {records[i].asin : i \in DOMAIN records}

LEMMA OnePicked ==
  ASSUME NEW list, NEW S, S \in {{}, {1}}
  PROVE  DOMAIN Picked(list, S) = S
<1>1. /\ IsFiniteSet({}) /\ Cardinality({}) = 0
      /\ IsFiniteSet({1}) /\ Cardinality({1}) = 1
  <2>1. IsFiniteSet({1}) /\ Cardinality({1}) = 1
    BY FS_Singleton
  <2>. QED
    BY <2>1, FS_EmptySet
<1>2. S \subseteq Nat /\ IsFiniteSet(S)
  BY <1>1
<1>3. Picks(Picked(list, S), list, S)
  BY <1>2, PickedPlaces
<1>4. DOMAIN Picked(list, S) = 1..Cardinality(S)
  BY <1>3 DEF Picks
<1>5. CASE S = {}
  BY <1>1, <1>4, <1>5
<1>6. CASE S = {1}
  BY <1>1, <1>4, <1>6
<1>. QED
  BY <1>5, <1>6

\* A single record is a candidate when it passes.
LEMMA OneCandidate ==
  ASSUME NEW r, r.passed \in BOOLEAN
  PROVE  Asins(DedupedByAsin(RankCandidates(<<r>>))) # {} <=> r.passed
<1>. DEFINE records == <<r>>
            passing == {i \in DOMAIN records : records[i].passed}
            passed  == Picked(records, passing)
            ranked  == RankCandidates(records)
            firsts  == {i \in DOMAIN ranked : i = Min({j \in DOMAIN ranked : ranked[j].asin = ranked[i].asin})}
<1>1. passing = IF r.passed THEN {1} ELSE {}
  OBVIOUS
<1>2. DOMAIN passed = passing
  <2>. HIDE DEF passing, records
  <2>. QED
    BY <1>1, OnePicked
<1>3. DOMAIN ranked = passing
  <2>1. DOMAIN ranked = 1..Cardinality(DOMAIN passed)
    BY DEF RankCandidates, Arranged
  <2>2. Cardinality({}) = 0 /\ Cardinality({1}) = 1
    <3>1. Cardinality({1}) = 1
      BY FS_Singleton
    <3>. QED
      BY <3>1, FS_EmptySet
  <2>. HIDE DEF passed, ranked, passing
  <2>. QED
    BY <1>1, <1>2, <2>1, <2>2
<1>4. firsts = passing
  <2>. HIDE DEF ranked, passing
  <2>1. ASSUME NEW i \in DOMAIN ranked PROVE Min({j \in DOMAIN ranked : ranked[j].asin = ranked[i].asin}) = i
    <3>. DEFINE same == {j \in DOMAIN ranked : ranked[j].asin = ranked[i].asin}
    <3>1. same = {1} /\ i = 1
      BY <1>1, <1>3, <2>1
    <3>2. same \subseteq Nat /\ same # {}
      BY <3>1
    <3>3. Min(same) \in same
      <4>. HIDE DEF same
      <4>. QED
        BY <3>2, MinIsLeast
    <3>. QED
      BY <3>1, <3>3
  <2>. QED
    BY <1>3, <2>1
<1>5. DOMAIN DedupedByAsin(ranked) = passing
  <2>1. \E list : DedupedByAsin(ranked) = Picked(list, firsts)
    <3>. HIDE DEF ranked
    <3>. QED
      BY DEF DedupedByAsin
  <2>. HIDE DEF ranked, firsts, passing
  <2>. QED
    BY <1>1, <1>4, <2>1, OnePicked
<1>6. RankCandidates(<<r>>) = ranked
  OBVIOUS
<1>. HIDE DEF ranked, passing
<1>. QED
  BY <1>1, <1>5, <1>6 DEF Asins

-----------------------------------------------------------------------------
(* What the pipeline makes of a match: the offers by profit, the profit, the *)
(* score and the recommendation, as functions of what the match has put out. *)

AppraisedOffers(s, offers) ==
  IF offers = <<>> \/ s.product.price <= 0 THEN offers
  ELSE ProfitOutput(RankedByProfit(s.product, offers)).offers

AppraisedProfit(s, offers) ==
  IF offers = <<>> \/ s.product.price <= 0 THEN NoProfit
  ELSE ProfitOutput(RankedByProfit(s.product, offers)).profit

AppraisedScore(s, offers) ==
  IF HasProfit(AppraisedProfit(s, offers))
  THEN ScoreOutput(s, AppraisedOffers(s, offers), AppraisedProfit(s, offers)).score ELSE NoScore

Settled(s, out) ==
  Finalized(s, [recommendation |-> out.recommendation, profit |-> AppraisedProfit(s, out.offers),
                score |-> AppraisedScore(s, out.offers)])

LEMMA MatchOutputHas ==
  ASSUME NEW m
  PROVE  MatchOutput(m).offers = m.offers /\ MatchOutput(m).recommendation = m.recommendation
BY DEF MatchOutput, NoOutput

LEMMA ProfitOutputHas ==
  ASSUME NEW ranking
  PROVE  /\ ProfitOutput(ranking).offers = ranking.offers
         /\ ProfitOutput(ranking).profit = IF HasProfit(ranking.profit) THEN ranking.profit ELSE NoProfit
         /\ ProfitOutput(ranking).reasons = CostReasons(ranking.profit.missing)
BY DEF ProfitOutput, NoOutput

LEMMA NoProfitIsNone == ~HasProfit(NoProfit)
BY DEF HasProfit, NoProfit, Insufficient

\* The profit of an appraised product is that of one of its offers.
LEMMA AppraisedProfitOf ==
  ASSUME NEW s \in Scenarios, NEW m \in Matches[s], HasProfit(AppraisedProfit(s, m.offers))
  PROVE  m.offers # <<>> /\ AppraisedProfit(s, m.offers).offer \in Names(m.offers)
<1>. DEFINE ranking == RankedByProfit(s.product, m.offers)
<1>1. m.offers # <<>> /\ ~(s.product.price <= 0)
  BY NoProfitIsNone DEF AppraisedProfit
<1>2. AppraisedProfit(s, m.offers) = IF HasProfit(ranking.profit) THEN ranking.profit ELSE NoProfit
  BY <1>1, ProfitOutputHas DEF AppraisedProfit
<1>3. HasProfit(ranking.profit) => ranking.profit.offer \in Names(m.offers)
  <2>. HIDE DEF ranking
  <2>1. ranking = RankedByProfit(s.product, m.offers)
    BY DEF ranking
  <2>. QED
    BY <1>1, <2>1, MatchRanking
<1>. HIDE DEF ranking
<1>. QED
  BY <1>1, <1>2, <1>3, NoProfitIsNone

\* A score that is passed is that of a product with market data, a profit and
\* an offer.
LEMMA AppraisedScoreOf ==
  ASSUME NEW s \in Scenarios, NEW m \in Matches[s],
         NEW score, score = AppraisedScore(s, m.offers)
  PROVE  /\ score.scored \in BOOLEAN /\ score.passed \in BOOLEAN
         /\ score.passed => score.scored
         /\ score.scored => HasProfit(AppraisedProfit(s, m.offers)) /\ s.market.given
<1>1. CASE HasProfit(AppraisedProfit(s, m.offers))
  <2>1. score = ScoreOutput(s, AppraisedOffers(s, m.offers), AppraisedProfit(s, m.offers)).score
    BY <1>1 DEF AppraisedScore
  <2>. QED
    BY <1>1, <2>1, ScoreHas
<1>2. CASE ~HasProfit(AppraisedProfit(s, m.offers))
  <2>1. score = NoScore
    BY <1>2 DEF AppraisedScore
  <2>. QED
    BY <2>1 DEF NoScore
<1>. QED
  BY <1>1, <1>2

\* Of the record only the recommendation, the profit and the score are looked at.
LEMMA FinalizedReads ==
  ASSUME NEW s, NEW m, NEW k, m.recommendation = k.recommendation, m.profit = k.profit, m.score = k.score
  PROVE  Finalized(s, m) = Finalized(s, k)
BY DEF Finalized

LEMMA EmptyList ==
  ASSUME NEW list, IsList(list), DOMAIN list = {}
  PROVE  list = <<>>
BY DEF IsList

\* What is settled is final, it recommends to buy exactly when the score is
\* passed, and what it recommends and counts with are offers of the match.
LEMMA SettledStands ==
  ASSUME NEW s \in Scenarios, NEW m \in Matches[s], Aimed(s.product),
         NEW r, r = Settled(s, MatchOutput(m))
  PROVE  /\ r.final = TRUE
         /\ r.status = "recommend" <=> AppraisedScore(s, m.offers).passed
         /\ r.status = "recommend" => r.offer \in Names(m.offers) /\ r.profit \in Names(m.offers)
<1>. DEFINE score  == AppraisedScore(s, m.offers)
            profit == AppraisedProfit(s, m.offers)
            gate   == m.recommendation
            given  == s.market.given
            record == [recommendation |-> gate, profit |-> profit, score |-> score]
            tasks  == {t \in {"calculate_profit", "evaluate_market", "complete_scoring_evidence"} :
                         CASE t = "calculate_profit" -> ~HasProfit(profit)
                           [] t = "evaluate_market"  -> ~given
                           [] OTHER                  -> ~score.scored}
            left   == gate.tasks \ ({"calculate_profit", "evaluate_market"} \ tasks)
            cost   == IF HasProfit(profit) /\ gate.accepted # <<>> THEN Head(gate.accepted) ELSE None
            base   == [gate EXCEPT !.final = TRUE, !.tasks = left, !.profit = profit.offer, !.cost = cost]
<1>1. IsGate(m)
  BY MatchIsMatch DEF IsMatch
<1>2. Settled(s, MatchOutput(m)) = Finalized(s, record)
  BY MatchOutputHas DEF Settled
<1>3. record.recommendation = gate /\ record.profit = profit /\ record.score = score
  OBVIOUS
<1>4. Finalized(s, record)
        = CASE gate.accepted = <<>> -> base
            [] gate.accepted # <<>> /\ ~score.scored ->
                 [base EXCEPT !.status = "needs_manual_review", !.tasks = @ \cup {"complete_scoring_evidence"}]
            [] gate.accepted # <<>> /\ score.scored /\ ~score.passed ->
                 [base EXCEPT !.status = "reject", !.reasons = @ \cup score.reasons]
            [] OTHER -> IF tasks = {} THEN [base EXCEPT !.status = "recommend", !.reasons = {}]
                        ELSE [base EXCEPT !.status = "needs_manual_review", !.tasks = @ \cup tasks]
  <2>. HIDE DEF profit, score, gate, record
  <2>. QED
    BY <1>3 DEF Finalized
<1>5. /\ DOMAIN base = DOMAIN NoRecommendation /\ base.final = TRUE /\ base.profit = profit.offer
      /\ base.status = gate.status /\ base.offer = gate.offer /\ base.accepted = gate.accepted
  <2>. HIDE DEF left, cost, profit
  <2>. QED
    BY <1>1 DEF IsGate, Undecided, NoRecommendation
<1>6. gate.accepted = <<>> <=> m.offers = <<>>
  <2>1. DOMAIN gate.accepted = DOMAIN m.offers
    BY <1>1 DEF IsGate
  <2>2. m.offers = <<>> => gate.accepted = <<>>
    BY <1>1 DEF IsGate
  <2>3. ASSUME gate.accepted = <<>> PROVE m.offers = <<>>
    <3>1. IsList(m.offers) /\ DOMAIN m.offers = {}
      BY <1>1, <2>1, <2>3 DEF IsGate
    <3>. QED
      BY <3>1, EmptyList
  <2>. QED
    BY <2>2, <2>3
<1>7. /\ score.scored \in BOOLEAN /\ score.passed \in BOOLEAN
      /\ score.passed => score.scored
      /\ score.scored => HasProfit(profit) /\ given
  <2>. HIDE DEF score
  <2>1. score = AppraisedScore(s, m.offers)
    BY DEF score
  <2>. QED
    BY <2>1, AppraisedScoreOf
<1>8. HasProfit(profit) => m.offers # <<>> /\ profit.offer \in Names(m.offers)
  BY AppraisedProfitOf
<1>9. score.scored => tasks = {}
  <2>. HIDE DEF score, profit
  <2>. QED
    BY <1>7
<1>. HIDE DEF base, score, profit, tasks, record
<1>10. CASE gate.accepted = <<>>
  <2>1. r = base
    BY <1>2, <1>4, <1>10
  <2>2. gate.status # "recommend"
    BY <1>1 DEF IsGate, Undecided
  <2>3. ~score.passed
    BY <1>6, <1>7, <1>8, <1>10
  <2>. QED
    BY <1>5, <2>1, <2>2, <2>3 DEF score
<1>11. CASE gate.accepted # <<>> /\ ~score.scored
  <2>1. r = [base EXCEPT !.status = "needs_manual_review", !.tasks = @ \cup {"complete_scoring_evidence"}]
    BY <1>2, <1>4, <1>11
  <2>2. r.final = TRUE /\ r.status # "recommend"
    BY <1>5, <2>1 DEF NoRecommendation
  <2>. QED
    BY <1>7, <1>11, <2>2 DEF score
<1>12. CASE gate.accepted # <<>> /\ score.scored /\ ~score.passed
  <2>1. r = [base EXCEPT !.status = "reject", !.reasons = @ \cup score.reasons]
    BY <1>2, <1>4, <1>12
  <2>2. r.final = TRUE /\ r.status # "recommend"
    BY <1>5, <2>1 DEF NoRecommendation
  <2>. QED
    BY <1>12, <2>2 DEF score
<1>13. CASE gate.accepted # <<>> /\ score.scored /\ score.passed
  <2>1. r = [base EXCEPT !.status = "recommend", !.reasons = {}]
    BY <1>2, <1>4, <1>9, <1>13
  <2>2. r.final = TRUE /\ r.status = "recommend" /\ r.offer = gate.offer /\ r.profit = profit.offer
    BY <1>5, <2>1 DEF NoRecommendation
  <2>3. gate.offer \in Names(m.offers)
    BY <1>1, <1>6, <1>13 DEF IsGate
  <2>. QED
    BY <1>7, <1>8, <1>13, <2>2, <2>3 DEF score
<1>. QED
  BY <1>7, <1>10, <1>11, <1>12, <1>13

-----------------------------------------------------------------------------
(* The invariant.                                                            *)

IsRow(row, statuses) ==
  /\ row = [status |-> row.status, generation |-> row.generation, input |-> row.input, output |-> row.output]
  /\ row.status \in statuses /\ row.generation \in Nat

IsMemory(m) ==
  /\ m = [product |-> m.product, offers |-> m.offers, recommendation |-> m.recommendation,
          profit |-> m.profit, score |-> m.score, reasons |-> m.reasons]
  /\ m.product \in {"ingested", "enriched"}

MatchStatuses  == {"absent", "pending", "succeeded", "failed"}
ProfitStatuses == MatchStatuses \cup {"skipped"}
ScoreStatuses  == {"absent", "pending", "succeeded", "skipped"}

\* The nodes and the record have the shape of rows and of a record.
AppraisalTypeOK ==
  /\ scenario \in Scenarios
  /\ node = [stage \in Stages |-> node[stage]]
  /\ IsRow(node["match"], MatchStatuses)
  /\ IsRow(node["profit"], ProfitStatuses)
  /\ IsRow(node["score"], ScoreStatuses)
  /\ IsMemory(memory)
  /\ pc \in {"idle", "match", "profit", "score", "finalize", "filter"}

\* A match node is fed with the ingested product, and one that succeeded put
\* out what a match may come to.
MatchRow(row, s) ==
  /\ row.status = "absent" => row.generation = 0
  /\ row.status # "absent" => row.input = <<"ingested">>
  /\ row.status = "succeeded" => \E m \in Matches[s] : row.output = MatchOutput(m)

\* A profit node is fed with a match that succeeded, the present one or one
\* before it.
ProfitInput(row, of) ==
  \/ row.input = <<>> /\ row.status = "absent"
  \/ /\ row.input = <<row.input[1], "succeeded", row.input[3]>>
     /\ row.input[3] \in Nat /\ row.input[3] <= of.generation
     /\ row.input[3] = of.generation => of.status = "succeeded"

\* A profit node of the present match put out the profit of its offers; it
\* fails only without a price and is skipped only without an offer.
ProfitRow(row, of, s) ==
  /\ ProfitInput(row, of)
  /\ row.status = "failed" => s.product.price <= 0
  /\ row.status = "succeeded" /\ row.input[3] = of.generation =>
       /\ of.output.offers # <<>> /\ ~(s.product.price <= 0)
       /\ row.output = ProfitOutput(RankedByProfit(s.product, of.output.offers))
  /\ row.status = "skipped" /\ row.input[3] = of.generation => of.output.offers = <<>>

\* A score node put out the score of what it was fed with.
ScoreRow(row, s) ==
  /\ row.status = "succeeded" => row.output = ScoreOutput(s, row.input[2], row.input[3])
  /\ row.status = "skipped" => ~HasProfit(row.input[3])

\* What the record of a pass holds is what the match has put out, and past a
\* stage what the pipeline makes of that, whatever was computed and whatever
\* was loaded.
Carried(m, at, of, s) ==
  /\ at = "match" => m = FreshMemory
  /\ at \in {"profit", "score", "finalize", "filter"} /\ of.status # "succeeded" =>
       m.offers = <<>> /\ m.recommendation = NoRecommendation /\ m.profit = NoProfit /\ m.score = NoScore
  /\ at \in {"profit", "score", "finalize", "filter"} /\ of.status = "succeeded" =>
       /\ m.recommendation = of.output.recommendation
       /\ m.offers = IF at = "profit" THEN of.output.offers ELSE AppraisedOffers(s, of.output.offers)
       /\ m.profit = IF at = "profit" THEN NoProfit ELSE AppraisedProfit(s, of.output.offers)
       /\ m.score = IF at \in {"finalize", "filter"} THEN AppraisedScore(s, of.output.offers) ELSE NoScore

\* A final recommendation is the one the pipeline makes of the match.
Standing(r, at, of, s) ==
  /\ ~Aimed(s.product) => r = NoRecommendation
  /\ r.final \in BOOLEAN
  /\ ~r.final => r.status # "recommend"
  /\ r.final /\ of.status = "succeeded" => r = Settled(s, of.output)
  /\ at = "filter" /\ of.status = "succeeded" /\ Aimed(s.product) => r.final

AInv ==
  /\ AppraisalTypeOK
  /\ MatchRow(node["match"], scenario)
  /\ ProfitRow(node["profit"], node["match"], scenario)
  /\ ScoreRow(node["score"], scenario)
  /\ Carried(memory, pc, node["match"], scenario)
  /\ Standing(recommendation, pc, node["match"], scenario)

LEMMA EnterKeeps ==
  ASSUME AInv, Enter
  PROVE  AInv'
<1>1. pc' = "match" /\ memory' = FreshMemory
  BY DEF Enter
<1>2. scenario' = scenario /\ node' = node /\ recommendation' = recommendation
  BY DEF Enter
<1>3. AppraisalTypeOK'
  BY <1>1, <1>2 DEF AInv, AppraisalTypeOK, FreshMemory, IsMemory
<1>4. Carried(memory, pc, node["match"], scenario)'
  BY <1>1 DEF Carried
<1>5. Standing(recommendation, pc, node["match"], scenario)'
  BY <1>1, <1>2 DEF AInv, Standing
<1>. QED
  BY <1>2, <1>3, <1>4, <1>5 DEF AInv

-----------------------------------------------------------------------------
(* What a stage does to its row.                                             *)

EnsuredRow(row, input) ==
  LET changed == row.input # input
  IN  CASE row.status = "absent" -> [row EXCEPT !.status = "pending", !.generation = 1, !.input = input]
        [] row.status \in {"succeeded", "skipped"} /\ changed ->
             [row EXCEPT !.status = "pending", !.generation = @ + 1, !.input = input, !.output = NoOutput]
        [] row.status \in {"pending", "failed"} -> [row EXCEPT !.input = input]
        [] OTHER -> row

LEMMA EnsuredIsRow ==
  ASSUME NEW stage, NEW input, input = InputOf(stage)
  PROVE  Ensured(stage) = EnsuredRow(node[stage], input)
BY DEF Ensured, EnsuredRow

\* A row that is made ready is pending with its input, or it rests: it failed
\* before, or it has the input it is asked for.
LEMMA ReadyRow ==
  ASSUME NEW row, IsRow(row, ProfitStatuses), NEW input, NEW ready, ready = EnsuredRow(row, input)
  PROVE  /\ IsRow(ready, ProfitStatuses) /\ ready.status # "absent"
         /\ ready.status = "pending" => ready.input = input
         /\ ready.status = "pending" => row.status # "failed"
         /\ ready.status = "pending" /\ row.status \in {"succeeded", "skipped"} => row.input # input
         /\ ready.status = "pending" /\ row.status \in {"absent", "pending"} =>
              ready.generation = IF row.status = "absent" THEN 1 ELSE row.generation
         /\ ready.status = "failed" => row.status = "failed" /\ ready.input = input
         /\ ready.status = "failed" => ready.generation = row.generation
         /\ ready.status \in {"succeeded", "skipped"} => ready = row /\ row.input = input
<1>1. row.status \in ProfitStatuses /\ row.generation \in Nat
      /\ DOMAIN row = {"status", "generation", "input", "output"}
  BY DEF IsRow
<1>2. CASE row.status = "absent"
  <2>1. ready = [row EXCEPT !.status = "pending", !.generation = 1, !.input = input]
    BY <1>2 DEF EnsuredRow
  <2>2. /\ ready = [status |-> ready.status, generation |-> ready.generation, input |-> ready.input,
                    output |-> ready.output]
        /\ ready.status = "pending" /\ ready.generation = 1 /\ ready.input = input
    BY <2>1 DEF IsRow
  <2>3. IsRow(ready, ProfitStatuses)
    BY <2>2 DEF IsRow, ProfitStatuses, MatchStatuses
  <2>. QED
    BY <1>2, <2>2, <2>3
<1>3. CASE row.status \in {"succeeded", "skipped"} /\ row.input # input
  <2>1. ready = [row EXCEPT !.status = "pending", !.generation = @ + 1, !.input = input, !.output = NoOutput]
    BY <1>3 DEF EnsuredRow
  <2>2. /\ ready = [status |-> ready.status, generation |-> ready.generation, input |-> ready.input,
                    output |-> ready.output]
        /\ ready.status = "pending" /\ ready.generation = row.generation + 1 /\ ready.input = input
    BY <2>1 DEF IsRow
  <2>3. IsRow(ready, ProfitStatuses)
    BY <1>1, <2>2 DEF IsRow, ProfitStatuses, MatchStatuses
  <2>. QED
    BY <1>3, <2>2, <2>3
<1>4. CASE row.status \in {"pending", "failed"}
  <2>1. ready = [row EXCEPT !.input = input]
    BY <1>4 DEF EnsuredRow
  <2>. QED
    BY <1>1, <1>4, <2>1 DEF IsRow, ProfitStatuses, MatchStatuses
<1>5. CASE row.status \in {"succeeded", "skipped"} /\ row.input = input
  <2>1. ready = row
    BY <1>5 DEF EnsuredRow
  <2>. QED
    BY <1>5, <2>1
<1>. QED
  BY <1>1, <1>2, <1>3, <1>4, <1>5 DEF ProfitStatuses, MatchStatuses

\* The edits of a row that a stage makes.
Closed(row, status, output) == [row EXCEPT !.status = status, !.output = output]
Ended(row, status) == [row EXCEPT !.status = status]

LEMMA ClosedRow ==
  ASSUME NEW row, IsRow(row, ProfitStatuses), NEW status, NEW output,
         NEW closed, closed = Closed(row, status, output)
  PROVE  /\ closed = [status |-> closed.status, generation |-> closed.generation, input |-> closed.input,
                      output |-> closed.output]
         /\ closed.status = status /\ closed.output = output
         /\ closed.generation = row.generation /\ closed.input = row.input
         /\ closed.generation \in Nat
BY DEF IsRow, Closed

LEMMA EndedRow ==
  ASSUME NEW row, IsRow(row, ProfitStatuses), NEW status, NEW ended, ended = Ended(row, status)
  PROVE  /\ ended = [status |-> ended.status, generation |-> ended.generation, input |-> ended.input,
                     output |-> ended.output]
         /\ ended.status = status /\ ended.output = row.output
         /\ ended.generation = row.generation /\ ended.input = row.input
         /\ ended.generation \in Nat
BY DEF IsRow, Ended

\* The row of another stage is not touched.
LEMMA PutRow ==
  ASSUME NEW n, n = [stage \in Stages |-> n[stage]], NEW at \in Stages, NEW row, NEW k, k = [n EXCEPT ![at] = row]
  PROVE  /\ k = [stage \in Stages |-> k[stage]] /\ k[at] = row
         /\ \A stage \in Stages \ {at} : k[stage] = n[stage]
OBVIOUS

\* A match that moves on leaves a profit node behind that was not fed with it.
LEMMA MatchNodeMoves ==
  ASSUME NEW row, NEW of, NEW moved, NEW s, ProfitRow(row, of, s), of.generation \in Nat, moved.generation \in Nat,
         \/ of.status # "succeeded" /\ of.generation <= moved.generation
         \/ of.generation < moved.generation
  PROVE  ProfitRow(row, moved, s)
<1>1. CASE row.input = <<>> /\ row.status = "absent"
  BY <1>1 DEF ProfitRow, ProfitInput
<1>2. CASE ~(row.input = <<>> /\ row.status = "absent")
  <2>1. /\ row.input = <<row.input[1], "succeeded", row.input[3]>>
        /\ row.input[3] \in Nat /\ row.input[3] <= of.generation
        /\ row.input[3] = of.generation => of.status = "succeeded"
    BY <1>2 DEF ProfitRow, ProfitInput
  <2>2. row.input[3] < moved.generation
    BY <2>1
  <2>. QED
    BY <2>1, <2>2 DEF ProfitRow, ProfitInput
<1>. QED
  BY <1>1, <1>2

-----------------------------------------------------------------------------
(* The match keeps the invariant.                                            *)

\* The nodes have the shape of rows and put out what they should.
NodesOK ==
  /\ scenario \in Scenarios
  /\ node = [stage \in Stages |-> node[stage]]
  /\ IsRow(node["match"], MatchStatuses)
  /\ IsRow(node["profit"], ProfitStatuses)
  /\ IsRow(node["score"], ScoreStatuses)
  /\ MatchRow(node["match"], scenario)
  /\ ProfitRow(node["profit"], node["match"], scenario)
  /\ ScoreRow(node["score"], scenario)

LEMMA NodesInvariant ==
  AInv <=> /\ NodesOK /\ IsMemory(memory)
           /\ pc \in {"idle", "match", "profit", "score", "finalize", "filter"}
           /\ Carried(memory, pc, node["match"], scenario)
           /\ Standing(recommendation, pc, node["match"], scenario)
BY DEF AInv, AppraisalTypeOK, NodesOK

LEMMA MatchReady ==
  ASSUME NodesOK, NEW ready, ready = Ensured("match"), NEW row, row = node["match"]
  PROVE  /\ IsRow(ready, ProfitStatuses) /\ ready.status \in {"pending", "succeeded", "failed"}
         /\ ready.input = <<"ingested">>
         /\ ready.status = "pending" => row.status \in {"absent", "pending"} /\ row.generation <= ready.generation
         /\ ready.status = "failed" => row.status = "failed" /\ row.generation = ready.generation
         /\ ready.status = "succeeded" => ready = row
<1>. DEFINE input == <<"ingested">>
<1>1. ready = EnsuredRow(row, input)
  BY EnsuredIsRow DEF InputOf
<1>2. IsRow(row, MatchStatuses) /\ IsRow(row, ProfitStatuses)
  BY DEF NodesOK, IsRow, ProfitStatuses
<1>3. /\ row.status = "absent" => row.generation = 0
      /\ row.status # "absent" => row.input = input
  BY DEF NodesOK, MatchRow
<1>4. row.status # "skipped" /\ row.generation \in Nat /\ row.status \in MatchStatuses
  BY <1>2 DEF IsRow, MatchStatuses
<1>. HIDE DEF input
<1>5. /\ IsRow(ready, ProfitStatuses) /\ ready.status # "absent"
      /\ ready.status = "pending" => ready.input = input
      /\ ready.status = "pending" => row.status # "failed"
      /\ ready.status = "pending" /\ row.status \in {"succeeded", "skipped"} => row.input # input
      /\ ready.status = "pending" /\ row.status \in {"absent", "pending"} =>
           ready.generation = IF row.status = "absent" THEN 1 ELSE row.generation
      /\ ready.status = "failed" => row.status = "failed" /\ ready.input = input
      /\ ready.status = "failed" => ready.generation = row.generation
      /\ ready.status \in {"succeeded", "skipped"} => ready = row /\ row.input = input
  BY <1>1, <1>2, ReadyRow
<1>6. ready.status \in {"pending", "succeeded", "failed"}
  BY <1>4, <1>5 DEF IsRow, ProfitStatuses, MatchStatuses
<1>7. ready.status = "pending" => row.status \in {"absent", "pending"}
  BY <1>3, <1>4, <1>5 DEF MatchStatuses
<1>8. ready.status = "pending" => row.generation <= ready.generation
  BY <1>3, <1>4, <1>5, <1>7
<1>9. ready.input = input
  BY <1>5, <1>6
<1>. QED
  BY <1>5, <1>6, <1>7, <1>8, <1>9 DEF input

LEMMA MatchPut ==
  ASSUME NodesOK, NEW moved, node' = [node EXCEPT !["match"] = moved], scenario' = scenario,
         IsRow(moved, MatchStatuses), MatchRow(moved, scenario),
         \/ moved = node["match"]
         \/ node["match"].status # "succeeded" /\ node["match"].generation <= moved.generation
         \/ node["match"].generation < moved.generation
  PROVE  NodesOK' /\ node'["match"] = moved
<1>1. /\ node' = [stage \in Stages |-> node'[stage]] /\ node'["match"] = moved
      /\ node'["profit"] = node["profit"] /\ node'["score"] = node["score"]
  <2>1. node = [stage \in Stages |-> node[stage]] /\ "match" \in Stages
    BY DEF NodesOK, Stages
  <2>2. /\ node' = [stage \in Stages |-> node'[stage]] /\ node'["match"] = moved
        /\ \A stage \in Stages \ {"match"} : node'[stage] = node[stage]
    BY <2>1, PutRow
  <2>. QED
    BY <2>2 DEF Stages
<1>2. ProfitRow(node["profit"], moved, scenario)
  <2>1. ProfitRow(node["profit"], node["match"], scenario)
    BY DEF NodesOK
  <2>2. node["match"].generation \in Nat /\ moved.generation \in Nat
    BY DEF NodesOK, IsRow
  <2>. QED
    BY <2>1, <2>2, MatchNodeMoves
<1>. QED
  BY <1>1, <1>2 DEF NodesOK

LEMMA MatchRunsKeeps ==
  ASSUME AInv, MatchRuns
  PROVE  AInv' /\ node'["match"] # node["match"]
<1>1. NodesOK /\ IsMemory(memory) /\ Carried(memory, pc, node["match"], scenario)
        /\ Standing(recommendation, pc, node["match"], scenario)
  BY NodesInvariant
<1>2. pc = "match" /\ pc' = "profit" /\ scenario' = scenario /\ Ensured("match").status = "pending"
  BY DEF MatchRuns, Due
<1>3. PICK s, ready, row : s = scenario /\ ready = Ensured("match") /\ row = node["match"]
  OBVIOUS
<1>4. PICK m \in Matches[s] : /\ Succeeds("match", MatchOutput(m))
                              /\ memory' = Enriched(WithMatch(m))
                              /\ recommendation' = IF Aimed(Product) THEN m.recommendation ELSE recommendation
  BY <1>3 DEF MatchRuns
<1>5. s \in Scenarios /\ IsMatch(s, m)
  BY <1>1, <1>3, MatchIsMatch DEF NodesOK
<1>6. PICK moved : moved = Closed(ready, "succeeded", MatchOutput(m))
  OBVIOUS
<1>7. node' = [node EXCEPT !["match"] = moved]
  BY <1>3, <1>4, <1>6 DEF Succeeds, Put, Closed
<1>8. /\ IsRow(ready, ProfitStatuses) /\ ready.input = <<"ingested">> /\ ready.status = "pending"
      /\ row.status \in {"absent", "pending"} /\ row.generation <= ready.generation
  BY <1>1, <1>2, <1>3, MatchReady
<1>9. /\ moved = [status |-> moved.status, generation |-> moved.generation, input |-> moved.input,
                  output |-> moved.output]
      /\ moved.status = "succeeded" /\ moved.output = MatchOutput(m)
      /\ moved.generation = ready.generation /\ moved.input = ready.input
      /\ moved.generation \in Nat
  BY <1>6, <1>8, ClosedRow
<1>10. NodesOK' /\ node'["match"] = moved
  <2>1. IsRow(moved, MatchStatuses)
    BY <1>9 DEF IsRow, MatchStatuses
  <2>2. MatchRow(moved, scenario)
    BY <1>3, <1>8, <1>9 DEF MatchRow
  <2>3. node["match"].status # "succeeded" /\ node["match"].generation <= moved.generation
    BY <1>3, <1>8, <1>9
  <2>. QED
    BY <1>1, <1>2, <1>7, <2>1, <2>2, <2>3, MatchPut
<1>11. /\ IsMemory(memory') /\ memory'.offers = m.offers /\ memory'.recommendation = m.recommendation
       /\ memory'.profit = NoProfit /\ memory'.score = NoScore
  <2>1. memory = FreshMemory
    BY <1>1, <1>2 DEF Carried
  <2>. QED
    BY <1>4, <2>1 DEF Enriched, WithMatch, FreshMemory, IsMemory
<1>12. Carried(memory, pc, node["match"], scenario)'
  BY <1>2, <1>9, <1>10, <1>11, MatchOutputHas DEF Carried
<1>13. Standing(recommendation, pc, node["match"], scenario)'
  <2>1. CASE Aimed(s.product)
    <3>1. recommendation' = m.recommendation
      BY <1>3, <1>4, <2>1 DEF Product
    <3>2. Undecided(m.recommendation)
      BY <1>5, <2>1 DEF IsMatch, IsGate
    <3>. QED
      BY <1>2, <1>3, <2>1, <3>1, <3>2 DEF Standing, Undecided
  <2>2. CASE ~Aimed(s.product)
    <3>1. recommendation' = NoRecommendation
      BY <1>1, <1>3, <1>4, <2>2 DEF Product, Standing
    <3>2. NoRecommendation.final = FALSE /\ NoRecommendation.status # "recommend"
      BY DEF NoRecommendation, None
    <3>. QED
      BY <1>2, <1>3, <2>2, <3>1, <3>2 DEF Standing
  <2>. QED
    BY <2>1, <2>2
<1>14. AInv'
  BY <1>2, <1>10, <1>11, <1>12, <1>13 DEF AInv, AppraisalTypeOK, NodesOK
<1>15. node'["match"] # node["match"]
  BY <1>3, <1>8, <1>9, <1>10
<1>. QED
  BY <1>14, <1>15

LEMMA MatchFailsKeeps ==
  ASSUME AInv, MatchFails
  PROVE  AInv' /\ recommendation' = recommendation
<1>1. NodesOK /\ IsMemory(memory) /\ Carried(memory, pc, node["match"], scenario)
        /\ Standing(recommendation, pc, node["match"], scenario)
  BY NodesInvariant
<1>2. /\ pc = "match" /\ pc' = "profit" /\ scenario' = scenario /\ recommendation' = recommendation
      /\ Ensured("match").status = "pending" /\ memory' = Enriched(memory)
  BY DEF MatchFails, Due
<1>3. PICK ready, row : ready = Ensured("match") /\ row = node["match"]
  OBVIOUS
<1>4. PICK moved : moved = Ended(ready, "failed")
  OBVIOUS
<1>5. node' = [node EXCEPT !["match"] = moved]
  BY <1>3, <1>4 DEF MatchFails, Fails, Put, Ended
<1>6. /\ IsRow(ready, ProfitStatuses) /\ ready.input = <<"ingested">> /\ ready.status = "pending"
      /\ row.status \in {"absent", "pending"} /\ row.generation <= ready.generation
  BY <1>1, <1>2, <1>3, MatchReady
<1>7. /\ moved = [status |-> moved.status, generation |-> moved.generation, input |-> moved.input,
                  output |-> moved.output]
      /\ moved.status = "failed" /\ moved.output = ready.output
      /\ moved.generation = ready.generation /\ moved.input = ready.input
      /\ moved.generation \in Nat
  BY <1>4, <1>6, EndedRow
<1>8. NodesOK' /\ node'["match"] = moved
  <2>1. IsRow(moved, MatchStatuses)
    BY <1>7 DEF IsRow, MatchStatuses
  <2>2. MatchRow(moved, scenario)
    BY <1>6, <1>7 DEF MatchRow
  <2>3. node["match"].status # "succeeded" /\ node["match"].generation <= moved.generation
    BY <1>3, <1>6, <1>7
  <2>. QED
    BY <1>1, <1>2, <1>5, <2>1, <2>2, <2>3, MatchPut
<1>9. /\ IsMemory(memory') /\ memory'.offers = <<>> /\ memory'.recommendation = NoRecommendation
      /\ memory'.profit = NoProfit /\ memory'.score = NoScore
  <2>1. memory = FreshMemory
    BY <1>1, <1>2 DEF Carried
  <2>. QED
    BY <1>2, <2>1 DEF Enriched, FreshMemory, IsMemory
<1>10. Carried(memory, pc, node["match"], scenario)'
  BY <1>2, <1>7, <1>8, <1>9 DEF Carried
<1>11. Standing(recommendation, pc, node["match"], scenario)'
  BY <1>1, <1>2, <1>7, <1>8 DEF Standing
<1>. QED
  BY <1>2, <1>8, <1>9, <1>10, <1>11 DEF AInv, AppraisalTypeOK, NodesOK

LEMMA MatchRestsKeeps ==
  ASSUME AInv, MatchRests
  PROVE  AInv' /\ recommendation' = recommendation
<1>1. NodesOK /\ IsMemory(memory) /\ Carried(memory, pc, node["match"], scenario)
        /\ Standing(recommendation, pc, node["match"], scenario)
  BY NodesInvariant
<1>2. /\ pc = "match" /\ pc' = "profit" /\ scenario' = scenario /\ recommendation' = recommendation
      /\ Ensured("match").status # "pending"
  BY DEF MatchRests, Due
<1>3. PICK ready, row : ready = Ensured("match") /\ row = node["match"]
  OBVIOUS
<1>4. /\ node' = [node EXCEPT !["match"] = ready]
      /\ memory' = IF ready.status = "succeeded" THEN WithMatch(ready.output) ELSE memory
  BY <1>3 DEF MatchRests, Put, RowServes
<1>5. /\ IsRow(ready, ProfitStatuses) /\ ready.status \in {"succeeded", "failed"}
      /\ ready.input = <<"ingested">>
      /\ ready.status = "failed" => row.status = "failed" /\ row.generation = ready.generation
      /\ ready.status = "succeeded" => ready = row
  BY <1>1, <1>2, <1>3, MatchReady
<1>6. memory = FreshMemory
  BY <1>1, <1>2 DEF Carried
<1>7. MatchRow(ready, scenario)
  BY <1>1, <1>3, <1>5 DEF MatchRow, NodesOK
<1>8. NodesOK' /\ node'["match"] = ready
  <2>1. IsRow(ready, MatchStatuses)
    BY <1>5 DEF IsRow, MatchStatuses
  <2>2. \/ ready = node["match"]
        \/ node["match"].status # "succeeded" /\ node["match"].generation <= ready.generation
    BY <1>3, <1>5 DEF IsRow
  <2>. QED
    BY <1>1, <1>2, <1>4, <1>7, <2>1, <2>2, MatchPut
<1>9. CASE ready.status = "succeeded"
  <2>1. /\ IsMemory(memory') /\ memory'.offers = ready.output.offers
        /\ memory'.recommendation = ready.output.recommendation
        /\ memory'.profit = NoProfit /\ memory'.score = NoScore
    BY <1>4, <1>6, <1>9 DEF WithMatch, FreshMemory, IsMemory
  <2>2. Carried(memory, pc, node["match"], scenario)'
    BY <1>2, <1>8, <1>9, <2>1 DEF Carried
  <2>3. Standing(recommendation, pc, node["match"], scenario)'
    BY <1>1, <1>2, <1>3, <1>5, <1>8, <1>9 DEF Standing
  <2>. QED
    BY <1>2, <1>8, <2>1, <2>2, <2>3 DEF AInv, AppraisalTypeOK, NodesOK
<1>10. CASE ready.status = "failed"
  <2>1. /\ IsMemory(memory') /\ memory'.offers = <<>> /\ memory'.recommendation = NoRecommendation
        /\ memory'.profit = NoProfit /\ memory'.score = NoScore
    BY <1>4, <1>6, <1>10 DEF FreshMemory, IsMemory
  <2>2. Carried(memory, pc, node["match"], scenario)'
    BY <1>2, <1>8, <1>10, <2>1 DEF Carried
  <2>3. Standing(recommendation, pc, node["match"], scenario)'
    BY <1>1, <1>2, <1>8, <1>10 DEF Standing
  <2>. QED
    BY <1>2, <1>8, <2>1, <2>2, <2>3 DEF AInv, AppraisalTypeOK, NodesOK
<1>. QED
  BY <1>5, <1>9, <1>10, <1>2

-----------------------------------------------------------------------------
(* The profit keeps the invariant.                                           *)

LEMMA ProfitReady ==
  ASSUME NodesOK, node["match"].status = "succeeded", NEW ready, ready = Ensured("profit"),
         NEW row, row = node["profit"], NEW of, of = node["match"]
  PROVE  /\ IsRow(ready, ProfitStatuses) /\ ready.status # "absent"
         /\ ready.input = <<memory.product, "succeeded", of.generation>>
         /\ ready.status \in {"succeeded", "skipped"} => ready = row
         /\ ready.status = "failed" => row.status = "failed"
<1>1. PICK input : input = <<memory.product, "succeeded", of.generation>>
  OBVIOUS
<1>2. ready = EnsuredRow(row, input)
  BY <1>1, EnsuredIsRow DEF InputOf
<1>3. IsRow(row, ProfitStatuses)
  BY DEF NodesOK
<1>4. /\ IsRow(ready, ProfitStatuses) /\ ready.status # "absent"
      /\ ready.status = "pending" => ready.input = input
      /\ ready.status = "failed" => row.status = "failed" /\ ready.input = input
      /\ ready.status \in {"succeeded", "skipped"} => ready = row /\ row.input = input
  BY <1>2, <1>3, ReadyRow
<1>. QED
  BY <1>1, <1>4 DEF IsRow, ProfitStatuses, MatchStatuses

LEMMA ProfitPut ==
  ASSUME NodesOK, NEW moved, node' = [node EXCEPT !["profit"] = moved], scenario' = scenario,
         IsRow(moved, ProfitStatuses), ProfitRow(moved, node["match"], scenario)
  PROVE  NodesOK' /\ node'["match"] = node["match"]
<1>1. /\ node' = [stage \in Stages |-> node'[stage]] /\ node'["profit"] = moved
      /\ node'["match"] = node["match"] /\ node'["score"] = node["score"]
  <2>1. node = [stage \in Stages |-> node[stage]] /\ "profit" \in Stages
    BY DEF NodesOK, Stages
  <2>2. /\ node' = [stage \in Stages |-> node'[stage]] /\ node'["profit"] = moved
        /\ \A stage \in Stages \ {"profit"} : node'[stage] = node[stage]
    BY <2>1, PutRow
  <2>. QED
    BY <2>2 DEF Stages
<1>. QED
  BY <1>1 DEF NodesOK

\* A row with the input of the present match.
LEMMA FedByMatch ==
  ASSUME NEW row, NEW of, NEW p, row.input = <<p, "succeeded", of.generation>>, of.status = "succeeded",
         of.generation \in Nat
  PROVE  ProfitInput(row, of) /\ row.input[3] = of.generation
BY DEF ProfitInput

\* What the record holds when the profit of a match is to be computed.
LEMMA ProfitStarts ==
  ASSUME AInv, pc = "profit", node["match"].status = "succeeded", NEW s, s = scenario, NEW of, of = node["match"]
  PROVE  /\ s \in Scenarios /\ of.generation \in Nat
         /\ \E m \in Matches[s] : of.output = MatchOutput(m) /\ of.output.offers = m.offers
         /\ memory.offers = of.output.offers /\ memory.recommendation = of.output.recommendation
         /\ memory.profit = NoProfit /\ memory.score = NoScore
BY MatchOutputHas DEF AInv, AppraisalTypeOK, Carried, IsRow, MatchRow

LEMMA ProfitRunsKeeps ==
  ASSUME AInv, ProfitRuns
  PROVE  AInv' /\ recommendation' = recommendation
<1>1. NodesOK /\ IsMemory(memory) /\ Standing(recommendation, pc, node["match"], scenario)
  BY NodesInvariant
<1>2. /\ pc = "profit" /\ pc' = "score" /\ scenario' = scenario /\ recommendation' = recommendation
      /\ node["match"].status = "succeeded" /\ memory.offers # <<>> /\ Ensured("profit").status = "pending"
  BY DEF ProfitRuns, Due
<1>3. PICK s, ready, of, row : s = scenario /\ ready = Ensured("profit") /\ of = node["match"] /\ row = node["profit"]
  OBVIOUS
<1>4. /\ s \in Scenarios /\ of.generation \in Nat /\ of.status = "succeeded"
      /\ \E m \in Matches[s] : of.output = MatchOutput(m) /\ of.output.offers = m.offers
      /\ memory.offers = of.output.offers /\ memory.recommendation = of.output.recommendation
      /\ memory.profit = NoProfit /\ memory.score = NoScore
  BY <1>2, <1>3, ProfitStarts
<1>5. PICK m \in Matches[s] : of.output = MatchOutput(m) /\ of.output.offers = m.offers
  BY <1>4
<1>6. PICK ranking : ranking = RankedByProfit(s.product, m.offers)
  OBVIOUS
<1>7. m.offers # <<>> /\ (ranking.profit.missing = {"selling_price"} <=> s.product.price <= 0)
  <2>1. m.offers # <<>>
    BY <1>2, <1>4, <1>5
  <2>. QED
    BY <1>4, <1>6, <2>1, MatchRanking
<1>8. PICK out : out = ProfitOutput(ranking)
  OBVIOUS
<1>9. IF ranking.profit.missing = {"selling_price"} THEN Fails("profit") /\ memory' = memory
      ELSE Succeeds("profit", out) /\ memory' = WithProfit(out)
  BY <1>3, <1>4, <1>5, <1>6, <1>8 DEF ProfitRuns, Product
<1>10. /\ IsRow(ready, ProfitStatuses) /\ ready.input = <<memory.product, "succeeded", of.generation>>
  BY <1>1, <1>2, <1>3, ProfitReady
<1>11. CASE s.product.price <= 0
  <2>1. Fails("profit") /\ memory' = memory
    BY <1>7, <1>9, <1>11
  <2>2. PICK moved : moved = Ended(ready, "failed")
    OBVIOUS
  <2>3. node' = [node EXCEPT !["profit"] = moved]
    BY <1>3, <2>1, <2>2 DEF Fails, Put, Ended
  <2>4. /\ moved = [status |-> moved.status, generation |-> moved.generation, input |-> moved.input,
                    output |-> moved.output]
        /\ moved.status = "failed" /\ moved.input = ready.input /\ moved.generation \in Nat
    BY <1>10, <2>2, EndedRow
  <2>5. IsRow(moved, ProfitStatuses) /\ ProfitRow(moved, of, s)
    <3>1. ProfitInput(moved, of)
      BY <1>4, <1>10, <2>4, FedByMatch
    <3>. QED
      BY <1>11, <2>4, <3>1 DEF IsRow, ProfitStatuses, MatchStatuses, ProfitRow
  <2>6. NodesOK' /\ node'["match"] = of
    BY <1>1, <1>2, <1>3, <2>3, <2>5, ProfitPut
  <2>7. Carried(memory, pc, node["match"], scenario)'
    BY <1>2, <1>3, <1>4, <1>11, <2>1, <2>6 DEF Carried, AppraisedOffers, AppraisedProfit
  <2>8. Standing(recommendation, pc, node["match"], scenario)'
    BY <1>1, <1>2, <1>3, <2>6 DEF Standing
  <2>. QED
    BY <1>1, <1>2, <2>1, <2>6, <2>7, <2>8 DEF AInv, AppraisalTypeOK, NodesOK
<1>12. CASE ~(s.product.price <= 0)
  <2>1. Succeeds("profit", out) /\ memory' = WithProfit(out)
    BY <1>7, <1>9, <1>12
  <2>2. PICK moved : moved = Closed(ready, "succeeded", out)
    OBVIOUS
  <2>3. node' = [node EXCEPT !["profit"] = moved]
    BY <1>3, <2>1, <2>2 DEF Succeeds, Put, Closed
  <2>4. /\ moved = [status |-> moved.status, generation |-> moved.generation, input |-> moved.input,
                    output |-> moved.output]
        /\ moved.status = "succeeded" /\ moved.output = out /\ moved.input = ready.input /\ moved.generation \in Nat
    BY <1>10, <2>2, ClosedRow
  <2>5. IsRow(moved, ProfitStatuses) /\ ProfitRow(moved, of, s)
    <3>1. ProfitInput(moved, of)
      BY <1>4, <1>10, <2>4, FedByMatch
    <3>2. IsRow(moved, ProfitStatuses)
      BY <2>4 DEF IsRow, ProfitStatuses, MatchStatuses
    <3>3. moved.output = ProfitOutput(RankedByProfit(s.product, of.output.offers))
      BY <1>5, <1>6, <1>8, <2>4
    <3>. QED
      BY <1>5, <1>7, <1>12, <2>4, <3>1, <3>2, <3>3 DEF ProfitRow
  <2>6. NodesOK' /\ node'["match"] = of
    BY <1>1, <1>2, <1>3, <2>3, <2>5, ProfitPut
  <2>7. out.offers = AppraisedOffers(s, of.output.offers) /\ out.profit = AppraisedProfit(s, of.output.offers)
    BY <1>5, <1>6, <1>7, <1>8, <1>12 DEF AppraisedOffers, AppraisedProfit
  <2>8. /\ IsMemory(memory') /\ memory'.offers = out.offers /\ memory'.profit = out.profit
        /\ memory'.recommendation = memory.recommendation /\ memory'.score = memory.score
    BY <1>1, <2>1 DEF IsMemory, WithProfit
  <2>9. Carried(memory, pc, node["match"], scenario)'
    BY <1>2, <1>3, <1>4, <2>6, <2>7, <2>8 DEF Carried
  <2>10. Standing(recommendation, pc, node["match"], scenario)'
    BY <1>1, <1>2, <1>3, <2>6 DEF Standing
  <2>. QED
    BY <1>1, <1>2, <2>6, <2>8, <2>9, <2>10 DEF AInv, AppraisalTypeOK, NodesOK
<1>. QED
  BY <1>2, <1>11, <1>12

\* Nothing to compute: no match, no offer, or a row that rests.
LEMMA ProfitRestsKeeps ==
  ASSUME AInv, ProfitRests
  PROVE  AInv' /\ recommendation' = recommendation
<1>1. NodesOK /\ IsMemory(memory) /\ Standing(recommendation, pc, node["match"], scenario)
        /\ Carried(memory, pc, node["match"], scenario)
  BY NodesInvariant
<1>2. pc = "profit" /\ pc' = "score" /\ scenario' = scenario /\ recommendation' = recommendation
  BY DEF ProfitRests
<1>3. PICK s, ready, of, row : s = scenario /\ ready = Ensured("profit") /\ of = node["match"] /\ row = node["profit"]
  OBVIOUS
<1>4. CASE of.status # "succeeded"
  <2>1. node' = node /\ memory' = memory
    BY <1>3, <1>4 DEF ProfitRests
  <2>2. Carried(memory, pc, node["match"], scenario)' /\ Standing(recommendation, pc, node["match"], scenario)'
    BY <1>1, <1>2, <1>3, <1>4, <2>1 DEF Carried, Standing
  <2>. QED
    BY <1>1, <1>2, <2>1, <2>2 DEF AInv, AppraisalTypeOK, NodesOK
<1>5. CASE of.status = "succeeded"
  <2>1. /\ s \in Scenarios /\ of.generation \in Nat
        /\ memory.offers = of.output.offers /\ memory.recommendation = of.output.recommendation
        /\ memory.profit = NoProfit /\ memory.score = NoScore
    BY <1>2, <1>3, <1>5, ProfitStarts
  <2>2. /\ IsRow(ready, ProfitStatuses) /\ ready.status # "absent"
        /\ ready.input = <<memory.product, "succeeded", of.generation>>
        /\ ready.status \in {"succeeded", "skipped"} => ready = row
        /\ ready.status = "failed" => row.status = "failed"
    BY <1>1, <1>3, <1>5, ProfitReady
  <2>3. ProfitRow(row, of, s)
    BY <1>1, <1>3 DEF NodesOK
  <2>4. CASE memory.offers = <<>>
    <3>1. Skips("profit") /\ memory' = memory
      BY <1>3, <1>5, <2>4 DEF ProfitRests
    <3>2. PICK moved : moved = Ended(ready, IF ready.status = "pending" THEN "skipped" ELSE ready.status)
      OBVIOUS
    <3>3. node' = [node EXCEPT !["profit"] = moved]
      BY <1>3, <3>1, <3>2 DEF Skips, Put, Ended
    <3>4. /\ moved = [status |-> moved.status, generation |-> moved.generation, input |-> moved.input,
                      output |-> moved.output]
          /\ moved.status = IF ready.status = "pending" THEN "skipped" ELSE ready.status
          /\ moved.output = ready.output
          /\ moved.input = ready.input /\ moved.generation = ready.generation /\ moved.generation \in Nat
      BY <2>2, <3>2, EndedRow
    <3>5. IsRow(moved, ProfitStatuses)
      BY <2>2, <3>4 DEF IsRow, ProfitStatuses, MatchStatuses
    <3>6. ProfitInput(moved, of)
      BY <1>5, <2>1, <2>2, <3>4, FedByMatch
    <3>7. ProfitRow(moved, of, s)
      BY <2>1, <2>2, <2>3, <2>4, <3>4, <3>6 DEF ProfitRow
    <3>8. NodesOK' /\ node'["match"] = of
      BY <1>1, <1>2, <1>3, <3>3, <3>5, <3>7, ProfitPut
    <3>9. Carried(memory, pc, node["match"], scenario)'
      BY <1>2, <1>3, <1>5, <2>1, <2>4, <3>1, <3>8 DEF Carried, AppraisedOffers, AppraisedProfit
    <3>10. Standing(recommendation, pc, node["match"], scenario)'
      BY <1>1, <1>2, <1>3, <3>8 DEF Standing
    <3>. QED
      BY <1>1, <1>2, <3>1, <3>8, <3>9, <3>10 DEF AInv, AppraisalTypeOK, NodesOK
  <2>5. CASE memory.offers # <<>>
    <3>1. /\ ready.status # "pending" /\ node' = [node EXCEPT !["profit"] = ready]
          /\ memory' = IF ready.status = "succeeded" THEN WithProfit(ready.output) ELSE memory
      BY <1>3, <1>5, <2>5 DEF ProfitRests, Due, Put, RowServes
    <3>2. ProfitInput(ready, of) /\ ready.input[3] = of.generation
      BY <1>5, <2>1, <2>2, FedByMatch
    <3>3. ready.status = "failed" => s.product.price <= 0
      BY <2>2, <2>3 DEF ProfitRow
    <3>4. ProfitRow(ready, of, s)
      BY <2>2, <2>3, <3>1, <3>2, <3>3 DEF ProfitRow
    <3>5. NodesOK' /\ node'["match"] = of
      BY <1>1, <1>2, <1>3, <2>2, <3>1, <3>4, ProfitPut
    <3>6. Standing(recommendation, pc, node["match"], scenario)'
      BY <1>1, <1>2, <1>3, <3>5 DEF Standing
    <3>7. ready.status \in {"succeeded", "failed"}
      BY <2>1, <2>2, <2>5, <3>1, <3>2, <3>4 DEF IsRow, ProfitStatuses, MatchStatuses, ProfitRow
    <3>8. CASE ready.status = "failed"
      <4>1. memory' = memory
        BY <3>1, <3>8
      <4>2. Carried(memory, pc, node["match"], scenario)'
        BY <1>2, <1>3, <1>5, <2>1, <3>3, <3>5, <3>8, <4>1 DEF Carried, AppraisedOffers, AppraisedProfit
      <4>. QED
        BY <1>1, <1>2, <3>5, <3>6, <4>1, <4>2 DEF AInv, AppraisalTypeOK, NodesOK
    <3>9. CASE ready.status = "succeeded"
      <4>1. ready.output = ProfitOutput(RankedByProfit(s.product, of.output.offers)) /\ ~(s.product.price <= 0)
        BY <3>2, <3>4, <3>9 DEF ProfitRow
      <4>2. PICK out : out = ready.output
        OBVIOUS
      <4>3. out.offers = AppraisedOffers(s, of.output.offers) /\ out.profit = AppraisedProfit(s, of.output.offers)
        BY <2>1, <2>5, <4>1, <4>2 DEF AppraisedOffers, AppraisedProfit
      <4>4. /\ IsMemory(memory') /\ memory'.offers = out.offers /\ memory'.profit = out.profit
            /\ memory'.recommendation = memory.recommendation /\ memory'.score = memory.score
        BY <1>1, <3>1, <3>9, <4>2 DEF IsMemory, WithProfit
      <4>5. Carried(memory, pc, node["match"], scenario)'
        BY <1>2, <1>3, <1>5, <2>1, <3>5, <4>3, <4>4 DEF Carried
      <4>. QED
        BY <1>1, <1>2, <3>5, <3>6, <4>4, <4>5 DEF AInv, AppraisalTypeOK, NodesOK
    <3>. QED
      BY <3>7, <3>8, <3>9
  <2>. QED
    BY <2>4, <2>5
<1>. QED
  BY <1>2, <1>4, <1>5

-----------------------------------------------------------------------------
(* The score keeps the invariant.                                            *)

LEMMA ScoreReady ==
  ASSUME NodesOK, NEW ready, ready = Ensured("score"), NEW row, row = node["score"]
  PROVE  /\ IsRow(ready, ProfitStatuses) /\ ready.status \in {"pending", "succeeded", "skipped"}
         /\ ready.input[2] = memory.offers /\ ready.input[3] = memory.profit
         /\ ready.status \in {"succeeded", "skipped"} => ready = row
<1>1. PICK input : input = <<memory.product, memory.offers, memory.profit, node["profit"].status, node["profit"].generation>>
  OBVIOUS
<1>2. ready = EnsuredRow(row, input)
  BY <1>1, EnsuredIsRow DEF InputOf
<1>3. IsRow(row, ProfitStatuses) /\ row.status # "failed"
  BY DEF NodesOK, IsRow, ScoreStatuses, ProfitStatuses, MatchStatuses
<1>4. /\ IsRow(ready, ProfitStatuses) /\ ready.status # "absent"
      /\ ready.status = "pending" => ready.input = input
      /\ ready.status = "failed" => row.status = "failed" /\ ready.input = input
      /\ ready.status \in {"succeeded", "skipped"} => ready = row /\ row.input = input
  BY <1>2, <1>3, ReadyRow
<1>5. ready.status \in {"pending", "succeeded", "skipped"} /\ ready.input = input
  BY <1>3, <1>4 DEF IsRow, ProfitStatuses, MatchStatuses
<1>6. ready.input[2] = memory.offers /\ ready.input[3] = memory.profit
  BY <1>1, <1>5
<1>. QED
  BY <1>4, <1>5, <1>6

LEMMA ScorePut ==
  ASSUME NodesOK, NEW moved, node' = [node EXCEPT !["score"] = moved], scenario' = scenario,
         IsRow(moved, ScoreStatuses), ScoreRow(moved, scenario)
  PROVE  NodesOK' /\ node'["match"] = node["match"]
<1>1. /\ node' = [stage \in Stages |-> node'[stage]] /\ node'["score"] = moved
      /\ node'["match"] = node["match"] /\ node'["profit"] = node["profit"]
  <2>1. node = [stage \in Stages |-> node[stage]] /\ "score" \in Stages
    BY DEF NodesOK, Stages
  <2>2. /\ node' = [stage \in Stages |-> node'[stage]] /\ node'["score"] = moved
        /\ \A stage \in Stages \ {"score"} : node'[stage] = node[stage]
    BY <2>1, PutRow
  <2>. QED
    BY <2>2 DEF Stages
<1>. QED
  BY <1>1 DEF NodesOK

\* The record after the score, of a match that succeeded and of another one.
LEMMA ScoreEnds ==
  ASSUME AInv, pc = "score", pc' = "finalize", scenario' = scenario, recommendation' = recommendation,
         NodesOK', node'["match"] = node["match"], IsMemory(memory'),
         memory'.offers = memory.offers, memory'.profit = memory.profit,
         memory'.recommendation = memory.recommendation,
         memory'.score = IF HasProfit(memory.profit) THEN ScoreOutput(scenario, memory.offers, memory.profit).score
                         ELSE NoScore
  PROVE  AInv'
<1>1. Carried(memory, pc, node["match"], scenario) /\ Standing(recommendation, pc, node["match"], scenario)
  BY NodesInvariant
<1>2. Carried(memory, pc, node["match"], scenario)'
  <2>1. CASE node["match"].status = "succeeded"
    BY <1>1, <2>1 DEF Carried, AppraisedScore
  <2>2. CASE node["match"].status # "succeeded"
    BY <1>1, <2>2, NoProfitIsNone DEF Carried
  <2>. QED
    BY <2>1, <2>2
<1>3. Standing(recommendation, pc, node["match"], scenario)'
  BY <1>1 DEF Standing
<1>. QED
  BY <1>2, <1>3 DEF AInv, AppraisalTypeOK, NodesOK

LEMMA ScoreRunsKeeps ==
  ASSUME AInv, ScoreRuns
  PROVE  AInv' /\ recommendation' = recommendation
<1>1. NodesOK /\ IsMemory(memory)
  BY NodesInvariant
<1>2. /\ pc = "score" /\ pc' = "finalize" /\ scenario' = scenario /\ recommendation' = recommendation
      /\ HasProfit(memory.profit) /\ Ensured("score").status = "pending"
  BY DEF ScoreRuns, Due
<1>3. PICK ready, out : ready = Ensured("score") /\ out = ScoreOutput(scenario, memory.offers, memory.profit)
  OBVIOUS
<1>4. Succeeds("score", out) /\ memory' = WithScore(out)
  BY <1>3 DEF ScoreRuns
<1>5. IsRow(ready, ProfitStatuses) /\ ready.input[2] = memory.offers /\ ready.input[3] = memory.profit
  BY <1>1, <1>3, ScoreReady
<1>6. PICK moved : moved = Closed(ready, "succeeded", out)
  OBVIOUS
<1>7. node' = [node EXCEPT !["score"] = moved]
  BY <1>3, <1>4, <1>6 DEF Succeeds, Put, Closed
<1>8. /\ moved = [status |-> moved.status, generation |-> moved.generation, input |-> moved.input,
                  output |-> moved.output]
      /\ moved.status = "succeeded" /\ moved.output = out /\ moved.input = ready.input /\ moved.generation \in Nat
  BY <1>5, <1>6, ClosedRow
<1>9. IsRow(moved, ScoreStatuses) /\ ScoreRow(moved, scenario)
  BY <1>3, <1>5, <1>8 DEF IsRow, ScoreStatuses, ScoreRow
<1>10. NodesOK' /\ node'["match"] = node["match"]
  BY <1>1, <1>2, <1>7, <1>9, ScorePut
<1>11. /\ IsMemory(memory') /\ memory'.offers = memory.offers /\ memory'.profit = memory.profit
       /\ memory'.recommendation = memory.recommendation /\ memory'.score = out.score
  BY <1>1, <1>4 DEF IsMemory, WithScore
<1>. QED
  BY <1>2, <1>3, <1>10, <1>11, ScoreEnds

LEMMA ScoreRestsKeeps ==
  ASSUME AInv, ScoreRests
  PROVE  AInv' /\ recommendation' = recommendation
<1>1. NodesOK /\ IsMemory(memory)
  BY NodesInvariant
<1>2. pc = "score" /\ pc' = "finalize" /\ scenario' = scenario /\ recommendation' = recommendation
  BY DEF ScoreRests
<1>3. PICK ready, row : ready = Ensured("score") /\ row = node["score"]
  OBVIOUS
<1>4. /\ IsRow(ready, ProfitStatuses) /\ ready.status \in {"pending", "succeeded", "skipped"}
      /\ ready.input[2] = memory.offers /\ ready.input[3] = memory.profit
      /\ ready.status \in {"succeeded", "skipped"} => ready = row
  BY <1>1, <1>3, ScoreReady
<1>5. ScoreRow(row, scenario)
  BY <1>1, <1>3 DEF NodesOK
<1>6. memory.score = NoScore
  <2>1. Carried(memory, pc, node["match"], scenario)
    BY NodesInvariant
  <2>. QED
    BY <1>2, <2>1 DEF Carried
<1>7. CASE ~HasProfit(memory.profit)
  <2>1. Skips("score") /\ memory' = memory
    BY <1>7 DEF ScoreRests
  <2>2. PICK moved : moved = Ended(ready, IF ready.status = "pending" THEN "skipped" ELSE ready.status)
    OBVIOUS
  <2>3. node' = [node EXCEPT !["score"] = moved]
    BY <1>3, <2>1, <2>2 DEF Skips, Put, Ended
  <2>4. /\ moved = [status |-> moved.status, generation |-> moved.generation, input |-> moved.input,
                    output |-> moved.output]
        /\ moved.status = IF ready.status = "pending" THEN "skipped" ELSE ready.status
        /\ moved.output = ready.output /\ moved.input = ready.input /\ moved.generation \in Nat
    BY <1>4, <2>2, EndedRow
  <2>5. IsRow(moved, ScoreStatuses) /\ ScoreRow(moved, scenario)
    BY <1>4, <1>5, <1>7, <2>4 DEF IsRow, ScoreStatuses, ScoreRow
  <2>6. NodesOK' /\ node'["match"] = node["match"]
    BY <1>1, <1>2, <2>3, <2>5, ScorePut
  <2>. QED
    BY <1>1, <1>2, <1>6, <1>7, <2>1, <2>6, ScoreEnds
<1>8. CASE HasProfit(memory.profit)
  <2>1. /\ ready.status # "pending" /\ node' = [node EXCEPT !["score"] = ready]
        /\ memory' = IF ready.status = "succeeded" THEN WithScore(ready.output) ELSE memory
    BY <1>3, <1>8 DEF ScoreRests, Due, Put, RowServes
  <2>2. ready = row /\ ready.status = "succeeded"
    BY <1>4, <1>5, <1>8, <2>1 DEF ScoreRow
  <2>3. ready.output = ScoreOutput(scenario, memory.offers, memory.profit)
    BY <1>4, <1>5, <2>2 DEF ScoreRow
  <2>4. IsRow(ready, ScoreStatuses) /\ ScoreRow(ready, scenario)
    BY <1>4, <1>5, <2>2 DEF IsRow, ScoreStatuses
  <2>5. NodesOK' /\ node'["match"] = node["match"]
    BY <1>1, <1>2, <2>1, <2>4, ScorePut
  <2>6. PICK out : out = ready.output
    OBVIOUS
  <2>7. /\ IsMemory(memory') /\ memory'.offers = memory.offers /\ memory'.profit = memory.profit
        /\ memory'.recommendation = memory.recommendation /\ memory'.score = out.score
    BY <1>1, <2>1, <2>2, <2>6 DEF IsMemory, WithScore
  <2>. QED
    BY <1>2, <1>8, <2>3, <2>5, <2>6, <2>7, ScoreEnds
<1>. QED
  BY <1>7, <1>8

-----------------------------------------------------------------------------
(* The end of a pass, a crash, and a stage re-run by force.                  *)

\* What is settled stays: the same match comes to the same recommendation.
LEMMA FinalizeKeeps ==
  ASSUME AInv, Finalize
  PROVE  AInv' /\ (recommendation.final => recommendation' = recommendation)
<1>1. NodesOK /\ IsMemory(memory) /\ Standing(recommendation, pc, node["match"], scenario)
        /\ Carried(memory, pc, node["match"], scenario)
  BY NodesInvariant
<1>2. pc = "finalize" /\ pc' = "filter" /\ scenario' = scenario /\ node' = node /\ memory' = memory
  BY DEF Finalize
<1>3. PICK s, of : s = scenario /\ of = node["match"]
  OBVIOUS
<1>4. s \in Scenarios
  BY <1>1, <1>3 DEF NodesOK
<1>5. of.status = "succeeded" => \E m \in Matches[s] : of.output = MatchOutput(m)
  BY <1>1, <1>3 DEF NodesOK, MatchRow
<1>6. Carried(memory, pc, node["match"], scenario)'
  BY <1>1, <1>2 DEF Carried
<1>7. CASE Aimed(s.product) /\ of.status = "succeeded"
  <2>1. PICK m \in Matches[s] : of.output = MatchOutput(m)
    BY <1>5, <1>7
  <2>2. /\ memory.recommendation = m.recommendation
        /\ memory.profit = AppraisedProfit(s, m.offers) /\ memory.score = AppraisedScore(s, m.offers)
    BY <1>1, <1>2, <1>3, <1>7, <2>1, MatchOutputHas DEF Carried
  <2>3. m.recommendation # NoRecommendation
    <3>1. Undecided(m.recommendation)
      BY <1>4, <1>7, MatchIsMatch DEF IsMatch, IsGate
    <3>. QED
      BY <3>1 DEF Undecided, NoRecommendation
  <2>4. recommendation' = Finalized(s, memory)
    BY <1>3, <2>2, <2>3 DEF Finalize
  <2>5. Finalized(s, memory) = Settled(s, MatchOutput(m))
    <3>. DEFINE record == [recommendation |-> m.recommendation, profit |-> AppraisedProfit(s, m.offers),
                           score |-> AppraisedScore(s, m.offers)]
    <3>1. record.recommendation = memory.recommendation /\ record.profit = memory.profit /\ record.score = memory.score
      BY <2>2
    <3>2. Settled(s, MatchOutput(m)) = Finalized(s, record)
      BY MatchOutputHas DEF Settled
    <3>. HIDE DEF record
    <3>3. PICK carried : carried = memory
      OBVIOUS
    <3>. QED
      BY <3>1, <3>2, <3>3, FinalizedReads
  <2>6. PICK r : r = Settled(s, MatchOutput(m))
    OBVIOUS
  <2>7. r.final = TRUE
    BY <1>4, <1>7, <2>6, SettledStands
  <2>8. recommendation' = r /\ r = Settled(s, of.output)
    BY <2>1, <2>4, <2>5, <2>6
  <2>9. Standing(recommendation, pc, node["match"], scenario)'
    BY <1>2, <1>3, <1>7, <2>7, <2>8 DEF Standing
  <2>10. recommendation.final => recommendation' = recommendation
    BY <1>1, <1>3, <1>7, <2>8 DEF Standing
  <2>. QED
    BY <1>1, <1>2, <1>6, <2>9, <2>10 DEF AInv, AppraisalTypeOK, NodesOK
<1>8. CASE ~(Aimed(s.product) /\ of.status = "succeeded")
  <2>1. memory.recommendation = NoRecommendation
    <3>1. CASE of.status # "succeeded"
      BY <1>1, <1>2, <1>3, <3>1 DEF Carried
    <3>2. CASE of.status = "succeeded" /\ ~Aimed(s.product)
      <4>1. PICK m \in Matches[s] : of.output = MatchOutput(m)
        BY <1>5, <3>2
      <4>2. m.recommendation = NoRecommendation
        BY <1>4, <3>2, MatchIsMatch DEF IsMatch
      <4>. QED
        BY <1>1, <1>2, <1>3, <3>2, <4>1, <4>2, MatchOutputHas DEF Carried
    <3>. QED
      BY <1>8, <3>1, <3>2
  <2>2. recommendation' = recommendation
    BY <2>1 DEF Finalize
  <2>3. Standing(recommendation, pc, node["match"], scenario)'
    BY <1>1, <1>2, <1>3, <1>8, <2>2 DEF Standing
  <2>. QED
    BY <1>1, <1>2, <1>6, <2>2, <2>3 DEF AInv, AppraisalTypeOK, NodesOK
<1>. QED
  BY <1>7, <1>8

LEMMA FilterKeeps ==
  ASSUME AInv, Filter
  PROVE  AInv' /\ recommendation' = recommendation
<1>1. NodesOK /\ IsMemory(memory) /\ Standing(recommendation, pc, node["match"], scenario)
  BY NodesInvariant
<1>2. /\ pc' = "idle" /\ scenario' = scenario /\ node' = node /\ memory' = memory
      /\ recommendation' = recommendation
  BY DEF Filter
<1>3. Carried(memory, pc, node["match"], scenario)' /\ Standing(recommendation, pc, node["match"], scenario)'
  BY <1>1, <1>2 DEF Carried, Standing
<1>. QED
  BY <1>1, <1>2, <1>3 DEF AInv, AppraisalTypeOK, NodesOK

LEMMA ProcessDiesKeeps ==
  ASSUME AInv, ProcessDies
  PROVE  AInv' /\ recommendation' = recommendation
<1>1. NodesOK /\ Standing(recommendation, pc, node["match"], scenario)
  BY NodesInvariant
<1>2. /\ pc' = "idle" /\ scenario' = scenario /\ node' = node /\ memory' = FreshMemory
      /\ recommendation' = recommendation
  BY DEF ProcessDies
<1>3. Carried(memory, pc, node["match"], scenario)' /\ Standing(recommendation, pc, node["match"], scenario)'
  BY <1>1, <1>2 DEF Carried, Standing
<1>4. IsMemory(memory')
  BY <1>2 DEF IsMemory, FreshMemory
<1>. QED
  BY <1>1, <1>2, <1>3, <1>4 DEF AInv, AppraisalTypeOK, NodesOK

\* A row that is re-run by force is pending, one generation on.
Rerun(row) == [row EXCEPT !.status = "pending", !.generation = @ + 1, !.output = NoOutput]

LEMMA RerunRow ==
  ASSUME NEW row, IsRow(row, ProfitStatuses), NEW again, again = Rerun(row)
  PROVE  /\ again = [status |-> again.status, generation |-> again.generation, input |-> again.input,
                     output |-> again.output]
         /\ again.status = "pending" /\ again.generation = row.generation + 1 /\ again.input = row.input
         /\ again.generation \in Nat /\ row.generation < again.generation
<1>1. /\ row = [status |-> row.status, generation |-> row.generation, input |-> row.input, output |-> row.output]
      /\ row.generation \in Nat
  BY DEF IsRow
<1>2. /\ again = [status |-> again.status, generation |-> again.generation, input |-> again.input,
                  output |-> again.output]
      /\ again.status = "pending" /\ again.generation = row.generation + 1 /\ again.input = row.input
  BY <1>1 DEF Rerun
<1>3. again.generation \in Nat /\ row.generation < again.generation
  BY <1>1, <1>2
<1>. QED
  BY <1>2, <1>3

LEMMA ForceRerunKeeps ==
  ASSUME AInv, NEW stage \in Stages, ForceRerun(stage)
  PROVE  AInv' /\ recommendation' = recommendation
<1>1. NodesOK /\ IsMemory(memory) /\ Standing(recommendation, pc, node["match"], scenario)
  BY NodesInvariant
<1>2. /\ pc = "idle" /\ pc' = "idle" /\ scenario' = scenario /\ memory' = memory
      /\ recommendation' = recommendation /\ node[stage].status # "absent"
  BY DEF ForceRerun
<1>3. PICK row, again : row = node[stage] /\ again = Rerun(row)
  OBVIOUS
<1>4. node' = [node EXCEPT ![stage] = again]
  BY <1>3 DEF ForceRerun, Put, Rerun
<1>5. IsRow(row, ProfitStatuses)
  BY <1>1, <1>3 DEF NodesOK, Stages, IsRow, ProfitStatuses, ScoreStatuses, MatchStatuses
<1>6. /\ again = [status |-> again.status, generation |-> again.generation, input |-> again.input,
                  output |-> again.output]
      /\ again.status = "pending" /\ again.generation = row.generation + 1 /\ again.input = row.input
      /\ again.generation \in Nat /\ row.generation < again.generation
  BY <1>3, <1>5, RerunRow
<1>7. /\ NodesOK'
      /\ node'["match"].status = "succeeded" => node'["match"] = node["match"]
  <2>1. CASE stage = "match"
    <3>1. IsRow(again, MatchStatuses)
      BY <1>6 DEF IsRow, MatchStatuses
    <3>2. MatchRow(again, scenario)
      BY <1>1, <1>2, <1>3, <1>6, <2>1 DEF NodesOK, MatchRow
    <3>3. node["match"].generation < again.generation
      BY <1>3, <1>6, <2>1
    <3>4. NodesOK' /\ node'["match"] = again
      BY <1>1, <1>2, <1>4, <2>1, <3>1, <3>2, <3>3, MatchPut
    <3>. QED
      BY <1>6, <3>4
  <2>2. CASE stage = "profit"
    <3>1. IsRow(again, ProfitStatuses)
      BY <1>6 DEF IsRow, ProfitStatuses, MatchStatuses
    <3>2. ProfitRow(again, node["match"], scenario)
      BY <1>1, <1>2, <1>3, <1>6, <2>2 DEF NodesOK, ProfitRow, ProfitInput
    <3>. QED
      BY <1>1, <1>2, <1>4, <2>2, <3>1, <3>2, ProfitPut
  <2>3. CASE stage = "score"
    <3>1. IsRow(again, ScoreStatuses) /\ ScoreRow(again, scenario)
      BY <1>6 DEF IsRow, ScoreStatuses, ScoreRow
    <3>. QED
      BY <1>1, <1>2, <1>4, <2>3, <3>1, ScorePut
  <2>. QED
    BY <2>1, <2>2, <2>3 DEF Stages
<1>8. Carried(memory, pc, node["match"], scenario)'
  BY <1>2 DEF Carried
<1>9. Standing(recommendation, pc, node["match"], scenario)'
  BY <1>1, <1>2, <1>7 DEF Standing
<1>. QED
  BY <1>1, <1>2, <1>7, <1>8, <1>9 DEF AInv, AppraisalTypeOK, NodesOK

-----------------------------------------------------------------------------
(* The theorems.                                                             *)

LEMMA AppraisalStarts == AppraisalInit => AInv
<1>. SUFFICES ASSUME AppraisalInit PROVE AInv
  OBVIOUS
<1>1. /\ scenario \in Scenarios /\ node = [stage \in Stages |-> NoRow] /\ memory = FreshMemory
      /\ pc = "idle" /\ recommendation = NoRecommendation
  BY DEF AppraisalInit
<1>2. node["match"] = NoRow /\ node["profit"] = NoRow /\ node["score"] = NoRow
  BY <1>1 DEF Stages
<1>3. /\ node = [stage \in Stages |-> node[stage]] /\ IsMemory(memory)
      /\ IsRow(NoRow, MatchStatuses) /\ IsRow(NoRow, ProfitStatuses) /\ IsRow(NoRow, ScoreStatuses)
  BY <1>1 DEF IsRow, IsMemory, NoRow, FreshMemory, MatchStatuses, ProfitStatuses, ScoreStatuses
<1>4. MatchRow(NoRow, scenario) /\ ProfitRow(NoRow, NoRow, scenario) /\ ScoreRow(NoRow, scenario)
  BY DEF MatchRow, ProfitRow, ProfitInput, ScoreRow, NoRow
<1>5. NoRecommendation.final = FALSE /\ NoRecommendation.status # "recommend"
  BY DEF NoRecommendation, None
<1>. QED
  BY <1>1, <1>2, <1>3, <1>4, <1>5 DEF AInv, AppraisalTypeOK, Carried, Standing

\* One step: the invariant, and what becomes of the recommendation.
LEMMA StepInv ==
  ASSUME AInv, [AppraisalNext]_appraisalVars
  PROVE  /\ AInv'
         /\ recommendation.final /\ node'["match"] = node["match"] => recommendation' = recommendation
<1>1. CASE Enter
  BY <1>1, EnterKeeps DEF Enter
<1>2. CASE MatchRuns
  BY <1>2, MatchRunsKeeps
<1>3. CASE MatchFails
  BY <1>3, MatchFailsKeeps DEF MatchFails
<1>4. CASE MatchRests
  BY <1>4, MatchRestsKeeps DEF MatchRests
<1>5. CASE ProfitRuns
  BY <1>5, ProfitRunsKeeps
<1>6. CASE ProfitRests
  BY <1>6, ProfitRestsKeeps
<1>7. CASE ScoreRuns
  BY <1>7, ScoreRunsKeeps DEF ScoreRuns
<1>8. CASE ScoreRests
  BY <1>8, ScoreRestsKeeps DEF ScoreRests
<1>9. CASE Finalize
  BY <1>9, FinalizeKeeps
<1>10. CASE Filter
  BY <1>10, FilterKeeps
<1>11. CASE ProcessDies
  BY <1>11, ProcessDiesKeeps
<1>12. ASSUME NEW stage \in Stages, ForceRerun(stage)
       PROVE  AInv' /\ recommendation' = recommendation
  BY <1>12, ForceRerunKeeps
<1>13. CASE UNCHANGED appraisalVars
  BY <1>13 DEF appraisalVars, AInv, AppraisalTypeOK
<1>. QED
  BY <1>1, <1>2, <1>3, <1>4, <1>5, <1>6, <1>7, <1>8, <1>9, <1>10, <1>11, <1>12, <1>13 DEF AppraisalNext

LEMMA Invariance == AppraisalSpec => []AInv
<1>1. AppraisalInit => AInv
  BY AppraisalStarts
<1>2. AInv /\ [AppraisalNext]_appraisalVars => AInv'
  BY StepInv
<1>. QED
  BY <1>1, <1>2, PTL DEF AppraisalSpec

\* The nodes, the record of a pass and its place keep their shape.
THEOREM AppraisalType == AppraisalSpec => []AppraisalTypeOK
<1>1. AInv => AppraisalTypeOK
  BY DEF AInv
<1>. QED
  BY <1>1, Invariance, PTL

\* A product that stands as recommended to be bought was matched, its offer and
\* the offer of its profit are among those the last match accepted, and each
\* accepted offer is one the comparison of the two profiles keeps and no picture
\* speaks against: whatever is cached, re-run by force or interrupted.
THEOREM RecommendationEarned == AppraisalSpec => []RecommendationIsEarned
<1>1. ASSUME AInv, recommendation.status = "recommend", node["match"].status = "succeeded",
             NEW s, s = scenario, NEW r, r = recommendation, NEW of, of = node["match"]
      PROVE  /\ r.offer \in Names(of.output.offers) /\ r.profit \in Names(of.output.offers)
             /\ Earned(s, of.output.offers)
  <2>1. s \in Scenarios /\ Standing(r, pc, of, s) /\ MatchRow(of, s)
    BY <1>1 DEF AInv, AppraisalTypeOK
  <2>2. Aimed(s.product) /\ r.final /\ r = Settled(s, of.output)
    BY <1>1, <2>1 DEF Standing, NoRecommendation, None
  <2>3. PICK m \in Matches[s] : of.output = MatchOutput(m)
    BY <1>1, <2>1 DEF MatchRow
  <2>4. of.output.offers = m.offers
    BY <2>3, MatchOutputHas
  <2>5. r.offer \in Names(m.offers) /\ r.profit \in Names(m.offers)
    BY <1>1, <2>1, <2>2, <2>3, SettledStands
  <2>6. Earned(s, m.offers)
    BY <2>1, <2>2, MatchIsMatch DEF IsMatch
  <2>. QED
    BY <2>4, <2>5, <2>6
<1>2. AInv => RecommendationIsEarned
  BY <1>1 DEF RecommendationIsEarned, Names, Earned, Product
<1>. QED
  BY <1>2, Invariance, PTL

\* As long as the product is not matched again, a final recommendation does not
\* change, whatever crashes, is resumed or is re-run by force.
THEOREM RecommendationRepeated == AppraisalSpec => RecommendationRepeats
<1>1. AInv /\ [AppraisalNext]_appraisalVars =>
        [recommendation.final /\ node'["match"] = node["match"] => recommendation' = recommendation]_appraisalVars
  BY StepInv
<1>. QED
  BY <1>1, Invariance, PTL DEF AppraisalSpec, RecommendationRepeats

\* What the filter puts out as a candidate and what stands as recommended agree
\* for a product of a target category whose match has succeeded.
THEOREM ExportedRecommended == AppraisalSpec => ExportedIsRecommended
<1>1. ASSUME AInv, Filter, Aimed(Product), node["match"].status = "succeeded",
             NEW s, s = scenario, NEW r, r = recommendation, NEW of, of = node["match"]
      PROVE  candidates'.formal # {} <=> r.status = "recommend"
  <2>1. /\ s \in Scenarios /\ Standing(r, pc, of, s) /\ MatchRow(of, s) /\ Carried(memory, pc, of, s)
        /\ pc = "filter" /\ Aimed(s.product)
    BY <1>1 DEF AInv, AppraisalTypeOK, Filter, Product
  <2>2. r.final /\ r = Settled(s, of.output)
    BY <1>1, <2>1 DEF Standing
  <2>3. PICK m \in Matches[s] : of.output = MatchOutput(m)
    BY <1>1, <2>1 DEF MatchRow
  <2>4. of.output.offers = m.offers
    BY <2>3, MatchOutputHas
  <2>5. PICK score : score = AppraisedScore(s, m.offers)
    OBVIOUS
  <2>6. r.status = "recommend" <=> score.passed
    BY <2>1, <2>2, <2>3, <2>5, SettledStands
  <2>7. memory.score = score
    BY <1>1, <2>1, <2>4, <2>5 DEF Carried
  <2>8. PICK record : record = FilterRecord
    OBVIOUS
  <2>9. record.passed = score.passed /\ score.passed \in BOOLEAN
    <3>1. score.passed \in BOOLEAN
      BY <2>1, <2>5, AppraisedScoreOf
    <3>. QED
      BY <2>7, <2>8, <3>1 DEF FilterRecord
  <2>10. candidates'.formal = Asins(DedupedByAsin(RankCandidates(<<record>>)))
    BY <1>1, <2>8 DEF Filter, Asins
  <2>. QED
    BY <2>6, <2>9, <2>10, OneCandidate
<1>2. AInv /\ [AppraisalNext]_appraisalVars =>
        [Filter /\ Aimed(Product) /\ node["match"].status = "succeeded" =>
           (candidates'.formal # {} <=> recommendation.status = "recommend")]_appraisalVars
  BY <1>1
<1>. QED
  BY <1>2, Invariance, PTL DEF AppraisalSpec, ExportedIsRecommended

\* A profit is recorded with the offer it is the profit of, unless that offer
\* has no price the profit can be computed from.
THEOREM SnapshotOfOffer == AppraisalSpec => []ProfitOfItsOffer
<1>1. AppraisalInit => ProfitOfItsOffer
  BY DEF AppraisalInit, ProfitOfItsOffer
<1>2. ASSUME AInv, ProfitOfItsOffer, ProfitRuns
      PROVE  ProfitOfItsOffer'
  <2>1. PICK s, of : s = scenario /\ of = node["match"]
    OBVIOUS
  <2>2. /\ pc = "profit" /\ of.status = "succeeded" /\ scenario' = s /\ memory.offers # <<>>
    BY <1>2, <2>1 DEF ProfitRuns
  <2>3. /\ s \in Scenarios
        /\ \E m \in Matches[s] : of.output = MatchOutput(m) /\ of.output.offers = m.offers
        /\ memory.offers = of.output.offers
    BY <1>2, <2>1, <2>2, ProfitStarts
  <2>4. PICK m \in Matches[s] : memory.offers = m.offers
    BY <2>3
  <2>5. PICK ranking : ranking = RankedByProfit(s.product, m.offers)
    OBVIOUS
  <2>6. PICK out : out = ProfitOutput(ranking)
    OBVIOUS
  <2>7. \/ snapshots' = snapshots
        \/ HasProfit(out.profit) /\ snapshots' = snapshots \cup {[offer |-> SnapshotOffer(out), profit |-> out.profit]}
    BY <1>2, <2>1, <2>4, <2>5, <2>6 DEF ProfitRuns, Product
  <2>8. PICK i \in DOMAIN m.offers :
          /\ Head(ranking.offers).id = m.offers[i].id
          /\ PredictProfit(s.product, m.offers[i]).missing # {} \/ ranking.profit.offer = m.offers[i].id
    <3>1. s \in Scenarios /\ m.offers # <<>>
      BY <2>2, <2>3, <2>4
    <3>2. HeadedByItsOffer(ranking, s.product, m.offers)
      BY <3>1, <2>4, <2>5, MatchRanking
    <3>. QED
      BY <3>2 DEF HeadedByItsOffer
  <2>9. out.offers = ranking.offers /\ (HasProfit(out.profit) => out.profit = ranking.profit)
    BY <2>6, ProfitOutputHas, NoProfitIsNone
  <2>10. ASSUME HasProfit(out.profit), NEW new, new = [offer |-> SnapshotOffer(out), profit |-> out.profit],
                new.offer # new.profit.offer
         PROVE  new.offer = m.offers[i].id /\ PredictProfit(s.product, m.offers[i]).missing # {}
    BY <2>8, <2>9, <2>10 DEF SnapshotOffer
  <2>11. \A old \in snapshots : old.offer # old.profit.offer =>
           \E k \in Matches[s] : \E j \in DOMAIN k.offers :
             k.offers[j].id = old.offer /\ PredictProfit(s.product, k.offers[j]).missing # {}
    BY <1>2, <2>1 DEF ProfitOfItsOffer, Product
  <2>12. \A new \in snapshots' : new.offer # new.profit.offer =>
           \E k \in Matches[s] : \E j \in DOMAIN k.offers :
             k.offers[j].id = new.offer /\ PredictProfit(s.product, k.offers[j]).missing # {}
    BY <2>7, <2>10, <2>11
  <2>. QED
    BY <2>2, <2>12 DEF ProfitOfItsOffer, Product
<1>3. ASSUME ProfitOfItsOffer, UNCHANGED <<scenario, snapshots>>
      PROVE  ProfitOfItsOffer'
  BY <1>3 DEF ProfitOfItsOffer, Product
<1>4. AInv /\ ProfitOfItsOffer /\ [AppraisalNext]_appraisalVars => ProfitOfItsOffer'
  BY <1>2, <1>3 DEF AppraisalNext, appraisalVars, Enter, MatchRuns, MatchFails, MatchRests, ProfitRests,
     ScoreRuns, ScoreRests, Finalize, Filter, ProcessDies, ForceRerun
<1>. QED
  BY <1>1, <1>4, Invariance, PTL DEF AppraisalSpec
=============================================================================
