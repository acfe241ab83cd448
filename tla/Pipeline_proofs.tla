-------------------------- MODULE Pipeline_proofs ---------------------------
(* Proofs about Pipeline, for any catalogue of products and any bounds: the   *)
(* rows and the driver keep their types, the barriers between the stages hold *)
(* and an execution that ends in success has every node up to date.           *)
EXTENDS Pipeline, SequenceTheorems, WellFoundedInduction, TLAPS

------------------------------------------------------------------------------
(* The inductive invariant *)

RowStatus == NodeStatus \cup {"absent"}

RowFields == {"status", "generation", "attempt_count", "input", "output", "worker_id",
              "lease_token", "lease", "next_retry", "resume_token"}

IsRow(row) ==
  /\ row = [f \in RowFields |-> row[f]]
  /\ row.status \in RowStatus /\ row.generation \in Nat /\ row.attempt_count \in Nat
  /\ row.lease \in Int /\ row.next_retry \in Int /\ row.resume_token \in Nat
  /\ row.status = "absent" => row.generation = 0

ProductLists == {s \in Seq(Asins) : IsInjective(s)}
Driving == driver.pc \in {"visit", "handler"}

DriverRecords ==
  [pc : {"idle", "visit", "handler", "returned", "collect", "report", "raised", "down"},
   stage : 1 .. 8, todo : Seq(Asins) \cup {<<"run">>},
   products : Seq(Asins), market : SUBSET Asins, doomed : BOOLEAN]

ThreadsOK ==
  /\ client \in {"idle", "cancel_run", "update_run"}
  /\ recovering \in BOOLEAN
  /\ seen \in RunStatus \cup {"none", "unreadable"}

TypeOK ==
  /\ node = [n \in NodeIds |-> node[n]] /\ \A n \in NodeIds : IsRow(node[n])
  /\ output = [n \in NodeIds |-> output[n]] /\ output[Source] \in ProductLists
  /\ \A n \in NodeIds \ {Source} : output[n] \in BOOLEAN
  /\ run \in RunStatus
  /\ job \in JobStatus
  /\ cancel \in BOOLEAN
  /\ surprises \in 0 .. MaxSurprises /\ requests \in 0 .. MaxRequests
  /\ ThreadsOK
  /\ driver \in DriverRecords

\* What is left to do in a stage are products, or the run itself; the source is
\* left only when it has succeeded.
TodoInv ==
  Driving =>
    /\ Stage \in AsinStages => driver.todo \in Seq(Asins)
    /\ Stage \notin AsinStages => driver.todo \in {<<>>, <<"run">>}
    /\ driver.pc = "handler" \/ driver.stage = 1 => driver.todo # <<>>

\* Nobody waits behind the driver, but for a filter that did not succeed, after
\* which the export is skipped.
BarrierInv ==
  Driving => \A earlier \in 1 .. (driver.stage - 1) :
               Stages[earlier] = "filter" \/ ~Waiting(Stages[earlier])

------------------------------------------------------------------------------
(* What a finished node has to do with the nodes before it *)

Good == {"succeeded", "skipped"}

\* The first of the nodes that a node depends on.
Up(n) ==
  CASE n[2] = "ingest" -> Source
    [] n[2] = "market" -> <<n[1], "ingest">>
    [] n[2] = "profit" -> <<n[1], "match">>
    [] n[2] = "score"  -> <<n[1], "profit">>
    [] n[2] = "export" -> FilterNode

Dependent == {n \in NodeIds : n[2] \in {"ingest", "market", "profit", "score", "export"}}

\* Nothing was computed from what an upstream node has still to put out.
RecordedInv ==
  \A n \in Dependent : node[n].status # "absent" =>
    LET d == node[n].input[1] IN
      /\ d \in RowStatus \X Nat
      /\ d[1] \in Good => \/ d[2] < node[Up(n)].generation
                          \/ d = Dependency(Up(n))

UpToDate(n) == node[n].input[1] = Dependency(Up(n)) /\ node[Up(n)].status \in Good

\* A node that was skipped or executed was so by its rule, for the present outputs
\* if it is up to date.
RuleOf(n) ==
  CASE n[2] \in {"profit", "score", "export"} ->
         (node[n].status = "skipped") = Skips(n, FoundNow)
    [] n[2] = "market" ->
         node[n].status = "skipped" /\ UpToDate(<<n[1], "ingest">>) => Skips(n, FoundNow)
    [] OTHER -> TRUE

RuleInv ==
  \A n \in Dependent : node[n].status \in Good /\ UpToDate(n) => RuleOf(n)

MaySkip == {n \in NodeIds : n[2] \in {"market", "profit", "score", "export"}}
NoSkipInv == \A n \in NodeIds : node[n].status = "skipped" => n \in MaySkip

------------------------------------------------------------------------------
(* Where the driver has been *)

\* What is left of a list is its end.
Rest(todo, list) ==
  /\ Len(todo) <= Len(list)
  /\ \A i \in 1 .. Len(todo) : todo[i] = list[Len(list) - Len(todo) + i]

ListInv ==
  Driving =>
    /\ driver.stage <= 2 => driver.market = {}
    /\ driver.stage = 1 => driver.products = <<>>
    /\ driver.stage = 2 => /\ Rest(driver.todo, FoundNow)
                           /\ Len(driver.products) + Len(driver.todo) <= Len(FoundNow)
    /\ driver.stage > 2 /\ Stage \in AsinStages =>
         driver.todo = <<>> \/ Rest(driver.todo, driver.products)
    /\ driver.stage > 2 =>
         \A a \in driver.market : ~Skips(<<a, "market">>, driver.products)
    /\ driver.stage > 1 =>
         \A i \in DOMAIN driver.products :
           \E j \in DOMAIN FoundNow : i <= j /\ FoundNow[j] = driver.products[i]

StageOf(n) == CHOOSE k \in 1 .. 8 : Stages[k] = n[2]

\* The nodes that this execution has come by, or has left out.
Behind(n) ==
  /\ n \in NodesNow
  /\ \/ StageOf(n) < driver.stage
     \/ StageOf(n) = driver.stage /\ n[1] \notin Range(driver.todo)

Undisturbed == \A n \in NodeIds : Behind(n) => node[n].status \in Good \cup {"absent"}

IsCurrent(n) ==
  /\ node[n].status \in StatusAllowed(n)
  /\ node[n].input = InputOf(n, FoundNow, LoadedNow)

\* As long as none of the nodes behind the driver is amiss all are up to date.
WalkInv ==
  Driving /\ Undisturbed =>
    /\ driver.stage = 2 => /\ Len(driver.products) + Len(driver.todo) = Len(FoundNow)
                           /\ \A i \in DOMAIN driver.products : driver.products[i] = FoundNow[i]
    /\ driver.stage > 2 => driver.products = FoundNow
    /\ \A n \in NodeIds : Behind(n) => IsCurrent(n)
    /\ \A n \in NodeIds : Behind(n) /\ n[2] = "market" =>
         (n[1] \in driver.market) = (n[1] \in LoadedNow)

\* The node whose handler runs.
HandlerInv ==
  driver.pc = "handler" =>
    /\ node[Current].status = "running"
    /\ ~Skips(Current, driver.products)
    /\ Undisturbed => node[Current].input = InputNow(Current)

AllFine == \A n \in NodeIds : node[n].status \in Good \cup {"absent"}

\* What the execution that ended says, and what is read of it for the report.
ReturnedInv ==
  /\ driver.pc \in {"returned", "collect"} /\ run = "success" => AllFine
  /\ driver.pc = "report" => seen # "none" /\ (seen = "success" => AllFine)
  /\ driver.pc \in {"returned", "collect", "report"} /\ AllFine => AllCurrent

IInv == /\ TypeOK /\ TodoInv /\ BarrierInv
        /\ RecordedInv /\ RuleInv /\ NoSkipInv
        /\ ListInv /\ WalkInv /\ HandlerInv /\ ReturnedInv

\* The timer of a cancellation that a restart completes runs alone.
RecoveringInv == recovering => job = "cancel_requested" /\ driver.pc = "idle"

------------------------------------------------------------------------------
(* Lists of products *)

Earlier == {p \in Nat \X Nat : p[1] < p[2]}

\* A set of numbers that is not empty has a least one.
LEMMA LeastNumber ==
  ASSUME NEW T, T \subseteq Nat, T # {}
  PROVE  \E x \in T : \A y \in T : x <= y
<1>1. IsWellFoundedOn(Earlier, Nat)
  <2>1. OpToRel(<, Nat) = Earlier
    BY DEF OpToRel, Earlier
  <2> QED BY <2>1, NatLessThanWellFounded
<1>2. PICK x \in T : \A y \in T : ~ (<<y, x>> \in Earlier)
  BY <1>1, WFMin
<1>3. \A y \in T : ~(y < x)
  BY <1>2 DEF Earlier
<1> QED BY <1>3

\* The loop of Hydrated, and the table of what it has after each round.
Round(list, detail, wanted, table, i) ==
  IF i = 0 THEN <<>>
  ELSE IF detail[list[i]] \in wanted THEN Append(table[i - 1], list[i])
  ELSE table[i - 1]

IsLoop(list, detail, wanted, table, n) ==
  table = [i \in 0 .. n |-> Round(list, detail, wanted, table, i)]

\* The loop comes to its end, after any number of rounds.
LEMMA LoopEnds ==
  ASSUME NEW list, NEW detail, NEW wanted, NEW n \in Nat
  PROVE  \E table : IsLoop(list, detail, wanted, table, n)
<1> DEFINE Stuck == {k \in Nat : ~ \E table : IsLoop(list, detail, wanted, table, k)}
<1>1. SUFFICES ASSUME Stuck # {} PROVE FALSE
  OBVIOUS
<1>2. PICK k \in Stuck : \A j \in Stuck : k <= j
  BY <1>1, LeastNumber
<1>3. k # 0
  <2> DEFINE t == [i \in 0 .. 0 |-> <<>>]
  <2>1. IsLoop(list, detail, wanted, t, 0)
    BY DEF IsLoop, Round
  <2> QED BY <2>1, <1>2
<1>4. PICK t : IsLoop(list, detail, wanted, t, k - 1)
  BY <1>2, <1>3
<1> DEFINE u == [i \in 0 .. k |-> Round(list, detail, wanted, t, i)]
<1>5. \A i \in 0 .. (k - 1) : u[i] = t[i]
  BY <1>2, <1>3, <1>4 DEF IsLoop
<1>6. ASSUME NEW i \in 0 .. k
      PROVE  Round(list, detail, wanted, t, i) = Round(list, detail, wanted, u, i)
  <2>1. i = 0 \/ u[i - 1] = t[i - 1]
    BY <1>2, <1>5
  <2> HIDE DEF u
  <2> QED BY <2>1 DEF Round
<1>7. IsLoop(list, detail, wanted, u, k)
  BY <1>6 DEF IsLoop
<1> QED BY <1>2, <1>7

\* What the loop has after each round are elements of its list, none twice.
LEMMA LoopKeeps ==
  ASSUME NEW S, NEW list \in Seq(S), IsInjective(list), NEW detail, NEW wanted, NEW table,
         IsLoop(list, detail, wanted, table, Len(list))
  PROVE  table[Len(list)] \in Seq(S) /\ IsInjective(table[Len(list)])
<1> DEFINE Kept(k) == /\ table[k] \in Seq(S) /\ IsInjective(table[k])
                      /\ \A i \in DOMAIN table[k] : \E j \in 1 .. k : table[k][i] = list[j]
           Lost == {k \in 0 .. Len(list) : ~Kept(k)}
<1>1. SUFFICES ASSUME Lost # {} PROVE FALSE
  OBVIOUS
<1>2. PICK k \in Lost : \A j \in Lost : k <= j
  <2>1. Lost \subseteq Nat
    OBVIOUS
  <2> HIDE DEF Lost
  <2> QED BY <1>1, <2>1, LeastNumber
<1>3. table[k] = Round(list, detail, wanted, table, k)
  BY <1>2 DEF IsLoop
<1>4. CASE k = 0
  <2>1. table[k] = <<>>
    BY <1>3, <1>4 DEF Round
  <2>2. Kept(k)
    BY <2>1 DEF IsInjective
  <2> QED BY <2>2, <1>2
<1>5. CASE k # 0
  <2>1. Kept(k - 1) /\ k \in 1 .. Len(list) /\ k - 1 \in 0 .. Len(list)
    BY <1>2, <1>5
  <2>2. CASE table[k] = table[k - 1]
    BY <2>1, <2>2, <1>2
  <2>3. CASE table[k] = Append(table[k - 1], list[k])
    <3>1. table[k] \in Seq(S) /\ Len(table[k]) = Len(table[k - 1]) + 1
      BY <2>1, <2>3
    <3>2. \A i \in DOMAIN table[k] : i # Len(table[k]) => i \in DOMAIN table[k - 1] /\ table[k][i] = table[k - 1][i]
      BY <2>1, <2>3, <3>1
    <3>3. table[k][Len(table[k])] = list[k]
      BY <2>1, <2>3, <3>1
    <3>4. \A i \in DOMAIN table[k] : \E j \in 1 .. k : table[k][i] = list[j]
      BY <2>1, <3>2, <3>3
    <3>5. \A i \in DOMAIN table[k] : i # Len(table[k]) => table[k][i] # list[k]
      BY <2>1, <3>2 DEF IsInjective
    <3>6. IsInjective(table[k])
      BY <2>1, <3>1, <3>2, <3>3, <3>5 DEF IsInjective
    <3> QED BY <3>1, <3>4, <3>6, <1>2
  <2> QED BY <2>2, <2>3, <1>3, <1>5 DEF Round
<1> QED BY <1>4, <1>5

LEMMA HydratedType ==
  ASSUME NEW list \in ProductLists, NEW detail, NEW wanted
  PROVE  Hydrated(list, detail, wanted) \in ProductLists
<1> DEFINE table == CHOOSE t : IsLoop(list, detail, wanted, t, Len(list))
<1>1. list \in Seq(Asins) /\ Len(list) \in Nat
  BY DEF ProductLists
<1>2. IsLoop(list, detail, wanted, table, Len(list))
  BY <1>1, LoopEnds
<1>3. Hydrated(list, detail, wanted) = table[Len(list)]
  BY DEF Hydrated, IsLoop, Round
<1> QED BY <1>1, <1>2, <1>3, LoopKeeps DEF ProductLists

\* Whatever a discovery comes to is a list of products, each of them once.
LEMMA DiscoveredType == DiscoveredProducts \subseteq ProductLists
<1>1. Catalogue \in ProductLists
  BY CatalogueAssumption DEF ProductLists
<1>2. ASSUME NEW reached \in 0 .. Len(Catalogue)
      PROVE  CollectAsins(reached) \in ProductLists
  <2>1. Catalogue \in Seq(Asins) /\ Len(Catalogue) \in Nat /\ IsInjective(Catalogue)
    BY CatalogueAssumption
  <2>2. CollectAsins(reached) \in Seq(Asins) /\ Len(CollectAsins(reached)) = reached
    BY <2>1 DEF CollectAsins
  <2>3. \A i \in 1 .. reached : CollectAsins(reached)[i] = Catalogue[i]
    BY <2>1 DEF CollectAsins
  <2> QED BY <2>1, <2>2, <2>3 DEF ProductLists, IsInjective
<1>3. ASSUME NEW kind, NEW detail
      PROVE  SearchAmazonProducts(kind, detail).raised = {} =>
               SearchAmazonProducts(kind, detail).products \in ProductLists
  BY <1>1, HydratedType DEF SearchAmazonProducts, Raised, Found
<1>4. ASSUME NEW reached \in 0 .. Len(Catalogue), NEW detail
      PROVE  ScrapeBestSellers(reached, detail).products \in ProductLists
  BY <1>2, HydratedType DEF ScrapeBestSellers, Found
<1> QED BY <1>3, <1>4 DEF DiscoveredProducts, Discoveries

------------------------------------------------------------------------------
(* Stages and nodes *)

LEMMA StageFacts ==
  /\ \A k \in 1 .. 8 : Stages[k] \in {Stages[1], Stages[2], Stages[3], Stages[4],
                                      Stages[5], Stages[6], Stages[7], Stages[8]}
  /\ Stages[1] = "source_discovery" /\ Stages[2] = "ingest" /\ Stages[3] = "market"
  /\ Stages[4] = "match" /\ Stages[5] = "profit" /\ Stages[6] = "score"
  /\ Stages[7] = "filter" /\ Stages[8] = "export"
  BY DEF Stages

LEMMA NodeFacts ==
  ASSUME NEW n \in NodeIds
  PROVE  /\ n = <<n[1], n[2]>>
         /\ \/ n = Source \/ n = FilterNode \/ n = ExportNode
            \/ n[1] \in Asins /\ n[2] \in AsinStages
         /\ n[2] = "source_discovery" <=> n = Source
         /\ n[2] = "filter" <=> n = FilterNode
         /\ n[2] = "export" <=> n = ExportNode
  BY DEF NodeIds, Source, FilterNode, ExportNode, AsinStages

LEMMA NodesExist ==
  /\ Source \in NodeIds /\ FilterNode \in NodeIds /\ ExportNode \in NodeIds
  /\ \A a \in Asins, stage \in AsinStages : <<a, stage>> \in NodeIds
  BY DEF NodeIds

LEMMA StageOfFacts ==
  ASSUME NEW n \in NodeIds
  PROVE  /\ StageOf(n) \in 1 .. 8 /\ Stages[StageOf(n)] = n[2]
         /\ \A k \in 1 .. 8 : Stages[k] = n[2] => k = StageOf(n)
<1>1. n[2] \in {"source_discovery", "ingest", "market", "match", "profit", "score", "filter", "export"}
  BY NodeFacts DEF AsinStages, Source, FilterNode, ExportNode
<1>2. \E k \in 1 .. 8 : Stages[k] = n[2]
  BY <1>1, StageFacts
<1>3. StageOf(n) \in 1 .. 8 /\ Stages[StageOf(n)] = n[2]
  BY <1>2 DEF StageOf
<1>4. \A j, k \in 1 .. 8 : Stages[j] = Stages[k] => j = k
  BY StageFacts
<1> QED BY <1>3, <1>4

LEMMA UpFacts ==
  ASSUME NEW n \in Dependent
  PROVE  n \in NodeIds /\ Up(n) \in NodeIds /\ Up(n) # n
  BY NodeFacts, NodesExist DEF Dependent, Up, AsinStages, Source, FilterNode, ExportNode

\* The node the driver is at.
LEMMA CurrentExists ==
  ASSUME TypeOK, TodoInv, Driving, driver.todo # <<>>
  PROVE  /\ Current \in NodeIds /\ Current[2] = Stage /\ Current[1] = Head(driver.todo)
         /\ Current = Source <=> driver.stage = 1
         /\ StageOf(Current) = driver.stage
<1>1. driver.stage \in 1 .. 8 /\ Stage = Stages[driver.stage]
  BY DEF TypeOK, DriverRecords, Stage
<1>2. Stage \in AsinStages => Head(driver.todo) \in Asins
  BY DEF TodoInv
<1>3. Stage \notin AsinStages => Head(driver.todo) = "run"
  BY DEF TodoInv
<1>4. Current \in NodeIds /\ Current[2] = Stage /\ Current[1] = Head(driver.todo)
  BY <1>1, <1>2, <1>3, StageFacts DEF Current, NodeIds, Source, FilterNode, ExportNode, AsinStages
<1>5. StageOf(Current) = driver.stage
  BY <1>1, <1>4, StageOfFacts
<1> QED BY <1>1, <1>4, <1>5, NodeFacts, StageFacts DEF Source

------------------------------------------------------------------------------
(* What becomes of a row *)

\* Within a generation a finished row does not change.
Frozen(old, new) ==
  /\ new.generation >= old.generation
  /\ new.generation = old.generation /\ old.status \in Good =>
       new.status = old.status /\ new.input = old.input

\* A row that keeps its input and does not come to be finished.
Quiet(old, new) ==
  /\ IsRow(new) /\ Frozen(old, new)
  /\ new.input = old.input
  /\ new.status = "absent" <=> old.status = "absent"
  /\ new.status \in Good => new.status = old.status /\ new.generation = old.generation

\* A row that is at most promoted.
AtMostPromoted(old, new) ==
  IsRow(new) /\ (new = old \/ (old.status = "retry_wait" /\ new = PromotedRow(old)))

LEMMA RowFacts ==
  ASSUME NEW row, IsRow(row)
  PROVE  /\ row.status \in RowStatus /\ row.generation \in Nat /\ row.attempt_count \in Nat
         /\ row.resume_token \in Nat /\ row.lease \in Int /\ row.next_retry \in Int
         /\ row.status = "absent" => row.generation = 0
         /\ Quiet(row, row)
  BY DEF IsRow, Quiet, Frozen

\* The methods, one by one.
LEMMA PromotedFacts ==
  ASSUME NEW row, IsRow(row), row.status = "retry_wait", NEW new, new = PromotedRow(row)
  PROVE  Quiet(row, new) /\ new.status = "pending"
<1>1. new = [f \in RowFields |-> new[f]]
  BY DEF IsRow, PromotedRow
<1>3. /\ new.generation = row.generation
      /\ new.attempt_count = row.attempt_count
      /\ new.input = row.input
      /\ new.lease = row.lease
      /\ new.next_retry = -1
      /\ new.resume_token = row.resume_token
      /\ new.status = "pending"
  BY DEF IsRow, PromotedRow, RowFields
<1> QED BY <1>1, <1>3 DEF IsRow, Quiet, Frozen, RowStatus, NodeStatus, Good

LEMMA AtMostPromotedQuiet ==
  ASSUME NEW old, NEW new, IsRow(old), AtMostPromoted(old, new)
  PROVE  Quiet(old, new)
  BY RowFacts, PromotedFacts DEF AtMostPromoted

LEMMA RecoveredFacts ==
  ASSUME NEW row, IsRow(row), row.status = "running", NEW max \in Nat, NEW retry \in Int,
         NEW new, new = RecoveredRow(row, max, retry)
  PROVE  Quiet(row, new) /\ new.status \in {"retry_wait", "failed"}
<1>1. new = [f \in RowFields |-> new[f]]
  BY DEF IsRow, RecoveredRow
<1>3. /\ new.generation = row.generation
      /\ new.attempt_count = row.attempt_count
      /\ new.input = row.input
      /\ new.lease = -1
      /\ new.next_retry = (IF RecoveryTarget(row, max) = "retry_wait" THEN retry ELSE -1)
      /\ new.resume_token = row.resume_token
      /\ new.status = RecoveryTarget(row, max)
  BY DEF IsRow, RecoveredRow, RowFields
<1> QED BY <1>1, <1>3 DEF IsRow, Quiet, Frozen, RowStatus, NodeStatus, Good, RecoveryTarget

LEMMA CancelledFacts ==
  ASSUME NEW row, IsRow(row), row.status \in Cancellable, NEW new, new = CancelledRow(row)
  PROVE  Quiet(row, new) /\ new.status = "cancelled"
<1>1. new = [f \in RowFields |-> new[f]]
  BY DEF IsRow, CancelledRow
<1>3. /\ new.generation = row.generation
      /\ new.attempt_count = row.attempt_count
      /\ new.input = row.input
      /\ new.lease = row.lease
      /\ new.next_retry = -1
      /\ new.resume_token = row.resume_token
      /\ new.status = "cancelled"
  BY DEF IsRow, CancelledRow, RowFields
<1> QED BY <1>1, <1>3 DEF IsRow, Quiet, Frozen, RowStatus, NodeStatus, Good, Cancellable

LEMMA ResetFacts ==
  ASSUME NEW row, IsRow(row), NEW op \in Operations, row.status \in OperationAllows(op),
         NEW new, new = ResetRow(row, op)
  PROVE  Quiet(row, new) /\ new.status = "pending"
<1>1. new = [f \in RowFields |-> new[f]]
  BY DEF IsRow, ResetRow
<1>2. row.status \notin {"absent", "pending"} /\ (row.status \in Good => op = "force_rerun")
  BY DEF Operations, OperationAllows, Good
<1>3. /\ new.generation = (IF op = "force_rerun" THEN row.generation + 1 ELSE row.generation)
      /\ new.attempt_count = row.attempt_count
      /\ new.input = row.input
      /\ new.lease = -1
      /\ new.next_retry = -1
      /\ new.resume_token = row.resume_token + 1
      /\ new.status = "pending"
  BY DEF IsRow, ResetRow, RowFields
<1> QED BY <1>1, <1>2, <1>3 DEF IsRow, Quiet, Frozen, RowStatus, NodeStatus, Good, Operations

LEMMA RetriedFacts ==
  ASSUME NEW row, IsRow(row)
  PROVE  Quiet(row, RetriedRow(row))
<1>1. CASE row.status \in {"failed", "timed_out"}
  BY <1>1, ResetFacts DEF RetriedRow, Operations, OperationAllows
<1>2. CASE row.status = "cancelled"
  BY <1>2, ResetFacts DEF RetriedRow, Operations, OperationAllows
<1> QED BY <1>1, <1>2, RowFacts DEF RetriedRow

LEMMA FailedFacts ==
  ASSUME NEW row, IsRow(row), row.status = "running", NEW disposition, NEW retry \in Int,
         NEW new, new = FailedRow(row, disposition, retry)
  PROVE  Quiet(row, new) /\ new.status \notin Good \cup {"absent"}
<1>1. new = [f \in RowFields |-> new[f]]
  BY DEF IsRow, FailedRow
<1>2. FailTarget(row, disposition) \in {"retry_wait", "human_required", "cancelled", "timed_out", "failed"}
  BY DEF FailTarget
<1>3. /\ new.generation = row.generation
      /\ new.attempt_count = row.attempt_count
      /\ new.input = row.input
      /\ new.lease = -1
      /\ new.next_retry = (IF FailTarget(row, disposition) = "retry_wait" THEN retry ELSE -1)
      /\ new.resume_token = row.resume_token
      /\ new.status = FailTarget(row, disposition)
  BY DEF IsRow, FailedRow, RowFields
<1> QED BY <1>1, <1>2, <1>3 DEF IsRow, Quiet, Frozen, RowStatus, NodeStatus, Good

LEMMA SucceededFacts ==
  ASSUME NEW row, IsRow(row), row.status = "running", NEW new, new = SucceededRow(row)
  PROVE  /\ IsRow(new) /\ Frozen(row, new)
         /\ new.status = "succeeded" /\ new.input = row.input /\ new.generation = row.generation
<1>1. new = [f \in RowFields |-> new[f]]
  BY DEF IsRow, SucceededRow
<1>3. /\ new.generation = row.generation
      /\ new.attempt_count = row.attempt_count
      /\ new.input = row.input
      /\ new.lease = -1
      /\ new.next_retry = -1
      /\ new.resume_token = row.resume_token
      /\ new.status = "succeeded"
  BY DEF IsRow, SucceededRow, RowFields
<1> QED BY <1>1, <1>3 DEF IsRow, Quiet, Frozen, RowStatus, NodeStatus, Good

LEMMA CreatedFacts ==
  ASSUME NEW i, NEW new, new = CreatedRow(i)
  PROVE  IsRow(new) /\ new.status = "pending" /\ new.input = i /\ new.generation = 1
<1>1. new = [f \in RowFields |-> new[f]]
  BY DEF CreatedRow, RowFields
<1> QED BY <1>1 DEF IsRow, CreatedRow, RowFields, RowStatus, NodeStatus

LEMMA InputInvalidatedFacts ==
  ASSUME NEW row, IsRow(row), NEW i, NEW new, new = InputInvalidatedRow(row, i)
  PROVE  IsRow(new) /\ Frozen(row, new) /\ new.status = "pending" /\ new.input = i
<1>1. new = [f \in RowFields |-> new[f]]
  BY DEF IsRow, InputInvalidatedRow
<1>3. /\ new.generation = row.generation + 1
      /\ new.attempt_count = row.attempt_count
      /\ new.input = i
      /\ new.lease = row.lease
      /\ new.next_retry = row.next_retry
      /\ new.resume_token = row.resume_token + 1
      /\ new.status = "pending"
  BY DEF IsRow, InputInvalidatedRow, RowFields
<1> QED BY <1>1, <1>3 DEF IsRow, Quiet, Frozen, RowStatus, NodeStatus, Good

LEMMA ReplacedInputFacts ==
  ASSUME NEW row, IsRow(row), NEW i, NEW new, new = ReplacedInputRow(row, i)
  PROVE  IsRow(new) /\ new.status = row.status /\ new.generation = row.generation /\ new.input = i
<1>1. new = [f \in RowFields |-> new[f]]
  BY DEF IsRow, ReplacedInputRow
<1>3. /\ new.generation = row.generation
      /\ new.attempt_count = row.attempt_count
      /\ new.input = i
      /\ new.lease = row.lease
      /\ new.next_retry = row.next_retry
      /\ new.resume_token = row.resume_token
      /\ new.status = row.status
  BY DEF IsRow, ReplacedInputRow, RowFields
<1> QED BY <1>1, <1>3 DEF IsRow, Quiet, Frozen, RowStatus, NodeStatus, Good

LEMMA EnsuredFacts ==
  ASSUME NEW row, IsRow(row), NEW i, row.status = "running" => row.input = i,
         NEW new, new = EnsuredRow(row, i)
  PROVE  /\ IsRow(new) /\ Frozen(row, new) /\ new.input = i /\ new.status # "absent"
         /\ \/ new.status = "pending"
            \/ /\ new.status = row.status /\ new.generation = row.generation
               /\ row.status \in Good => row.input = i
<1>1. CASE row.status = "absent"
  BY <1>1, CreatedFacts, RowFacts DEF EnsuredRow, Frozen, Good
<1>2. CASE InputInvalidates(row, i)
  BY <1>2, InputInvalidatedFacts DEF EnsuredRow, InputInvalidates
<1>3. CASE row.status # "absent" /\ ~InputInvalidates(row, i) /\ InputReplaceable(row, i)
  <2>1. new = ReplacedInputRow(row, i)
    BY <1>3 DEF EnsuredRow
  <2> QED BY <1>3, <2>1, ReplacedInputFacts, RowFacts DEF Frozen, Good, InputInvalidates
<1>4. CASE row.status # "absent" /\ ~InputInvalidates(row, i) /\ ~InputReplaceable(row, i)
  <2>1. new = row
    BY <1>4 DEF EnsuredRow
  <2>2. row.input = i
    BY <1>4 DEF InputInvalidates, InputReplaceable
  <2> QED BY <1>4, <2>1, <2>2, RowFacts DEF Quiet
<1> QED BY <1>1, <1>2, <1>3, <1>4 DEF InputInvalidates

LEMMA SkippedFacts ==
  ASSUME NEW row, IsRow(row), row.status = "pending", NEW new, new = SkippedRow(row)
  PROVE  /\ IsRow(new) /\ Frozen(row, new)
         /\ new.status = "skipped" /\ new.input = row.input /\ new.generation = row.generation
<1>1. new = [f \in RowFields |-> new[f]]
  BY DEF IsRow, SkippedRow
<1>3. /\ new.generation = row.generation
      /\ new.attempt_count = row.attempt_count
      /\ new.input = row.input
      /\ new.lease = row.lease
      /\ new.next_retry = row.next_retry
      /\ new.resume_token = row.resume_token
      /\ new.status = "skipped"
  BY DEF IsRow, SkippedRow, RowFields
<1> QED BY <1>1, <1>3 DEF IsRow, Quiet, Frozen, RowStatus, NodeStatus, Good

LEMMA InvalidatedFacts ==
  ASSUME NEW row, IsRow(row), row.status = "succeeded", NEW new, new = ResultInvalidatedRow(row)
  PROVE  /\ IsRow(new) /\ Frozen(row, new)
         /\ new.status = "pending" /\ new.input = row.input
<1>1. new = [f \in RowFields |-> new[f]]
  BY DEF IsRow, ResultInvalidatedRow
<1>3. /\ new.generation = row.generation + 1
      /\ new.attempt_count = row.attempt_count
      /\ new.input = row.input
      /\ new.lease = row.lease
      /\ new.next_retry = row.next_retry
      /\ new.resume_token = row.resume_token + 1
      /\ new.status = "pending"
  BY DEF IsRow, ResultInvalidatedRow, RowFields
<1> QED BY <1>1, <1>3 DEF IsRow, Quiet, Frozen, RowStatus, NodeStatus, Good

LEMMA ClaimedFacts ==
  ASSUME NEW row, IsRow(row), row.status = "pending", NEW new, new = ClaimedRow(row, "worker", 0)
  PROVE  /\ IsRow(new) /\ Frozen(row, new)
         /\ new.status = "running" /\ new.input = row.input /\ new.generation = row.generation
<1>1. new = [f \in RowFields |-> new[f]]
  BY DEF IsRow, ClaimedRow
<1>3. /\ new.generation = row.generation
      /\ new.attempt_count = row.attempt_count + 1
      /\ new.input = row.input
      /\ new.lease = 0
      /\ new.next_retry = -1
      /\ new.resume_token = row.resume_token
      /\ new.status = "running"
  BY DEF IsRow, ClaimedRow, RowFields
<1> QED BY <1>1, <1>3 DEF IsRow, Quiet, Frozen, RowStatus, NodeStatus, Good

LEMMA FrozenTransitive ==
  ASSUME NEW a, NEW b, NEW c, IsRow(a), IsRow(b), IsRow(c), Frozen(a, b), Frozen(b, c)
  PROVE  Frozen(a, c)
  BY RowFacts DEF Frozen

------------------------------------------------------------------------------
(* What becomes of the rows when the driver visits a node *)

LEMMA SkippedRows ==
  ASSUME TypeOK, NEW c \in NodeIds, ~Refuses(c), NEW new, new = Skipped(c)
  PROVE  /\ new = [n \in NodeIds |-> new[n]]
         /\ \A n \in NodeIds \ {c} : new[n] = node[n]
         /\ IsRow(new[c]) /\ Frozen(node[c], new[c])
         /\ new[c].input = InputNow(c) /\ new[c].status # "absent"
         /\ \/ new[c].status = "skipped"
            \/ /\ new[c].status = node[c].status /\ new[c].generation = node[c].generation
               /\ node[c].status \in Good => node[c].input = InputNow(c)
<1> DEFINE i == InputNow(c)
           e == EnsuredRow(node[c], i)
           r == IF e.status = "pending" THEN SkippedRow(e) ELSE e
<1>1. node = [n \in NodeIds |-> node[n]] /\ IsRow(node[c]) /\ (node[c].status = "running" => node[c].input = i)
  BY DEF TypeOK, DriverRecords, Refuses
<1>2. new = [node EXCEPT ![c] = r]
  <2> HIDE DEF i
  <2> QED BY <1>1 DEF Skipped, Ensured, i
<1>3. /\ IsRow(e) /\ Frozen(node[c], e) /\ e.input = i /\ e.status # "absent"
      /\ \/ e.status = "pending"
         \/ /\ e.status = node[c].status /\ e.generation = node[c].generation
            /\ node[c].status \in Good => node[c].input = i
  <2> HIDE DEF i
  <2> QED BY <1>1, EnsuredFacts
<1>4. new = [n \in NodeIds |-> IF n = c THEN r ELSE node[n]]
  <2> HIDE DEF r
  <2> QED BY <1>1, <1>2
<1>5. new = [n \in NodeIds |-> new[n]] /\ new[c] = r /\ \A n \in NodeIds \ {c} : new[n] = node[n]
  <2> HIDE DEF r
  <2> QED BY <1>4
<1>6. CASE e.status = "pending"
  <2> HIDE DEF i, e
  <2>1. r = SkippedRow(e)
    BY <1>6
  <2> HIDE DEF r
  <2>2. IsRow(r) /\ Frozen(e, r) /\ r.status = "skipped" /\ r.input = e.input
    BY <1>3, <1>6, <2>1, SkippedFacts
  <2>3. Frozen(node[c], r)
    BY <1>1, <1>3, <2>2, FrozenTransitive
  <2> QED BY <1>3, <1>5, <2>2, <2>3 DEF i
<1>7. CASE e.status # "pending"
  <2> HIDE DEF i, e
  <2>1. r = e
    BY <1>7
  <2> HIDE DEF r
  <2> QED BY <1>3, <1>5, <1>7, <2>1 DEF i
<1> QED BY <1>6, <1>7

LEMMA ClaimedRows ==
  ASSUME TypeOK, NEW c \in NodeIds, ~Refuses(c), NEW valid \in BOOLEAN,
         NEW new, new = Claimed(c, valid)
  PROVE  /\ new = [n \in NodeIds |-> new[n]]
         /\ \A n \in NodeIds \ {c} : AtMostPromoted(node[n], new[n])
         /\ IsRow(new[c]) /\ Frozen(node[c], new[c])
         /\ new[c].input = InputNow(c) /\ new[c].status # "absent"
         /\ Executes(c, valid) => new[c].status = "running"
         /\ ~Executes(c, valid) =>
              /\ new[c].status = node[c].status /\ new[c].generation = node[c].generation
              /\ node[c].status \in Good => node[c].input = InputNow(c)
<1> DEFINE i == InputNow(c)
           e == EnsuredRow(node[c], i)
           r == IF e.status = "succeeded" /\ ~valid THEN ResultInvalidatedRow(e) ELSE e
           rows == [node EXCEPT ![c] = r]
           ready == IF r.status = "retry_wait" THEN Promoted(rows) ELSE rows
           q == ready[c]
           s == IF q.status = "pending" THEN ClaimedRow(q, "worker", 0) ELSE q
<1>1. /\ node = [n \in NodeIds |-> node[n]] /\ \A n \in NodeIds : IsRow(node[n])
      /\ node[c].status = "running" => node[c].input = i
  BY DEF TypeOK, DriverRecords, Refuses
<1>2. Ready(c, valid) = ready
  <2>1. Ensured(c) = [node EXCEPT ![c] = e]
    BY DEF Ensured
  <2> HIDE DEF i, e
  <2>2. [Ensured(c) EXCEPT ![c] = IF @.status = "succeeded" /\ ~valid
                                  THEN ResultInvalidatedRow(@) ELSE @] = rows
    BY <1>1, <2>1
  <2>3. rows[c] = r
    BY <1>1
  <2> HIDE DEF r, rows
  <2> QED BY <2>2, <2>3 DEF Ready
<1>3. /\ IsRow(e) /\ Frozen(node[c], e) /\ e.input = i /\ e.status # "absent"
      /\ \/ e.status = "pending"
         \/ /\ e.status = node[c].status /\ e.generation = node[c].generation
            /\ node[c].status \in Good => node[c].input = i
  <2> HIDE DEF i
  <2> QED BY <1>1, EnsuredFacts
<1>4. /\ IsRow(r) /\ Frozen(node[c], r) /\ r.input = i /\ r.status # "absent"
      /\ r.status = "pending" \/ r = e
  <2> HIDE DEF i, e
  <2>1. CASE e.status = "succeeded" /\ ~valid
    <3>1. r = ResultInvalidatedRow(e)
      BY <2>1
    <3> HIDE DEF r
    <3>2. IsRow(r) /\ Frozen(e, r) /\ r.status = "pending" /\ r.input = e.input
      BY <3>1, <2>1, <1>3, InvalidatedFacts
    <3> QED BY <3>2, <1>1, <1>3, FrozenTransitive
  <2>2. CASE ~(e.status = "succeeded" /\ ~valid)
    <3>1. r = e
      BY <2>2
    <3> HIDE DEF r
    <3> QED BY <3>1, <1>3
  <2> QED BY <2>1, <2>2
<1> HIDE DEF i, e, r
<1>5. rows = [n \in NodeIds |-> IF n = c THEN r ELSE node[n]]
  BY <1>1
<1>6. \A n \in NodeIds : IsRow(rows[n])
  BY <1>1, <1>4, <1>5
<1>7. /\ ready = [n \in NodeIds |-> ready[n]]
      /\ \A n \in NodeIds : AtMostPromoted(rows[n], ready[n])
      /\ ready[c] = r \/ ready[c].status = "pending"
  <2>1. CASE r.status = "retry_wait"
    <3>1. ready = [n \in NodeIds |-> IF Due(rows[n]) THEN PromotedRow(rows[n]) ELSE rows[n]]
      BY <2>1 DEF Promoted
    <3> HIDE DEF rows, ready
    <3>2. ASSUME NEW n \in NodeIds PROVE AtMostPromoted(rows[n], ready[n]) /\ (ready[n] = rows[n] \/ ready[n].status = "pending")
      <4>1. CASE Due(rows[n])
        <5>1. rows[n].status = "retry_wait" /\ IsRow(rows[n]) /\ ready[n] = PromotedRow(rows[n])
          BY <3>1, <4>1, <1>6 DEF Due
        <5>2. Quiet(rows[n], ready[n]) /\ ready[n].status = "pending"
          BY <5>1, PromotedFacts
        <5> QED BY <5>1, <5>2 DEF AtMostPromoted, Quiet
      <4>2. CASE ~Due(rows[n])
        BY <3>1, <4>2, <1>6 DEF AtMostPromoted
      <4> QED BY <4>1, <4>2
    <3>3. ready[c] = r \/ ready[c].status = "pending"
      BY <3>2, <1>5
    <3>4. ready = [n \in NodeIds |-> ready[n]]
      BY <3>1
    <3> QED BY <3>2, <3>3, <3>4
  <2>2. CASE r.status # "retry_wait"
    <3>1. ready = rows
      BY <2>2
    <3> HIDE DEF rows, ready
    <3> QED BY <3>1, <1>5, <1>6 DEF AtMostPromoted
  <2> QED BY <2>1, <2>2
<1> HIDE DEF rows, ready
<1>8. q = ready[c] /\ IsRow(q) /\ Frozen(r, q) /\ q.input = i /\ q.status # "absent"
  BY <1>4, <1>5, <1>7, AtMostPromotedQuiet DEF Quiet, AtMostPromoted
<1>9. Frozen(node[c], q) /\ (q.status # "pending" => q = e)
  BY <1>1, <1>4, <1>7, <1>8, FrozenTransitive
<1>10. new = [n \in NodeIds |-> IF n = c THEN s ELSE ready[n]]
  BY <1>2, <1>7 DEF Claimed
<1>11. Executes(c, valid) <=> q.status = "pending"
  BY <1>2 DEF Executes
<1> HIDE DEF q
<1>12. CASE q.status = "pending"
  <2>1. s = ClaimedRow(q, "worker", 0)
    BY <1>12
  <2> HIDE DEF s
  <2>2. IsRow(s) /\ Frozen(q, s) /\ s.status = "running" /\ s.input = q.input
    BY <2>1, <1>8, <1>12, ClaimedFacts
  <2>3. Frozen(node[c], s)
    BY <2>2, <1>1, <1>8, <1>9, FrozenTransitive
  <2>4. new = [n \in NodeIds |-> new[n]] /\ new[c] = s
    BY <1>10
  <2>5. \A n \in NodeIds \ {c} : AtMostPromoted(node[n], new[n])
    BY <1>5, <1>7, <1>10
  <2> QED BY <2>2, <2>3, <2>4, <2>5, <1>8, <1>11, <1>12 DEF i
<1>13. CASE q.status # "pending"
  <2>1. s = e
    BY <1>9, <1>13
  <2> HIDE DEF s
  <2>2. new = [n \in NodeIds |-> new[n]] /\ new[c] = s
    BY <1>10
  <2>3. \A n \in NodeIds \ {c} : AtMostPromoted(node[n], new[n])
    BY <1>5, <1>7, <1>10
  <2> QED BY <2>1, <2>2, <2>3, <1>3, <1>9, <1>11, <1>13 DEF i
<1> QED BY <1>12, <1>13

------------------------------------------------------------------------------
(* What becomes of all rows *)

IsTable(t) == t = [n \in NodeIds |-> t[n]] /\ \A n \in NodeIds : IsRow(t[n])
QuietTable(t, u) == IsTable(u) /\ \A n \in NodeIds : Quiet(t[n], u[n])

LEMMA QuietTransitive ==
  ASSUME NEW t, NEW u, NEW v, IsTable(t), QuietTable(t, u), QuietTable(u, v)
  PROVE  QuietTable(t, v)
<1>1. ASSUME NEW n \in NodeIds PROVE Quiet(t[n], v[n])
  <2>1. IsRow(t[n]) /\ IsRow(u[n]) /\ IsRow(v[n]) /\ Quiet(t[n], u[n]) /\ Quiet(u[n], v[n])
    BY DEF IsTable, QuietTable
  <2>2. Frozen(t[n], v[n])
    BY <2>1, FrozenTransitive DEF Quiet
  <2> QED BY <2>1, <2>2 DEF Quiet
<1> QED BY <1>1 DEF QuietTable

LEMMA RecoveredQuiet ==
  ASSUME NEW t, IsTable(t), NEW max \in Nat, NEW retry \in Int
  PROVE  QuietTable(t, Recovered(t, max, retry))
<1> DEFINE u == Recovered(t, max, retry)
<1>1. u = [n \in NodeIds |-> IF t[n].status = "running" /\ t[n].lease < 0
                             THEN RecoveredRow(t[n], max, retry) ELSE t[n]]
  BY DEF Recovered
<1> HIDE DEF u
<1>2. ASSUME NEW n \in NodeIds PROVE IsRow(u[n]) /\ Quiet(t[n], u[n])
  <2>1. CASE t[n].status = "running" /\ t[n].lease < 0
    BY <1>1, <2>1, RecoveredFacts DEF IsTable, Quiet
  <2>2. CASE ~(t[n].status = "running" /\ t[n].lease < 0)
    BY <1>1, <2>2, RowFacts DEF IsTable
  <2> QED BY <2>1, <2>2
<1>3. u = [n \in NodeIds |-> u[n]]
  BY <1>1
<1> QED BY <1>2, <1>3 DEF QuietTable, IsTable, u

LEMMA PromotedQuiet ==
  ASSUME NEW t, IsTable(t)
  PROVE  QuietTable(t, Promoted(t))
<1> DEFINE u == Promoted(t)
<1>1. u = [n \in NodeIds |-> IF Due(t[n]) THEN PromotedRow(t[n]) ELSE t[n]]
  BY DEF Promoted
<1> HIDE DEF u
<1>2. ASSUME NEW n \in NodeIds PROVE IsRow(u[n]) /\ Quiet(t[n], u[n])
  <2>1. CASE Due(t[n])
    BY <1>1, <2>1, PromotedFacts DEF IsTable, Quiet, Due
  <2>2. CASE ~Due(t[n])
    BY <1>1, <2>2, RowFacts DEF IsTable
  <2> QED BY <2>1, <2>2
<1>3. u = [n \in NodeIds |-> u[n]]
  BY <1>1
<1> QED BY <1>2, <1>3 DEF QuietTable, IsTable, u

LEMMA CancelledQuiet ==
  ASSUME NEW t, IsTable(t)
  PROVE  /\ QuietTable(t, Cancelled(t))
         /\ \A n \in NodeIds : \/ Cancelled(t)[n] = t[n] /\ t[n].status \notin Cancellable
                               \/ t[n].status \in Cancellable /\ Cancelled(t)[n].status = "cancelled"
<1> DEFINE u == Cancelled(t)
<1>1. u = [n \in NodeIds |-> IF t[n].status \in Cancellable THEN CancelledRow(t[n]) ELSE t[n]]
  BY DEF Cancelled
<1> HIDE DEF u
<1>2. ASSUME NEW n \in NodeIds
      PROVE  /\ IsRow(u[n]) /\ Quiet(t[n], u[n])
             /\ \/ u[n] = t[n] /\ t[n].status \notin Cancellable
                \/ t[n].status \in Cancellable /\ u[n].status = "cancelled"
  <2>1. CASE t[n].status \in Cancellable
    BY <1>1, <2>1, CancelledFacts DEF IsTable, Quiet
  <2>2. CASE t[n].status \notin Cancellable
    BY <1>1, <2>2, RowFacts DEF IsTable
  <2> QED BY <2>1, <2>2
<1>3. u = [n \in NodeIds |-> u[n]]
  BY <1>1
<1> QED BY <1>2, <1>3 DEF QuietTable, IsTable, u

\* A run is a success only if none of its nodes is amiss.
LEMMA AggregateFacts ==
  ASSUME NEW t, IsTable(t), NEW status \in RunStatus, NEW required \in BOOLEAN
  PROVE  /\ Aggregate(t, status, required) \in RunStatus
         /\ Aggregate(t, status, required) = "success" =>
              \A n \in NodeIds : t[n].status \in Good \cup {"absent"}
<1> DEFINE rows == {t[n] : n \in {m \in NodeIds : t[m].status # "absent"}}
           statuses == {r.status : r \in rows}
<1>1. ASSUME NEW n \in NodeIds, t[n].status # "absent"
      PROVE  t[n].status \in statuses
  BY <1>1
<1>2. \A n \in NodeIds : t[n].status \in RowStatus
  BY RowFacts DEF IsTable
<1>3. Aggregate(t, status, required) \in RunStatus
  BY DEF Aggregate, AggregateRunStatus, RunStatus
<1>4. ASSUME Aggregate(t, status, required) = "success"
      PROVE  statuses \cap {"running", "human_required", "retry_wait", "pending", "failed",
                            "timed_out", "cancelled"} = {}
  <2>1. /\ statuses \cap {"running"} = {} /\ statuses \cap {"human_required"} = {}
        /\ statuses \cap {"retry_wait", "pending"} = {} /\ statuses \cap {"failed", "timed_out"} = {}
        /\ statuses \cap {"cancelled"} = {}
    BY <1>4 DEF Aggregate, AggregateRunStatus
  <2> QED BY <2>1
<1>5. ASSUME Aggregate(t, status, required) = "success", NEW n \in NodeIds
      PROVE  t[n].status \in Good \cup {"absent"}
  <2>1. t[n].status \in RowStatus
    BY <1>2
  <2>2. t[n].status \notin {"running", "human_required", "retry_wait", "pending", "failed",
                            "timed_out", "cancelled"}
    <3> SUFFICES ASSUME t[n].status # "absent" PROVE t[n].status \notin {"running", "human_required", "retry_wait", "pending", "failed",
                            "timed_out", "cancelled"}
      OBVIOUS
    <3> QED BY <1>1, <1>4, <1>5
  <2> QED BY <2>1, <2>2 DEF RowStatus, NodeStatus, Good
<1> QED BY <1>3, <1>5

------------------------------------------------------------------------------
(* The history of the rows *)

\* A node that was computed from the present output of the node before it already
\* was so before the step.
LEMMA UpToDateBack ==
  ASSUME RecordedInv, NEW n \in Dependent, node[n].status # "absent",
         node'[n].input = node[n].input,
         IsRow(node[Up(n)]), IsRow(node'[Up(n)]), Frozen(node[Up(n)], node'[Up(n)]),
         UpToDate(n)'
  PROVE  /\ UpToDate(n) /\ node[Up(n)].status \in Good
         /\ Dependency(Up(n))' = Dependency(Up(n))
         /\ node'[Up(n)].status = node[Up(n)].status
         /\ node'[Up(n)].generation = node[Up(n)].generation
         /\ node'[Up(n)].input = node[Up(n)].input
<1> DEFINE d == node[n].input[1]
           u == Up(n)
<1>1. d = <<node'[u].status, node'[u].generation>> /\ node'[u].status \in Good
  BY DEF UpToDate, Dependency
<1>2. d[1] \in Good => d[2] < node[u].generation \/ d = <<node[u].status, node[u].generation>>
  BY DEF RecordedInv, Dependency
<1>3. node'[u].generation \in Nat /\ node[u].generation \in Nat
      /\ node'[u].generation >= node[u].generation
  BY RowFacts DEF Frozen
<1> HIDE DEF u
<1>4. node'[u].generation = node[u].generation /\ node'[u].status = node[u].status
  BY <1>1, <1>2, <1>3
<1>5. node'[u].input = node[u].input
  BY <1>1, <1>4 DEF Frozen, u
<1> QED BY <1>1, <1>4, <1>5 DEF UpToDate, Dependency, u

\* The histories stay true when no finished row changes within its generation, when
\* new inputs name the present outputs, and when what comes to be finished does so
\* by its rule.
LEMMA HistoryKept ==
  ASSUME TypeOK, RecordedInv, RuleInv, NoSkipInv, IsTable(node'),
         \A n \in NodeIds : Frozen(node[n], node'[n]),
         \A n \in NodeIds : node[n].status \in Good => output'[n] = output[n],
         \A n \in Dependent : node'[n].status # "absent" =>
           \/ node[n].status # "absent" /\ node'[n].input = node[n].input
           \/ node'[n].input[1] = Dependency(Up(n)),
         \A n \in NodeIds : node'[n].status \in Good =>
           \/ node'[n].status = node[n].status /\ node'[n].input = node[n].input
           \/ /\ n \in Dependent /\ UpToDate(n)' => RuleOf(n)'
              /\ node'[n].status = "skipped" => n \in MaySkip
  PROVE  RecordedInv' /\ RuleInv' /\ NoSkipInv'
<1>1. \A n \in NodeIds : IsRow(node[n]) /\ IsRow(node'[n])
  BY DEF TypeOK, DriverRecords, IsTable
<1>2. RecordedInv'
  <2> SUFFICES ASSUME NEW n \in Dependent, node'[n].status # "absent"
               PROVE  LET d == node'[n].input[1] IN
                        /\ d \in RowStatus \X Nat
                        /\ d[1] \in Good =>
                             \/ d[2] < node'[Up(n)].generation
                             \/ d = <<node'[Up(n)].status, node'[Up(n)].generation>>
    BY DEF RecordedInv, Dependency
  <2> DEFINE d == node'[n].input[1]
             u == Up(n)
  <2>1. u \in NodeIds /\ n \in NodeIds
    BY UpFacts
  <2>2. /\ node[u].status \in RowStatus /\ node[u].generation \in Nat
        /\ node'[u].generation \in Nat /\ Frozen(node[u], node'[u])
    BY <1>1, <2>1, RowFacts
  <2>3. /\ d \in RowStatus \X Nat
        /\ d[1] \in Good => d[2] < node[u].generation \/ d = <<node[u].status, node[u].generation>>
    <3>1. CASE node[n].status # "absent" /\ node'[n].input = node[n].input
      BY <3>1 DEF RecordedInv, Dependency
    <3>2. CASE d = Dependency(u)
      BY <3>2, <2>2 DEF Dependency
    <3> QED BY <3>1, <3>2
  <2> HIDE DEF d, u
  <2>4. d[1] \in Good =>
          d[2] < node'[u].generation \/ d = <<node'[u].status, node'[u].generation>>
    BY <2>2, <2>3 DEF Frozen
  <2> QED BY <2>3, <2>4 DEF d, u
<1>3. ASSUME NEW n \in Dependent, node'[n].status \in Good, UpToDate(n)'
      PROVE  RuleOf(n)'
  <2>1. n \in NodeIds /\ Up(n) \in NodeIds
    BY UpFacts
  <2>2. CASE node'[n].status = node[n].status /\ node'[n].input = node[n].input
    <3>1. node[n].status \in Good /\ node[n].status # "absent"
      BY <2>2, <1>3 DEF Good
    <3>2. /\ UpToDate(n) /\ node[Up(n)].status \in Good
          /\ node'[Up(n)].status = node[Up(n)].status /\ node'[Up(n)].input = node[Up(n)].input
      BY <3>1, <2>1, <2>2, <1>1, <1>3, UpToDateBack
    <3>3. RuleOf(n) /\ output'[Up(n)] = output[Up(n)]
      BY <3>1, <3>2, <2>1 DEF RuleInv
    <3>4. CASE n[2] = "profit"
      <4>1. Up(n) = <<n[1], "match">>
        BY <3>4 DEF Up
      <4>2. Skips(n, FoundNow)' = Skips(n, FoundNow)
        BY <3>2, <3>3, <3>4, <4>1 DEF Skips, HasSuppliers, Succeeded
      <4> QED BY <3>3, <3>4, <4>2, <2>2 DEF RuleOf
    <3>5. CASE n[2] = "score"
      <4>1. Up(n) = <<n[1], "profit">>
        BY <3>5 DEF Up
      <4>2. Skips(n, FoundNow)' = Skips(n, FoundNow)
        BY <3>2, <3>3, <3>5, <4>1 DEF Skips, HasProfit, Succeeded
      <4> QED BY <3>3, <3>5, <4>2, <2>2 DEF RuleOf
    <3>6. CASE n[2] = "export"
      <4>1. Up(n) = FilterNode
        BY <3>6 DEF Up
      <4>2. Skips(n, FoundNow)' = Skips(n, FoundNow)
        BY <3>2, <3>3, <3>6, <4>1 DEF Skips, HasExport, Succeeded
      <4> QED BY <3>3, <3>6, <4>2, <2>2 DEF RuleOf
    <3>7. CASE n[2] = "market"
      <4> SUFFICES ASSUME node'[n].status = "skipped", UpToDate(<<n[1], "ingest">>)'
                   PROVE  Skips(n, FoundNow)'
        BY <3>7 DEF RuleOf
      <4>1. Up(n) = <<n[1], "ingest">> /\ Up(n) \in Dependent /\ Up(Up(n)) = Source
        BY <3>7, <2>1 DEF Up, Dependent
      <4>2. UpToDate(Up(n)) /\ node[Source].status \in Good
        BY <4>1, <3>2, <2>1, <1>1, NodesExist, UpToDateBack DEF Good
      <4>3. FoundNow' = FoundNow
        BY <4>2, NodesExist DEF FoundNow
      <4>4. Skips(n, FoundNow)
        BY <4>1, <4>2, <3>3, <3>7, <2>2 DEF RuleOf
      <4> QED BY <4>3, <4>4, <3>7 DEF Skips
    <3>8. CASE n[2] = "ingest"
      BY <3>8 DEF RuleOf
    <3> QED BY <3>4, <3>5, <3>6, <3>7, <3>8 DEF Dependent
  <2>3. CASE ~(node'[n].status = node[n].status /\ node'[n].input = node[n].input)
    BY <2>1, <2>3, <1>3
  <2> QED BY <2>2, <2>3
<1>4. NoSkipInv'
  BY DEF NoSkipInv, Good
<1>5. RuleInv'
  BY <1>3 DEF RuleInv
<1> QED BY <1>2, <1>4, <1>5

\* In particular when every row is quiet.
LEMMA HistoryQuiet ==
  ASSUME TypeOK, RecordedInv, RuleInv, NoSkipInv, QuietTable(node, node'), output' = output
  PROVE  RecordedInv' /\ RuleInv' /\ NoSkipInv'
<1>1. IsTable(node') /\ \A n \in NodeIds : Quiet(node[n], node'[n])
  BY DEF QuietTable
<1>2. \A n \in NodeIds : Frozen(node[n], node'[n])
  BY <1>1 DEF Quiet
<1>3. \A n \in NodeIds : node[n].status \in Good => output'[n] = output[n]
  OBVIOUS
<1>4. \A n \in Dependent : node'[n].status # "absent" =>
        node[n].status # "absent" /\ node'[n].input = node[n].input
  BY <1>1 DEF Quiet, Dependent
<1>5. \A n \in NodeIds : node'[n].status \in Good =>
        node'[n].status = node[n].status /\ node'[n].input = node[n].input
  BY <1>1 DEF Quiet
<1> QED BY <1>1, <1>2, <1>3, <1>4, <1>5, HistoryKept

------------------------------------------------------------------------------
(* The nodes of a run, stage by stage *)

LEMMA StageNumbers ==
  ASSUME NEW n \in NodeIds
  PROVE  /\ n[2] = "source_discovery" <=> StageOf(n) = 1
         /\ n[2] = "ingest" <=> StageOf(n) = 2
         /\ n[2] = "market" <=> StageOf(n) = 3
         /\ n[2] = "match"  <=> StageOf(n) = 4
         /\ n[2] = "profit" <=> StageOf(n) = 5
         /\ n[2] = "score"  <=> StageOf(n) = 6
         /\ n[2] = "filter" <=> StageOf(n) = 7
         /\ n[2] = "export" <=> StageOf(n) = 8
         /\ StageOf(n) \in 1 .. 8
         /\ n[2] \in AsinStages <=> StageOf(n) \in 2 .. 6
<1>1. StageOf(n) \in 1 .. 8 /\ Stages[StageOf(n)] = n[2] /\ \A k \in 1 .. 8 : Stages[k] = n[2] => k = StageOf(n)
  BY StageOfFacts
<1>2. /\ n[2] = "source_discovery" <=> StageOf(n) = 1
      /\ n[2] = "ingest" <=> StageOf(n) = 2
      /\ n[2] = "market" <=> StageOf(n) = 3
      /\ n[2] = "match"  <=> StageOf(n) = 4
      /\ n[2] = "profit" <=> StageOf(n) = 5
      /\ n[2] = "score"  <=> StageOf(n) = 6
      /\ n[2] = "filter" <=> StageOf(n) = 7
      /\ n[2] = "export" <=> StageOf(n) = 8
  BY <1>1, StageFacts
<1> QED BY <1>1, <1>2 DEF AsinStages

LEMMA NodesNowFacts ==
  ASSUME TypeOK
  PROVE  /\ FoundNow \in Seq(Asins) /\ IsInjective(FoundNow)
         /\ NodesNow \subseteq NodeIds
         /\ \A n \in NodesNow : n[2] \in AsinStages =>
              /\ n[1] \in Asins /\ \E i \in DOMAIN FoundNow : FoundNow[i] = n[1]
              /\ \A stage \in AsinStages : <<n[1], stage>> \in NodesNow
         /\ \A i \in DOMAIN FoundNow, stage \in AsinStages : <<FoundNow[i], stage>> \in NodesNow
         /\ Source \in NodesNow /\ FilterNode \in NodesNow /\ ExportNode \in NodesNow
<1>1. FoundNow \in Seq(Asins) /\ IsInjective(FoundNow)
  BY DEF TypeOK, DriverRecords, ProductLists, FoundNow
<1>2. \A i \in DOMAIN FoundNow : FoundNow[i] \in Asins
  BY <1>1
<1>3. \A i \in DOMAIN FoundNow, stage \in AsinStages :
        <<FoundNow[i], stage>> \in NodesNow /\ <<FoundNow[i], stage>> \in NodeIds
  BY <1>2, NodesExist DEF NodesNow
<1>4. Source \in NodesNow /\ FilterNode \in NodesNow /\ ExportNode \in NodesNow
  BY DEF NodesNow
<1>5. ASSUME NEW n \in NodesNow
      PROVE  \/ n \in {Source, FilterNode, ExportNode}
             \/ \E i \in DOMAIN FoundNow, stage \in AsinStages : n = <<FoundNow[i], stage>>
  BY DEF NodesNow
<1>6. NodesNow \subseteq NodeIds
  BY <1>3, <1>5, NodesExist
<1>7. ASSUME NEW n \in NodesNow, n[2] \in AsinStages
      PROVE  \E i \in DOMAIN FoundNow, stage \in AsinStages : n = <<FoundNow[i], stage>>
  BY <1>5, <1>7 DEF Source, FilterNode, ExportNode, AsinStages
<1>8. ASSUME NEW n \in NodesNow, n[2] \in AsinStages
      PROVE  /\ n[1] \in Asins /\ \E i \in DOMAIN FoundNow : FoundNow[i] = n[1]
             /\ \A stage \in AsinStages : <<n[1], stage>> \in NodesNow
  <2>1. PICK i \in DOMAIN FoundNow, stage \in AsinStages : n = <<FoundNow[i], stage>>
    BY <1>7, <1>8
  <2> QED BY <2>1, <1>2, <1>3
<1> QED BY <1>1, <1>3, <1>4, <1>6, <1>8

\* What a step leaves of a node.
Stays(n) ==
  /\ node'[n].status = node[n].status /\ node'[n].generation = node[n].generation
  /\ node'[n].input = node[n].input /\ output'[n] = output[n]

\* The input of a node stays as long as the nodes before it do.
LEMMA InputStays ==
  ASSUME TypeOK, NEW n \in NodesNow, output'[Source] = output[Source],
         \A m \in NodesNow : StageOf(m) < StageOf(n) => Stays(m)
  PROVE  InputOf(n, FoundNow, LoadedNow)' = InputOf(n, FoundNow, LoadedNow)
<1>1. n \in NodeIds /\ FoundNow' = FoundNow /\ FoundNow \in Seq(Asins)
  BY NodesNowFacts DEF FoundNow
<1>2. ASSUME NEW m \in NodesNow, StageOf(m) < StageOf(n)
      PROVE  /\ Dependency(m)' = Dependency(m) /\ Succeeded(m)' = Succeeded(m)
             /\ output'[m] = output[m]
  BY <1>2 DEF Stays, Dependency, Succeeded
<1>3. ASSUME NEW a \in Asins, <<a, "market">> \in NodesNow, 3 < StageOf(n)
      PROVE  (a \in LoadedNow)' = (a \in LoadedNow)
  <2>1. StageOf(<<a, "market">>) = 3
    BY <1>3, NodesExist, StageNumbers DEF AsinStages
  <2>2. Skips(<<a, "market">>, FoundNow)' = Skips(<<a, "market">>, FoundNow)
    BY <1>1 DEF Skips
  <2> QED BY <1>2, <1>3, <2>1, <2>2 DEF LoadedNow
<1>4. ASSUME n[2] \in AsinStages, NEW stage \in AsinStages, StageOf(<<n[1], stage>>) < StageOf(n)
      PROVE  Dependency(<<n[1], stage>>)' = Dependency(<<n[1], stage>>)
  BY <1>2, <1>4, NodesNowFacts
<1>5. ASSUME n[2] \in AsinStages
      PROVE  /\ n[1] \in Asins
             /\ StageOf(<<n[1], "ingest">>) = 2 /\ StageOf(<<n[1], "market">>) = 3
             /\ StageOf(<<n[1], "match">>) = 4 /\ StageOf(<<n[1], "profit">>) = 5
             /\ <<n[1], "market">> \in NodesNow
  <2>1. n[1] \in Asins /\ \A stage \in AsinStages : <<n[1], stage>> \in NodesNow
    BY <1>5, NodesNowFacts
  <2>2. \A stage \in AsinStages : <<n[1], stage>> \in NodeIds
    BY <2>1, NodesExist
  <2>3. /\ StageOf(<<n[1], "ingest">>) = 2 /\ StageOf(<<n[1], "market">>) = 3
        /\ StageOf(<<n[1], "match">>) = 4 /\ StageOf(<<n[1], "profit">>) = 5
    BY <2>2, StageNumbers DEF AsinStages
  <2> QED BY <2>1, <2>3 DEF AsinStages
<1>6. CASE n[2] = "source_discovery"
  BY <1>6 DEF InputOf
<1>7. CASE n[2] = "ingest"
  <2>1. Dependency(Source)' = Dependency(Source)
    BY <1>1, <1>2, <1>7, NodesExist, NodesNowFacts, StageNumbers DEF Source
  <2> QED BY <1>7, <2>1 DEF InputOf
<1>8. CASE n[2] = "market"
  <2>1. Dependency(<<n[1], "ingest">>)' = Dependency(<<n[1], "ingest">>)
    BY <1>1, <1>4, <1>5, <1>8, StageNumbers DEF AsinStages
  <2> QED BY <1>8, <2>1 DEF InputOf
<1>9. CASE n[2] = "match"
  <2>1. /\ Dependency(<<n[1], "ingest">>)' = Dependency(<<n[1], "ingest">>)
        /\ Dependency(<<n[1], "market">>)' = Dependency(<<n[1], "market">>)
        /\ (n[1] \in LoadedNow)' = (n[1] \in LoadedNow)
    BY <1>1, <1>3, <1>4, <1>5, <1>9, StageNumbers DEF AsinStages
  <2> QED BY <1>9, <2>1 DEF InputOf
<1>10. CASE n[2] = "profit"
  <2>1. Dependency(<<n[1], "match">>)' = Dependency(<<n[1], "match">>)
    BY <1>1, <1>4, <1>5, <1>10, StageNumbers DEF AsinStages
  <2> QED BY <1>10, <2>1 DEF InputOf
<1>11. CASE n[2] = "score"
  <2>1. /\ Dependency(<<n[1], "profit">>)' = Dependency(<<n[1], "profit">>)
        /\ Dependency(<<n[1], "market">>)' = Dependency(<<n[1], "market">>)
        /\ (n[1] \in LoadedNow)' = (n[1] \in LoadedNow)
    BY <1>1, <1>3, <1>4, <1>5, <1>11, StageNumbers DEF AsinStages
  <2> QED BY <1>11, <2>1 DEF InputOf
<1>12. CASE n[2] = "filter"
  <2>1. ASSUME NEW a \in Asins, \A stage \in AsinStages : <<a, stage>> \in NodesNow
        PROVE  Record(a, LoadedNow)' = Record(a, LoadedNow)
    <3>1. StageOf(n) = 7 /\ \A stage \in AsinStages : StageOf(<<a, stage>>) < 7
      BY <1>1, <1>12, <2>1, NodesExist, StageNumbers
    <3>2. ASSUME NEW stage \in AsinStages
          PROVE  /\ Dependency(<<a, stage>>)' = Dependency(<<a, stage>>)
                 /\ Succeeded(<<a, stage>>)' = Succeeded(<<a, stage>>)
                 /\ output'[<<a, stage>>] = output[<<a, stage>>]
                 /\ node'[<<a, stage>>].generation = node[<<a, stage>>].generation
      <4>1. Stays(<<a, stage>>)
        BY <2>1, <3>1
      <4> QED BY <4>1 DEF Stays, Dependency, Succeeded
    <3>3. (a \in LoadedNow)' = (a \in LoadedNow)
      BY <1>3, <2>1, <3>1 DEF AsinStages
    <3> QED BY <3>2, <3>3 DEF Record, HasSuppliers, HasProfit, AsinStages
  <2>3. ASSUME NEW i \in DOMAIN FoundNow
        PROVE  Record(FoundNow[i], LoadedNow)' = Record(FoundNow[i], LoadedNow)
    <3>1. PICK a \in Asins : a = FoundNow[i]
      BY <1>1
    <3>2. \A stage \in AsinStages : <<a, stage>> \in NodesNow
      BY <3>1, NodesNowFacts
    <3>3. Record(a, LoadedNow)' = Record(a, LoadedNow)
      BY <2>1, <3>2
    <3>4. Record(FoundNow[i], LoadedNow) = Record(a, LoadedNow)
      BY <3>1
    <3>5. Record(FoundNow[i], LoadedNow)' = Record(a, LoadedNow)'
      BY <3>1, <1>1
    <3> QED BY <3>3, <3>4, <3>5
  <2>2. [i \in DOMAIN FoundNow |-> Record(FoundNow[i], LoadedNow)]'
          = [i \in DOMAIN FoundNow |-> Record(FoundNow[i], LoadedNow)]
    BY <1>1, <2>3
  <2> QED BY <1>12, <2>2 DEF InputOf
<1>13. CASE n[2] = "export"
  <2>1. Dependency(FilterNode)' = Dependency(FilterNode)
    BY <1>1, <1>2, <1>13, NodesExist, NodesNowFacts, StageNumbers DEF FilterNode
  <2> QED BY <1>13, <2>1 DEF InputOf
<1>14. n[2] \in {"source_discovery", "ingest", "market", "match", "profit", "score", "filter", "export"}
  BY <1>1, NodeFacts DEF AsinStages, Source, FilterNode, ExportNode
<1> QED BY <1>6, <1>7, <1>8, <1>9, <1>10, <1>11, <1>12, <1>13, <1>14

\* The nodes of a product.
LEMMA ProductNodes ==
  ASSUME TypeOK, NEW n \in NodesNow, n[2] \in AsinStages
  PROVE  /\ n \in NodeIds /\ n[1] \in Asins
         /\ \A stage \in AsinStages : <<n[1], stage>> \in NodesNow /\ <<n[1], stage>> \in NodeIds
         /\ StageOf(<<n[1], "ingest">>) = 2 /\ StageOf(<<n[1], "market">>) = 3
         /\ StageOf(<<n[1], "match">>) = 4 /\ StageOf(<<n[1], "profit">>) = 5
         /\ StageOf(<<n[1], "score">>) = 6
<1>1. n \in NodeIds /\ n[1] \in Asins /\ \A stage \in AsinStages : <<n[1], stage>> \in NodesNow
  BY NodesNowFacts
<1>2. \A stage \in AsinStages : <<n[1], stage>> \in NodeIds
  BY <1>1, NodesExist
<1>3. /\ StageOf(<<n[1], "ingest">>) = 2 /\ StageOf(<<n[1], "market">>) = 3
      /\ StageOf(<<n[1], "match">>) = 4 /\ StageOf(<<n[1], "profit">>) = 5
      /\ StageOf(<<n[1], "score">>) = 6
  BY <1>2, StageNumbers DEF AsinStages
<1> QED BY <1>1, <1>2, <1>3

LEMMA CurrentStays ==
  ASSUME TypeOK, NEW n \in NodesNow, output'[Source] = output[Source],
         Stays(n), \A m \in NodesNow : StageOf(m) < StageOf(n) => Stays(m),
         IsCurrent(n)
  PROVE  IsCurrent(n)'
<1>1. n \in NodeIds /\ FoundNow' = FoundNow
  BY NodesNowFacts DEF FoundNow
<1>2. InputOf(n, FoundNow, LoadedNow)' = InputOf(n, FoundNow, LoadedNow)
  BY InputStays
<1>3. Skips(n, FoundNow)' = Skips(n, FoundNow)
  <2>1. CASE n[2] = "profit"
    <3>1. <<n[1], "match">> \in NodesNow /\ <<n[1], "match">> \in NodeIds /\ StageOf(<<n[1], "match">>) = 4
      BY <2>1, ProductNodes, StageNumbers DEF AsinStages
    <3>2. Stays(<<n[1], "match">>)
      BY <1>1, <2>1, <3>1, StageNumbers
    <3> QED BY <2>1, <3>2 DEF Skips, HasSuppliers, Succeeded, Stays
  <2>2. CASE n[2] = "score"
    <3>1. <<n[1], "profit">> \in NodesNow /\ <<n[1], "profit">> \in NodeIds /\ StageOf(<<n[1], "profit">>) = 5
      BY <2>2, ProductNodes, StageNumbers DEF AsinStages
    <3>2. Stays(<<n[1], "profit">>)
      BY <1>1, <2>2, <3>1, StageNumbers
    <3> QED BY <2>2, <3>2 DEF Skips, HasProfit, Succeeded, Stays
  <2>3. CASE n[2] = "export"
    <3>1. Stays(FilterNode)
      BY <1>1, <2>3, NodesNowFacts, NodesExist, StageNumbers DEF FilterNode
    <3> QED BY <2>3, <3>1 DEF Skips, HasExport, Succeeded, Stays
  <2>4. CASE n[2] = "market"
    BY <1>1, <2>4 DEF Skips
  <2>5. CASE n[2] \notin {"market", "profit", "score", "export"}
    BY <2>5 DEF Skips
  <2> QED BY <2>1, <2>2, <2>3, <2>4, <2>5
<1> QED BY <1>2, <1>3 DEF IsCurrent, StatusAllowed, Stays

\* A node that is finished, for the present outputs of nodes that are up to date, is
\* so by its rule.
EarnedAt(n) ==
  /\ TypeOK /\ RuleInv /\ NoSkipInv
  /\ n \in NodesNow /\ node[n].status \in Good
  /\ node[n].input = InputOf(n, FoundNow, LoadedNow)
  /\ \A m \in NodesNow : StageOf(m) < StageOf(n) => IsCurrent(m)
  => IsCurrent(n)

LEMMA StatusEarned == \A n \in NodeIds : EarnedAt(n)
<1> SUFFICES ASSUME NEW n \in NodeIds,
                    TypeOK, RuleInv, NoSkipInv, n \in NodesNow, node[n].status \in Good,
                    node[n].input = InputOf(n, FoundNow, LoadedNow),
                    \A m \in NodesNow : StageOf(m) < StageOf(n) => IsCurrent(m)
             PROVE  node[n].status \in StatusAllowed(n)
  BY DEF EarnedAt, IsCurrent
<1>1. ASSUME NEW m \in NodesNow, StageOf(m) < StageOf(n) PROVE node[m].status \in Good
  BY <1>1 DEF IsCurrent, StatusAllowed, Good
<1>2. CASE n[2] = "profit"
  <2>1. <<n[1], "match">> \in NodesNow /\ <<n[1], "match">> \in NodeIds /\ StageOf(<<n[1], "match">>) = 4
    BY <1>2, ProductNodes, StageNumbers DEF AsinStages
  <2>2. UpToDate(n) /\ n \in Dependent
    BY <1>1, <1>2, <2>1, StageNumbers DEF UpToDate, Up, InputOf, Dependent
  <2> QED BY <2>2, <1>2 DEF RuleInv, RuleOf, StatusAllowed, Good
<1>3. CASE n[2] = "score"
  <2>1. <<n[1], "profit">> \in NodesNow /\ <<n[1], "profit">> \in NodeIds /\ StageOf(<<n[1], "profit">>) = 5
    BY <1>3, ProductNodes, StageNumbers DEF AsinStages
  <2>2. UpToDate(n) /\ n \in Dependent
    BY <1>1, <1>3, <2>1, StageNumbers DEF UpToDate, Up, InputOf, Dependent
  <2> QED BY <2>2, <1>3 DEF RuleInv, RuleOf, StatusAllowed, Good
<1>4. CASE n[2] = "export"
  <2>1. FilterNode \in NodesNow /\ FilterNode \in NodeIds /\ StageOf(FilterNode) = 7
    BY NodesNowFacts, NodesExist, StageNumbers DEF FilterNode
  <2>2. UpToDate(n) /\ n \in Dependent
    BY <1>1, <1>4, <2>1, StageNumbers DEF UpToDate, Up, InputOf, Dependent
  <2> QED BY <2>2, <1>4 DEF RuleInv, RuleOf, StatusAllowed, Good
<1>5. CASE n[2] = "market"
  <2>1. /\ <<n[1], "ingest">> \in NodesNow /\ <<n[1], "ingest">> \in NodeIds
        /\ StageOf(<<n[1], "ingest">>) = 2 /\ StageOf(n) = 3
    BY <1>5, ProductNodes, StageNumbers DEF AsinStages
  <2>2. Source \in NodesNow /\ Source \in NodeIds /\ StageOf(Source) = 1
    BY NodesNowFacts, NodesExist, StageNumbers DEF Source
  <2>3. UpToDate(n) /\ n \in Dependent
    BY <1>1, <1>5, <2>1, StageNumbers DEF UpToDate, Up, InputOf, Dependent
  <2>4. UpToDate(<<n[1], "ingest">>)
    <3>1. IsCurrent(<<n[1], "ingest">>)
      BY <2>1
    <3>2. node[<<n[1], "ingest">>].input = <<Dependency(Source)>>
      BY <3>1 DEF IsCurrent, InputOf
    <3> QED BY <1>1, <2>1, <2>2, <3>2 DEF UpToDate, Up
  <2> QED BY <2>3, <2>4, <1>5 DEF RuleInv, RuleOf, StatusAllowed, Good
<1>6. CASE n[2] \notin {"market", "profit", "score", "export"}
  BY <1>6 DEF NoSkipInv, MaySkip, StatusAllowed, Skips, Good
<1> QED BY <1>2, <1>3, <1>4, <1>5, <1>6

LEMMA StatusEarnedNext == \A n \in NodeIds : EarnedAt(n)'
<1>1. (\A n \in NodeIds : EarnedAt(n))'
  BY StatusEarned, PTL
<1> QED BY <1>1

------------------------------------------------------------------------------
(* Where the driver is *)

LEMMA ListFacts ==
  ASSUME NEW S, NEW list \in Seq(S), NEW todo, todo \in Seq(S), todo # <<>>
  PROVE  /\ Tail(todo) \in Seq(S) /\ Len(Tail(todo)) = Len(todo) - 1 /\ Len(todo) \in Nat \ {0}
         /\ Head(todo) = todo[1] /\ Head(todo) \in S
         /\ \A i \in 1 .. Len(Tail(todo)) : Tail(todo)[i] = todo[i + 1]
         /\ Range(todo) = {Head(todo)} \cup Range(Tail(todo))
         /\ Rest(todo, list) =>
              /\ Rest(Tail(todo), list)
              /\ Len(list) - Len(todo) + 1 \in DOMAIN list
              /\ Head(todo) = list[Len(list) - Len(todo) + 1]
              /\ IsInjective(list) => Head(todo) \notin Range(Tail(todo))
<1>1. /\ Tail(todo) \in Seq(S) /\ Len(Tail(todo)) = Len(todo) - 1 /\ Len(todo) \in Nat \ {0}
      /\ Head(todo) = todo[1] /\ Head(todo) \in S
      /\ \A i \in 1 .. Len(Tail(todo)) : Tail(todo)[i] = todo[i + 1]
  OBVIOUS
<1>2. DOMAIN todo = 1 .. Len(todo) /\ DOMAIN Tail(todo) = 1 .. (Len(todo) - 1)
  BY <1>1
<1>3. ASSUME NEW x \in Range(todo) PROVE x \in {Head(todo)} \cup Range(Tail(todo))
  <2>1. PICK i \in 1 .. Len(todo) : x = todo[i]
    BY <1>2 DEF Range
  <2>2. CASE i = 1
    BY <2>1, <2>2, <1>1
  <2>3. CASE i # 1
    <3>1. i - 1 \in 1 .. (Len(todo) - 1) /\ Tail(todo)[i - 1] = todo[i]
      BY <2>1, <2>3, <1>1
    <3> QED BY <2>1, <3>1, <1>2 DEF Range
  <2> QED BY <2>2, <2>3
<1>4. ASSUME NEW x \in {Head(todo)} \cup Range(Tail(todo)) PROVE x \in Range(todo)
  <2>1. CASE x = Head(todo)
    BY <2>1, <1>1, <1>2 DEF Range
  <2>2. CASE x \in Range(Tail(todo))
    <3>1. PICK i \in 1 .. (Len(todo) - 1) : x = Tail(todo)[i]
      BY <2>2, <1>2 DEF Range
    <3>2. i + 1 \in 1 .. Len(todo) /\ x = todo[i + 1]
      BY <3>1, <1>1
    <3> QED BY <3>2, <1>2 DEF Range
  <2> QED BY <2>1, <2>2
<1>5. ASSUME Rest(todo, list)
      PROVE  /\ Rest(Tail(todo), list)
             /\ Len(list) - Len(todo) + 1 \in DOMAIN list
             /\ Head(todo) = list[Len(list) - Len(todo) + 1]
             /\ IsInjective(list) => Head(todo) \notin Range(Tail(todo))
  <2>1. /\ Len(todo) <= Len(list) /\ Len(list) \in Nat /\ DOMAIN list = 1 .. Len(list)
        /\ \A i \in 1 .. Len(todo) : todo[i] = list[Len(list) - Len(todo) + i]
    BY <1>5 DEF Rest
  <2>2. ASSUME NEW i \in 1 .. Len(Tail(todo))
        PROVE  Tail(todo)[i] = list[Len(list) - Len(Tail(todo)) + i]
    <3>1. i + 1 \in 1 .. Len(todo) /\ Tail(todo)[i] = todo[i + 1]
      BY <1>1
    <3>2. Len(list) - Len(todo) + (i + 1) = Len(list) - Len(Tail(todo)) + i
      BY <1>1, <2>1
    <3> QED BY <2>1, <3>1, <3>2
  <2>3. Rest(Tail(todo), list)
    BY <1>1, <2>1, <2>2 DEF Rest
  <2>4. /\ Len(list) - Len(todo) + 1 \in DOMAIN list
        /\ Head(todo) = list[Len(list) - Len(todo) + 1]
    BY <1>1, <2>1
  <2>5. ASSUME IsInjective(list), Head(todo) \in Range(Tail(todo)) PROVE FALSE
    <3>1. PICK i \in 1 .. (Len(todo) - 1) : Head(todo) = Tail(todo)[i]
      BY <2>5, <1>2 DEF Range
    <3>2. /\ Head(todo) = list[Len(list) - Len(todo) + 1 + i]
          /\ Len(list) - Len(todo) + 1 + i \in DOMAIN list
      BY <3>1, <2>1, <2>2, <1>1
    <3> QED BY <3>2, <2>4, <2>5, <2>1, <1>1, <3>1 DEF IsInjective
  <2> QED BY <2>3, <2>4, <2>5
<1> QED BY <1>1, <1>3, <1>4, <1>5

\* The node the driver is at is one of the run, and those before it are behind.
LEMMA CurrentInRun ==
  ASSUME TypeOK, TodoInv, ListInv, Driving, driver.todo # <<>>
  PROVE  /\ Current \in NodesNow /\ ~Behind(Current)
         /\ \A m \in NodesNow : StageOf(m) < StageOf(Current) => Behind(m)
<1>1. /\ Current \in NodeIds /\ Current[2] = Stage /\ Current[1] = Head(driver.todo)
      /\ Current = Source <=> driver.stage = 1
      /\ StageOf(Current) = driver.stage /\ driver.stage \in 1 .. 8
  BY CurrentExists DEF TypeOK, DriverRecords
<1>2. CASE Stage \in AsinStages
  <2>1. driver.stage \in 2 .. 6 /\ Stage = Current[2]
    BY <1>1, <1>2, StageNumbers
  <2>2. driver.todo \in Seq(Asins) /\ driver.products \in Seq(Asins) /\ FoundNow \in Seq(Asins)
    BY <1>2, NodesNowFacts DEF TodoInv, TypeOK, DriverRecords
  <2>3. Head(driver.todo) \in Range(driver.todo)
    BY <2>2, ListFacts
  <2>4. \E i \in DOMAIN FoundNow : FoundNow[i] = Head(driver.todo)
    <3>1. CASE driver.stage = 2
      <4>1. Rest(driver.todo, FoundNow)
        BY <3>1 DEF ListInv
      <4> QED BY <4>1, <2>2, ListFacts
    <3>2. CASE driver.stage > 2
      <4>1. Rest(driver.todo, driver.products)
        BY <3>2, <1>2 DEF ListInv
      <4>2. PICK i \in DOMAIN driver.products : driver.products[i] = Head(driver.todo)
        BY <4>1, <2>2, ListFacts
      <4> QED BY <4>2, <3>2, <2>1 DEF ListInv
    <3> QED BY <2>1, <3>1, <3>2
  <2>5. Current \in NodesNow
    BY <2>1, <2>4, <1>1, <1>2, NodesNowFacts, NodeFacts
  <2> QED BY <2>3, <2>5, <1>1 DEF Behind
<1>3. CASE Stage \notin AsinStages
  <2>1. driver.todo = <<"run">>
    BY <1>3 DEF TodoInv
  <2>2. Head(driver.todo) \in Range(driver.todo)
    BY <2>1 DEF Range
  <2>3. Current \in NodesNow
    BY <1>1, <1>3, NodeFacts, NodesNowFacts
  <2> QED BY <2>2, <2>3, <1>1 DEF Behind
<1> QED BY <1>2, <1>3

\* As long as nothing behind it is amiss the driver works from what is current.
WorksFromCurrent ==
  TypeOK /\ TodoInv /\ ListInv /\ WalkInv /\ Driving /\ driver.todo # <<>> /\ Undisturbed
  => InputNow(Current) = InputOf(Current, FoundNow, LoadedNow)

LEMMA InputCurrent == WorksFromCurrent
<1> SUFFICES ASSUME TypeOK, TodoInv, ListInv, WalkInv, Driving, driver.todo # <<>>, Undisturbed
             PROVE  InputNow(Current) = InputOf(Current, FoundNow, LoadedNow)
  BY DEF WorksFromCurrent
<1> DEFINE c == Current
<1>1. c \in NodeIds /\ c \in NodesNow /\ StageOf(c) = driver.stage
      /\ \A m \in NodesNow : StageOf(m) < StageOf(c) => Behind(m)
  BY CurrentExists, CurrentInRun
<1>2. ASSUME NEW a \in Asins, <<a, "market">> \in NodesNow, StageOf(c) > 3
      PROVE  (a \in driver.market) = (a \in LoadedNow)
  <2>1. <<a, "market">> \in NodeIds /\ StageOf(<<a, "market">>) = 3
    BY NodesExist, StageNumbers DEF AsinStages
  <2>2. Behind(<<a, "market">>)
    BY <1>1, <1>2, <2>1
  <2> QED BY <2>1, <2>2 DEF WalkInv
<1> HIDE DEF c
<1>3. CASE c[2] \in {"match", "score"}
  <2>1. StageOf(c) > 3 /\ c[1] \in Asins /\ <<c[1], "market">> \in NodesNow
    <3>1. c[2] \in AsinStages
      BY <1>3 DEF AsinStages
    <3>2. c[1] \in Asins /\ <<c[1], "market">> \in NodesNow
      BY <1>1, <3>1, ProductNodes DEF AsinStages
    <3> QED BY <1>1, <1>3, <3>2, StageNumbers
  <2>2. (c[1] \in driver.market) = (c[1] \in LoadedNow)
    BY <1>2, <2>1
  <2> QED BY <1>3, <2>2 DEF InputNow, InputOf, c
<1>4. CASE c[2] = "filter"
  <2>1. StageOf(c) = 7 /\ driver.products = FoundNow
    BY <1>1, <1>4, StageNumbers DEF WalkInv
  <2>2. ASSUME NEW i \in DOMAIN FoundNow
        PROVE  Record(FoundNow[i], driver.market) = Record(FoundNow[i], LoadedNow)
    <3>1. FoundNow[i] \in Asins /\ <<FoundNow[i], "market">> \in NodesNow
      BY NodesNowFacts DEF AsinStages
    <3>2. (FoundNow[i] \in driver.market) = (FoundNow[i] \in LoadedNow)
      BY <1>2, <2>1, <3>1
    <3> QED BY <3>2 DEF Record
  <2> QED BY <1>4, <2>1, <2>2 DEF InputNow, InputOf, c
<1>5. CASE c[2] \notin {"match", "score", "filter"}
  BY <1>5 DEF InputNow, InputOf, c
<1> QED BY <1>3, <1>4, <1>5

LEMMA InputCurrentNext == WorksFromCurrent'
  BY InputCurrent, PTL

\* If nothing is amiss behind the driver after a step then nothing was before, and
\* what is behind it stays current.
LEMMA WalkBack ==
  ASSUME TypeOK, WalkInv, Driving, output'[Source] = output[Source],
         \A n \in NodeIds : Behind(n) =>
           Behind(n)' /\ Quiet(node[n], node'[n]) /\ output'[n] = output[n],
         Undisturbed'
  PROVE  /\ Undisturbed
         /\ \A n \in NodeIds : Behind(n) => Stays(n) /\ IsCurrent(n) /\ IsCurrent(n)'
         /\ \A n \in NodeIds : Behind(n) /\ n[2] = "market" =>
              (n[1] \in LoadedNow)' = (n[1] \in LoadedNow)
<1>1. ASSUME NEW n \in NodeIds, Behind(n)
      PROVE  node'[n].status \in Good \cup {"absent"} /\ node[n].status \in Good \cup {"absent"}
  <2>1. node'[n].status \in Good \cup {"absent"}
    BY <1>1 DEF Undisturbed
  <2> QED BY <2>1, <1>1 DEF Quiet
<1>2. Undisturbed
  BY <1>1 DEF Undisturbed
<1>3. ASSUME NEW n \in NodeIds, Behind(n)
      PROVE  Stays(n) /\ IsCurrent(n)
  <2>1. IsCurrent(n)
    BY <1>2, <1>3 DEF WalkInv
  <2>2. node[n].status \in Good
    BY <2>1 DEF IsCurrent, StatusAllowed, Good
  <2>3. Quiet(node[n], node'[n]) /\ output'[n] = output[n]
    BY <1>3
  <2>4. node'[n].status \in Good
    BY <1>1, <1>3, <2>2, <2>3 DEF Quiet, Good
  <2> QED BY <2>1, <2>3, <2>4 DEF Quiet, Stays
<1>4. ASSUME NEW n \in NodeIds, Behind(n)
      PROVE  IsCurrent(n)'
  <2>1. n \in NodesNow
    BY <1>4 DEF Behind
  <2>2. ASSUME NEW m \in NodesNow, StageOf(m) < StageOf(n) PROVE Stays(m)
    <3>1. m \in NodeIds /\ StageOf(m) \in Int /\ StageOf(n) \in Int /\ driver.stage \in Int
      BY NodesNowFacts, StageNumbers DEF TypeOK, DriverRecords
    <3>2. Behind(m)
      BY <1>4, <2>2, <3>1 DEF Behind
    <3> QED BY <1>3, <3>1, <3>2
  <2>3. Stays(n) /\ IsCurrent(n)
    BY <1>3, <1>4
  <2> QED BY <2>1, <2>2, <2>3, CurrentStays
<1>5. ASSUME NEW n \in NodeIds, Behind(n), n[2] = "market"
      PROVE  (n[1] \in LoadedNow)' = (n[1] \in LoadedNow)
  <2>1. n = <<n[1], "market">> /\ Stays(n) /\ FoundNow' = FoundNow
    BY <1>3, <1>5, NodeFacts DEF FoundNow
  <2> QED BY <2>1, <1>5 DEF LoadedNow, Stays, Succeeded, Skips
<1> QED BY <1>2, <1>3, <1>4, <1>5

\* A step that leaves the driver where it is.
LEMMA WalkStays ==
  ASSUME TypeOK, WalkInv, Driving, output'[Source] = output[Source],
         driver'.stage = driver.stage, driver'.todo = driver.todo,
         driver'.products = driver.products, driver'.market = driver.market,
         \A n \in NodeIds : Behind(n) => Quiet(node[n], node'[n]) /\ output'[n] = output[n]
  PROVE  WalkInv'
<1>1. FoundNow' = FoundNow /\ NodesNow' = NodesNow
  BY DEF FoundNow, NodesNow
<1>2. ASSUME NEW n \in NodeIds PROVE Behind(n)' <=> Behind(n)
  BY <1>1 DEF Behind
<1> SUFFICES ASSUME Undisturbed'
             PROVE  /\ driver'.stage = 2 =>
                         /\ Len(driver'.products) + Len(driver'.todo) = Len(FoundNow')
                         /\ \A i \in DOMAIN driver'.products : driver'.products[i] = FoundNow'[i]
                    /\ driver'.stage > 2 => driver'.products = FoundNow'
                    /\ \A n \in NodeIds : Behind(n)' => IsCurrent(n)'
                    /\ \A n \in NodeIds : Behind(n)' /\ n[2] = "market" =>
                         (n[1] \in driver'.market) = (n[1] \in LoadedNow)'
  BY DEF WalkInv
<1>3. /\ Undisturbed
      /\ \A n \in NodeIds : Behind(n) => Stays(n) /\ IsCurrent(n) /\ IsCurrent(n)'
      /\ \A n \in NodeIds : Behind(n) /\ n[2] = "market" =>
              (n[1] \in LoadedNow)' = (n[1] \in LoadedNow)
  BY <1>2, WalkBack
<1>4. /\ driver.stage = 2 =>
           /\ Len(driver.products) + Len(driver.todo) = Len(FoundNow)
           /\ \A i \in DOMAIN driver.products : driver.products[i] = FoundNow[i]
      /\ driver.stage > 2 => driver.products = FoundNow
      /\ \A n \in NodeIds : Behind(n) /\ n[2] = "market" =>
           (n[1] \in driver.market) = (n[1] \in LoadedNow)
  BY <1>3 DEF WalkInv
<1> QED BY <1>1, <1>2, <1>3, <1>4

\* A step with which the driver leaves the node it is at.
LEMMA WalkOn ==
  ASSUME TypeOK, TodoInv, ListInv, WalkInv, Driving, driver.todo # <<>>, driver.stage > 1,
         NEW c \in NodeIds, c = Current,
         TypeOK', RuleInv', NoSkipInv',
         driver'.stage = driver.stage,
         \/ driver'.todo = Tail(driver.todo)
         \/ driver'.todo = <<>> /\ node'[c].status \notin Good,
         \A n \in NodeIds \ {c} : Quiet(node[n], node'[n]) /\ output'[n] = output[n],
         node'[c].status # "absent",
         node'[c].status \in Good => node'[c].input = InputNow(c) \/ ~Undisturbed,
         driver'.products = IF driver.stage = 2 /\ node'[c].status = "succeeded"
                            THEN Append(driver.products, c[1]) ELSE driver.products,
         driver.stage # 3 => driver'.market = driver.market,
         driver.stage = 3 =>
           /\ \A a \in Asins \ {c[1]} : (a \in driver'.market) = (a \in driver.market)
           /\ Skips(c, driver.products) => c[1] \notin driver'.market
           /\ ~Skips(c, driver.products) /\ node'[c].status = "succeeded" =>
                c[1] \in driver'.market
  PROVE  WalkInv'
<1>1. /\ c \in NodeIds /\ c[2] = Stage /\ c[1] = Head(driver.todo) /\ c # Source
      /\ StageOf(c) = driver.stage /\ driver.stage \in 2 .. 8
      /\ c \in NodesNow /\ ~Behind(c)
      /\ \A m \in NodesNow : StageOf(m) < StageOf(c) => Behind(m)
  BY CurrentExists, CurrentInRun DEF TypeOK, DriverRecords
<1>2. /\ output'[Source] = output[Source] /\ FoundNow' = FoundNow /\ NodesNow' = NodesNow
      /\ FoundNow \in Seq(Asins) /\ IsInjective(FoundNow)
  BY <1>1, NodesExist, NodesNowFacts DEF FoundNow, NodesNow
<1>3. PICK S : /\ driver.todo \in Seq(S) /\ driver.products \in Seq(Asins)
               /\ Stage \in AsinStages => S = Asins
               /\ Stage \notin AsinStages => driver.todo = <<"run">>
  <2>1. driver.products \in Seq(Asins)
    BY DEF TypeOK, DriverRecords
  <2>2. CASE Stage \in AsinStages
    BY <2>1, <2>2 DEF TodoInv
  <2>3. CASE Stage \notin AsinStages
    <3>1. driver.todo = <<"run">>
      BY <2>3 DEF TodoInv
    <3>2. driver.todo \in Seq({"run"})
      BY <3>1
    <3> QED BY <2>1, <2>3, <3>1, <3>2
  <2> QED BY <2>2, <2>3
<1>4. /\ Tail(driver.todo) \in Seq(S) /\ Len(Tail(driver.todo)) = Len(driver.todo) - 1
      /\ Len(driver.todo) \in Nat \ {0}
      /\ Range(driver.todo) = {Head(driver.todo)} \cup Range(Tail(driver.todo))
  BY <1>3, ListFacts, EmptySeq
<1>5. Range(<<>>) = {}
  BY DEF Range
<1>6. ASSUME NEW n \in NodeIds, Behind(n) PROVE Behind(n)' /\ n # c
  <2>1. Range(driver'.todo) \subseteq Range(driver.todo)
    BY <1>4, <1>5
  <2> QED BY <1>1, <1>2, <1>6, <2>1 DEF Behind
<1> SUFFICES ASSUME Undisturbed'
             PROVE  /\ driver'.stage = 2 =>
                         /\ Len(driver'.products) + Len(driver'.todo) = Len(FoundNow')
                         /\ \A i \in DOMAIN driver'.products : driver'.products[i] = FoundNow'[i]
                    /\ driver'.stage > 2 => driver'.products = FoundNow'
                    /\ \A n \in NodeIds : Behind(n)' => IsCurrent(n)'
                    /\ \A n \in NodeIds : Behind(n)' /\ n[2] = "market" =>
                         (n[1] \in driver'.market) = (n[1] \in LoadedNow)'
  BY DEF WalkInv
<1>7. /\ Undisturbed
      /\ \A n \in NodeIds : Behind(n) => Stays(n) /\ IsCurrent(n) /\ IsCurrent(n)'
      /\ \A n \in NodeIds : Behind(n) /\ n[2] = "market" =>
              (n[1] \in LoadedNow)' = (n[1] \in LoadedNow)
  BY <1>1, <1>2, <1>6, WalkBack
<1>8. /\ driver.stage = 2 =>
           /\ Len(driver.products) + Len(driver.todo) = Len(FoundNow)
           /\ \A i \in DOMAIN driver.products : driver.products[i] = FoundNow[i]
      /\ driver.stage > 2 => driver.products = FoundNow
      /\ \A n \in NodeIds : Behind(n) /\ n[2] = "market" =>
           (n[1] \in driver.market) = (n[1] \in LoadedNow)
  BY <1>7 DEF WalkInv
<1>9. Stage \in AsinStages => Rest(driver.todo, FoundNow)
  <2>1. Stage \in AsinStages => driver.stage = 2 \/ driver.stage > 2
    BY <1>1
  <2> QED BY <2>1, <1>8 DEF ListInv
<1>10. c[1] \notin Range(Tail(driver.todo))
  <2>1. CASE Stage \in AsinStages
    BY <2>1, <1>1, <1>2, <1>3, <1>9, ListFacts
  <2>2. CASE Stage \notin AsinStages
    <3>1. driver.todo = <<"run">>
      BY <2>2, <1>3
    <3>2. Tail(<<"run">>) = <<>>
      OBVIOUS
    <3> QED BY <3>1, <3>2, <1>5
  <2> QED BY <2>1, <2>2
<1>11. Behind(c)'
  BY <1>1, <1>2, <1>5, <1>10 DEF Behind
<1>12. node'[c].status \in Good /\ driver'.todo = Tail(driver.todo)
  BY <1>1, <1>11 DEF Undisturbed, Good
<1>13. node'[c].input = InputOf(c, FoundNow, LoadedNow)'
  <2>1. node'[c].input = InputNow(c)
    BY <1>7, <1>12
  <2>2. InputNow(c) = InputOf(c, FoundNow, LoadedNow)
    BY <1>7, InputCurrent DEF WorksFromCurrent
  <2>3. \A m \in NodesNow : StageOf(m) < StageOf(c) => Stays(m)
    BY <1>1, <1>7, NodesNowFacts
  <2>4. InputOf(c, FoundNow, LoadedNow)' = InputOf(c, FoundNow, LoadedNow)
    BY <1>1, <1>2, <2>3, InputStays
  <2> QED BY <2>1, <2>2, <2>4
<1>14. IsCurrent(c)'
  <2>1. EarnedAt(c)'
    BY StatusEarnedNext
  <2>2. \A m \in NodesNow : StageOf(m) < StageOf(c) => IsCurrent(m)'
    BY <1>1, <1>7, NodesNowFacts
  <2> QED BY <2>1, <2>2, <1>1, <1>2, <1>12, <1>13 DEF EarnedAt
<1>15. ASSUME NEW n \in NodeIds, Behind(n)', n # c PROVE Behind(n)
  <2>1. n \in NodesNow /\ (StageOf(n) < driver.stage \/ (StageOf(n) = driver.stage /\ n[1] \notin Range(Tail(driver.todo))))
    BY <1>2, <1>12, <1>15 DEF Behind
  <2>2. CASE StageOf(n) = driver.stage
    <3>1. n[2] = c[2] /\ n = <<n[1], n[2]>> /\ c = <<c[1], c[2]>>
      BY <1>1, <2>2, StageOfFacts, NodeFacts
    <3>2. n[1] # c[1]
      BY <3>1, <1>15
    <3> QED BY <2>1, <3>2, <1>1, <1>4 DEF Behind
  <2>3. CASE StageOf(n) < driver.stage
    BY <2>1, <2>3 DEF Behind
  <2> QED BY <2>1, <2>2, <2>3
<1>16. \A n \in NodeIds : Behind(n)' => IsCurrent(n)'
  BY <1>7, <1>14, <1>15
<1>17. ASSUME driver.stage = 2
       PROVE  /\ Len(driver'.products) + Len(driver'.todo) = Len(FoundNow')
              /\ \A i \in DOMAIN driver'.products : driver'.products[i] = FoundNow'[i]
  <2>1. c[2] = "ingest" /\ Stage \in AsinStages
    BY <1>1, <1>17, StageNumbers DEF AsinStages
  <2>2. node'[c].status = "succeeded"
    BY <1>14, <2>1 DEF IsCurrent, StatusAllowed, Skips
  <2>3. driver'.products = Append(driver.products, c[1])
    BY <2>2, <1>17
  <2>4. PICK todo \in Seq(Asins), list \in Seq(Asins), found \in Seq(Asins) :
          todo = driver.todo /\ list = driver.products /\ found = FoundNow
    BY <2>1, <1>2, <1>3
  <2>5. /\ Len(list) + Len(todo) = Len(found) /\ \A i \in DOMAIN list : list[i] = found[i]
        /\ Rest(todo, found) /\ todo # <<>> /\ c[1] = Head(todo)
    BY <2>1, <2>4, <1>1, <1>8, <1>9, <1>17
  <2>6. c[1] = found[Len(found) - Len(todo) + 1] /\ c[1] \in Asins
    BY <2>5, ListFacts
  <2>7. /\ DOMAIN Append(list, c[1]) = 1 .. (Len(list) + 1)
        /\ Len(Append(list, c[1])) = Len(list) + 1
        /\ Append(list, c[1])[Len(list) + 1] = c[1]
        /\ \A i \in 1 .. Len(list) : Append(list, c[1])[i] = list[i]
    BY <2>6
  <2>8. c[1] = found[Len(list) + 1]
    BY <2>5, <2>6
  <2>9. \A i \in DOMAIN Append(list, c[1]) : Append(list, c[1])[i] = found[i]
    BY <2>5, <2>7, <2>8
  <2>10. Len(Append(list, c[1])) + Len(Tail(todo)) = Len(found)
    BY <2>5, <2>7
  <2> QED BY <2>3, <2>4, <2>9, <2>10, <1>2, <1>12
<1>18. driver'.stage > 2 => driver'.products = FoundNow'
  BY <1>1, <1>2, <1>8
<1>19. ASSUME NEW n \in NodeIds, Behind(n)', n[2] = "market"
       PROVE  (n[1] \in driver'.market) = (n[1] \in LoadedNow)'
  <2>1. n = <<n[1], "market">> /\ n[1] \in Asins
    BY <1>19, NodeFacts DEF Source, FilterNode, ExportNode
  <2>2. CASE n # c
    <3>1. Behind(n)
      BY <1>15, <1>19, <2>2
    <3>2. (n[1] \in driver'.market) = (n[1] \in driver.market)
      <4>1. CASE driver.stage = 3
        <5>1. n[1] # c[1]
          BY <4>1, <1>1, <2>1, <2>2, NodeFacts, StageNumbers
        <5> QED BY <4>1, <5>1, <2>1
      <4>2. CASE driver.stage # 3
        BY <4>2
      <4> QED BY <4>1, <4>2
    <3> QED BY <3>1, <3>2, <1>7, <1>8, <1>19
  <2>3. CASE n = c
    <3>1. driver.stage = 3 /\ driver.products = FoundNow
      BY <1>1, <1>8, <1>19, <2>3, StageNumbers
    <3>2. Skips(c, driver.products) = Skips(c, FoundNow)'
      BY <1>2, <1>19, <2>3, <3>1 DEF Skips
    <3>3. node'[c].status \in StatusAllowed(c)'
      BY <1>14 DEF IsCurrent
    <3>4. (c[1] \in LoadedNow)' = (node'[c].status = "succeeded" /\ ~Skips(c, FoundNow)')
      BY <2>1, <2>3 DEF LoadedNow, Succeeded
    <3> QED BY <2>3, <3>1, <3>2, <3>3, <3>4 DEF StatusAllowed
  <2> QED BY <2>2, <2>3
<1> QED BY <1>16, <1>17, <1>18, <1>19

------------------------------------------------------------------------------
(* Steps after which no execution is under way *)

LEMMA TableFacts ==
  ASSUME TypeOK
  PROVE  IsTable(node) /\ QuietTable(node, node)
  BY RowFacts DEF TypeOK, DriverRecords, IsTable, QuietTable

BoundsOK == surprises \in 0 .. MaxSurprises /\ requests \in 0 .. MaxRequests

LEMMA RequestFacts ==
  ASSUME TypeOK, Request
  PROVE  BoundsOK'
  BY PipelineAssumption DEF TypeOK, DriverRecords, Request, BoundsOK

LEMMA SurpriseFacts ==
  ASSUME TypeOK, NEW cost \in Nat, Surprise(cost)
  PROVE  BoundsOK'
  BY PipelineAssumption DEF TypeOK, DriverRecords, Surprise, BoundsOK

LEMMA RestingStep ==
  ASSUME IInv, TypeOK', QuietTable(node, node'), output' = output,
         driver'.pc \in {"idle", "raised", "down"}
  PROVE  IInv'
<1>1. RecordedInv' /\ RuleInv' /\ NoSkipInv'
  BY HistoryQuiet DEF IInv
<1>2. ~Driving' /\ driver'.pc \notin {"handler", "returned", "collect", "report"}
  BY DEF Driving
<1> QED BY <1>1, <1>2 DEF IInv, TodoInv, BarrierInv, ListInv, WalkInv, HandlerInv, ReturnedInv

LEMMA IdleFacts ==
  /\ Idle \in DriverRecords
  /\ Idle.pc = "idle" /\ Idle.stage = 1 /\ Idle.products = <<>> /\ Idle.market = {}
  BY EmptySeq DEF Idle, DriverRecords

LEMMA VisitRefusedStep ==
  ASSUME IInv, VisitRefused
  PROVE  IInv'
<1>1. TypeOK'
  BY EmptySeq DEF IInv, TypeOK, DriverRecords, VisitRefused, Return, bounds, threads, ThreadsOK
<1> QED BY <1>1, TableFacts, RestingStep DEF IInv, VisitRefused, Return, TypeOK, DriverRecords

LEMMA MarkCancelledStep ==
  ASSUME IInv, MarkCancelled
  PROVE  IInv'
<1>1. TypeOK'
  BY IdleFacts DEF IInv, TypeOK, DriverRecords, MarkCancelled, bounds, threads, ThreadsOK, JobStatus
<1> QED BY <1>1, TableFacts, IdleFacts, RestingStep DEF IInv, MarkCancelled

LEMMA CollectFailsStep ==
  ASSUME IInv, CollectFails
  PROVE  IInv'
<1>1. driver' \in DriverRecords /\ driver'.pc = "raised"
  BY DEF IInv, TypeOK, DriverRecords, CollectFails, Proceed
<1>2. BoundsOK'
  BY SurpriseFacts DEF IInv, CollectFails
<1>3. TypeOK'
  BY <1>1, <1>2 DEF IInv, TypeOK, CollectFails, BoundsOK, threads, ThreadsOK
<1> QED BY <1>1, <1>3, TableFacts, RestingStep DEF IInv, CollectFails

LEMMA ReportStep ==
  ASSUME IInv, Report
  PROVE  IInv'
<1>1. job' \in JobStatus
  <2>1. seen \in RunStatus \cup {"unreadable"} /\ job' \in ReportedAs(seen)
    BY DEF IInv, TypeOK, ThreadsOK, ReturnedInv, Report
  <2> QED BY <2>1 DEF ReportedAs, RunStatus, JobStatus
<1>2. TypeOK'
  BY <1>1, IdleFacts DEF IInv, TypeOK, DriverRecords, Report, bounds, ThreadsOK
<1> QED BY <1>2, TableFacts, IdleFacts, RestingStep DEF IInv, Report

LEMMA ReportErrorStep ==
  ASSUME IInv, ReportError
  PROVE  IInv'
<1>1. TypeOK'
  BY IdleFacts DEF IInv, TypeOK, DriverRecords, ReportError, bounds, threads, ThreadsOK, JobStatus
<1> QED BY <1>1, TableFacts, IdleFacts, RestingStep DEF IInv, ReportError

LEMMA RequeueStep ==
  ASSUME IInv, Requeue
  PROVE  IInv'
<1>1. TypeOK'
  BY DEF IInv, TypeOK, DriverRecords, Requeue, bounds, threads, ThreadsOK, JobStatus
<1> QED BY <1>1, TableFacts, RestingStep DEF IInv, Requeue

LEMMA CrashStep ==
  ASSUME IInv, Crash
  PROVE  IInv'
<1>1. driver' \in DriverRecords
      /\ driver'.pc = "down"
  BY IdleFacts DEF Crash, Idle, DriverRecords
<1>2. TypeOK'
  BY <1>1, SurpriseFacts DEF IInv, TypeOK, DriverRecords, Crash, BoundsOK, ThreadsOK
<1> QED BY <1>1, <1>2, TableFacts, RestingStep DEF IInv, Crash

LEMMA RestartStep ==
  ASSUME IInv, Restart
  PROVE  IInv'
<1>1. IsTable(node)
  BY TableFacts DEF IInv
<1>2. QuietTable(node, node') /\ IsTable(node')
  <2>1. QuietTable(node, Recovered(node, MaxAttempts, 0))
    BY <1>1, RowsAssumption, RecoveredQuiet
  <2>2. QuietTable(Recovered(node, MaxAttempts, 0), Promoted(Recovered(node, MaxAttempts, 0)))
    BY <2>1, PromotedQuiet DEF QuietTable
  <2>3. node' = Promoted(Recovered(node, MaxAttempts, 0))
    BY DEF Restart
  <2> QED BY <1>1, <2>1, <2>2, <2>3, QuietTransitive DEF QuietTable
<1>3. run' \in RunStatus
  <2>1. Aggregate(node', run, TRUE) \in RunStatus
    BY <1>2, AggregateFacts DEF IInv, TypeOK, DriverRecords
  <2> QED BY <2>1 DEF Restart, UnderWay, IInv, TypeOK, DriverRecords, RunStatus
<1>4. job' \in JobStatus
  BY <1>3 DEF Restart, UnderWay, IInv, TypeOK, DriverRecords, RunStatus, JobStatus
<1>5. TypeOK'
  BY <1>2, <1>3, <1>4, IdleFacts DEF IInv, TypeOK, DriverRecords, Restart, IsTable, bounds, threads,
                                      ThreadsOK
<1> QED BY <1>2, <1>5, IdleFacts, RestingStep DEF Restart

LEMMA RecoverCancelledStep ==
  ASSUME IInv, RecoveringInv, RecoverCancelled
  PROVE  IInv'
<1>1. IsTable(node)
  BY TableFacts DEF IInv
<1>2. QuietTable(node, node') /\ IsTable(node')
  <2>1. QuietTable(node, Recovered(node, 1, 0))
    BY <1>1, RecoveredQuiet
  <2>2. QuietTable(Recovered(node, 1, 0), Cancelled(Recovered(node, 1, 0)))
    BY <2>1, CancelledQuiet DEF QuietTable
  <2>3. node' = Cancelled(Recovered(node, 1, 0))
    BY DEF RecoverCancelled
  <2> QED BY <1>1, <2>1, <2>2, <2>3, QuietTransitive DEF QuietTable
<1>3. run' \in RunStatus
  BY <1>2, AggregateFacts DEF RecoverCancelled, RunStatus
<1>4. job' \in JobStatus
  BY DEF RecoverCancelled, IInv, TypeOK, DriverRecords, JobStatus
<1>5. TypeOK'
  BY <1>2, <1>3, <1>4 DEF IInv, TypeOK, DriverRecords, RecoverCancelled, IsTable, bounds, threads,
                                      ThreadsOK
<1>6. driver'.pc = "idle"
  BY DEF RecoverCancelled, RecoveringInv
<1> QED BY <1>2, <1>5, <1>6, RestingStep DEF RecoverCancelled

LEMMA OperateNodeStep ==
  ASSUME IInv, NEW n \in NodeIds, NEW op \in Operations, OperateNode(n, op)
  PROVE  IInv'
<1>1. IsTable(node)
  BY TableFacts DEF IInv
<1>2. node' = [m \in NodeIds |-> IF m = n THEN ResetRow(node[n], op) ELSE node[m]]
  BY <1>1 DEF OperateNode, IsTable
<1>3. ASSUME NEW m \in NodeIds PROVE IsRow(node'[m]) /\ Quiet(node[m], node'[m])
  <2>1. CASE m = n
    BY <1>1, <1>2, <2>1, ResetFacts DEF OperateNode, IsTable, Quiet
  <2>2. CASE m # n
    BY <1>1, <1>2, <2>2, RowFacts DEF IsTable
  <2> QED BY <2>1, <2>2
<1>4. node' = [m \in NodeIds |-> node'[m]]
  BY <1>2
<1>5. QuietTable(node, node') /\ IsTable(node')
  BY <1>3, <1>4 DEF QuietTable, IsTable
<1>6. BoundsOK'
  BY RequestFacts DEF IInv, OperateNode
<1>7. TypeOK'
  BY <1>5, <1>6 DEF IInv, TypeOK, DriverRecords, OperateNode, BoundsOK,
       IsTable, JobStatus, threads, ThreadsOK
<1> QED BY <1>5, <1>7, RestingStep DEF OperateNode

LEMMA RetryJobStep ==
  ASSUME IInv, RetryJob
  PROVE  IInv'
<1>1. IsTable(node)
  BY TableFacts DEF IInv
<1>2. node' = [n \in NodeIds |-> RetriedRow(node[n])]
  BY DEF RetryJob
<1>3. \A n \in NodeIds : Quiet(node[n], node'[n])
  BY <1>1, <1>2, RetriedFacts DEF IsTable
<1>4. node' = [n \in NodeIds |-> node'[n]]
  BY <1>2
<1>5. QuietTable(node, node') /\ IsTable(node')
  BY <1>3, <1>4 DEF QuietTable, IsTable, Quiet
<1>6. BoundsOK'
  BY RequestFacts DEF IInv, RetryJob
<1>7. TypeOK'
  BY <1>5, <1>6 DEF IInv, TypeOK, DriverRecords, RetryJob, BoundsOK,
       IsTable, JobStatus, threads, ThreadsOK
<1> QED BY <1>5, <1>7, RestingStep DEF RetryJob

------------------------------------------------------------------------------
(* Steps that leave the driver where it is *)

WaitStatus == {"pending", "running", "retry_wait"}

\* The barriers hold as long as nobody behind the driver comes to wait.
LEMMA BarrierKept ==
  ASSUME TypeOK, BarrierInv, Driving, driver'.stage = driver.stage,
         \A n \in NodeIds : StageOf(n) < driver.stage /\ node'[n].status \in WaitStatus =>
                              node[n].status \in WaitStatus
  PROVE  BarrierInv'
<1>1. driver.stage \in 1 .. 8
  BY DEF TypeOK, DriverRecords
<1>2. ASSUME NEW earlier \in 1 .. (driver.stage - 1), Waiting(Stages[earlier])'
      PROVE  Waiting(Stages[earlier])
  <2>1. PICK n \in NodeIds : n[2] = Stages[earlier] /\ node'[n].status \in WaitStatus
    BY <1>2 DEF Waiting, WaitStatus
  <2>2. StageOf(n) = earlier
    BY <1>1, <2>1, StageOfFacts
  <2>3. node[n].status \in WaitStatus
    BY <1>1, <2>1, <2>2
  <2> QED BY <2>1, <2>3 DEF Waiting, WaitStatus
<1> QED BY <1>1, <1>2 DEF BarrierInv

\* The input the driver has worked out for the node it is at stays right.
LEMMA HandlerInput ==
  ASSUME TypeOK, TodoInv, ListInv, WalkInv, Driving, driver.todo # <<>>,
         TypeOK', TodoInv', ListInv', WalkInv', Driving', Undisturbed',
         driver'.stage = driver.stage, driver'.todo = driver.todo,
         output' = output,
         \A n \in NodeIds : Behind(n) => Quiet(node[n], node'[n])
  PROVE  Undisturbed /\ Current' = Current /\ InputNow(Current)' = InputNow(Current)
<1>1. NodesNow' = NodesNow /\ Current' = Current
  BY DEF NodesNow, FoundNow, Current, Stage
<1>2. \A n \in NodeIds : Behind(n) => Behind(n)'
  BY <1>1 DEF Behind
<1>3. Undisturbed /\ \A n \in NodeIds : Behind(n) => Stays(n)
  BY <1>2, WalkBack
<1>4. PICK c \in NodeIds : c = Current
  BY CurrentExists
<1>5. c \in NodesNow /\ \A m \in NodesNow : StageOf(m) < StageOf(c) => Behind(m)
  BY <1>4, CurrentInRun
<1>6. InputOf(c, FoundNow, LoadedNow)' = InputOf(c, FoundNow, LoadedNow)
  <2>1. \A m \in NodesNow : StageOf(m) < StageOf(c) => Stays(m)
    BY <1>3, <1>5, NodesNowFacts
  <2> QED BY <1>5, <2>1, InputStays
<1>7. InputNow(c) = InputOf(c, FoundNow, LoadedNow)
  BY <1>3, <1>4, InputCurrent DEF WorksFromCurrent
<1>8. InputNow(c)' = InputOf(c, FoundNow, LoadedNow)'
  <2>1. InputNow(Current)' = InputOf(Current, FoundNow, LoadedNow)'
    BY InputCurrentNext DEF WorksFromCurrent
  <2> QED BY <2>1, <1>1, <1>4 DEF InputNow, InputOf, Record
<1> QED BY <1>1, <1>3, <1>4, <1>6, <1>7, <1>8 DEF InputNow, InputOf, Record

LEMMA SkipsKept ==
  ASSUME NEW c \in NodeIds, ~Skips(c, driver.products), driver'.products = driver.products,
         output' = output,
         \A n \in NodeIds \ {c} : node[n].status = "succeeded" => node'[n].status = "succeeded"
  PROVE  ~Skips(c, driver.products)'
<1>1. CASE c[2] = "market"
  BY <1>1 DEF Skips
<1>2. CASE c[2] \in {"profit", "score"}
  <2>1. <<c[1], "match">> \in NodeIds \ {c} \/ c[2] = "score"
    BY <1>2, NodeFacts, NodesExist DEF AsinStages, Source, FilterNode, ExportNode
  <2>2. <<c[1], "profit">> \in NodeIds \ {c} \/ c[2] = "profit"
    BY <1>2, NodeFacts, NodesExist DEF AsinStages, Source, FilterNode, ExportNode
  <2> QED BY <1>2, <2>1, <2>2 DEF Skips, HasSuppliers, HasProfit, Succeeded
<1>3. CASE c[2] = "export"
  <2>1. FilterNode \in NodeIds \ {c}
    BY <1>3, NodesExist DEF FilterNode
  <2> QED BY <1>3, <2>1 DEF Skips, HasExport, Succeeded
<1>4. CASE c[2] \notin {"market", "profit", "score", "export"}
  BY <1>4 DEF Skips
<1> QED BY <1>1, <1>2, <1>3, <1>4

LEMMA StayingStep ==
  ASSUME IInv, TypeOK', QuietTable(node, node'), output' = output, driver' = driver,
         \A n \in NodeIds : node'[n].status \in WaitStatus => node[n].status \in WaitStatus,
         \A n \in NodeIds : node[n].status \in {"succeeded", "running"} =>
                              node'[n].status = node[n].status,
         AllFine => AllFine', seen' = seen,
         driver.pc \in {"returned", "collect"} /\ run' = "success" => AllFine'
  PROVE  IInv'
<1>1. RecordedInv' /\ RuleInv' /\ NoSkipInv'
  BY HistoryQuiet DEF IInv
<1>2. TodoInv' /\ ListInv' /\ (Driving' <=> Driving) /\ Stage' = Stage
  BY DEF IInv, TodoInv, ListInv, Driving, Stage, FoundNow, Skips
<1>3. BarrierInv'
  <2>1. CASE Driving
    BY <2>1, BarrierKept DEF IInv
  <2>2. CASE ~Driving
    BY <2>2, <1>2 DEF BarrierInv
  <2> QED BY <2>1, <2>2
<1>4. \A n \in NodeIds : Quiet(node[n], node'[n])
  BY DEF QuietTable
<1>5. WalkInv'
  <2>1. CASE Driving
    BY <2>1, <1>4, WalkStays DEF IInv
  <2>2. CASE ~Driving
    BY <2>2, <1>2 DEF WalkInv
  <2> QED BY <2>1, <2>2
<1>6. ASSUME driver.pc = "handler" PROVE HandlerInv'
  <2>1. Driving /\ driver.todo # <<>> /\ Driving'
    BY <1>2, <1>6 DEF Driving, IInv, TodoInv
  <2>2. PICK c \in NodeIds : c = Current
    BY <2>1, CurrentExists DEF IInv
  <2>3. Current' = Current
    BY DEF Current, Stage
  <2>4. /\ node[c].status = "running" /\ ~Skips(c, driver.products)
        /\ Undisturbed => node[c].input = InputNow(c)
    BY <1>6, <2>2 DEF IInv, HandlerInv
  <2>5. ~Skips(c, driver.products)'
    BY <2>4, SkipsKept
  <2>6. ASSUME Undisturbed' PROVE node'[c].input = InputNow(Current)'
    <3>1. Undisturbed /\ InputNow(Current)' = InputNow(Current)
      BY <1>2, <1>4, <1>5, <2>1, <2>6, HandlerInput DEF IInv
    <3> QED BY <3>1, <2>2, <2>4, <1>4 DEF Quiet
  <2>7. ~Skips(Current, driver.products)'
    BY <2>2, <2>3, <2>5 DEF Skips, HasSuppliers, HasProfit, HasExport, Succeeded
  <2> QED BY <2>2, <2>3, <2>4, <2>6, <2>7 DEF HandlerInv
<1>7. ASSUME driver.pc \in {"returned", "collect", "report"} PROVE ReturnedInv'
  <2> SUFFICES ASSUME AllFine' PROVE AllCurrent'
    BY <1>7 DEF ReturnedInv, IInv
  <2>1. AllFine
    BY <1>4 DEF AllFine, Quiet
  <2>2. AllCurrent
    BY <2>1, <1>7 DEF IInv, ReturnedInv
  <2>3. NodesNow' = NodesNow /\ NodesNow \subseteq NodeIds
    BY NodesNowFacts DEF NodesNow, FoundNow, IInv
  <2>4. ASSUME NEW n \in NodesNow PROVE Stays(n) /\ IsCurrent(n)
    <3>1. IsCurrent(n) /\ n \in NodeIds
      BY <2>2, <2>3 DEF AllCurrent, IsCurrent
    <3>2. node[n].status \in Good
      BY <3>1 DEF IsCurrent, StatusAllowed, Good
    <3>3. node'[n].status \in Good
      BY <1>4, <3>1, <3>2 DEF AllFine, Quiet, Good
    <3> QED BY <1>4, <3>1, <3>3 DEF Stays, Quiet
  <2>5. ASSUME NEW n \in NodesNow PROVE IsCurrent(n)'
    BY <2>4, CurrentStays DEF IInv
  <2> QED BY <2>3, <2>5 DEF AllCurrent, IsCurrent
<1>8. HandlerInv' /\ ReturnedInv'
  BY <1>6, <1>7 DEF HandlerInv, ReturnedInv
<1> QED BY <1>1, <1>2, <1>3, <1>5, <1>8 DEF IInv

LEMMA ElapseStep ==
  ASSUME IInv, Elapse
  PROVE  IInv'
<1>1. IsTable(node)
  BY TableFacts DEF IInv
<1>2. ASSUME NEW n \in NodeIds
      PROVE  Quiet(node[n], node'[n]) /\ node'[n].status = node[n].status
  <2>1. IsRow(node[n])
    BY <1>1 DEF IsTable
  <2>2. PICK lease \in Int, next \in Int :
          node'[n] = [node[n] EXCEPT !.lease = lease, !.next_retry = next]
    <3> DEFINE lease == IF driver.pc = "handler" /\ n = Current THEN node[n].lease ELSE -1
               next == IF node[n].next_retry > 0 THEN 0 ELSE node[n].next_retry
    <3>1. node'[n] = [node[n] EXCEPT !.lease = lease, !.next_retry = next]
      BY DEF Elapse, ElapsedRow
    <3>2. lease \in Int /\ next \in Int
      BY <2>1, RowFacts
    <3> QED BY <3>1, <3>2
  <2>3. node'[n] = [f \in RowFields |-> node'[n][f]]
    BY <2>1, <2>2 DEF IsRow
  <2>4. /\ node'[n].generation = node[n].generation /\ node'[n].attempt_count = node[n].attempt_count
        /\ node'[n].input = node[n].input /\ node'[n].lease = lease /\ node'[n].next_retry = next
        /\ node'[n].resume_token = node[n].resume_token /\ node'[n].status = node[n].status
    BY <2>1, <2>2 DEF IsRow, RowFields
  <2> QED BY <2>1, <2>3, <2>4, RowFacts DEF IsRow, Quiet, Frozen
<1>3. node' = [n \in NodeIds |-> node'[n]]
  BY DEF Elapse
<1>4. QuietTable(node, node') /\ IsTable(node')
  BY <1>2, <1>3 DEF QuietTable, IsTable, Quiet
<1>5. TypeOK'
  BY <1>4 DEF IInv, TypeOK, DriverRecords, Elapse, IsTable, bounds, threads,
                                      ThreadsOK
<1>6. AllFine' <=> AllFine
  BY <1>2 DEF AllFine
<1>7. driver' = driver /\ output' = output /\ run' = run
  BY DEF Elapse
<1>8. driver.pc \in {"returned", "collect"} /\ run' = "success" => AllFine'
  BY <1>6, <1>7 DEF IInv, ReturnedInv
<1>9. seen' = seen
  BY DEF Elapse, threads
<1> QED BY <1>2, <1>4, <1>5, <1>6, <1>7, <1>8, <1>9, StayingStep

\* A step that touches neither the rows nor the run.
LEMMA StillStep ==
  ASSUME IInv, TypeOK', node' = node, output' = output, driver' = driver, run' = run, seen' = seen
  PROVE  IInv'
<1>1. QuietTable(node, node')
  BY TableFacts DEF IInv
<1>2. /\ AllFine => AllFine'
      /\ driver.pc \in {"returned", "collect"} /\ run' = "success" => AllFine'
  BY DEF IInv, ReturnedInv, AllFine
<1> QED BY <1>1, <1>2, StayingStep

LEMMA PreflightFailsStep ==
  ASSUME IInv, PreflightFails
  PROVE  IInv'
<1>1. BoundsOK'
  BY SurpriseFacts DEF IInv, PreflightFails
<1>2. TypeOK'
  BY <1>1 DEF IInv, TypeOK, DriverRecords, PreflightFails, BoundsOK, threads, ThreadsOK, JobStatus
<1> QED BY <1>2, StillStep DEF PreflightFails, threads

LEMMA CancelJobStep ==
  ASSUME IInv, CancelJob
  PROVE  IInv'
<1>1. BoundsOK'
  BY RequestFacts DEF IInv, CancelJob
<1>2. job' \in JobStatus /\ cancel' \in BOOLEAN
  BY DEF CancelJob, JobStatus, IInv, TypeOK
<1>3. TypeOK'
  BY <1>1, <1>2 DEF IInv, TypeOK, DriverRecords, CancelJob, BoundsOK, ThreadsOK
<1> QED BY <1>3, StillStep DEF CancelJob

LEMMA CancelRunStep ==
  ASSUME IInv, CancelRun
  PROVE  IInv'
<1>1. IsTable(node)
  BY TableFacts DEF IInv
<1>2. /\ driver' = driver /\ output' = output /\ seen' = seen
      /\ node' = Cancelled(node) /\ run' = "cancel_requested"
  BY DEF CancelRun
<1>3. /\ QuietTable(node, node')
      /\ \A n \in NodeIds : node'[n].status \in WaitStatus => node[n].status \in WaitStatus
      /\ \A n \in NodeIds : node[n].status \in Good \cup {"absent", "running"} =>
                              node'[n].status = node[n].status
  BY <1>1, <1>2, CancelledQuiet DEF WaitStatus, Cancellable, Good
<1>4. AllFine => AllFine'
  BY <1>3 DEF AllFine
<1>5. run' \in RunStatus
  BY <1>2 DEF RunStatus
<1>6. TypeOK'
  BY <1>2, <1>3, <1>5 DEF IInv, TypeOK, DriverRecords, CancelRun, QuietTable, IsTable,
                          bounds, ThreadsOK
<1> QED BY <1>2, <1>3, <1>4, <1>6, StayingStep DEF Good

LEMMA UpdateRunStep ==
  ASSUME IInv, UpdateRun
  PROVE  IInv'
<1>1. IsTable(node) /\ QuietTable(node, node)
  BY TableFacts DEF IInv
<1>2. /\ driver' = driver /\ output' = output /\ seen' = seen /\ node' = node
      /\ run' = Aggregate(node, run, TRUE)
  BY DEF UpdateRun
<1>3. /\ run' \in RunStatus
      /\ run' = "success" => \A n \in NodeIds : node[n].status \in Good \cup {"absent"}
  BY <1>1, <1>2, AggregateFacts DEF IInv, TypeOK
<1>4. (AllFine => AllFine') /\ (run' = "success" => AllFine')
  BY <1>2, <1>3 DEF AllFine
<1>5. TypeOK'
  BY <1>2, <1>3 DEF IInv, TypeOK, DriverRecords, UpdateRun, bounds, ThreadsOK
<1> QED BY <1>1, <1>2, <1>4, <1>5, StayingStep

LEMMA CancelFailsStep ==
  ASSUME IInv, CancelFails
  PROVE  IInv'
<1>1. BoundsOK'
  BY SurpriseFacts DEF IInv, CancelFails
<1>2. TypeOK'
  BY <1>1 DEF IInv, TypeOK, DriverRecords, CancelFails, BoundsOK, ThreadsOK
<1> QED BY <1>2, StillStep DEF CancelFails

------------------------------------------------------------------------------
(* An execution begins and goes from stage to stage *)

LEMMA StartStep ==
  ASSUME IInv, Start
  PROVE  IInv'
<1>1. IsTable(node)
  BY TableFacts DEF IInv
<1>2. QuietTable(node, node') /\ IsTable(node')
  BY <1>1, RowsAssumption, RecoveredQuiet DEF Start, QuietTable
<1>3. RecordedInv' /\ RuleInv' /\ NoSkipInv'
  BY <1>2, HistoryQuiet DEF IInv, Start
<1>4. /\ driver'.pc = "visit" /\ driver'.stage = 1 /\ driver'.todo = <<"run">>
      /\ driver'.products = <<>> /\ driver'.market = {}
      /\ driver' \in DriverRecords
  <2>1. driver' = [pc |-> "visit", stage |-> 1, todo |-> <<"run">>, products |-> <<>>,
                   market |-> {}, doomed |-> FALSE]
    BY DEF Start, Idle
  <2> QED BY <2>1, EmptySeq DEF DriverRecords
<1>5. TypeOK'
  BY <1>2, <1>4 DEF IInv, TypeOK, DriverRecords, Start, IsTable, JobStatus, RunStatus,
                     bounds, threads, ThreadsOK
<1>6. Stage' = "source_discovery"
  BY <1>4, StageFacts DEF Stage
<1>7. TodoInv' /\ BarrierInv' /\ ListInv'
  BY <1>4, <1>6 DEF TodoInv, BarrierInv, ListInv, AsinStages
<1>8. ASSUME NEW n \in NodeIds, Behind(n)' PROVE FALSE
  <2>1. StageOf(n) = 1 /\ n[1] \notin Range(<<"run">>)
    BY <1>4, <1>8, StageNumbers DEF Behind
  <2>2. n = Source
    BY <2>1, NodeFacts, StageNumbers
  <2> QED BY <2>1, <2>2 DEF Source, Range
<1>9. WalkInv'
  BY <1>4, <1>8 DEF WalkInv
<1>10. HandlerInv' /\ ReturnedInv'
  BY <1>4 DEF HandlerInv, ReturnedInv
<1> QED BY <1>3, <1>5, <1>7, <1>9, <1>10 DEF IInv

LEMMA ReturnFacts ==
  ASSUME TypeOK, NEW pc \in {"returned", "raised"}, Return(pc)
  PROVE  /\ driver'.pc = pc
         /\ driver' \in DriverRecords
  BY EmptySeq DEF TypeOK, DriverRecords, Return

\* An execution that returns leaves the histories, and what its result says.
LEMMA ReturningStep ==
  ASSUME TypeOK', RecordedInv', RuleInv', NoSkipInv', driver'.pc = "returned",
         run' = "success" => AllFine', AllFine' => AllCurrent'
  PROVE  IInv'
<1>1. ~Driving'
  BY DEF Driving
<1> QED BY <1>1 DEF IInv, TodoInv, BarrierInv, ListInv, WalkInv, HandlerInv, ReturnedInv

\* What the driver does once the execution has returned.
LEMMA EndingStep ==
  ASSUME IInv, TypeOK', node' = node, output' = output,
         driver'.pc \in {"collect", "report"}, ReturnedInv'
  PROVE  IInv'
<1>1. RecordedInv' /\ RuleInv' /\ NoSkipInv'
  BY TableFacts, HistoryQuiet DEF IInv
<1>2. ~Driving' /\ driver'.pc # "handler"
  BY DEF Driving
<1> QED BY <1>1, <1>2 DEF IInv, TodoInv, BarrierInv, ListInv, WalkInv, HandlerInv

LEMMA CollectStep ==
  ASSUME IInv, Collect
  PROVE  IInv'
<1>1. driver' \in DriverRecords /\ driver'.pc = "collect" /\ driver.pc = "returned"
  BY DEF IInv, TypeOK, DriverRecords, Collect, Proceed
<1>2. node' = node /\ output' = output /\ run' = run
  BY DEF Collect
<1>3. TypeOK'
  BY <1>1 DEF IInv, TypeOK, Collect, bounds, threads, ThreadsOK
<1>4. (AllFine' <=> AllFine) /\ (AllCurrent' <=> AllCurrent)
  BY <1>2 DEF AllFine, AllCurrent, NodesNow, FoundNow, StatusAllowed, Skips, HasSuppliers,
              HasProfit, HasExport, Succeeded, InputOf, LoadedNow, Dependency, Record
<1>5. ReturnedInv'
  BY <1>1, <1>2, <1>4 DEF IInv, ReturnedInv
<1> QED BY <1>1, <1>2, <1>3, <1>5, EndingStep

LEMMA ReadStatusStep ==
  ASSUME IInv, ReadStatus
  PROVE  IInv'
<1>1. driver' \in DriverRecords /\ driver'.pc = "report" /\ driver.pc = "collect"
  BY DEF IInv, TypeOK, DriverRecords, ReadStatus, Proceed
<1>2. node' = node /\ output' = output /\ run' = run /\ seen' \in {run, "unreadable"}
  BY DEF ReadStatus
<1>3. BoundsOK'
  BY SurpriseFacts DEF IInv, ReadStatus, BoundsOK, bounds, TypeOK
<1>4. TypeOK'
  BY <1>1, <1>2, <1>3 DEF IInv, TypeOK, ReadStatus, BoundsOK, ThreadsOK
<1>5. (AllFine' <=> AllFine) /\ (AllCurrent' <=> AllCurrent)
  BY <1>2 DEF AllFine, AllCurrent, NodesNow, FoundNow, StatusAllowed, Skips, HasSuppliers,
              HasProfit, HasExport, Succeeded, InputOf, LoadedNow, Dependency, Record
<1>6. ReturnedInv'
  BY <1>1, <1>2, <1>5 DEF IInv, ReturnedInv, TypeOK, RunStatus
<1> QED BY <1>1, <1>2, <1>4, <1>6, EndingStep

LEMMA PassOverStep ==
  ASSUME IInv, PassOver
  PROVE  IInv'
<1>1. /\ driver.pc = "visit" /\ driver.todo # <<>> /\ Driving
      /\ driver' = [driver EXCEPT !.todo = Tail(@)]
      /\ node' = node /\ output' = output /\ run' = run /\ job' = job /\ cancel' = cancel
      /\ surprises' = surprises /\ requests' = requests /\ client' = client
      /\ recovering' = recovering /\ seen' = seen
  BY DEF PassOver, Visiting, Continue, bounds, threads, Driving
<1>2. /\ Current \in NodeIds /\ Current[2] = Stage /\ Current[1] = Head(driver.todo)
      /\ StageOf(Current) = driver.stage /\ Current[2] = "profit"
      /\ ~Succeeded(<<Current[1], "match">>)
  BY <1>1, CurrentExists DEF IInv, PassOver, PassesOver
<1>3. driver.stage = 5 /\ Stage \in AsinStages
  BY <1>2, StageNumbers DEF AsinStages
<1>4. /\ driver.todo \in Seq(Asins) /\ driver.products \in Seq(Asins)
      /\ Rest(driver.todo, driver.products)
  BY <1>1, <1>3 DEF IInv, TypeOK, DriverRecords, TodoInv, ListInv
<1>5. /\ Tail(driver.todo) \in Seq(Asins) /\ Rest(Tail(driver.todo), driver.products)
      /\ Range(Tail(driver.todo)) \subseteq Range(driver.todo)
  BY <1>1, <1>4, ListFacts
<1>6. /\ driver'.pc = "visit" /\ driver'.stage = 5 /\ driver'.todo = Tail(driver.todo)
      /\ driver'.products = driver.products /\ driver'.market = driver.market
      /\ driver' \in DriverRecords
      /\ Driving' /\ Stage' = Stage
  BY <1>1, <1>3, <1>5 DEF IInv, TypeOK, DriverRecords, Driving, Stage
<1>7. TypeOK'
  BY <1>1, <1>6 DEF IInv, TypeOK, DriverRecords, ThreadsOK
<1>8. RecordedInv' /\ RuleInv' /\ NoSkipInv'
  BY <1>1, TableFacts, HistoryQuiet DEF IInv
<1>9. TodoInv'
  BY <1>3, <1>5, <1>6 DEF TodoInv
<1>10. BarrierInv'
  BY <1>1, <1>3, <1>6, BarrierKept DEF IInv
<1>11. ListInv'
  <2>1. /\ \A a \in driver.market : ~Skips(<<a, "market">>, driver.products)
        /\ \A i \in DOMAIN driver.products :
             \E j \in DOMAIN FoundNow : i <= j /\ FoundNow[j] = driver.products[i]
    BY <1>1, <1>3 DEF IInv, ListInv
  <2>2. \A a \in driver'.market : ~Skips(<<a, "market">>, driver.products)'
    BY <2>1, <1>6 DEF Skips
  <2> QED BY <1>1, <1>3, <1>5, <1>6, <2>1, <2>2 DEF DriverRecords, ListInv, FoundNow
<1>12. ~Undisturbed'
  <2> SUFFICES ASSUME Undisturbed' PROVE FALSE
    OBVIOUS
  <2>1. ASSUME NEW n \in NodeIds, Behind(n)
        PROVE  Behind(n)' /\ Quiet(node[n], node'[n]) /\ output'[n] = output[n]
    BY <2>1, <1>1, <1>3, <1>5, <1>6, TableFacts DEF Behind, NodesNow, FoundNow, QuietTable, IInv
  <2>2. \A n \in NodeIds : Behind(n) => IsCurrent(n)
    BY <1>1, <2>1, WalkBack DEF IInv
  <2>3. PICK m : m = <<Current[1], "match">>
    OBVIOUS
  <2>4. m \in NodesNow /\ m \in NodeIds /\ StageOf(m) = 4 /\ m[2] = "match"
    BY <1>1, <1>2, <1>3, <2>3, CurrentInRun, ProductNodes DEF IInv, AsinStages
  <2>5. Behind(m)
    BY <1>3, <2>4 DEF Behind
  <2>6. Succeeded(m)
    BY <2>2, <2>4, <2>5 DEF IsCurrent, StatusAllowed, Skips, Succeeded
  <2> QED BY <1>2, <2>3, <2>6
<1>13. WalkInv' /\ HandlerInv' /\ ReturnedInv'
  BY <1>6, <1>12 DEF WalkInv, HandlerInv, ReturnedInv
<1> QED BY <1>7, <1>8, <1>9, <1>10, <1>11, <1>13 DEF IInv

LEMMA NextStageStep ==
  ASSUME IInv, NextStage
  PROVE  IInv'
<1>1. /\ driver.pc = "visit" /\ driver.todo = <<>> /\ Driving
      /\ node' = node /\ output' = output /\ job' = job /\ cancel' = cancel
      /\ surprises' = surprises /\ requests' = requests /\ client' = client
      /\ recovering' = recovering /\ seen' = seen
  BY DEF NextStage, bounds, threads, Driving
<1>2. RecordedInv' /\ RuleInv' /\ NoSkipInv'
  BY <1>1, TableFacts, HistoryQuiet DEF IInv
<1>3. IsTable(node) /\ IsTable(node') /\ run \in RunStatus
  BY <1>1, TableFacts DEF IInv, TypeOK, DriverRecords
<1>4. driver.stage \in 2 .. 8 /\ Stage = Stages[driver.stage]
  BY <1>1 DEF IInv, TypeOK, DriverRecords, TodoInv, Stage
<1>5. CASE Stage \in AsinStages /\ Waiting(Stage)
  <2>1. Return("returned") /\ run' = Aggregate(node, run, FALSE)
    BY <1>5 DEF NextStage
  <2>2. TypeOK' /\ driver'.pc = "returned"
    BY <1>1, <1>3, <2>1, ReturnFacts, AggregateFacts DEF IInv, TypeOK, DriverRecords, ThreadsOK
  <2>3. ~AllFine'
    BY <1>1, <1>5 DEF Waiting, AllFine, Good
  <2>4. run' # "success"
    BY <1>1, <1>3, <2>1, <2>3, AggregateFacts DEF AllFine
  <2> QED BY <1>2, <2>2, <2>3, <2>4, ReturningStep
<1>6. CASE ~(Stage \in AsinStages /\ Waiting(Stage)) /\ Stage = "export"
  <2> DEFINE required == ExportEnabled /\ HasExport
  <2>1. Return("returned") /\ run' = Aggregate(node, run, required)
    BY <1>6 DEF NextStage
  <2>2. required \in BOOLEAN
    BY PipelineAssumption DEF HasExport, Succeeded, IInv, TypeOK, DriverRecords
  <2> HIDE DEF required
  <2>3. TypeOK' /\ driver'.pc = "returned"
    BY <1>1, <1>3, <2>1, <2>2, ReturnFacts, AggregateFacts DEF IInv, TypeOK, DriverRecords, ThreadsOK
  <2>4. run' = "success" => AllFine'
    BY <1>1, <1>3, <2>1, <2>2, AggregateFacts DEF AllFine
  <2>5. ASSUME AllFine PROVE AllCurrent
    <3>1. driver.stage = 8
      <4>1. Stages[driver.stage] = "export" /\ driver.stage \in 1 .. 8
        BY <1>4, <1>6
      <4> QED BY <4>1, StageFacts
    <3>2. ASSUME NEW n \in NodesNow PROVE Behind(n) /\ n \in NodeIds
      <4>1. n \in NodeIds /\ StageOf(n) \in 1 .. 8
        BY NodesNowFacts, StageNumbers DEF IInv
      <4> QED BY <1>1, <3>1, <4>1 DEF Behind, Range
    <3>3. Undisturbed
      BY <2>5 DEF AllFine, Undisturbed
    <3>4. \A n \in NodesNow : IsCurrent(n)
      BY <1>1, <3>2, <3>3 DEF IInv, WalkInv
    <3> QED BY <3>4 DEF AllCurrent, IsCurrent
  <2>6. AllFine' => AllCurrent'
    <3>1. AllFine' <=> AllFine
      BY <1>1 DEF AllFine
    <3>2. AllCurrent' <=> AllCurrent
      BY <1>1 DEF AllCurrent, NodesNow, FoundNow, LoadedNow, StatusAllowed, InputOf, Record,
                  Dependency, Skips, HasSuppliers, HasProfit, HasExport, Succeeded
    <3> QED BY <2>5, <3>1, <3>2
  <2> QED BY <1>2, <2>3, <2>4, <2>6, ReturningStep
<1>7. CASE ~(Stage \in AsinStages /\ Waiting(Stage)) /\ Stage # "export"
  <2> DEFINE next == Stages[driver.stage + 1]
  <2>1. /\ driver' = [driver EXCEPT !.stage = @ + 1,
                         !.todo = IF next \in AsinStages THEN driver.products ELSE <<"run">>]
        /\ run' = run
    BY <1>7 DEF NextStage
  <2>2. driver.stage \in 2 .. 7
    BY <1>4, <1>7, StageFacts
  <2>3. driver.products \in Seq(Asins)
    BY DEF IInv, TypeOK, DriverRecords
  <2>4. /\ driver'.pc = "visit" /\ driver'.stage = driver.stage + 1
        /\ next \in AsinStages => driver'.todo = driver.products
        /\ next \notin AsinStages => driver'.todo = <<"run">>
        /\ driver'.products = driver.products /\ driver'.market = driver.market
        /\ driver' \in DriverRecords
    <3> HIDE DEF next
    <3>1. PICK todo \in Seq(Asins) \cup {<<"run">>} :
            /\ driver' = [driver EXCEPT !.stage = @ + 1, !.todo = todo]
            /\ next \in AsinStages => todo = driver.products
            /\ next \notin AsinStages => todo = <<"run">>
      <4>1. CASE next \in AsinStages
        BY <2>1, <2>3, <4>1
      <4>2. CASE next \notin AsinStages
        BY <2>1, <4>2
      <4> QED BY <4>1, <4>2
    <3>2. driver.stage + 1 \in 1 .. 8
      BY <2>2
    <3> QED BY <1>1, <3>1, <3>2 DEF IInv, TypeOK, DriverRecords
  <2>5. Stage' = next /\ Driving' /\ FoundNow' = FoundNow /\ NodesNow' = NodesNow
    BY <1>1, <2>4 DEF Stage, Driving, FoundNow, NodesNow
  <2> HIDE DEF next
  <2>6. TypeOK'
    BY <1>1, <2>1, <2>4 DEF IInv, TypeOK, DriverRecords, ThreadsOK
  <2>7. TodoInv'
    <3>1. driver'.stage # 1 /\ driver'.pc # "handler"
      BY <2>2, <2>4
    <3> QED BY <2>3, <2>4, <2>5, <3>1 DEF TodoInv
  <2>8. BarrierInv'
    <3>1. ASSUME NEW earlier \in 1 .. driver.stage
          PROVE  Stages[earlier] = "filter" \/ ~Waiting(Stages[earlier])
      <4>1. CASE earlier = driver.stage
        BY <1>4, <1>7, <2>2, <4>1, StageFacts DEF AsinStages
      <4>2. CASE earlier # driver.stage
        BY <1>1, <2>2, <3>1, <4>2 DEF IInv, BarrierInv
      <4> QED BY <4>1, <4>2
    <3>2. \A stage : Waiting(stage)' <=> Waiting(stage)
      BY <1>1 DEF Waiting
    <3> QED BY <2>2, <2>4, <3>1, <3>2 DEF BarrierInv
  <2>9. ListInv'
    <3>1. /\ \A a \in driver.market : ~Skips(<<a, "market">>, driver.products)
          /\ \A i \in DOMAIN driver.products :
               \E j \in DOMAIN FoundNow : i <= j /\ FoundNow[j] = driver.products[i]
      BY <1>1, <2>2 DEF IInv, ListInv
    <3>2. \A a \in driver'.market : ~Skips(<<a, "market">>, driver.products)'
      BY <3>1, <2>4 DEF Skips
    <3>3. Rest(driver.products, driver.products)
      BY <2>3 DEF Rest
    <3> QED BY <2>2, <2>4, <2>5, <3>1, <3>2, <3>3 DEF DriverRecords, ListInv
  <2>10. WalkInv'
    <3>1. ASSUME NEW n \in NodeIds, Behind(n) PROVE Behind(n)'
      <4>1. n \in NodesNow' /\ StageOf(n) < driver.stage + 1
        BY <2>2, <2>5, <3>1, StageNumbers DEF Behind
      <4> QED BY <2>4, <4>1 DEF Behind
    <3> SUFFICES ASSUME Undisturbed'
             PROVE  /\ driver'.products = FoundNow'
                    /\ \A n \in NodeIds : Behind(n)' => IsCurrent(n)'
                    /\ \A n \in NodeIds : Behind(n)' /\ n[2] = "market" =>
                         (n[1] \in driver'.market) = (n[1] \in LoadedNow)'
      BY <2>2, <2>4 DEF DriverRecords, WalkInv
    <3>2. /\ Undisturbed
          /\ \A n \in NodeIds : Behind(n) => IsCurrent(n)'
          /\ \A n \in NodeIds : Behind(n) /\ n[2] = "market" =>
               (n[1] \in LoadedNow)' = (n[1] \in LoadedNow)
      BY <1>1, <3>1, WalkBack, TableFacts DEF IInv, QuietTable
    <3>3. driver.products = FoundNow
      <4>1. CASE driver.stage = 2
        <5>1. /\ Len(driver.products) + Len(driver.todo) = Len(FoundNow)
              /\ \A i \in DOMAIN driver.products : driver.products[i] = FoundNow[i]
          BY <1>1, <3>2, <4>1 DEF IInv, WalkInv
        <5>2. FoundNow \in Seq(Asins)
          BY NodesNowFacts DEF IInv
        <5>3. Len(driver.todo) = 0
          BY <1>1
        <5> QED BY <5>1, <5>2, <5>3, <2>3, SeqEqual
      <4>2. CASE driver.stage > 2
        BY <1>1, <3>2, <4>2 DEF IInv, WalkInv
      <4> QED BY <2>2, <4>1, <4>2
    <3>4. ASSUME NEW n \in NodeIds, Behind(n)' PROVE Behind(n)
      <4>1. n \in NodesNow /\ (StageOf(n) < driver.stage + 1
              \/ (StageOf(n) = driver.stage + 1 /\ n[1] \notin Range(driver'.todo)))
        BY <2>4, <2>5, <3>4 DEF Behind
      <4>2. CASE StageOf(n) < driver.stage + 1
        <5>1. StageOf(n) < driver.stage \/ StageOf(n) = driver.stage
          BY <2>2, <4>2, StageNumbers
        <5> QED BY <1>1, <4>1, <5>1 DEF Behind, Range
      <4>3. CASE StageOf(n) = driver.stage + 1 /\ n[1] \notin Range(driver'.todo)
        <5>1. n[2] = next
          BY <4>3, StageOfFacts DEF next
        <5>2. CASE next \in AsinStages
          <6>1. \E i \in DOMAIN FoundNow : FoundNow[i] = n[1]
            BY <4>1, <5>1, <5>2, NodesNowFacts DEF IInv
          <6> QED BY <2>4, <3>3, <4>3, <5>2, <6>1 DEF Range
        <5>3. CASE next \notin AsinStages
          <6>1. n[1] = "run"
            BY <5>1, <5>3, NodeFacts DEF Source, FilterNode, ExportNode
          <6> QED BY <2>4, <4>3, <5>3, <6>1 DEF Range
        <5> QED BY <5>2, <5>3
      <4> QED BY <4>1, <4>2, <4>3
    <3>5. \A n \in NodeIds : Behind(n) /\ n[2] = "market" =>
               (n[1] \in driver.market) = (n[1] \in LoadedNow)
      BY <1>1, <3>2 DEF IInv, WalkInv
    <3> QED BY <2>4, <2>5, <3>2, <3>3, <3>4, <3>5
  <2>11. HandlerInv' /\ ReturnedInv'
    BY <2>4 DEF HandlerInv, ReturnedInv
  <2> QED BY <1>2, <2>6, <2>7, <2>8, <2>9, <2>10, <2>11 DEF IInv
<1> QED BY <1>5, <1>6, <1>7

------------------------------------------------------------------------------
(* The driver leaves a node *)

DataOK ==
  /\ IsTable(node)
  /\ output = [n \in NodeIds |-> output[n]] /\ output[Source] \in ProductLists
  /\ \A n \in NodeIds \ {Source} : output[n] \in BOOLEAN
  /\ job \in JobStatus /\ cancel \in BOOLEAN /\ BoundsOK /\ ThreadsOK

LEMMA DataFacts ==
  /\ TypeOK => DataOK
  /\ DataOK' /\ run' \in RunStatus /\ driver' \in DriverRecords => TypeOK'
  BY DEF TypeOK, DataOK, IsTable, BoundsOK

\* The ingested products stay a part of those found, in their order.
LEMMA ListOn ==
  ASSUME NEW S, NEW todo \in Seq(S), todo # <<>>, NEW list \in Seq(S), NEW found \in Seq(S),
         Rest(todo, found), Len(list) + Len(todo) <= Len(found),
         \A i \in DOMAIN list : \E j \in DOMAIN found : i <= j /\ found[j] = list[i]
  PROVE  /\ Rest(Tail(todo), found) /\ Rest(<<>>, found)
         /\ Len(list) + Len(Tail(todo)) <= Len(found) /\ Len(list) + Len(<<>>) <= Len(found)
         /\ Len(Append(list, Head(todo))) + Len(Tail(todo)) <= Len(found)
         /\ \A i \in DOMAIN Append(list, Head(todo)) :
              \E j \in DOMAIN found : i <= j /\ found[j] = Append(list, Head(todo))[i]
<1> DEFINE a == Head(todo)
           new == Append(list, a)
           k == Len(found) - Len(todo) + 1
<1>1. /\ Rest(Tail(todo), found) /\ Len(Tail(todo)) = Len(todo) - 1 /\ Len(todo) \in Nat \ {0}
      /\ k \in DOMAIN found /\ a = found[k] /\ a \in S
  BY ListFacts
<1>2. Rest(<<>>, found) /\ Len(<<>>) = 0 /\ Len(list) \in Nat /\ Len(found) \in Nat
  BY DEF Rest
<1> HIDE DEF a
<1>3. /\ DOMAIN new = 1 .. (Len(list) + 1) /\ Len(new) = Len(list) + 1
      /\ new[Len(list) + 1] = a /\ \A i \in 1 .. Len(list) : new[i] = list[i]
  BY <1>1
<1>4. Len(list) + 1 <= k
  BY <1>1, <1>2
<1> HIDE DEF new, k
<1>5. ASSUME NEW i \in DOMAIN new PROVE \E j \in DOMAIN found : i <= j /\ found[j] = new[i]
  <2>1. CASE i = Len(list) + 1
    BY <1>1, <1>3, <1>4, <2>1
  <2>2. CASE i \in 1 .. Len(list)
    BY <1>3, <2>2
  <2> QED BY <1>2, <1>3, <2>1, <2>2
<1> QED BY <1>1, <1>2, <1>3, <1>5 DEF new, a

LEMMA TailFacts ==
  ASSUME TypeOK, TodoInv, ListInv, Driving, driver.todo # <<>>
  PROVE  /\ Tail(driver.todo) \in Seq(Asins)
         /\ Stage \notin AsinStages => driver.todo = <<"run">> /\ Tail(driver.todo) = <<>>
         /\ Stage \in AsinStages =>
              /\ driver.todo \in Seq(Asins) /\ Head(driver.todo) \in Asins
              /\ Len(Tail(driver.todo)) = Len(driver.todo) - 1
         /\ Stage \in AsinStages /\ driver.stage > 2 => Rest(Tail(driver.todo), driver.products)
         /\ driver.stage = 2 =>
              /\ Rest(Tail(driver.todo), FoundNow) /\ FoundNow \in Seq(Asins)
              /\ Len(FoundNow) - Len(driver.todo) + 1 \in DOMAIN FoundNow
              /\ Head(driver.todo) = FoundNow[Len(FoundNow) - Len(driver.todo) + 1]
<1>1. CASE Stage \in AsinStages
  <2>1. driver.todo \in Seq(Asins) /\ driver.products \in Seq(Asins) /\ FoundNow \in Seq(Asins)
    BY <1>1, NodesNowFacts DEF TodoInv, TypeOK, DriverRecords
  <2>2. driver.stage = 2 => Rest(driver.todo, FoundNow)
    BY DEF ListInv
  <2>3. driver.stage > 2 => Rest(driver.todo, driver.products)
    BY <1>1 DEF ListInv
  <2>4. /\ Tail(driver.todo) \in Seq(Asins) /\ Head(driver.todo) \in Asins
        /\ Len(Tail(driver.todo)) = Len(driver.todo) - 1
    BY <2>1, ListFacts
  <2>5. driver.stage > 2 => Rest(Tail(driver.todo), driver.products)
    BY <2>1, <2>3, ListFacts
  <2>6. ASSUME driver.stage = 2
        PROVE  /\ Rest(Tail(driver.todo), FoundNow)
               /\ Len(FoundNow) - Len(driver.todo) + 1 \in DOMAIN FoundNow
               /\ Head(driver.todo) = FoundNow[Len(FoundNow) - Len(driver.todo) + 1]
    <3>1. PICK found \in Seq(Asins) : found = FoundNow
      BY <2>1
    <3>2. Rest(driver.todo, found)
      BY <2>2, <2>6, <3>1
    <3>3. /\ Rest(Tail(driver.todo), found) /\ Len(found) - Len(driver.todo) + 1 \in DOMAIN found
          /\ Head(driver.todo) = found[Len(found) - Len(driver.todo) + 1]
      BY <2>1, <3>2, ListFacts
    <3> QED BY <3>1, <3>3
  <2> QED BY <1>1, <2>1, <2>4, <2>5, <2>6
<1>2. CASE Stage \notin AsinStages
  <2>1. driver.todo = <<"run">>
    BY <1>2 DEF TodoInv
  <2>2. Tail(<<"run">>) = <<>>
    OBVIOUS
  <2>3. driver.stage # 2
    BY <1>2, StageFacts DEF Stage, AsinStages
  <2> QED BY <1>2, <2>1, <2>2, <2>3, EmptySeq
<1> QED BY <1>1, <1>2

\* A step with which the driver goes on, in the same stage, from node c.
Onward(c) ==
  /\ c \in NodeIds /\ c = Current /\ driver.todo # <<>> /\ driver.stage > 1
  /\ driver'.pc = "visit" /\ driver'.stage = driver.stage
  /\ \/ driver'.todo = Tail(driver.todo)
     \/ driver'.todo = <<>> /\ node'[c].status \notin Good
  /\ driver'.products = (IF driver.stage = 2 /\ node'[c].status = "succeeded"
                         THEN Append(driver.products, c[1]) ELSE driver.products)
  /\ driver'.market = (IF /\ driver.stage = 3 /\ node'[c].status = "succeeded"
                          /\ ~Skips(c, driver.products)
                       THEN driver.market \cup {c[1]} ELSE driver.market)
  /\ \A n \in NodeIds \ {c} :
       /\ Quiet(node[n], node'[n]) /\ output'[n] = output[n]
       /\ node'[n].status \in WaitStatus => node[n].status \in WaitStatus
  /\ node'[c].status # "absent"
  /\ node'[c].status \in Good => node'[c].input = InputNow(c) \/ ~Undisturbed

LEMMA OnwardStep ==
  ASSUME IInv, Driving, NEW c, Onward(c),
         TypeOK', RecordedInv', RuleInv', NoSkipInv'
  PROVE  IInv'
<1>0. /\ TypeOK /\ TodoInv /\ BarrierInv /\ ListInv /\ WalkInv
      /\ c \in NodeIds /\ c = Current /\ driver.todo # <<>> /\ driver.stage > 1
      /\ driver'.pc = "visit" /\ driver'.stage = driver.stage
  BY DEF IInv, Onward
<1>1. /\ c[2] = Stage /\ c[1] = Head(driver.todo) /\ c # Source
      /\ StageOf(c) = driver.stage /\ driver.stage \in 2 .. 8
  BY <1>0, CurrentExists DEF TypeOK, DriverRecords
<1>2. FoundNow' = FoundNow
  BY <1>1, NodesExist DEF FoundNow, Onward
<1>3. /\ Driving' /\ Stage' = Stage
      /\ driver.stage = 2 => Stage \in AsinStages
  BY <1>0, <1>1, StageFacts DEF Driving, Stage, AsinStages
<1>4. TodoInv'
  <2>1. /\ driver'.todo = Tail(driver.todo) \/ driver'.todo = <<>>
        /\ Tail(driver.todo) \in Seq(Asins)
        /\ Stage \notin AsinStages => Tail(driver.todo) = <<>>
    BY <1>0, TailFacts DEF Onward
  <2>2. driver'.stage # 1 /\ driver'.pc # "handler"
    BY <1>0, <1>1
  <2> QED BY <1>3, <2>1, <2>2, EmptySeq DEF TodoInv
<1>5. BarrierInv'
  BY <1>0, <1>1, BarrierKept DEF Onward
<1>6. ListInv'
  <2>1. /\ driver.stage <= 2 => driver.market = {}
        /\ driver.stage = 2 => Len(driver.products) + Len(driver.todo) <= Len(FoundNow)
        /\ driver.stage > 2 => \A a \in driver.market : ~Skips(<<a, "market">>, driver.products)
        /\ \A i \in DOMAIN driver.products :
             \E j \in DOMAIN FoundNow : i <= j /\ FoundNow[j] = driver.products[i]
    BY <1>0, <1>1 DEF ListInv
  <2>2. driver.stage <= 2 => driver'.market = {}
    BY <1>0, <2>1 DEF Onward
  <2>3. ASSUME driver.stage = 2
        PROVE  /\ Rest(driver'.todo, FoundNow)
               /\ Len(driver'.products) + Len(driver'.todo) <= Len(FoundNow)
               /\ \A i \in DOMAIN driver'.products :
                    \E j \in DOMAIN FoundNow : i <= j /\ FoundNow[j] = driver'.products[i]
    <3>1. PICK todo \in Seq(Asins), list \in Seq(Asins), found \in Seq(Asins) :
            todo = driver.todo /\ list = driver.products /\ found = FoundNow
      BY <1>0, <1>3, <2>3, TailFacts DEF TypeOK, DriverRecords
    <3>2. /\ Len(list) + Len(todo) <= Len(found) /\ Rest(todo, found) /\ todo # <<>>
          /\ \A i \in DOMAIN list : \E j \in DOMAIN found : i <= j /\ found[j] = list[i]
      BY <1>0, <2>1, <2>3, <3>1 DEF ListInv
    <3>3. /\ Rest(Tail(todo), found) /\ Rest(<<>>, found)
          /\ Len(list) + Len(Tail(todo)) <= Len(found) /\ Len(list) + Len(<<>>) <= Len(found)
          /\ Len(Append(list, Head(todo))) + Len(Tail(todo)) <= Len(found)
          /\ \A i \in DOMAIN Append(list, Head(todo)) :
               \E j \in DOMAIN found : i <= j /\ found[j] = Append(list, Head(todo))[i]
      BY <3>2, ListOn
    <3>4. \/ driver'.todo = Tail(todo) /\ driver'.products = Append(list, Head(todo))
          \/ driver'.products = list /\ driver'.todo \in {Tail(todo), <<>>}
      BY <1>1, <2>3, <3>1 DEF Good, Onward
    <3>5. CASE driver'.todo = Tail(todo) /\ driver'.products = Append(list, Head(todo))
      BY <3>1, <3>3, <3>5
    <3>6. CASE driver'.products = list /\ driver'.todo \in {Tail(todo), <<>>}
      BY <3>1, <3>2, <3>3, <3>6
    <3> QED BY <3>4, <3>5, <3>6
  <2>4. driver.stage > 2 => driver'.products = driver.products
    BY <1>0 DEF Onward
  <2>5. driver.stage > 2 /\ Stage \in AsinStages =>
          driver'.todo = <<>> \/ Rest(driver'.todo, driver'.products)
    BY <1>0, <2>4, TailFacts DEF Onward
  <2>6. driver.stage > 2 => \A a \in driver'.market : ~Skips(<<a, "market">>, driver.products)'
    <3> SUFFICES ASSUME driver.stage > 2, NEW a \in driver'.market
                 PROVE  ~Skips(<<a, "market">>, driver.products)'
      OBVIOUS
    <3>1. CASE a \in driver.market
      BY <2>1, <2>4, <3>1 DEF Skips
    <3>2. CASE a \notin driver.market
      <4>1. driver.stage = 3 /\ a = c[1] /\ ~Skips(c, driver.products)
        BY <3>2 DEF Onward
      <4>2. c = <<a, "market">>
        BY <1>0, <1>1, <4>1, NodeFacts, StageNumbers
      <4> QED BY <2>4, <4>1, <4>2 DEF Skips
    <3> QED BY <3>1, <3>2
  <2>7. driver.stage = 2 \/ driver.stage > 2
    BY <1>1
  <2>8. \A i \in DOMAIN driver'.products :
          \E j \in DOMAIN FoundNow : i <= j /\ FoundNow[j] = driver'.products[i]
    BY <2>1, <2>3, <2>4, <2>7
  <2>9. driver'.stage \in 2 .. 8 /\ driver'.stage = driver.stage
    BY <1>0, <1>1
  <2>10. driver'.stage = 2 => /\ Rest(driver'.todo, FoundNow')
                              /\ Len(driver'.products) + Len(driver'.todo) <= Len(FoundNow')
    BY <1>2, <2>3, <2>9
  <2>11. driver'.stage > 2 /\ Stage' \in AsinStages =>
           driver'.todo = <<>> \/ Rest(driver'.todo, driver'.products)
    BY <1>3, <2>5, <2>9
  <2>12. driver'.stage > 2 =>
           \A a \in driver'.market : ~Skips(<<a, "market">>, driver.products)'
    BY <2>6, <2>9
  <2>13. \A i \in DOMAIN driver'.products :
           \E j \in DOMAIN FoundNow' : i <= j /\ FoundNow'[j] = driver'.products[i]
    BY <1>2, <2>8
  <2>14. driver'.stage <= 2 => driver'.market = {}
    BY <2>2, <2>9
  <2>15. driver'.stage # 1
    BY <2>9
  <2> QED BY <2>10, <2>11, <2>12, <2>13, <2>14, <2>15 DEF ListInv
<1>7. WalkInv'
  <2>1. driver.stage # 3 => driver'.market = driver.market
    BY DEF Onward
  <2>2. ASSUME driver.stage = 3
        PROVE  /\ \A a \in Asins \ {c[1]} : (a \in driver'.market) = (a \in driver.market)
               /\ Skips(c, driver.products) => c[1] \notin driver'.market
               /\ ~Skips(c, driver.products) /\ node'[c].status = "succeeded" =>
                    c[1] \in driver'.market
    <3>1. c = <<c[1], "market">>
      BY <1>0, <1>1, <2>2, NodeFacts, StageNumbers
    <3>2. driver.stage > 2 => \A a \in driver.market : ~Skips(<<a, "market">>, driver.products)
      BY <1>0 DEF ListInv
    <3>3. Skips(c, driver.products) => c[1] \notin driver.market
      BY <1>1, <2>2, <3>1, <3>2
    <3> QED BY <2>2, <3>3 DEF Onward
  <2> QED BY <1>0, <2>1, <2>2, WalkOn DEF Onward
<1>8. HandlerInv' /\ ReturnedInv'
  BY <1>0 DEF HandlerInv, ReturnedInv
<1> QED BY <1>4, <1>5, <1>6, <1>7, <1>8 DEF IInv

\* What a visit of node c leaves of the rows.
Visited(c) ==
  /\ c \in NodeIds /\ c = Current /\ driver.todo # <<>>
  /\ \A n \in NodeIds \ {c} :
       /\ Quiet(node[n], node'[n]) /\ output'[n] = output[n]
       /\ node'[n].status \in WaitStatus => node[n].status \in WaitStatus
  /\ node'[c].status # "absent"
  /\ node'[c].status \in Good => node'[c].input = InputNow(c) \/ ~Undisturbed

LEMMA LeaveNodeStep ==
  ASSUME IInv, Driving, NEW c, Visited(c), c # Source, ~Skips(c, driver.products),
         LeaveNode(c, node'[c].status),
         DataOK', RecordedInv', RuleInv', NoSkipInv'
  PROVE  IInv'
<1>1. /\ c \in NodeIds /\ c = Current /\ driver.todo # <<>>
      /\ TypeOK /\ TodoInv /\ ListInv
  BY DEF Visited, IInv
<1>2. /\ driver.stage \in 2 .. 8 /\ StageOf(c) = driver.stage /\ c[2] = Stage
      /\ c[1] = Head(driver.todo)
      /\ c[2] = "ingest" <=> driver.stage = 2
      /\ c[2] = "market" <=> driver.stage = 3
  BY <1>1, CurrentExists, StageNumbers DEF TypeOK, DriverRecords
<1>3. driver.stage \in {2, 3} => c[1] \in Asins
  BY <1>1, <1>2, TailFacts DEF AsinStages
<1>4. /\ run' = run
      /\ driver' = [driver EXCEPT
           !.pc = "visit", !.doomed = FALSE,
           !.todo = IF MarketBreaks(c, node'[c].status) THEN <<>> ELSE Tail(@),
           !.products = IF c[2] = "ingest" /\ node'[c].status = "succeeded"
                        THEN Append(@, c[1]) ELSE @,
           !.market = IF c[2] = "market" /\ node'[c].status = "succeeded"
                      THEN @ \cup {c[1]} ELSE @]
  BY DEF LeaveNode
<1>5. PICK todo \in Seq(Asins), products \in Seq(Asins), market \in SUBSET Asins :
        /\ driver' = [driver EXCEPT !.pc = "visit", !.doomed = FALSE, !.todo = todo,
                                    !.products = products, !.market = market]
        /\ todo = IF MarketBreaks(c, node'[c].status) THEN <<>> ELSE Tail(driver.todo)
        /\ products = IF driver.stage = 2 /\ node'[c].status = "succeeded"
                      THEN Append(driver.products, c[1]) ELSE driver.products
        /\ market = IF driver.stage = 3 /\ node'[c].status = "succeeded"
                    THEN driver.market \cup {c[1]} ELSE driver.market
  <2>1. Tail(driver.todo) \in Seq(Asins) /\ <<>> \in Seq(Asins)
    BY <1>1, TailFacts, EmptySeq
  <2>2. driver.products \in Seq(Asins) /\ driver.market \in SUBSET Asins
    BY <1>1 DEF TypeOK, DriverRecords
  <2>3. (IF driver.stage = 2 /\ node'[c].status = "succeeded"
         THEN Append(driver.products, c[1]) ELSE driver.products) \in Seq(Asins)
    BY <1>3, <2>2
  <2>4. (IF driver.stage = 3 /\ node'[c].status = "succeeded"
         THEN driver.market \cup {c[1]} ELSE driver.market) \in SUBSET Asins
    BY <1>3, <2>2
  <2>5. (IF MarketBreaks(c, node'[c].status) THEN <<>> ELSE Tail(driver.todo)) \in Seq(Asins)
    BY <2>1
  <2> QED BY <1>2, <1>4, <2>3, <2>4, <2>5
<1>6. driver' \in DriverRecords
  BY <1>1, <1>5 DEF TypeOK, DriverRecords
<1>7. TypeOK'
  BY <1>1, <1>4, <1>6, DataFacts DEF TypeOK
<1>8. /\ driver'.pc = "visit" /\ driver'.stage = driver.stage /\ driver'.todo = todo
      /\ driver'.products = products /\ driver'.market = market
  BY <1>1, <1>5 DEF TypeOK, DriverRecords
<1>9. MarketBreaks(c, node'[c].status) => node'[c].status \notin Good
  BY DEF MarketBreaks, Good
<1>10. driver'.todo = Tail(driver.todo) \/ (driver'.todo = <<>> /\ node'[c].status \notin Good)
  BY <1>5, <1>8, <1>9
<1>11. driver'.products = (IF driver.stage = 2 /\ node'[c].status = "succeeded"
                           THEN Append(driver.products, c[1]) ELSE driver.products)
  BY <1>5, <1>8
<1>12. driver'.market = (IF /\ driver.stage = 3 /\ node'[c].status = "succeeded"
                            /\ ~Skips(c, driver.products)
                         THEN driver.market \cup {c[1]} ELSE driver.market)
  BY <1>5, <1>8
<1>13. driver.stage > 1
  BY <1>2
<1>14. Onward(c)
  BY <1>8, <1>10, <1>11, <1>12, <1>13 DEF Onward, Visited
<1> QED BY <1>7, <1>14, OnwardStep

LEMMA RaisedStep ==
  ASSUME TypeOK', RecordedInv', RuleInv', NoSkipInv', driver'.pc = "raised"
  PROVE  IInv'
<1>1. ~Driving'
  BY DEF Driving
<1> QED BY <1>1 DEF IInv, TodoInv, BarrierInv, ListInv, WalkInv, HandlerInv, ReturnedInv

DriverFields == {"pc", "stage", "todo", "products", "market", "doomed"}

LEMMA RecordsAreFunctions ==
  /\ \A d \in DriverRecords : /\ d = [f \in DriverFields |-> d[f]]
                              /\ d.products \in Seq(Asins) /\ d.market \in SUBSET Asins
  /\ \A d : /\ d = [f \in DriverFields |-> d[f]]
             /\ d.pc = "visit" /\ d.stage = 2 /\ d.todo \in Seq(Asins)
             /\ d.products \in Seq(Asins) /\ d.market \in SUBSET Asins /\ d.doomed = FALSE
             => d \in DriverRecords
<1>1. ASSUME NEW d \in DriverRecords
      PROVE  /\ d = [f \in DriverFields |-> d[f]]
             /\ d.products \in Seq(Asins) /\ d.market \in SUBSET Asins
  BY DEF DriverRecords, DriverFields
<1>2. ASSUME NEW d, d = [f \in DriverFields |-> d[f]],
             d.pc = "visit", d.stage = 2, d.todo \in Seq(Asins),
             d.products \in Seq(Asins), d.market \in SUBSET Asins, d.doomed = FALSE
      PROVE  d \in DriverRecords
  <2>1. d = [pc |-> d.pc, stage |-> d.stage, todo |-> d.todo, products |-> d.products,
             market |-> d.market, doomed |-> d.doomed]
    BY <1>2 DEF DriverFields
  <2>2. \A todo \in Seq(Asins), products \in Seq(Asins), market \in SUBSET Asins :
          [pc |-> "visit", stage |-> 2, todo |-> todo, products |-> products,
           market |-> market, doomed |-> FALSE] \in DriverRecords
    BY DEF DriverRecords
  <2> QED BY <1>2, <2>1, <2>2
<1> QED BY <1>1, <1>2

LEMMA LeaveSourceStep ==
  ASSUME IInv, Driving, Visited(Source), LeaveSource(node', node'[Source].status),
         DataOK', RecordedInv', RuleInv', NoSkipInv'
  PROVE  IInv'
<1>1. /\ Source \in NodeIds /\ Source = Current /\ driver.todo # <<>>
      /\ TypeOK /\ TodoInv /\ ListInv
      /\ driver.stage = 1 /\ driver.products = <<>> /\ driver.market = {}
  <2>1. Source \in NodeIds /\ Source = Current /\ driver.todo # <<>> /\ TypeOK /\ TodoInv /\ ListInv
    BY DEF Visited, IInv
  <2>2. driver.stage = 1
    BY <2>1, CurrentExists
  <2> QED BY <2>1, <2>2 DEF ListInv
<1>2. IsTable(node') /\ run \in RunStatus
  BY <1>1 DEF DataOK, TypeOK
<1>3. CASE node'[Source].status = "succeeded"
  <2>1. /\ driver' = [driver EXCEPT !.pc = "visit", !.stage = 2, !.doomed = FALSE,
                                    !.todo = FoundNow']
        /\ run' = run
    BY <1>3 DEF LeaveSource, FoundNow
  <2>2. FoundNow' \in Seq(Asins) /\ FoundNow' \in ProductLists
    BY DEF DataOK, ProductLists, FoundNow
  <2>3. PICK found \in Seq(Asins) : found = FoundNow'
    BY <2>2
  <2>4. /\ driver'.pc = "visit" /\ driver'.stage = 2 /\ driver'.todo = found
        /\ driver'.products = <<>> /\ driver'.market = {} /\ driver' \in DriverRecords
    <3>1. driver' = [driver EXCEPT !.pc = "visit", !.stage = 2, !.doomed = FALSE, !.todo = found]
      BY <2>1, <2>3
    <3>2. /\ driver = [f \in DriverFields |-> driver[f]]
          /\ driver.products \in Seq(Asins) /\ driver.market \in SUBSET Asins
      BY <1>1, RecordsAreFunctions DEF TypeOK
    <3>3. driver' = [f \in DriverFields |-> driver'[f]]
      BY <3>1, <3>2
    <3>4. /\ driver'.pc = "visit" /\ driver'.stage = 2 /\ driver'.todo = found
          /\ driver'.doomed = FALSE
          /\ driver'.products = driver.products /\ driver'.market = driver.market
      BY <3>1, <3>2 DEF DriverFields
    <3>5. driver' \in DriverRecords
      BY <2>3, <3>2, <3>3, <3>4, RecordsAreFunctions
    <3> QED BY <1>1, <3>4, <3>5
  <2>5. TypeOK'
    BY <1>2, <2>1, <2>4, DataFacts
  <2>6. Stage' = "ingest" /\ Driving'
    BY <2>4, StageFacts DEF Stage, Driving
  <2>7. TodoInv'
    BY <2>4, <2>6 DEF TodoInv, AsinStages
  <2>8. BarrierInv'
    <3>1. ~Waiting("source_discovery")'
      BY <1>3, NodeFacts DEF Waiting
    <3> QED BY <2>4, <3>1, StageFacts DEF BarrierInv
  <2>9. ListInv'
    <3>1. Rest(found, found) /\ Len(<<>>) + Len(found) <= Len(found)
      BY DEF Rest
    <3>2. DOMAIN driver'.products = {}
      BY <2>4
    <3> QED BY <2>3, <2>4, <3>1, <3>2 DEF ListInv
  <2>10. ASSUME NEW n \in NodeIds, Behind(n)' PROVE n = Source
    <3>1. n \in NodesNow' /\ (StageOf(n) < 2 \/ (StageOf(n) = 2 /\ n[1] \notin Range(found)))
      BY <2>4, <2>10 DEF Behind
    <3>2. CASE StageOf(n) < 2
      BY <3>2, NodeFacts, StageNumbers
    <3>3. CASE StageOf(n) = 2 /\ n[1] \notin Range(found)
      <4>1. n[2] = "ingest"
        BY <3>3, StageNumbers
      <4>2. PICK i \in DOMAIN found : n[1] = found[i]
        BY <2>3, <3>1, <4>1 DEF NodesNow, Source, FilterNode, ExportNode
      <4> QED BY <3>3, <4>2 DEF Range
    <3> QED BY <3>1, <3>2, <3>3
  <2>11. IsCurrent(Source)'
    <3>1. Undisturbed
      <4>1. ASSUME NEW n \in NodeIds, Behind(n) PROVE FALSE
        <5>1. StageOf(n) = 1 /\ n[1] \notin Range(driver.todo)
          BY <1>1, <4>1, StageNumbers DEF Behind
        <5>2. n = Source
          BY <5>1, NodeFacts, StageNumbers
        <5>3. Stage = "source_discovery"
          BY <1>1, StageFacts DEF Stage
        <5>4. driver.todo = <<"run">>
          BY <1>1, <5>3, TailFacts DEF AsinStages
        <5> QED BY <5>1, <5>2, <5>4 DEF Source, Range
      <4> QED BY <4>1 DEF Undisturbed
    <3>2. node'[Source].input = InputNow(Source)
      BY <1>3, <3>1 DEF Visited, Good
    <3>3. node'[Source].input = <<>>
      BY <3>2 DEF InputNow, InputOf, Source
    <3> QED BY <1>3, <3>3 DEF IsCurrent, StatusAllowed, Skips, InputOf, Source
  <2>12. WalkInv'
    <3>1. \A n \in NodeIds : Behind(n)' => IsCurrent(n)' /\ n[2] # "market"
      BY <2>10, <2>11 DEF Source
    <3>2. Len(driver'.products) + Len(driver'.todo) = Len(FoundNow')
      BY <2>3, <2>4
    <3>3. DOMAIN driver'.products = {}
      BY <2>4
    <3> QED BY <2>4, <3>1, <3>2, <3>3 DEF WalkInv
  <2>13. HandlerInv' /\ ReturnedInv'
    BY <2>4 DEF HandlerInv, ReturnedInv
  <2> QED BY <2>5, <2>7, <2>8, <2>9, <2>12, <2>13 DEF IInv
<1>4. CASE node'[Source].status \in {"human_required", "retry_wait", "cancelled"}
  <2>1. Return("returned") /\ run' = Aggregate(node', run, FALSE)
    BY <1>4 DEF LeaveSource
  <2>2. TypeOK' /\ driver'.pc = "returned"
    BY <1>1, <1>2, <2>1, ReturnFacts, AggregateFacts, DataFacts
  <2>3. ~AllFine'
    BY <1>1, <1>4 DEF AllFine, Good
  <2>4. run' # "success"
    BY <1>2, <2>1, <2>3, AggregateFacts DEF AllFine
  <2> QED BY <2>2, <2>3, <2>4, ReturningStep
<1>5. CASE node'[Source].status \notin {"succeeded", "human_required", "retry_wait", "cancelled"}
  <2>1. Return("raised") /\ run' = "failed"
    BY <1>5 DEF LeaveSource
  <2>2. TypeOK' /\ driver'.pc = "raised"
    BY <1>1, <2>1, ReturnFacts, DataFacts DEF RunStatus
  <2> QED BY <2>2, RaisedStep
<1> QED BY <1>3, <1>4, <1>5

------------------------------------------------------------------------------
(* The driver visits a node *)

LEMMA InputFirst ==
  ASSUME NEW c \in Dependent
  PROVE  InputNow(c)[1] = Dependency(Up(c))
<1>1. c[2] \in {"ingest", "market", "profit", "score", "export"}
  BY DEF Dependent
<1> QED BY <1>1 DEF InputNow, InputOf, Up

\* The histories, after a step of node c.
LEMMA HistoryAt ==
  ASSUME TypeOK, RecordedInv, RuleInv, NoSkipInv, IsTable(node'), NEW c \in NodeIds,
         \A n \in NodeIds \ {c} : Quiet(node[n], node'[n]),
         Frozen(node[c], node'[c]),
         \A n \in NodeIds : node[n].status \in Good => output'[n] = output[n],
         \/ node'[c].input = InputNow(c)
         \/ node[c].status # "absent" /\ node'[c].input = node[c].input,
         node'[c].status \in Good =>
           \/ node'[c].status = node[c].status /\ node'[c].input = node[c].input
           \/ /\ c \in Dependent /\ UpToDate(c)' => RuleOf(c)'
              /\ node'[c].status = "skipped" => c \in MaySkip
  PROVE  RecordedInv' /\ RuleInv' /\ NoSkipInv'
<1>1. \A n \in NodeIds : Frozen(node[n], node'[n])
  BY DEF Quiet
<1>2. \A n \in Dependent : node'[n].status # "absent" =>
        \/ node[n].status # "absent" /\ node'[n].input = node[n].input
        \/ node'[n].input[1] = Dependency(Up(n))
  <2>1. \A n \in Dependent \ {c} : node'[n].status # "absent" =>
          node[n].status # "absent" /\ node'[n].input = node[n].input
    BY DEF Quiet, Dependent
  <2>2. c \in Dependent =>
          \/ node[c].status # "absent" /\ node'[c].input = node[c].input
          \/ node'[c].input[1] = Dependency(Up(c))
    BY InputFirst
  <2> QED BY <2>1, <2>2
<1>3. \A n \in NodeIds \ {c} : node'[n].status \in Good =>
        node'[n].status = node[n].status /\ node'[n].input = node[n].input
  BY DEF Quiet
<1>4. \A n \in NodeIds : node'[n].status \in Good =>
        \/ node'[n].status = node[n].status /\ node'[n].input = node[n].input
        \/ /\ n \in Dependent /\ UpToDate(n)' => RuleOf(n)'
           /\ node'[n].status = "skipped" => n \in MaySkip
  <2> SUFFICES ASSUME NEW n \in NodeIds, node'[n].status \in Good
               PROVE  \/ node'[n].status = node[n].status /\ node'[n].input = node[n].input
                      \/ /\ n \in Dependent /\ UpToDate(n)' => RuleOf(n)'
                         /\ node'[n].status = "skipped" => n \in MaySkip
    OBVIOUS
  <2>1. CASE n = c
    BY <2>1 DEF UpToDate, RuleOf, Up, Dependency, Skips, HasSuppliers, HasProfit, HasExport, Succeeded
  <2>2. CASE n # c
    BY <1>3, <2>2
  <2> QED BY <2>1, <2>2
<1> QED BY <1>1, <1>2, <1>4, HistoryKept

\* Whether a node is skipped depends on the node before it, but for the market.
LEMMA RuleStays ==
  ASSUME NEW c \in NodeIds, c[2] \in {"profit", "score", "export"},
         node'[Up(c)] = node[Up(c)], output'[Up(c)] = output[Up(c)]
  PROVE  Skips(c, FoundNow)' <=> Skips(c, driver.products)
<1>1. CASE c[2] = "profit"
  BY <1>1 DEF Up, Skips, HasSuppliers, Succeeded
<1>2. CASE c[2] = "score"
  BY <1>2 DEF Up, Skips, HasProfit, Succeeded
<1>3. CASE c[2] = "export"
  BY <1>3 DEF Up, Skips, HasExport, Succeeded
<1> QED BY <1>1, <1>2, <1>3

LEMMA SkipStep ==
  ASSUME IInv, Skip
  PROVE  IInv'
<1>1. /\ driver.pc = "visit" /\ driver.todo # <<>> /\ Driving
      /\ driver' = [driver EXCEPT !.todo = Tail(@)]
      /\ output' = output /\ run' = run /\ job' = job /\ cancel' = cancel
      /\ surprises' = surprises /\ requests' = requests /\ client' = client
      /\ recovering' = recovering /\ seen' = seen
      /\ TypeOK /\ TodoInv /\ ListInv /\ RecordedInv /\ RuleInv /\ NoSkipInv
  BY DEF Skip, Visiting, Continue, bounds, threads, Driving, IInv
<1>2. PICK c \in NodeIds : c = Current
  BY <1>1, CurrentExists
<1>3. /\ ~Refuses(c) /\ Skips(c, driver.products) /\ node' = Skipped(c)
  BY <1>2 DEF Skip
<1>4. /\ c[1] = Head(driver.todo) /\ StageOf(c) = driver.stage /\ driver.stage \in 1 .. 8
      /\ c[2] \in {"market", "profit", "score", "export"}
  BY <1>1, <1>2, <1>3, CurrentExists DEF TypeOK, DriverRecords, Skips
<1>5. driver.stage \in {3, 5, 6, 8} /\ c \in MaySkip /\ c \in Dependent
  BY <1>4, StageNumbers DEF MaySkip, Dependent
<1>6. /\ node' = [n \in NodeIds |-> node'[n]]
      /\ \A n \in NodeIds \ {c} : node'[n] = node[n]
      /\ IsRow(node'[c]) /\ Frozen(node[c], node'[c])
      /\ node'[c].input = InputNow(c) /\ node'[c].status # "absent"
      /\ \/ node'[c].status = "skipped"
         \/ /\ node'[c].status = node[c].status /\ node'[c].generation = node[c].generation
            /\ node[c].status \in Good => node[c].input = InputNow(c)
  BY <1>1, <1>3, SkippedRows
<1>7. IsTable(node') /\ \A n \in NodeIds \ {c} : Quiet(node[n], node'[n])
  BY <1>1, <1>6, RowFacts DEF IsTable, TypeOK
<1>8. node'[c].status = "skipped" => RuleOf(c)'
  <2> SUFFICES ASSUME node'[c].status = "skipped" PROVE RuleOf(c)'
    OBVIOUS
  <2>1. CASE c[2] = "market"
    <3>1. PICK i \in DOMAIN driver.products : driver.products[i] = c[1] /\ i > MarketCap
      BY <1>3, <2>1 DEF Skips
    <3>2. PICK j \in DOMAIN FoundNow : i <= j /\ FoundNow[j] = c[1]
      BY <1>1, <1>5, <3>1 DEF ListInv
    <3>3. FoundNow \in Seq(Asins) /\ driver.products \in Seq(Asins) /\ MarketCap \in Nat
      BY <1>1, NodesNowFacts, PipelineAssumption DEF TypeOK, DriverRecords
    <3>4. j > MarketCap
      BY <3>1, <3>2, <3>3
    <3>5. Skips(c, FoundNow)'
      BY <1>1, <2>1, <3>2, <3>4 DEF Skips, FoundNow
    <3> QED BY <2>1, <3>5 DEF RuleOf
  <2>2. CASE c[2] \in {"profit", "score", "export"}
    <3>1. node'[Up(c)] = node[Up(c)] /\ output'[Up(c)] = output[Up(c)]
      BY <1>1, <1>5, <1>6, UpFacts
    <3>2. Skips(c, FoundNow)'
      BY <1>3, <2>2, <3>1, RuleStays
    <3>3. Skips(c, FoundNow)' = TRUE
      <4>1. Skips(c, FoundNow)' \in BOOLEAN
        BY <2>2 DEF Skips, HasSuppliers, HasProfit, HasExport
      <4> QED BY <3>2, <4>1
    <3> QED BY <2>2, <3>3 DEF RuleOf
  <2> QED BY <1>4, <2>1, <2>2
<1>9. RecordedInv' /\ RuleInv' /\ NoSkipInv'
  BY <1>1, <1>5, <1>6, <1>7, <1>8, HistoryAt
<1>10. driver' \in DriverRecords /\ driver'.pc = "visit" /\ driver'.stage = driver.stage
       /\ driver'.todo = Tail(driver.todo) /\ driver'.products = driver.products
       /\ driver'.market = driver.market
  <2>1. Tail(driver.todo) \in Seq(Asins)
    BY <1>1, TailFacts
  <2> QED BY <1>1, <2>1 DEF TypeOK, DriverRecords
<1>11. TypeOK'
  <2>1. DataOK'
    BY <1>1, <1>7, DataFacts DEF DataOK, BoundsOK, ThreadsOK
  <2>2. run' \in RunStatus
    BY <1>1 DEF TypeOK
  <2> QED BY <1>10, <2>1, <2>2, DataFacts
<1>12. Onward(c)
  <2>1. \A n \in NodeIds \ {c} : /\ Quiet(node[n], node'[n]) /\ output'[n] = output[n]
                                 /\ node'[n].status \in WaitStatus => node[n].status \in WaitStatus
    BY <1>1, <1>6, <1>7
  <2> QED BY <1>1, <1>2, <1>3, <1>5, <1>6, <1>10, <2>1 DEF Onward
<1> QED BY <1>1, <1>9, <1>11, <1>12, OnwardStep

\* The driver leaves the node it has visited, whichever it is.
LEMMA LeavingStep ==
  ASSUME IInv, Driving, NEW c \in NodeIds, Visited(c), ~Skips(c, driver.products), Leave(c, node'),
         DataOK', RecordedInv', RuleInv', NoSkipInv'
  PROVE  IInv'
<1>1. CASE c = Source
  BY <1>1, LeaveSourceStep DEF Leave
<1>2. CASE c # Source
  BY <1>2, LeaveNodeStep DEF Leave
<1> QED BY <1>1, <1>2

LEMMA VisitStep ==
  ASSUME IInv, Visit
  PROVE  IInv'
<1>1. /\ driver.pc = "visit" /\ driver.todo # <<>> /\ Driving /\ job' = job /\ cancel' = cancel
      /\ TypeOK /\ TodoInv /\ ListInv /\ RecordedInv /\ RuleInv /\ NoSkipInv
  BY DEF Visit, Visiting, Driving, IInv
<1>2. PICK c \in NodeIds : c = Current
  BY <1>1, CurrentExists
<1>3. PICK valid \in BOOLEAN :
        /\ Surprise(IF valid THEN 0 ELSE 1)
        /\ node' = Claimed(c, valid)
        /\ IF Executes(c, valid)
           THEN /\ driver' = [driver EXCEPT !.pc = "handler", !.doomed = cancel]
                /\ output' = output /\ run' = run
           ELSE output' = output /\ Leave(c, node')
  BY <1>2 DEF Visit
<1>4. ~Refuses(c) /\ ~Skips(c, driver.products) /\ output' = output
  BY <1>2, <1>3 DEF Visit
<1>5. /\ c \in NodesNow /\ ~Behind(c) /\ StageOf(c) = driver.stage /\ driver.stage \in 1 .. 8
      /\ c = Source <=> driver.stage = 1
  BY <1>1, <1>2, CurrentExists, CurrentInRun DEF TypeOK, DriverRecords
<1>6. /\ node' = [n \in NodeIds |-> node'[n]]
      /\ \A n \in NodeIds \ {c} : AtMostPromoted(node[n], node'[n])
      /\ IsRow(node'[c]) /\ Frozen(node[c], node'[c])
      /\ node'[c].input = InputNow(c) /\ node'[c].status # "absent"
      /\ Executes(c, valid) => node'[c].status = "running"
      /\ ~Executes(c, valid) =>
           /\ node'[c].status = node[c].status /\ node'[c].generation = node[c].generation
           /\ node[c].status \in Good => node[c].input = InputNow(c)
  BY <1>1, <1>3, <1>4, ClaimedRows
<1>7. ASSUME NEW n \in NodeIds \ {c}
      PROVE  /\ IsRow(node'[n]) /\ Quiet(node[n], node'[n])
             /\ node'[n].status \in WaitStatus => node[n].status \in WaitStatus
             /\ node[n].status = "succeeded" => node'[n].status = "succeeded"
  <2>1. AtMostPromoted(node[n], node'[n]) /\ IsRow(node[n])
    BY <1>1, <1>6 DEF TypeOK
  <2> QED BY <2>1, AtMostPromotedQuiet DEF AtMostPromoted, WaitStatus
<1>8. IsTable(node')
  BY <1>6, <1>7 DEF IsTable
<1>9. RecordedInv' /\ RuleInv' /\ NoSkipInv'
  <2>1. node'[c].status \in Good =>
          node'[c].status = node[c].status /\ node'[c].input = node[c].input
    BY <1>6 DEF Good
  <2> QED BY <1>1, <1>4, <1>6, <1>7, <1>8, <2>1, HistoryAt
<1>10. DataOK'
  <2>1. BoundsOK'
    BY <1>1, <1>3, SurpriseFacts
  <2>2. ThreadsOK'
    BY <1>1 DEF Visit, threads, TypeOK, ThreadsOK
  <2> QED BY <1>1, <1>4, <1>8, <2>1, <2>2 DEF TypeOK, DataOK
<1>11. CASE Executes(c, valid)
  <2>1. /\ driver'.pc = "handler" /\ driver'.stage = driver.stage /\ driver'.todo = driver.todo
        /\ driver'.products = driver.products /\ driver'.market = driver.market
        /\ driver' \in DriverRecords
    <3>1. PICK doomed \in BOOLEAN : driver' = [driver EXCEPT !.pc = "handler", !.doomed = doomed]
      BY <1>1, <1>3, <1>11 DEF TypeOK
    <3>2. driver \in DriverRecords
      BY <1>1 DEF TypeOK
    <3> QED BY <3>1, <3>2 DEF DriverRecords
  <2>2. TypeOK'
    BY <1>1, <1>3, <1>10, <1>11, <2>1, DataFacts DEF TypeOK
  <2>3. Driving' /\ Stage' = Stage /\ Current' = Current /\ FoundNow' = FoundNow
    BY <1>4, <2>1 DEF Driving, Stage, Current, FoundNow
  <2>4. TodoInv'
    BY <1>1, <2>1, <2>3 DEF TodoInv
  <2>5. BarrierInv'
    <3>1. \A n \in NodeIds : StageOf(n) < driver.stage => n # c
      BY <1>5
    <3> QED BY <1>1, <1>7, <2>1, <3>1, BarrierKept DEF IInv
  <2>6. ListInv'
    <3>1. \A a : Skips(<<a, "market">>, driver.products)' <=> Skips(<<a, "market">>, driver.products)
      BY <2>1 DEF Skips
    <3> QED BY <1>1, <2>1, <2>3, <3>1 DEF ListInv
  <2>7. \A n \in NodeIds : Behind(n) => Quiet(node[n], node'[n]) /\ output'[n] = output[n]
    BY <1>4, <1>5, <1>7
  <2>8. WalkInv'
    BY <1>1, <1>4, <2>1, <2>7, WalkStays DEF IInv
  <2>9. HandlerInv'
    <3>1. ~Skips(c, driver.products)'
      BY <1>4, <1>7, <2>1, SkipsKept
    <3>2. ~Skips(Current, driver.products)'
      BY <1>2, <2>3, <3>1 DEF Skips, HasSuppliers, HasProfit, HasExport, Succeeded
    <3>3. ASSUME Undisturbed' PROVE node'[c].input = InputNow(Current)'
      <4>1. InputNow(Current)' = InputNow(Current)
        BY <1>1, <1>4, <2>1, <2>2, <2>3, <2>4, <2>6, <2>7, <2>8, <3>3, HandlerInput DEF IInv
      <4> QED BY <1>2, <1>6, <4>1
    <3> QED BY <1>2, <1>6, <1>11, <2>3, <3>2, <3>3 DEF HandlerInv
  <2>10. ReturnedInv'
    BY <2>1 DEF ReturnedInv
  <2> QED BY <1>9, <2>2, <2>4, <2>5, <2>6, <2>8, <2>9, <2>10 DEF IInv
<1>12. CASE ~Executes(c, valid)
  <2>1. Visited(c)
    BY <1>1, <1>2, <1>4, <1>6, <1>7, <1>12 DEF Visited
  <2> QED BY <1>1, <1>3, <1>4, <1>9, <1>10, <1>12, <2>1, LeavingStep
<1> QED BY <1>11, <1>12

------------------------------------------------------------------------------
(* A handler ends *)

LEMMA HandlerFacts ==
  ASSUME IInv, driver.pc = "handler"
  PROVE  /\ TypeOK /\ TodoInv /\ ListInv /\ RecordedInv /\ RuleInv /\ NoSkipInv
         /\ Driving /\ driver.todo # <<>>
         /\ \E c \in NodeIds :
              /\ c = Current /\ node[c].status = "running" /\ ~Skips(c, driver.products)
              /\ Undisturbed => node[c].input = InputNow(c)
<1>1. /\ TypeOK /\ TodoInv /\ ListInv /\ RecordedInv /\ RuleInv /\ NoSkipInv /\ HandlerInv
      /\ Driving
  BY DEF IInv, Driving
<1>2. driver.todo # <<>>
  BY <1>1 DEF TodoInv
<1>3. PICK c \in NodeIds : c = Current
  BY <1>1, <1>2, CurrentExists
<1> QED BY <1>1, <1>2, <1>3 DEF HandlerInv

LEMMA OutputTypes ==
  ASSUME NEW c \in NodeIds, NEW out \in Outputs(c)
  PROVE  /\ c = Source => out \in ProductLists
         /\ c # Source => out \in BOOLEAN
<1>1. CASE c = Source
  BY <1>1, DiscoveredType DEF Outputs
<1>2. CASE c # Source
  <2>1. out \in {FALSE, PlainOutput(c)}
    BY <1>2 DEF Outputs
  <2>2. PlainOutput(c) \in BOOLEAN
    <3>1. CASE c[2] \in {"match", "profit"}
      <4>1. c # FilterNode
        BY <3>1 DEF FilterNode
      <4> QED BY <1>2, <3>1, <4>1 DEF PlainOutput
    <3>2. CASE c = FilterNode
      <4>1. c[2] \notin {"match", "profit"}
        BY <3>2 DEF FilterNode
      <4> QED BY <1>2, <3>2, <4>1 DEF PlainOutput
    <3>3. CASE c[2] \notin {"match", "profit"} /\ c # FilterNode
      BY <1>2, <3>3 DEF PlainOutput
    <3> QED BY <3>1, <3>2, <3>3
  <2> QED BY <1>2, <2>1, <2>2
<1> QED BY <1>1, <1>2

LEMMA HandlerSucceedsStep ==
  ASSUME IInv, HandlerSucceeds
  PROVE  IInv'
<1>1. /\ TypeOK /\ TodoInv /\ ListInv /\ RecordedInv /\ RuleInv /\ NoSkipInv
      /\ Driving /\ driver.todo # <<>> /\ job' = job /\ cancel' = cancel
  BY HandlerFacts DEF HandlerSucceeds
<1>2. PICK c \in NodeIds :
        /\ c = Current /\ node[c].status = "running" /\ ~Skips(c, driver.products)
        /\ Undisturbed => node[c].input = InputNow(c)
  BY HandlerFacts DEF HandlerSucceeds
<1>3. PICK out \in Outputs(c) :
        /\ Surprise(IF out = PlainOutput(c) THEN 0 ELSE 1)
        /\ output' = [output EXCEPT ![c] = out]
  BY <1>2 DEF HandlerSucceeds
<1>4. node' = [node EXCEPT ![c] = SucceededRow(@)] /\ Leave(c, node')
  BY <1>2 DEF HandlerSucceeds
<1>5. IsTable(node) /\ output = [n \in NodeIds |-> output[n]]
  BY <1>1, TableFacts DEF TypeOK
<1>6. /\ node' = [n \in NodeIds |-> node'[n]]
      /\ \A n \in NodeIds \ {c} : node'[n] = node[n]
      /\ node'[c] = SucceededRow(node[c])
  BY <1>4, <1>5 DEF IsTable
<1>7. /\ IsRow(node'[c]) /\ Frozen(node[c], node'[c])
      /\ node'[c].status = "succeeded" /\ node'[c].input = node[c].input
  BY <1>2, <1>5, <1>6, SucceededFacts DEF IsTable
<1>8. IsTable(node') /\ \A n \in NodeIds \ {c} : Quiet(node[n], node'[n])
  BY <1>5, <1>6, <1>7, RowFacts DEF IsTable
<1>9. /\ output' = [n \in NodeIds |-> output'[n]]
      /\ \A n \in NodeIds \ {c} : output'[n] = output[n]
      /\ output'[c] = out
  BY <1>3, <1>5
<1>10. DataOK'
  <2>1. BoundsOK'
    BY <1>1, <1>3, SurpriseFacts
  <2>2. /\ output[Source] \in ProductLists /\ \A n \in NodeIds \ {Source} : output[n] \in BOOLEAN
        /\ job' \in JobStatus /\ cancel' \in BOOLEAN
    BY <1>1 DEF TypeOK
  <2>3. output'[Source] \in ProductLists
    BY <1>9, <2>2, NodesExist, OutputTypes
  <2>4. \A n \in NodeIds \ {Source} : output'[n] \in BOOLEAN
    BY <1>9, <2>2, OutputTypes
  <2>5. ThreadsOK'
    BY <1>1 DEF HandlerSucceeds, threads, TypeOK, ThreadsOK
  <2> QED BY <1>8, <1>9, <2>1, <2>2, <2>3, <2>4, <2>5 DEF DataOK
<1>11. RecordedInv' /\ RuleInv' /\ NoSkipInv'
  <2>1. ASSUME c \in Dependent PROVE RuleOf(c)'
    <3>1. CASE c[2] \in {"profit", "score", "export"}
      <4>1. Up(c) \in NodeIds \ {c}
        BY <2>1, UpFacts
      <4>2. node'[Up(c)] = node[Up(c)] /\ output'[Up(c)] = output[Up(c)]
        BY <1>6, <1>9, <4>1
      <4>3. ~Skips(c, FoundNow)'
        BY <1>2, <3>1, <4>2, RuleStays
      <4>4. Skips(c, FoundNow)' = FALSE
        <5>1. Skips(c, FoundNow)' \in BOOLEAN
          BY <3>1 DEF Skips, HasSuppliers, HasProfit, HasExport
        <5> QED BY <4>3, <5>1
      <4> QED BY <1>7, <3>1, <4>4 DEF RuleOf
    <3>2. CASE c[2] = "market"
      BY <1>7, <3>2 DEF RuleOf
    <3>3. CASE c[2] \notin {"profit", "score", "export", "market"}
      BY <3>3 DEF RuleOf
    <3> QED BY <3>1, <3>2, <3>3
  <2>2. \A n \in NodeIds : node[n].status \in Good => output'[n] = output[n]
    BY <1>2, <1>9 DEF Good
  <2>3. node[c].status # "absent" /\ node'[c].input = node[c].input
    BY <1>2, <1>7
  <2> QED BY <1>1, <1>7, <1>8, <2>1, <2>2, <2>3, HistoryAt
<1>12. Visited(c)
  <2>1. \A n \in NodeIds \ {c} :
          /\ Quiet(node[n], node'[n]) /\ output'[n] = output[n]
          /\ node'[n].status \in WaitStatus => node[n].status \in WaitStatus
    BY <1>6, <1>8, <1>9
  <2> QED BY <1>1, <1>2, <1>7, <2>1 DEF Visited
<1> QED BY <1>1, <1>2, <1>4, <1>10, <1>11, <1>12, LeavingStep

LEMMA HandlerFailsStep ==
  ASSUME IInv, HandlerFails
  PROVE  IInv'
<1>1. /\ TypeOK /\ TodoInv /\ ListInv /\ RecordedInv /\ RuleInv /\ NoSkipInv
      /\ Driving /\ driver.todo # <<>> /\ output' = output /\ job' = job /\ cancel' = cancel
  BY HandlerFacts DEF HandlerFails
<1>2. PICK c \in NodeIds :
        /\ c = Current /\ node[c].status = "running" /\ ~Skips(c, driver.products)
        /\ Undisturbed => node[c].input = InputNow(c)
  BY HandlerFacts DEF HandlerFails
<1>3. PICK e :
        /\ Surprise(IF e \in Cancellations \/ Stage \in Unlimited THEN 0 ELSE 1)
        /\ node' = [node EXCEPT ![c] = FailedRow(@, Classified(e), 1)]
        /\ (Return("raised") /\ run' = "failed") \/ Leave(c, node')
  BY <1>2 DEF HandlerFails
<1>4. IsTable(node)
  BY <1>1, TableFacts
<1>5. /\ node' = [n \in NodeIds |-> node'[n]]
      /\ \A n \in NodeIds \ {c} : node'[n] = node[n]
      /\ node'[c] = FailedRow(node[c], Classified(e), 1)
  BY <1>3, <1>4 DEF IsTable
<1>6. Quiet(node[c], node'[c]) /\ node'[c].status \notin Good \cup {"absent"}
  BY <1>2, <1>4, <1>5, FailedFacts DEF IsTable
<1>7. QuietTable(node, node') /\ IsTable(node')
  BY <1>4, <1>5, <1>6, RowFacts DEF IsTable, QuietTable, Quiet
<1>8. RecordedInv' /\ RuleInv' /\ NoSkipInv'
  BY <1>1, <1>7, HistoryQuiet
<1>9. DataOK'
  <2>1. BoundsOK'
    BY <1>1, <1>3, SurpriseFacts
  <2>2. ThreadsOK'
    BY <1>1 DEF HandlerFails, threads, TypeOK, ThreadsOK
  <2> QED BY <1>1, <1>7, <2>1, <2>2 DEF TypeOK, DataOK
<1>10. CASE Return("raised") /\ run' = "failed"
  <2>1. driver'.pc = "raised" /\ driver' \in DriverRecords
    BY <1>1, <1>10, ReturnFacts
  <2>2. TypeOK'
    BY <1>9, <1>10, <2>1, DataFacts DEF RunStatus
  <2> QED BY <1>8, <2>1, <2>2, RaisedStep
<1>11. CASE Leave(c, node')
  <2>1. \A n \in NodeIds \ {c} :
          /\ Quiet(node[n], node'[n]) /\ output'[n] = output[n]
          /\ node'[n].status \in WaitStatus => node[n].status \in WaitStatus
    BY <1>1, <1>5, <1>7 DEF QuietTable
  <2>2. Visited(c)
    BY <1>1, <1>2, <1>6, <2>1 DEF Visited
  <2> QED BY <1>1, <1>2, <1>8, <1>9, <1>11, <2>2, LeavingStep
<1> QED BY <1>3, <1>10, <1>11

------------------------------------------------------------------------------
(* The invariant and what follows from it *)

LEMMA InitInv == Init => IInv
<1> SUFFICES ASSUME Init PROVE IInv
  OBVIOUS
<1>1. IsRow(Absent) /\ Absent.status = "absent"
  BY DEF IsRow, Absent, RowFields, RowStatus
<1>2. node = [n \in NodeIds |-> node[n]] /\ \A n \in NodeIds : node[n] = Absent
  BY DEF Init
<1>3. /\ output = [n \in NodeIds |-> output[n]] /\ output[Source] = <<>>
      /\ \A n \in NodeIds \ {Source} : output[n] \in BOOLEAN
  <2>1. output = [n \in NodeIds |-> IF n = Source THEN <<>> ELSE FALSE]
    BY DEF Init
  <2>2. \A n \in NodeIds : output[n] = IF n = Source THEN <<>> ELSE FALSE
    BY <2>1, Zenon
  <2>3. \A n \in NodeIds \ {Source} : output[n] = FALSE
    BY <2>2, Zenon
  <2>4. output[Source] = <<>>
    BY <2>2, NodesExist, Zenon
  <2>5. output = [n \in NodeIds |-> output[n]]
    <3>1. ASSUME NEW f, f = [n \in NodeIds |-> IF n = Source THEN <<>> ELSE FALSE]
          PROVE  f = [n \in NodeIds |-> f[n]]
      BY <3>1
    <3> QED BY <2>1, <3>1, Zenon
  <2>6. \A n \in NodeIds \ {Source} : output[n] \in BOOLEAN
    BY <2>3, Zenon
  <2> QED BY <2>4, <2>5, <2>6, Zenon
<1>4. <<>> \in ProductLists
  BY EmptySeq DEF ProductLists, IsInjective
<1>5. surprises \in 0 .. MaxSurprises /\ requests \in 0 .. MaxRequests
  <2>1. surprises = 0 /\ requests = 0
    BY Zenon DEF Init
  <2>2. 0 \in 0 .. MaxSurprises /\ 0 \in 0 .. MaxRequests
    BY PipelineAssumption
  <2> QED BY <2>1, <2>2, Zenon
<1>6. driver \in DriverRecords /\ driver.pc = "idle"
  BY IdleFacts DEF Init
<1>7. run \in RunStatus /\ job \in JobStatus /\ cancel \in BOOLEAN
  <2>1. run = "running" /\ job = "queued" /\ cancel = FALSE
    BY Zenon DEF Init
  <2> QED BY <2>1 DEF RunStatus, JobStatus
<1>13. ThreadsOK /\ recovering = FALSE
  <2>1. client = "idle" /\ recovering = FALSE /\ seen = "none"
    BY Zenon DEF Init
  <2> QED BY <2>1 DEF ThreadsOK
<1>8. TypeOK
  BY <1>1, <1>2, <1>3, <1>4, <1>5, <1>6, <1>7, <1>13 DEF TypeOK
<1>9. \A n \in NodeIds : node[n].status = "absent"
  BY <1>1, <1>2
<1>10. RecordedInv /\ RuleInv /\ NoSkipInv
  BY <1>9 DEF RecordedInv, RuleInv, NoSkipInv, Dependent, Good
<1>11. ~Driving
  BY <1>6 DEF Driving
<1>12. TodoInv /\ BarrierInv /\ ListInv /\ WalkInv /\ HandlerInv /\ ReturnedInv
  BY <1>6, <1>11 DEF TodoInv, BarrierInv, ListInv, WalkInv, HandlerInv, ReturnedInv
<1> QED BY <1>8, <1>10, <1>12 DEF IInv

\* While the timer runs the worker has no execution of the job, nor does it get one.
LEMMA RecoveringNext == RecoveringInv /\ [Next]_vars => RecoveringInv'
<1> SUFFICES ASSUME RecoveringInv, [Next]_vars, recovering' PROVE RecoveringInv'
  BY DEF RecoveringInv
<1>1. CASE Restart
  BY <1>1 DEF Restart, RecoveringInv, Idle
<1>2. CASE RecoverCancelled
  BY <1>2 DEF RecoverCancelled, RecoveringInv
<1>3. CASE CancelJob
  BY <1>3 DEF CancelJob, RecoveringInv
<1>4. CASE CancelRun \/ UpdateRun \/ CancelFails \/ Elapse \/ UNCHANGED vars
  BY <1>4 DEF CancelRun, UpdateRun, CancelFails, Elapse, vars, threads, RecoveringInv
<1>5. CASE Crash
  BY <1>5 DEF Crash
<1>6. ASSUME \/ Start \/ PreflightFails \/ VisitRefused \/ PassOver \/ Skip \/ Visit \/ Handler \/ NextStage
             \/ EndOfJob \/ Requeue \/ RetryJob
             \/ \E n \in NodeIds, op \in Operations : OperateNode(n, op)
      PROVE  FALSE
  <2>1. recovering' = recovering
    BY <1>6 DEF Start, PreflightFails, VisitRefused, PassOver, Skip, Visit, Handler,
                HandlerSucceeds, HandlerFails, NextStage, EndOfJob, MarkCancelled, Collect, CollectFails, ReadStatus, Report,
                ReportError, Requeue, RetryJob, OperateNode, threads
  <2>2. job = "cancel_requested" /\ driver.pc = "idle"
    BY <2>1 DEF RecoveringInv
  <2> QED BY <1>6, <2>2
          DEF Start, PreflightFails, VisitRefused, PassOver, Skip, Visit, Visiting, Handler,
              HandlerSucceeds, HandlerFails, NextStage, EndOfJob, MarkCancelled, Collect, CollectFails, ReadStatus,
              Proceed, Report, ReportError, Requeue, RetryJob, OperateNode
<1> QED BY <1>1, <1>2, <1>3, <1>4, <1>5, <1>6 DEF Next

LEMMA NextInv == IInv /\ RecoveringInv /\ [Next]_vars => IInv'
<1> SUFFICES ASSUME IInv, RecoveringInv, [Next]_vars PROVE IInv'
  OBVIOUS
<1>1. ASSUME Start \/ PreflightFails \/ VisitRefused \/ PassOver \/ Skip \/ Visit PROVE IInv'
  BY <1>1, StartStep, PreflightFailsStep, VisitRefusedStep, PassOverStep, SkipStep, VisitStep
<1>2. CASE Handler
  BY <1>2, HandlerSucceedsStep, HandlerFailsStep DEF Handler
<1>3. CASE NextStage
  BY <1>3, NextStageStep
<1>4. CASE EndOfJob
  BY <1>4, MarkCancelledStep, CollectStep, CollectFailsStep, ReadStatusStep, ReportStep,
     ReportErrorStep DEF EndOfJob
<1>5. ASSUME Requeue \/ Elapse \/ Crash \/ Restart \/ RecoverCancelled PROVE IInv'
  BY <1>5, RequeueStep, ElapseStep, CrashStep, RestartStep, RecoverCancelledStep
<1>6. ASSUME CancelJob \/ CancelRun \/ UpdateRun \/ CancelFails PROVE IInv'
  BY <1>6, CancelJobStep, CancelRunStep, UpdateRunStep, CancelFailsStep
<1>7. CASE RetryJob
  BY <1>7, RetryJobStep
<1>8. ASSUME NEW n \in NodeIds, NEW op \in Operations, OperateNode(n, op) PROVE IInv'
  BY <1>8, OperateNodeStep
<1>9. CASE UNCHANGED vars
  <2>1. /\ node' = node /\ output' = output /\ run' = run /\ driver' = driver
        /\ job' = job /\ cancel' = cancel
        /\ surprises' = surprises /\ requests' = requests /\ client' = client
        /\ recovering' = recovering /\ seen' = seen
    BY <1>9 DEF vars
  <2>2. TypeOK'
    BY <2>1 DEF IInv, TypeOK, ThreadsOK
  <2> QED BY <2>1, <2>2, StillStep
<1> QED BY <1>1, <1>2, <1>3, <1>4, <1>5, <1>6, <1>7, <1>8, <1>9 DEF Next

LEMMA InvHolds == Spec => []IInv
<1>1. Init => IInv /\ RecoveringInv
  BY InitInv DEF Init, RecoveringInv
<1>2. IInv /\ RecoveringInv /\ [Next]_vars => (IInv /\ RecoveringInv)'
  BY NextInv, RecoveringNext
<1> QED BY <1>1, <1>2, PTL DEF Spec

\* The rows, the outputs, the driver and the job keep their types; the input of a
\* running node is never replaced (recoverable.py, repository.py).
THEOREM TypeCorrect == Spec => []TypeOK
<1>1. IInv => TypeOK
  BY DEF IInv
<1> QED BY <1>1, InvHolds, PTL

\* run_recoverable_pipeline and resume_recoverable_pipeline return a success, and
\* _run_job reads one for its report, only when every node of the products that were
\* found is executed or skipped for the present outputs of the nodes it depends on,
\* whatever crashed, failed, was cancelled, retried, resumed or re-run before.
THEOREM SuccessEarned == Spec => []SuccessIsEarned
<1>1. IInv => SuccessIsEarned
  BY DEF IInv, ReturnedInv, SuccessIsEarned
<1> QED BY <1>1, InvHolds, PTL

\* The handler of a node is started by a visit only.
LEMMA HandlerStarts ==
  ASSUME IInv, [Next]_vars, driver.pc = "visit", driver'.pc = "handler"
  PROVE  Visit
<1>1. driver \in DriverRecords
  BY DEF IInv, TypeOK
<1>2. ASSUME VisitRefused \/ PassOver \/ Skip \/ NextStage PROVE driver'.pc # "handler"
  <2>1. ASSUME NEW pc \in {"returned", "raised"}, Return(pc) PROVE driver'.pc # "handler"
    BY <2>1, ReturnFacts DEF IInv
  <2>2. CASE VisitRefused
    BY <2>1, <2>2 DEF VisitRefused
  <2>3. CASE PassOver \/ Skip
    BY <1>1, <2>3 DEF PassOver, Skip, Continue, DriverRecords
  <2>4. CASE NextStage
    <3>1. CASE Return("returned")
      BY <2>1, <3>1
    <3>2. CASE ~Return("returned")
      <4>1. driver' = [driver EXCEPT !.stage = @ + 1,
                         !.todo = IF Stages[driver.stage + 1] \in AsinStages
                                  THEN driver.products ELSE <<"run">>]
        BY <2>4, <3>2 DEF NextStage
      <4>2. driver'.pc = driver.pc
        BY <4>1
      <4> QED BY <4>2
    <3> QED BY <3>1, <3>2
  <2> QED BY <1>2, <2>2, <2>3, <2>4
<1>3. ASSUME Start \/ Crash \/ Restart PROVE driver'.pc # "handler"
  BY <1>3 DEF Start, Crash, Restart, Idle
<1>4. ASSUME Handler \/ EndOfJob PROVE FALSE
  BY <1>4 DEF Handler, HandlerSucceeds, HandlerFails, EndOfJob, MarkCancelled, Collect,
              CollectFails, ReadStatus, Proceed, Report, ReportError
<1>5. ASSUME \/ PreflightFails \/ Requeue \/ Elapse \/ RecoverCancelled \/ RetryJob \/ UNCHANGED vars
             \/ CancelJob \/ CancelRun \/ UpdateRun \/ CancelFails
             \/ \E n \in NodeIds, op \in Operations : OperateNode(n, op)
      PROVE  driver'.pc # "handler"
  BY <1>5 DEF PreflightFails, Requeue, Elapse, RecoverCancelled, RetryJob, vars, OperateNode,
              CancelJob, CancelRun, UpdateRun, CancelFails
<1> QED BY <1>2, <1>3, <1>4, <1>5 DEF Next

\* _execute starts no handler while a node of an earlier stage is pending, running
\* or waiting for its retry.
THEOREM BarriersHold == Spec => StagesInOrder
<1>1. ASSUME IInv, [Next]_vars, driver.pc = "visit", driver'.pc = "handler",
             NEW earlier \in 1 .. (driver.stage - 1)
      PROVE  ~Waiting(Stages[earlier])
  <2>1. /\ Visit /\ Driving /\ driver.todo # <<>> /\ TypeOK /\ TodoInv
        /\ driver.stage \in 1 .. 8
    BY <1>1, HandlerStarts DEF Visit, Visiting, Driving, IInv, TypeOK, DriverRecords
  <2>2. Stages[earlier] = "filter" \/ ~Waiting(Stages[earlier])
    BY <1>1, <2>1 DEF IInv, BarrierInv
  <2>3. ASSUME Stages[earlier] = "filter" PROVE ~Waiting("filter")
    <3>1. earlier = 7 /\ driver.stage = 8
      <4>1. earlier \in 1 .. 7
        BY <2>1
      <4>2. earlier = 7
        BY <2>3, <4>1, StageFacts
      <4> QED BY <2>1, <4>2
    <3>2. Current = ExportNode
      BY <2>1, <3>1, CurrentExists, NodeFacts, StageFacts DEF Stage
    <3>3. Succeeded(FilterNode)
      BY <2>1, <3>2 DEF Visit, Skips, HasExport, ExportNode
    <3> QED BY <3>3, NodeFacts DEF Waiting, Succeeded
  <2> QED BY <2>2, <2>3
<1>2. IInv /\ [Next]_vars =>
        [driver'.pc = "handler" /\ driver.pc = "visit" =>
           \A earlier \in 1 .. (driver.stage - 1) : ~Waiting(Stages[earlier])]_vars
  BY <1>1
<1> QED BY <1>2, InvHolds, PTL DEF Spec, StagesInOrder
=============================================================================
