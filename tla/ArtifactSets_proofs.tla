------------------------- MODULE ArtifactSets_proofs -------------------------
(* The publication of the export survives crashes, for any number of          *)
(* processes, record sets, claims and generations: what is committed is on    *)
(* the disk, what succeeded was published, it holds one record set that the   *)
(* node had in its generation, and a set that a crash left incomplete can be  *)
(* made again.                                                                *)
EXTENDS ArtifactSets, TLAPS

USE RowsAssumption, ArtifactsAssumption

------------------------------------------------------------------------------
(* The inductive invariant *)

ExportRow ==
  [status : NodeStatus, generation : Generations, attempt_count : 0 .. MaxClaims,
   input : Inputs, output : Nat, worker_id : Workers \cup {NoWorker}, lease_token : Nat,
   lease : Int, next_retry : Int, resume_token : Nat]

ManifestRow == [status : {"none", "writing", "committed", "invalid"}, sha256 : Nat]

Steps == {"idle", "check", "render", "register", "measure", "persist", "rename", "commit", "fail"}

Handler ==
  [pc : Steps, attempt : Nat, generation : Nat, input : SUBSET Names,
   measured : [Names -> Nat], left : SUBSET Names]

Types ==
  /\ node \in ExportRow
  /\ rendered \in [AttemptNos -> Inputs \cup {NoInput}]
  /\ replaced \in [Generations -> SUBSET Inputs]
  /\ manifest \in [Generations -> [Names -> ManifestRow]]
  /\ staging \in [Generations -> [Names -> Nat]]
  /\ disk \in [Generations -> [Names -> Nat]]
  /\ worker \in [Workers -> Handler]

\* Whoever works on the export holds its lease, for the records the node has.
Engaged(w) ==
  ~At(w, "idle") =>
    /\ node.status = "running" /\ node.worker_id = w
    /\ worker[w].attempt = node.attempt_count /\ worker[w].attempt \in AttemptNos
    /\ node.lease_token = node.attempt_count
    /\ worker[w].generation = node.generation
    /\ worker[w].input = node.input
    /\ rendered[node.attempt_count] = node.input

\* What a publication under way has made of rows and files of its set.
Registered(w) ==
  worker[w].pc \in {"measure", "persist", "rename"} =>
    /\ worker[w].input \subseteq Logged(worker[w].generation)
    /\ \A n \in Names : manifest[worker[w].generation][n].status # "committed"

Staged(w) ==
  worker[w].pc \in {"register", "measure", "persist"} =>
    \A n \in worker[w].input : staging[worker[w].generation][n] = worker[w].attempt

Measured(w) ==
  worker[w].pc \in {"measure", "persist"} =>
    \A n \in worker[w].input :
      /\ manifest[worker[w].generation][n].status = "writing"
      /\ At(w, "persist") => worker[w].measured[n] = worker[w].attempt

Renamed(w) ==
  At(w, "rename") =>
    /\ worker[w].left \subseteq worker[w].input
    /\ \A n \in worker[w].input :
         /\ manifest[worker[w].generation][n].sha256 = worker[w].attempt
         /\ IF n \in worker[w].left
            THEN staging[worker[w].generation][n] = worker[w].attempt
            ELSE disk[worker[w].generation][n] = worker[w].attempt

AllCommitted(g) == \A n \in Logged(g) : manifest[g][n].status = "committed"

Finished(w) ==
  /\ At(w, "commit") => AllCommitted(worker[w].generation) /\ Logged(worker[w].generation) # {}
  /\ At(w, "fail") => replaced[worker[w].generation] # {}

PublicationInv(w) ==
  Engaged(w) /\ Registered(w) /\ Staged(w) /\ Measured(w) /\ Renamed(w) /\ Finished(w)

\* A set has all the required names as soon as it has one.
RequiredLogged == \A g \in Generations : Logged(g) # {} => Required \subseteq Logged(g)

\* Attempt k rendered n from an input that the present generation has had.
RenderingOf(k, n) == rendered[k] \in InputsOfSet /\ n \in rendered[k]

\* The files and rows of the present set come from attempts on its inputs; later
\* sets have none.
FromRecords ==
  \A g \in Generations, n \in Names :
    /\ disk[g][n] <= node.attempt_count /\ staging[g][n] <= node.attempt_count
    /\ g > node.generation =>
         disk[g][n] = 0 /\ staging[g][n] = 0 /\ manifest[g][n].status = "none"
    /\ g = node.generation =>
         /\ disk[g][n] # 0 => RenderingOf(disk[g][n], n)
         /\ staging[g][n] # 0 => RenderingOf(staging[g][n], n)
         /\ manifest[g][n].status # "none" => \E i \in InputsOfSet : n \in i

\* Attempt k registered the present set, and no later one did: the rows of its
\* names have no hash yet, or its own.
RegisteredBy(k) ==
  /\ k <= node.attempt_count
  /\ rendered[k] \in InputsOfSet
  /\ rendered[k] \subseteq Logged(node.generation)
  /\ \A n \in rendered[k] : manifest[node.generation][n].sha256 \in {0, k}

OneSet == Logged(node.generation) # {} => \E k \in AttemptNos : RegisteredBy(k)

Published ==
  node.status = "succeeded" =>
    /\ exported = Logged(node.generation) /\ exported # {}
    /\ AllCommitted(node.generation)

IInv ==
  /\ Types
  /\ \A w \in Workers : PublicationInv(w)
  /\ CommittedSetsComplete /\ RequiredLogged /\ FromRecords /\ OneSet /\ Published

------------------------------------------------------------------------------
(* Consequences of the invariant *)

LEMMA OneHandler ==
  ASSUME IInv, NEW w \in Workers, ~At(w, "idle")
  PROVE  \A v \in Workers : v # w => At(v, "idle")
BY DEF IInv, PublicationInv, Engaged

LEMMA AllAtRest ==
  ASSUME IInv, node.status # "running"
  PROVE  \A w \in Workers : At(w, "idle")
BY DEF IInv, PublicationInv, Engaged

LEMMA HandlerAtRest ==
  ASSUME NEW w, At(w, "idle")'
  PROVE  PublicationInv(w)'
BY DEF PublicationInv, Engaged, Registered, Staged, Measured, Renamed, Finished, At

\* One handler moves: the others stay at rest.
LEMMA HandlerMoves ==
  ASSUME IInv, NEW w \in Workers, ~At(w, "idle"), NEW row \in Handler,
         worker' = [worker EXCEPT ![w] = row]
  PROVE  /\ worker' \in [Workers -> Handler]
         /\ worker'[w] = row
         /\ \A v \in Workers : v # w => PublicationInv(v)'
<1>1. worker' \in [Workers -> Handler] /\ \A v \in Workers : worker'[v] = IF v = w THEN row ELSE worker[v]
  BY DEF IInv, Types
<1>2. \A v \in Workers : v # w => At(v, "idle")'
  BY <1>1, OneHandler DEF At
<1>. QED
  BY <1>1, <1>2, HandlerAtRest

\* The handler goes on with the same lease.
LEMMA StaysEngaged ==
  ASSUME IInv, NEW w \in Workers, ~At(w, "idle"), UNCHANGED <<node, rendered>>,
         worker'[w].attempt = worker[w].attempt,
         worker'[w].generation = worker[w].generation, worker'[w].input = worker[w].input
  PROVE  Engaged(w)'
BY DEF IInv, PublicationInv, Engaged, At

LEMMA WorkingFacts ==
  ASSUME IInv, NEW w \in Workers, ~At(w, "idle")
  PROVE  /\ worker[w].generation \in Generations /\ worker[w].generation = node.generation
         /\ worker[w].input \in Inputs /\ worker[w].input = node.input
         /\ worker[w].input \subseteq Names /\ Required \subseteq worker[w].input
         /\ worker[w].attempt \in 1 .. MaxClaims /\ worker[w].attempt = node.attempt_count
         /\ node.status = "running"
         /\ rendered[worker[w].attempt] = worker[w].input
         /\ worker[w] \in Handler
BY DEF IInv, Types, ExportRow, PublicationInv, Engaged, AttemptNos, Names

\* What the operators of the rows make of the row of the export node.
LEMMA ExportRows ==
  ASSUME NEW row \in ExportRow
  PROVE  /\ row.generation \in Generations /\ row.attempt_count \in 0 .. MaxClaims /\ row.input \in Inputs
         /\ LET new == SucceededRow(row) IN
              /\ new \in ExportRow /\ new.generation = row.generation
              /\ new.input = row.input /\ new.attempt_count = row.attempt_count
         /\ LET new == FailedRow(row, "permanent", 0) IN
              /\ new \in ExportRow /\ new.status # "succeeded" /\ new.generation = row.generation
              /\ new.input = row.input /\ new.attempt_count = row.attempt_count
         /\ LET new == RecoveredRow(row, MaxAttempts, 0) IN
              /\ new \in ExportRow /\ new.status # "succeeded" /\ new.generation = row.generation
              /\ new.input = row.input /\ new.attempt_count = row.attempt_count
         /\ LET new == PromotedRow(row) IN
              /\ new \in ExportRow /\ new.status # "succeeded" /\ new.generation = row.generation
              /\ new.input = row.input /\ new.attempt_count = row.attempt_count
         /\ LET new == ResetRow(row, "retry") IN
              /\ new \in ExportRow /\ new.status # "succeeded" /\ new.generation = row.generation
              /\ new.input = row.input /\ new.attempt_count = row.attempt_count
         /\ \A i \in Inputs :
              /\ LET new == ReplacedInputRow(row, i) IN
                   /\ new \in ExportRow /\ new.status = row.status /\ new.input = i
                   /\ new.generation = row.generation /\ new.attempt_count = row.attempt_count
              /\ LET new == InputInvalidatedRow(row, i) IN
                   row.generation < MaxGenerations =>
                     /\ new \in ExportRow /\ new.status # "succeeded"
                     /\ new.generation = row.generation + 1 /\ new.attempt_count = row.attempt_count
         /\ \A w \in Workers : LET new == ClaimedRow(row, w, 0) IN
              row.attempt_count < MaxClaims =>
                /\ new \in ExportRow /\ new.status = "running" /\ new.worker_id = w
                /\ new.attempt_count = row.attempt_count + 1 /\ new.lease_token = row.attempt_count + 1
                /\ new.generation = row.generation /\ new.input = row.input
<1>1. /\ row.status \in NodeStatus /\ row.generation \in Generations /\ row.attempt_count \in 0 .. MaxClaims
      /\ row.input \in Inputs /\ row.output \in Nat /\ row.worker_id \in Workers \cup {NoWorker}
      /\ row.lease_token \in Nat /\ row.lease \in Int /\ row.next_retry \in Int /\ row.resume_token \in Nat
  BY DEF ExportRow
<1>2. row.attempt_count \in Nat /\ row.resume_token + 1 \in Nat /\ -1 \in Int /\ 0 \in Int
  BY <1>1
<1>3. row.generation < MaxGenerations => row.generation + 1 \in Generations
  BY <1>1 DEF Generations
<1>4. row.attempt_count < MaxClaims =>
        row.attempt_count + 1 \in 0 .. MaxClaims /\ row.attempt_count + 1 \in Nat
  BY <1>1
<1>5. LET new == SucceededRow(row) IN
        /\ new \in ExportRow /\ new.generation = row.generation
        /\ new.input = row.input /\ new.attempt_count = row.attempt_count
  BY <1>1, <1>2 DEF SucceededRow, ExportRow, NodeStatus
<1>6. LET new == FailedRow(row, "permanent", 0) IN
        /\ new \in ExportRow /\ new.status # "succeeded" /\ new.generation = row.generation
        /\ new.input = row.input /\ new.attempt_count = row.attempt_count
  <2>1. FailTarget(row, "permanent") = "failed"
    BY DEF FailTarget
  <2>. QED
    BY <1>1, <1>2, <2>1 DEF FailedRow, ExportRow, NodeStatus
<1>7. LET new == RecoveredRow(row, MaxAttempts, 0) IN
        /\ new \in ExportRow /\ new.status # "succeeded" /\ new.generation = row.generation
        /\ new.input = row.input /\ new.attempt_count = row.attempt_count
  <2>1. CASE RecoveryTarget(row, MaxAttempts) = "retry_wait"
    <3>. DEFINE new == [row EXCEPT !.status = "retry_wait", !.worker_id = NoWorker, !.lease_token = 0,
                                   !.lease = -1, !.next_retry = 0]
    <3>1. RecoveredRow(row, MaxAttempts, 0) = new
      BY <2>1 DEF RecoveredRow, ExportRow
    <3>2. new \in ExportRow
      BY <1>1, <1>2 DEF ExportRow, NodeStatus
    <3>3. /\ new.status # "succeeded" /\ new.generation = row.generation
          /\ new.input = row.input /\ new.attempt_count = row.attempt_count
      BY DEF ExportRow
    <3>. QED
      BY <3>1, <3>2, <3>3
  <2>2. CASE RecoveryTarget(row, MaxAttempts) = "failed"
    BY <1>1, <1>2, <2>2 DEF RecoveredRow, ExportRow, NodeStatus
  <2>. QED
    BY <2>1, <2>2 DEF RecoveryTarget
<1>8. LET new == PromotedRow(row) IN
        /\ new \in ExportRow /\ new.status # "succeeded" /\ new.generation = row.generation
        /\ new.input = row.input /\ new.attempt_count = row.attempt_count
  BY <1>1, <1>2 DEF PromotedRow, ExportRow, NodeStatus
<1>9. LET new == ResetRow(row, "retry") IN
        /\ new \in ExportRow /\ new.status # "succeeded" /\ new.generation = row.generation
        /\ new.input = row.input /\ new.attempt_count = row.attempt_count
  BY <1>1, <1>2 DEF ResetRow, ExportRow, NodeStatus
<1>10. ASSUME NEW i \in Inputs
       PROVE  LET new == ReplacedInputRow(row, i) IN
                /\ new \in ExportRow /\ new.status = row.status /\ new.input = i
                /\ new.generation = row.generation /\ new.attempt_count = row.attempt_count
  BY <1>1 DEF ReplacedInputRow, ExportRow
<1>11. ASSUME NEW i \in Inputs, row.generation < MaxGenerations
       PROVE  LET new == InputInvalidatedRow(row, i) IN
                /\ new \in ExportRow /\ new.status # "succeeded"
                /\ new.generation = row.generation + 1 /\ new.attempt_count = row.attempt_count
  BY <1>1, <1>2, <1>3, <1>11 DEF InputInvalidatedRow, ExportRow, NodeStatus
<1>12. ASSUME NEW w \in Workers, row.attempt_count < MaxClaims
       PROVE  LET new == ClaimedRow(row, w, 0) IN
                /\ new \in ExportRow /\ new.status = "running" /\ new.worker_id = w
                /\ new.attempt_count = row.attempt_count + 1 /\ new.lease_token = row.attempt_count + 1
                /\ new.generation = row.generation /\ new.input = row.input
  <2>. DEFINE next == row.attempt_count + 1
  <2>1. next \in 0 .. MaxClaims /\ next \in Nat /\ 0 \in Int /\ -1 \in Int
    BY <1>4, <1>12
  <2>2. ClaimedRow(row, w, 0) =
          [row EXCEPT !.status = "running", !.attempt_count = next, !.worker_id = w,
                      !.lease_token = next, !.lease = 0, !.next_retry = -1]
    BY <1>1 DEF ClaimedRow, ExportRow
  <2>. HIDE DEF next
  <2>3. LET new == ClaimedRow(row, w, 0) IN
          /\ new \in ExportRow /\ new.status = "running" /\ new.worker_id = w
          /\ new.attempt_count = next /\ new.lease_token = next
          /\ new.generation = row.generation /\ new.input = row.input
    <3>. DEFINE new == [row EXCEPT !.status = "running", !.attempt_count = next, !.worker_id = w,
                                   !.lease_token = next, !.lease = 0, !.next_retry = -1]
    <3>1. new \in ExportRow
      BY <1>1, <2>1 DEF ExportRow, NodeStatus
    <3>2. /\ new.status = "running" /\ new.worker_id = w
          /\ new.attempt_count = next /\ new.lease_token = next
          /\ new.generation = row.generation /\ new.input = row.input
      BY DEF ExportRow
    <3>. QED
      BY <2>2, <3>1, <3>2
  <2>. QED
    BY <2>3 DEF next
<1>. QED
  BY <1>1, <1>5, <1>6, <1>7, <1>8, <1>9, <1>10, <1>11, <1>12

\* reconcile changes the statuses of the rows of one set, all in one way.
LEMMA Reconciled ==
  ASSUME Types, NEW g \in Generations, Reconcile(g), UNCHANGED disk
  PROVE  /\ manifest' \in [Generations -> [Names -> ManifestRow]]
         /\ \A h \in Generations, n \in Names : h # g => manifest'[h][n] = manifest[h][n]
         /\ \A h \in Generations, n \in Names :
              manifest'[h][n].status = "none" <=> manifest[h][n].status = "none"
         /\ \A n \in Logged(g) : /\ manifest'[g][n].sha256 = manifest[g][n].sha256
                                 /\ manifest'[g][n].status = IF SetIsValid(g) THEN "committed" ELSE "invalid"
         /\ \A h \in Generations : Logged(h)' = Logged(h)
<1>. DEFINE set == [n \in Names |-> IF n \in Logged(g)
                      THEN [manifest[g][n] EXCEPT !.status = IF SetIsValid(g) THEN "committed" ELSE "invalid"]
                      ELSE NoRow]
<1>1. manifest' = [manifest EXCEPT ![g] = set]
  BY DEF Reconcile
<1>2. \A n \in Names : set[n] \in ManifestRow
  <2>1. \A n \in Names : manifest[g][n] \in ManifestRow
    BY DEF Types
  <2>2. \A row \in ManifestRow : \A s \in {"committed", "invalid"} :
          [row EXCEPT !.status = s] \in ManifestRow
    BY DEF ManifestRow
  <2>3. NoRow \in ManifestRow
    BY DEF ManifestRow, NoRow
  <2>. QED
    BY <2>1, <2>2, <2>3
<1>3. set \in [Names -> ManifestRow]
  BY <1>2
<1>. HIDE DEF set
<1>4. manifest' \in [Generations -> [Names -> ManifestRow]]
  BY <1>1, <1>3 DEF Types
<1>5. \A h \in Generations : manifest'[h] = IF h = g THEN set ELSE manifest[h]
  BY <1>1, <1>3 DEF Types
<1>6. \A n \in Names : /\ set[n].status = "none" <=> manifest[g][n].status = "none"
                       /\ n \in Logged(g) =>
                            /\ set[n].sha256 = manifest[g][n].sha256
                            /\ set[n].status = IF SetIsValid(g) THEN "committed" ELSE "invalid"
  BY DEF set, Types, ManifestRow, NoRow, Logged
<1>7. \A h \in Generations, n \in Names :
              manifest'[h][n].status = "none" <=> manifest[h][n].status = "none"
  BY <1>5, <1>6
<1>8. \A h \in Generations : Logged(h)' = Logged(h)
  BY <1>7 DEF Logged
<1>. QED
  BY <1>4, <1>5, <1>6, <1>7, <1>8 DEF Logged

\* After it, what is committed is on the disk, as before.
LEMMA ReconciledSets ==
  ASSUME IInv, NEW g \in Generations, Reconcile(g), UNCHANGED disk
  PROVE  /\ CommittedSetsComplete' /\ RequiredLogged'
         /\ SetIsValid(g) => AllCommitted(g)' /\ Logged(g)' # {}
<1>0. Types
  BY DEF IInv
<1>1. CommittedSetsComplete'
  <2>. SUFFICES ASSUME NEW h \in Generations, NEW n \in Names, manifest'[h][n].status = "committed"
                PROVE  manifest'[h][n].sha256 # 0 /\ disk[h][n] = manifest'[h][n].sha256
    BY DEF CommittedSetsComplete, RowIsValid
  <2>1. CASE h # g
    BY <2>1, <1>0, Reconciled DEF IInv, CommittedSetsComplete, RowIsValid
  <2>2. CASE h = g
    <3>1. n \in Logged(g)
      BY <2>2, <1>0, Reconciled DEF Logged
    <3>2. SetIsValid(g)
      BY <2>2, <3>1, <1>0, Reconciled
    <3>. QED
      BY <2>2, <3>1, <3>2, <1>0, Reconciled DEF SetIsValid, RowIsValid
  <2>. QED
    BY <2>1, <2>2
<1>2. RequiredLogged'
  BY <1>0, Reconciled DEF IInv, RequiredLogged
<1>3. SetIsValid(g) => AllCommitted(g)' /\ Logged(g)' # {}
  BY <1>0, Reconciled DEF SetIsValid, AllCommitted
<1>. QED
  BY <1>1, <1>2, <1>3

\* Reconciliation of the present set leaves its files and hashes as they are.
LEMMA ReconciledRecords ==
  ASSUME IInv, Reconcile(node.generation), UNCHANGED <<node, rendered, replaced, staging, disk>>
  PROVE  FromRecords' /\ OneSet'
<1>. DEFINE g == node.generation
<1>1. Types /\ g \in Generations
  BY DEF IInv, Types, ExportRow
<1>2. InputsOfSet' = InputsOfSet
  BY DEF InputsOfSet
<1>3. /\ \A h \in Generations, n \in Names :
           manifest'[h][n].status = "none" <=> manifest[h][n].status = "none"
      /\ Logged(g)' = Logged(g)
      /\ \A n \in Logged(g) : manifest'[g][n].sha256 = manifest[g][n].sha256
  BY <1>1, Reconciled
<1>4. FromRecords'
  BY <1>2, <1>3 DEF IInv, FromRecords, RenderingOf
<1>5. ASSUME NEW k \in AttemptNos, RegisteredBy(k) PROVE RegisteredBy(k)'
  BY <1>2, <1>3, <1>5 DEF RegisteredBy
<1>. QED
  BY <1>3, <1>4, <1>5 DEF IInv, OneSet

------------------------------------------------------------------------------
(* The steps of the export handler *)

LEMMA CheckInv ==
  ASSUME IInv, NEW w \in Workers, CheckPublished(w)
  PROVE  IInv'
<1>. DEFINE g == worker[w].generation
            row == [worker[w] EXCEPT !.pc = IF SetIsValid(g) THEN "commit" ELSE "render"]
<1>1. Types /\ ~At(w, "idle") /\ g \in Generations /\ worker[w] \in Handler
  BY WorkingFacts DEF CheckPublished, At, IInv
<1>2. row \in Handler /\ row.pc = (IF SetIsValid(g) THEN "commit" ELSE "render")
        /\ row.attempt = worker[w].attempt /\ row.generation = g /\ row.input = worker[w].input
  BY <1>1 DEF Handler, Steps
<1>3. worker' = [worker EXCEPT ![w] = row]
  BY DEF CheckPublished, Goto
<1>4. Reconcile(g) /\ UNCHANGED <<node, rendered, replaced, staging, disk, exported>>
  BY DEF CheckPublished, records, files
<1>. HIDE DEF row
<1>5. worker' \in [Workers -> Handler] /\ worker'[w] = row /\ \A v \in Workers : v # w => PublicationInv(v)'
  BY <1>1, <1>2, <1>3, HandlerMoves
<1>6. PublicationInv(w)'
  <2>1. Engaged(w)'
    BY <1>1, <1>2, <1>4, <1>5, StaysEngaged
  <2>2. At(w, "commit")' => SetIsValid(g)
    BY <1>2, <1>5 DEF At
  <2>3. Finished(w)'
    BY <1>1, <1>2, <1>4, <1>5, <2>2, ReconciledSets DEF Finished, At
  <2>. QED
    BY <2>1, <2>3, <1>2, <1>5 DEF PublicationInv, Registered, Staged, Measured, Renamed, At
<1>7. FromRecords' /\ OneSet'
  BY <1>1, <1>4, WorkingFacts, ReconciledRecords
<1>8. Published'
  BY <1>1, <1>4, WorkingFacts DEF IInv, Published
<1>. QED
  BY <1>1, <1>4, <1>5, <1>6, <1>7, <1>8, Reconciled, ReconciledSets DEF IInv, Types

LEMMA RenderInv ==
  ASSUME IInv, NEW w \in Workers, Render(w)
  PROVE  IInv'
<1>. DEFINE g == worker[w].generation
            row == [worker[w] EXCEPT !.pc = "register"]
            new == [n \in Names |-> IF n \in worker[w].input THEN worker[w].attempt ELSE staging[g][n]]
<1>1. Types /\ ~At(w, "idle") /\ g \in Generations /\ worker[w] \in Handler
  BY WorkingFacts DEF Render, At, IInv
<1>2. row \in Handler /\ row.pc = "register"
        /\ row.attempt = worker[w].attempt /\ row.generation = g /\ row.input = worker[w].input
  BY <1>1 DEF Handler, Steps
<1>3. worker' = [worker EXCEPT ![w] = row]
  BY DEF Render, Goto
<1>4. staging' = [staging EXCEPT ![g] = new]
        /\ UNCHANGED <<node, rendered, replaced, manifest, disk, exported>>
  BY DEF Render, records
<1>5. new \in [Names -> Nat]
  BY <1>1 DEF Types, Handler
<1>6. staging' \in [Generations -> [Names -> Nat]]
        /\ \A h \in Generations : staging'[h] = IF h = g THEN new ELSE staging[h]
  BY <1>1, <1>4, <1>5 DEF Types
<1>7. \A n \in Names : new[n] = IF n \in worker[w].input THEN worker[w].attempt ELSE staging[g][n]
  OBVIOUS
<1>. HIDE DEF row, new
<1>8. worker' \in [Workers -> Handler] /\ worker'[w] = row /\ \A v \in Workers : v # w => PublicationInv(v)'
  BY <1>1, <1>2, <1>3, HandlerMoves
<1>9. PublicationInv(w)'
  <2>1. Engaged(w)'
    BY <1>1, <1>2, <1>4, <1>8, StaysEngaged
  <2>2. Staged(w)'
    BY <1>1, <1>2, <1>6, <1>7, <1>8, WorkingFacts DEF Staged
  <2>. QED
    BY <2>1, <2>2, <1>2, <1>8 DEF PublicationInv, Registered, Measured, Renamed, Finished, At
<1>10. FromRecords'
  <2>. SUFFICES ASSUME NEW h \in Generations, NEW n \in Names
                PROVE  /\ staging'[h][n] <= node.attempt_count
                       /\ h > node.generation => staging'[h][n] = 0
                       /\ h = node.generation /\ staging'[h][n] # 0 =>
                            RenderingOf(staging'[h][n], n)
    BY <1>4 DEF IInv, FromRecords, RenderingOf, InputsOfSet
  <2>1. CASE h = g /\ n \in worker[w].input
    <3>1. staging'[h][n] = node.attempt_count /\ node.attempt_count \in Nat
      BY <2>1, <1>1, <1>6, <1>7, WorkingFacts
    <3>2. h = node.generation /\ h \in Nat /\ RenderingOf(node.attempt_count, n)
      BY <2>1, <1>1, WorkingFacts DEF Generations, RenderingOf, InputsOfSet
    <3>. QED
      BY <3>1, <3>2
  <2>2. CASE ~(h = g /\ n \in worker[w].input)
    BY <2>2, <1>6, <1>7 DEF IInv, FromRecords
  <2>. QED
    BY <2>1, <2>2
<1>11. /\ Published' /\ OneSet' /\ CommittedSetsComplete' /\ RequiredLogged'
  BY <1>4 DEF IInv, Published, OneSet, RegisteredBy, InputsOfSet, CommittedSetsComplete, RequiredLogged,
              RowIsValid, Logged, AllCommitted
<1>. QED
  BY <1>1, <1>4, <1>6, <1>8, <1>9, <1>10, <1>11 DEF IInv, Types

LEMMA RegisterInv ==
  ASSUME IInv, NEW w \in Workers, Register(w)
  PROVE  IInv'
<1>. DEFINE g == worker[w].generation
            row == [worker[w] EXCEPT !.pc = "measure"]
            new == [n \in Names |->
                      IF n \in worker[w].input THEN [status |-> "writing", sha256 |-> 0]
                      ELSE IF manifest[g][n].status # "none" THEN [manifest[g][n] EXCEPT !.status = "invalid"]
                      ELSE manifest[g][n]]
<1>1. Types /\ ~At(w, "idle") /\ g \in Generations /\ worker[w] \in Handler
  BY WorkingFacts DEF Register, At, IInv
<1>2. row \in Handler /\ row.pc = "measure"
        /\ row.attempt = worker[w].attempt /\ row.generation = g /\ row.input = worker[w].input
  BY <1>1 DEF Handler, Steps
<1>3. worker' = [worker EXCEPT ![w] = row]
  BY DEF Register, Goto
<1>4. manifest' = [manifest EXCEPT ![g] = new]
        /\ UNCHANGED <<node, rendered, replaced, staging, disk, exported>>
  BY DEF Register, records, files
<1>5. \A n \in Names :
        /\ new[n] \in ManifestRow
        /\ new[n].status # "committed"
        /\ n \in worker[w].input => new[n].status = "writing" /\ new[n].sha256 = 0
        /\ n \notin worker[w].input => (new[n].status = "none" <=> manifest[g][n].status = "none")
  <2>1. \A n \in Names : manifest[g][n] \in ManifestRow
    BY <1>1 DEF Types
  <2>2. \A r \in ManifestRow : LET s == [r EXCEPT !.status = "invalid"] IN s \in ManifestRow /\ s.status = "invalid"
    BY DEF ManifestRow
  <2>3. [status |-> "writing", sha256 |-> 0] \in ManifestRow
    BY DEF ManifestRow
  <2>4. Engaged(w) /\ CommittedSetsComplete
    BY DEF IInv, PublicationInv
  <2>. QED
    BY <2>1, <2>2, <2>3
<1>6. new \in [Names -> ManifestRow]
  BY <1>5
<1>. HIDE DEF row, new
<1>7. manifest' \in [Generations -> [Names -> ManifestRow]]
        /\ \A h \in Generations : manifest'[h] = IF h = g THEN new ELSE manifest[h]
  BY <1>1, <1>4, <1>6 DEF Types
<1>8. worker' \in [Workers -> Handler] /\ worker'[w] = row /\ \A v \in Workers : v # w => PublicationInv(v)'
  BY <1>1, <1>2, <1>3, HandlerMoves
<1>9. \A n \in worker[w].input : manifest'[g][n].status = "writing"
  BY <1>1, <1>5, <1>7, WorkingFacts
<1>10. PublicationInv(w)'
  <2>1. Engaged(w)'
    BY <1>1, <1>2, <1>4, <1>8, StaysEngaged
  <2>2. Registered(w)' /\ Measured(w)'
    BY <1>1, <1>2, <1>5, <1>7, <1>8, <1>9, WorkingFacts DEF Registered, Measured, Logged, At
  <2>3. Staged(w)'
    BY <1>2, <1>4, <1>8 DEF IInv, PublicationInv, Staged, Register, At
  <2>. QED
    BY <2>1, <2>2, <2>3, <1>2, <1>8 DEF PublicationInv, Renamed, Finished, At
<1>11. FromRecords'
  <2>. SUFFICES ASSUME NEW h \in Generations, NEW n \in Names
                PROVE  /\ h > node.generation => manifest'[h][n].status = "none"
                       /\ h = node.generation /\ manifest'[h][n].status # "none" =>
                            \E i \in InputsOfSet : n \in i
    BY <1>4 DEF IInv, FromRecords, RenderingOf, InputsOfSet
  <2>1. CASE h = g
    <3>1. h = node.generation /\ h \in Nat /\ worker[w].input \in InputsOfSet
      BY <2>1, <1>1, WorkingFacts DEF Generations, InputsOfSet
    <3>2. n \in worker[w].input \/ (manifest'[h][n].status = "none" <=> manifest[h][n].status = "none")
      BY <2>1, <1>5, <1>7
    <3>. QED
      BY <3>1, <3>2 DEF IInv, FromRecords
  <2>2. CASE h # g
    BY <2>2, <1>7 DEF IInv, FromRecords
  <2>. QED
    BY <2>1, <2>2
<1>12. CommittedSetsComplete'
  BY <1>1, <1>4, <1>5, <1>7 DEF IInv, CommittedSetsComplete, RowIsValid
<1>13. RequiredLogged'
  <2>. SUFFICES ASSUME NEW h \in Generations, Logged(h)' # {}
                PROVE  Required \subseteq Logged(h)'
    BY DEF RequiredLogged
  <2>1. CASE h = g
    <3>1. \A n \in Required : n \in Names /\ manifest'[h][n].status # "none"
      BY <2>1, <1>1, <1>9, WorkingFacts
    <3>. QED
      BY <3>1 DEF Logged
  <2>2. CASE h # g
    BY <2>2, <1>7 DEF IInv, RequiredLogged, Logged
  <2>. QED
    BY <2>1, <2>2
<1>14. Published' /\ OneSet'
  <2>1. PICK k \in AttemptNos : k = worker[w].attempt
    BY <1>1, WorkingFacts DEF AttemptNos
  <2>2. k <= node.attempt_count /\ rendered[k] = node.input /\ g = node.generation
    BY <1>1, <2>1, WorkingFacts DEF AttemptNos
  <2>3. \A n \in rendered[k] :
          n \in Names /\ manifest'[g][n].sha256 = 0 /\ manifest'[g][n].status # "none"
    BY <1>1, <1>5, <1>7, <1>9, <2>1, WorkingFacts
  <2>4. RegisteredBy(k)'
    BY <1>4, <2>2, <2>3 DEF RegisteredBy, InputsOfSet, Logged
  <2>. QED
    BY <1>1, <1>4, <2>1, <2>4, WorkingFacts DEF IInv, Published, OneSet
<1>. QED
  BY <1>1, <1>4, <1>7, <1>8, <1>10, <1>11, <1>12, <1>13, <1>14 DEF IInv, Types

LEMMA MeasureInv ==
  ASSUME IInv, NEW w \in Workers, Measure(w)
  PROVE  IInv'
<1>. DEFINE g == worker[w].generation
            row == [worker[w] EXCEPT !.measured = staging[g], !.pc = "persist"]
<1>1. Types /\ ~At(w, "idle") /\ At(w, "measure") /\ g \in Generations /\ worker[w] \in Handler
  BY WorkingFacts DEF Measure, At, IInv
<1>2. Staged(w) /\ Registered(w) /\ Measured(w)
  BY DEF IInv, PublicationInv
<1>3. \A n \in worker[w].input : staging[g][n] = worker[w].attempt /\ staging[g][n] # 0
  BY <1>1, <1>2, WorkingFacts DEF Staged, At
<1>4. worker' = [worker EXCEPT ![w].measured = staging[g], ![w].pc = "persist"]
        /\ UNCHANGED <<node, rendered, replaced, manifest, staging, disk, exported>>
  BY <1>3 DEF Measure, records, files
<1>5. staging[g] \in [Names -> Nat]
  BY <1>1 DEF Types
<1>6. row \in Handler /\ row.pc = "persist" /\ row.measured = staging[g]
        /\ row.attempt = worker[w].attempt /\ row.generation = g /\ row.input = worker[w].input
  BY <1>1, <1>5 DEF Handler, Steps
<1>7. worker' = [worker EXCEPT ![w] = row]
  BY <1>1, <1>4 DEF Types, Handler
<1>. HIDE DEF row
<1>8. worker' \in [Workers -> Handler] /\ worker'[w] = row /\ \A v \in Workers : v # w => PublicationInv(v)'
  BY <1>1, <1>6, <1>7, HandlerMoves
<1>9. PublicationInv(w)'
  <2>1. Engaged(w)'
    BY <1>1, <1>4, <1>6, <1>8, StaysEngaged
  <2>2. Registered(w)' /\ Measured(w)' /\ Staged(w)'
    BY <1>1, <1>2, <1>3, <1>4, <1>6, <1>8 DEF Registered, Measured, Staged, Logged, At
  <2>. QED
    BY <2>1, <2>2, <1>6, <1>8 DEF PublicationInv, Renamed, Finished, At
<1>10. FromRecords' /\ OneSet' /\ Published' /\ CommittedSetsComplete' /\ RequiredLogged'
  BY <1>4 DEF IInv, FromRecords, OneSet, RenderingOf, RegisteredBy, InputsOfSet, Published,
              CommittedSetsComplete, RequiredLogged, RowIsValid, Logged, AllCommitted
<1>. QED
  BY <1>1, <1>4, <1>8, <1>9, <1>10 DEF IInv, Types

LEMMA PersistInv ==
  ASSUME IInv, NEW w \in Workers, Persist(w)
  PROVE  IInv'
<1>. DEFINE g == worker[w].generation
            row == [worker[w] EXCEPT !.left = worker[w].input, !.pc = "rename"]
            new == [n \in Names |-> IF n \in worker[w].input
                      THEN [manifest[g][n] EXCEPT !.sha256 = worker[w].measured[n]] ELSE manifest[g][n]]
<1>1. Types /\ ~At(w, "idle") /\ At(w, "persist") /\ g \in Generations /\ worker[w] \in Handler
  BY WorkingFacts DEF Persist, At, IInv
<1>2. /\ \A n \in worker[w].input :
           /\ staging[g][n] = worker[w].attempt
           /\ manifest[g][n].status = "writing"
           /\ worker[w].measured[n] = worker[w].attempt
      /\ worker[w].input \subseteq Logged(g)
      /\ \A n \in Names : manifest[g][n].status # "committed"
  BY <1>1 DEF IInv, PublicationInv, Staged, Registered, Measured, At
<1>3. /\ worker' = [worker EXCEPT ![w].left = worker[w].input, ![w].pc = "rename"]
      /\ manifest' = [manifest EXCEPT ![g] = new]
      /\ UNCHANGED <<node, rendered, replaced, staging, disk, exported>>
  BY <1>2 DEF Persist, records, files
<1>4. \A n \in Names :
        /\ new[n] \in ManifestRow
        /\ new[n].status = manifest[g][n].status
        /\ n \in worker[w].input => new[n].sha256 = worker[w].attempt
  <2>1. \A n \in Names : manifest[g][n] \in ManifestRow /\ worker[w].measured[n] \in Nat
    BY <1>1 DEF Types, Handler
  <2>2. \A r \in ManifestRow, k \in Nat :
          LET s == [r EXCEPT !.sha256 = k] IN s \in ManifestRow /\ s.status = r.status /\ s.sha256 = k
    BY DEF ManifestRow
  <2>. QED
    BY <1>2, <2>1, <2>2
<1>5. row \in Handler /\ row.pc = "rename" /\ row.left = worker[w].input
        /\ row.attempt = worker[w].attempt /\ row.generation = g /\ row.input = worker[w].input
  BY <1>1 DEF Handler, Steps
<1>6. worker' = [worker EXCEPT ![w] = row]
  BY <1>1, <1>3 DEF Types, Handler
<1>7. new \in [Names -> ManifestRow]
  BY <1>4
<1>. HIDE DEF row, new
<1>8. manifest' \in [Generations -> [Names -> ManifestRow]]
        /\ \A h \in Generations : manifest'[h] = IF h = g THEN new ELSE manifest[h]
  BY <1>1, <1>3, <1>7 DEF Types
<1>9. \A h \in Generations, n \in Names : manifest'[h][n].status = manifest[h][n].status
  BY <1>4, <1>8
<1>10. worker' \in [Workers -> Handler] /\ worker'[w] = row /\ \A v \in Workers : v # w => PublicationInv(v)'
  BY <1>1, <1>5, <1>6, HandlerMoves
<1>11. PublicationInv(w)'
  <2>1. Engaged(w)'
    BY <1>1, <1>3, <1>5, <1>10, StaysEngaged
  <2>2. Registered(w)'
    BY <1>1, <1>2, <1>5, <1>9, <1>10 DEF Registered, Logged, At
  <2>3. Renamed(w)'
    BY <1>1, <1>2, <1>3, <1>4, <1>5, <1>8, <1>10, WorkingFacts DEF Renamed
  <2>. QED
    BY <2>1, <2>2, <2>3, <1>5, <1>10 DEF PublicationInv, Staged, Measured, Finished, At
<1>12. CommittedSetsComplete'
  BY <1>2, <1>3, <1>8, <1>9 DEF IInv, CommittedSetsComplete, RowIsValid
<1>13. FromRecords' /\ RequiredLogged'
  BY <1>3, <1>9 DEF IInv, FromRecords, RenderingOf, InputsOfSet, RequiredLogged, Logged
<1>14. Published' /\ OneSet'
  <2>1. PICK k \in AttemptNos : k = worker[w].attempt
    BY <1>1, WorkingFacts DEF AttemptNos
  <2>2. k <= node.attempt_count /\ rendered[k] = node.input /\ g = node.generation
    BY <1>1, <2>1, WorkingFacts DEF AttemptNos
  <2>3. \A n \in rendered[k] :
          n \in Names /\ manifest'[g][n].sha256 = k /\ manifest'[g][n].status # "none"
    BY <1>1, <1>2, <1>4, <1>8, <1>9, <2>1, WorkingFacts
  <2>4. RegisteredBy(k)'
    BY <1>3, <2>2, <2>3 DEF RegisteredBy, InputsOfSet, Logged
  <2>. QED
    BY <1>1, <1>3, <2>1, <2>4, WorkingFacts DEF IInv, Published, OneSet
<1>. QED
  BY <1>1, <1>3, <1>8, <1>10, <1>11, <1>12, <1>13, <1>14 DEF IInv, Types

LEMMA RenameInv ==
  ASSUME IInv, NEW w \in Workers, NEW n \in Names, Rename(w, n)
  PROVE  IInv'
<1>. DEFINE g == worker[w].generation
            row == [worker[w] EXCEPT !.left = @ \ {n}]
<1>1. /\ Types /\ ~At(w, "idle") /\ At(w, "rename") /\ g \in Generations /\ worker[w] \in Handler
      /\ n \in worker[w].left
  BY WorkingFacts DEF Rename, At, IInv
<1>2. Renamed(w) /\ Registered(w)
  BY DEF IInv, PublicationInv
<1>3. staging[g][n] = worker[w].attempt /\ staging[g][n] # 0 /\ n \in worker[w].input
  BY <1>1, <1>2, WorkingFacts DEF Renamed
<1>4. /\ disk' = [disk EXCEPT ![g][n] = worker[w].attempt]
      /\ staging' = [staging EXCEPT ![g][n] = 0]
      /\ worker' = [worker EXCEPT ![w].left = @ \ {n}]
      /\ UNCHANGED <<node, rendered, replaced, manifest, exported>>
  BY <1>3 DEF Rename, records
<1>5. row \in Handler /\ row.pc = "rename" /\ row.left = worker[w].left \ {n}
        /\ row.attempt = worker[w].attempt /\ row.generation = g /\ row.input = worker[w].input
  BY <1>1 DEF Handler, Steps, At
<1>6. worker' = [worker EXCEPT ![w] = row]
  BY <1>1, <1>4 DEF Types, Handler
<1>. HIDE DEF row
<1>7. /\ disk' \in [Generations -> [Names -> Nat]] /\ staging' \in [Generations -> [Names -> Nat]]
      /\ \A h \in Generations, m \in Names :
           /\ disk'[h][m] = IF h = g /\ m = n THEN worker[w].attempt ELSE disk[h][m]
           /\ staging'[h][m] = IF h = g /\ m = n THEN 0 ELSE staging[h][m]
  BY <1>1, <1>4, WorkingFacts DEF Types
<1>8. worker' \in [Workers -> Handler] /\ worker'[w] = row /\ \A v \in Workers : v # w => PublicationInv(v)'
  BY <1>1, <1>5, <1>6, HandlerMoves
<1>9. PublicationInv(w)'
  <2>1. Engaged(w)'
    BY <1>1, <1>4, <1>5, <1>8, StaysEngaged
  <2>2. Registered(w)'
    BY <1>1, <1>2, <1>4, <1>5, <1>8 DEF Registered, Logged, At
  <2>3. Renamed(w)'
    BY <1>1, <1>2, <1>4, <1>5, <1>7, <1>8, WorkingFacts DEF Renamed
  <2>. QED
    BY <2>1, <2>2, <2>3, <1>5, <1>8 DEF PublicationInv, Staged, Measured, Finished, At
<1>10. CommittedSetsComplete'
  BY <1>1, <1>2, <1>4, <1>7 DEF IInv, CommittedSetsComplete, RowIsValid, Registered, At
<1>11. FromRecords'
  <2>. SUFFICES ASSUME NEW h \in Generations, NEW m \in Names
                PROVE  /\ disk'[h][m] <= node.attempt_count /\ staging'[h][m] <= node.attempt_count
                       /\ h > node.generation => disk'[h][m] = 0 /\ staging'[h][m] = 0
                       /\ h = node.generation =>
                            /\ disk'[h][m] # 0 => RenderingOf(disk'[h][m], m)
                            /\ staging'[h][m] # 0 => RenderingOf(staging'[h][m], m)
    BY <1>4 DEF IInv, FromRecords, RenderingOf, InputsOfSet
  <2>1. CASE h = g /\ m = n
    <3>1. disk'[h][m] = node.attempt_count /\ staging'[h][m] = 0 /\ node.attempt_count \in Nat
      BY <2>1, <1>1, <1>7, WorkingFacts
    <3>2. h = node.generation /\ h \in Nat /\ RenderingOf(node.attempt_count, m)
      BY <2>1, <1>1, <1>3, WorkingFacts DEF Generations, RenderingOf, InputsOfSet
    <3>. QED
      BY <3>1, <3>2
  <2>2. CASE ~(h = g /\ m = n)
    BY <2>2, <1>7 DEF IInv, FromRecords
  <2>. QED
    BY <2>1, <2>2
<1>12. Published' /\ OneSet' /\ RequiredLogged'
  BY <1>1, <1>4, WorkingFacts DEF IInv, Published, OneSet, RegisteredBy, InputsOfSet, RequiredLogged, Logged
<1>. QED
  BY <1>1, <1>4, <1>7, <1>8, <1>9, <1>10, <1>11, <1>12 DEF IInv, Types

LEMMA VerifyInv ==
  ASSUME IInv, NEW w \in Workers, Verify(w)
  PROVE  IInv'
<1>. DEFINE g == worker[w].generation
            row == [worker[w] EXCEPT !.pc = IF SetIsValid(g) THEN "commit" ELSE "fail"]
<1>1. /\ Types /\ ~At(w, "idle") /\ At(w, "rename") /\ g \in Generations /\ worker[w] \in Handler
      /\ worker[w].left = {}
  BY WorkingFacts DEF Verify, At, IInv
<1>2. row \in Handler /\ row.pc = (IF SetIsValid(g) THEN "commit" ELSE "fail")
        /\ row.attempt = worker[w].attempt /\ row.generation = g /\ row.input = worker[w].input
  BY <1>1 DEF Handler, Steps
<1>3. worker' = [worker EXCEPT ![w] = row]
  BY DEF Verify, Goto
<1>4. Reconcile(g) /\ UNCHANGED <<node, rendered, replaced, staging, disk, exported>>
  BY DEF Verify, records, files
<1>. HIDE DEF row
<1>5. worker' \in [Workers -> Handler] /\ worker'[w] = row /\ \A v \in Workers : v # w => PublicationInv(v)'
  BY <1>1, <1>2, <1>3, HandlerMoves
\* All the names of the input are registered and renamed; another one is in the
\* set only if the input was replaced.
<1>6. replaced[g] = {} => SetIsValid(g)
  <2>1. \A n \in worker[w].input : RowIsValid(g, n)
    BY <1>1, WorkingFacts DEF IInv, PublicationInv, Renamed, RowIsValid
  <2>2. worker[w].input \subseteq Logged(g) /\ worker[w].input # {}
    BY <1>1, WorkingFacts DEF IInv, PublicationInv, Registered, At
  <2>3. replaced[g] = {} => Logged(g) \subseteq worker[w].input
    BY <1>1, WorkingFacts DEF IInv, FromRecords, InputsOfSet, Logged
  <2>. QED
    BY <2>1, <2>2, <2>3 DEF SetIsValid
<1>7. PublicationInv(w)'
  <2>1. Engaged(w)'
    BY <1>1, <1>2, <1>4, <1>5, StaysEngaged
  <2>2. /\ At(w, "commit")' => SetIsValid(g)
        /\ At(w, "fail")' => ~SetIsValid(g)
    BY <1>2, <1>5 DEF At
  <2>3. Finished(w)'
    BY <1>1, <1>2, <1>4, <1>5, <1>6, <2>2, ReconciledSets DEF Finished, At
  <2>. QED
    BY <2>1, <2>3, <1>2, <1>5 DEF PublicationInv, Registered, Staged, Measured, Renamed, At
<1>8. FromRecords' /\ OneSet'
  BY <1>1, <1>4, WorkingFacts, ReconciledRecords
<1>9. Published'
  BY <1>1, <1>4, WorkingFacts DEF IInv, Published
<1>. QED
  BY <1>1, <1>4, <1>5, <1>7, <1>8, <1>9, Reconciled, ReconciledSets DEF IInv, Types

------------------------------------------------------------------------------
(* The steps after which every handler is at rest *)

\* The row of the node changes, to one that has not succeeded: its input stays,
\* or is replaced in its generation, or it starts a new generation.
LEMMA NodeStep ==
  ASSUME IInv, worker' \in [Workers -> Handler], \A w \in Workers : At(w, "idle")',
         UNCHANGED <<rendered, manifest, staging, disk, exported>>,
         node' \in ExportRow, node'.attempt_count = node.attempt_count,
         node'.status # "succeeded",
         \/ node'.generation = node.generation /\ node'.input = node.input /\ replaced' = replaced
         \/ /\ node'.generation = node.generation
            /\ replaced' = [replaced EXCEPT ![node.generation] = @ \cup {node.input}]
         \/ node'.generation = node.generation + 1 /\ replaced' = replaced
  PROVE  IInv'
<1>1. node.generation \in Generations /\ node'.generation \in Generations /\ node.input \in Inputs
  BY DEF IInv, Types, ExportRow
<1>2. Types'
  <2>1. replaced' \in [Generations -> SUBSET Inputs]
    <3>1. replaced \in [Generations -> SUBSET Inputs]
      BY DEF IInv, Types
    <3>. QED
      BY <1>1, <3>1
  <2>. QED
    BY <2>1 DEF IInv, Types
<1>3. CommittedSetsComplete' /\ RequiredLogged' /\ Published'
  BY DEF IInv, CommittedSetsComplete, RequiredLogged, Published, RowIsValid, Logged
<1>4. FromRecords' /\ OneSet'
  <2>1. CASE node'.generation = node.generation
    <3>1. InputsOfSet \subseteq InputsOfSet'
      BY <1>1, <2>1 DEF InputsOfSet, IInv, Types, Generations
    <3>2. \A k, n : RenderingOf(k, n) => RenderingOf(k, n)'
      BY <3>1 DEF RenderingOf
    <3>3. FromRecords'
      BY <2>1, <3>1, <3>2 DEF IInv, FromRecords
    <3>4. ASSUME NEW k \in AttemptNos, RegisteredBy(k) PROVE RegisteredBy(k)'
      BY <2>1, <3>1, <3>4 DEF RegisteredBy, Logged
    <3>5. Logged(node.generation)' = Logged(node.generation)
      BY <2>1 DEF Logged
    <3>. QED
      BY <3>3, <3>4, <3>5 DEF IInv, OneSet
  <2>2. CASE node'.generation = node.generation + 1
    <3>1. \A g \in Generations, n \in Names : g >= node'.generation =>
            disk[g][n] = 0 /\ staging[g][n] = 0 /\ manifest[g][n].status = "none"
      BY <1>1, <2>2 DEF IInv, FromRecords, Generations
    <3>2. FromRecords'
      BY <1>1, <3>1 DEF IInv, FromRecords, Generations
    <3>3. Logged(node.generation)' = {}
      BY <1>1, <3>1 DEF Logged, Generations
    <3>. QED
      BY <3>2, <3>3 DEF OneSet
  <2>. QED
    BY <2>1, <2>2
<1>. QED
  BY <1>2, <1>3, <1>4, HandlerAtRest DEF IInv

LEMMA HandlerStops ==
  ASSUME IInv, NEW w \in Workers, ~At(w, "idle"), worker' = [worker EXCEPT ![w] = NotWorking]
  PROVE  worker' \in [Workers -> Handler] /\ \A v \in Workers : At(v, "idle")'
<1>1. NotWorking \in Handler /\ NotWorking.pc = "idle"
  BY DEF NotWorking, Handler, Steps
<1>2. worker' \in [Workers -> Handler] /\ worker'[w] = NotWorking
        /\ \A v \in Workers : v # w => worker'[v] = worker[v]
  BY <1>1 DEF IInv, Types
<1>. QED
  BY <1>1, <1>2, OneHandler DEF At

LEMMA CommitInv ==
  ASSUME IInv, NEW w \in Workers, CommitExport(w)
  PROVE  IInv'
<1>. DEFINE g == worker[w].generation
<1>1. Types /\ ~At(w, "idle") /\ At(w, "commit") /\ g \in Generations /\ node \in ExportRow
  BY WorkingFacts DEF CommitExport, At, IInv, Types
<1>2. Owns(w) /\ g = node.generation
  BY <1>1 DEF IInv, PublicationInv, Engaged, Owns
<1>3. /\ node' = SucceededRow(node) /\ exported' = Logged(g)
      /\ worker' = [worker EXCEPT ![w] = NotWorking]
      /\ UNCHANGED <<rendered, replaced, manifest, staging, disk>>
  BY <1>2 DEF CommitExport, records, files
<1>4. /\ node' \in ExportRow /\ node'.generation = node.generation /\ node'.input = node.input
      /\ node'.attempt_count = node.attempt_count
  BY <1>1, <1>3, ExportRows
<1>5. worker' \in [Workers -> Handler] /\ \A v \in Workers : At(v, "idle")'
  BY <1>1, <1>3, HandlerStops
<1>6. Published'
  <2>1. AllCommitted(g) /\ Logged(g) # {}
    BY <1>1 DEF IInv, PublicationInv, Finished
  <2>2. \A n \in Names : manifest'[node.generation][n] = manifest[node.generation][n]
    BY <1>3
  <2>3. /\ exported' = {n \in Names : manifest'[node.generation][n].status # "none"} /\ exported' # {}
        /\ \A n \in Names : manifest'[node.generation][n].status # "none" =>
             manifest'[node.generation][n].status = "committed"
    BY <1>2, <1>3, <2>1, <2>2 DEF AllCommitted, Logged
  <2>. QED
    BY <1>4, <2>3 DEF Published, AllCommitted, Logged
<1>7. FromRecords' /\ OneSet' /\ CommittedSetsComplete' /\ RequiredLogged'
  BY <1>3, <1>4 DEF IInv, FromRecords, OneSet, RenderingOf, RegisteredBy, InputsOfSet,
                    CommittedSetsComplete, RequiredLogged, RowIsValid, Logged
<1>. QED
  BY <1>1, <1>3, <1>4, <1>5, <1>6, <1>7, HandlerAtRest DEF IInv, Types

LEMMA FailInv ==
  ASSUME IInv, NEW w \in Workers, FailExport(w)
  PROVE  IInv'
<1>1. ~At(w, "idle") /\ node \in ExportRow
  BY DEF FailExport, At, IInv, Types
<1>2. /\ node' = IF Owns(w) THEN FailedRow(node, "permanent", 0) ELSE node
      /\ worker' = [worker EXCEPT ![w] = NotWorking]
      /\ UNCHANGED <<rendered, replaced, manifest, staging, disk, exported>>
  BY DEF FailExport, records, files
<1>3. /\ node' \in ExportRow /\ node'.status # "succeeded"
      /\ node'.generation = node.generation /\ node'.input = node.input
      /\ node'.attempt_count = node.attempt_count
  BY <1>1, <1>2, WorkingFacts, ExportRows
<1>. QED
  BY <1>1, <1>2, <1>3, HandlerStops, NodeStep

LEMMA CrashInv ==
  ASSUME IInv, NEW w \in Workers, Crash(w)
  PROVE  IInv'
<1>1. ~At(w, "idle") /\ node \in ExportRow /\ node.status = "running"
  BY WorkingFacts DEF Crash, IInv, Types
<1>2. /\ worker' = [worker EXCEPT ![w] = NotWorking]
      /\ UNCHANGED <<node, rendered, replaced, manifest, staging, disk, exported>>
  BY DEF Crash, records, files
<1>. QED
  BY <1>1, <1>2, HandlerStops, NodeStep

LEMMA RecoverInv ==
  ASSUME IInv, RecoverExport
  PROVE  IInv'
<1>1. \A w \in Workers : At(w, "idle")
  BY DEF RecoverExport, IInv, PublicationInv, Engaged, Owns
<1>2. node \in ExportRow /\ worker \in [Workers -> Handler]
  BY DEF IInv, Types
<1>3. /\ node' = RecoveredRow(node, MaxAttempts, 0)
      /\ UNCHANGED <<rendered, replaced, manifest, staging, disk, exported, worker>>
  BY DEF RecoverExport, records, files
<1>. QED
  BY <1>1, <1>2, <1>3, ExportRows, NodeStep DEF At

LEMMA PromoteInv ==
  ASSUME IInv, PromoteExport
  PROVE  IInv'
<1>1. \A w \in Workers : At(w, "idle")
  BY AllAtRest DEF PromoteExport
<1>2. node \in ExportRow /\ worker \in [Workers -> Handler]
  BY DEF IInv, Types
<1>3. /\ node' = PromotedRow(node)
      /\ UNCHANGED <<rendered, replaced, manifest, staging, disk, exported, worker>>
  BY DEF PromoteExport, records, files
<1>. QED
  BY <1>1, <1>2, <1>3, ExportRows, NodeStep DEF At

LEMMA RetryInv ==
  ASSUME IInv, RetryExport
  PROVE  IInv'
<1>1. \A w \in Workers : At(w, "idle")
  BY AllAtRest DEF RetryExport
<1>2. node \in ExportRow /\ worker \in [Workers -> Handler]
  BY DEF IInv, Types
<1>3. /\ node' = ResetRow(node, "retry")
      /\ UNCHANGED <<rendered, replaced, manifest, staging, disk, exported, worker>>
  BY DEF RetryExport, records, files
<1>. QED
  BY <1>1, <1>2, <1>3, ExportRows, NodeStep DEF At

LEMMA ChangeRecordsInv ==
  ASSUME IInv, NEW i \in Inputs, ChangeRecords(i)
  PROVE  IInv'
<1>1. node.status # "running" /\ node.status # "succeeded"
  BY DEF ChangeRecords, InputReplaceable
<1>2. \A w \in Workers : At(w, "idle")
  BY <1>1, AllAtRest
<1>3. node \in ExportRow /\ worker \in [Workers -> Handler]
  BY DEF IInv, Types
<1>4. /\ node' = ReplacedInputRow(node, i)
      /\ replaced' = [replaced EXCEPT ![node.generation] = @ \cup {node.input}]
      /\ UNCHANGED <<rendered, manifest, staging, disk, exported, worker>>
  BY DEF ChangeRecords, files
<1>. QED
  BY <1>1, <1>2, <1>3, <1>4, ExportRows, NodeStep DEF At

LEMMA NewRecordsInv ==
  ASSUME IInv, NEW i \in Inputs, ChangeRecordsAfterSuccess(i)
  PROVE  IInv'
<1>1. node.status # "running" /\ node.generation < MaxGenerations
  BY DEF ChangeRecordsAfterSuccess, InputInvalidates
<1>2. \A w \in Workers : At(w, "idle")
  BY <1>1, AllAtRest
<1>3. node \in ExportRow /\ worker \in [Workers -> Handler]
  BY DEF IInv, Types
<1>4. /\ node' = InputInvalidatedRow(node, i)
      /\ UNCHANGED <<rendered, replaced, manifest, staging, disk, exported, worker>>
  BY DEF ChangeRecordsAfterSuccess, records, files
<1>. QED
  BY <1>1, <1>2, <1>3, <1>4, ExportRows, NodeStep DEF At

\* The set of an export that has succeeded is valid, so the node stays as it is.
LEMMA ValidateInv ==
  ASSUME IInv, Validate
  PROVE  IInv'
<1>. DEFINE g == node.generation
<1>1. /\ Types /\ g \in Generations /\ node.status = "succeeded" /\ Reconcile(g)
      /\ UNCHANGED <<rendered, replaced, staging, disk, exported, worker>>
  BY DEF Validate, IInv, Types, ExportRow, records, files
<1>2. exported = Logged(g) /\ exported # {} /\ AllCommitted(g)
  BY <1>1 DEF IInv, Published
<1>3. SetIsValid(g)
  BY <1>1, <1>2 DEF IInv, CommittedSetsComplete, SetIsValid, AllCommitted, Logged
<1>4. Required \subseteq Logged(g)
  BY <1>1, <1>2 DEF IInv, RequiredLogged
<1>5. node' = node
  BY <1>2, <1>3, <1>4 DEF Validate
<1>6. \A w \in Workers : At(w, "idle")'
  BY <1>1, AllAtRest DEF At
<1>7. FromRecords' /\ OneSet'
  BY <1>1, <1>5, ReconciledRecords
<1>8. Logged(g)' = Logged(g) /\ AllCommitted(g)'
  BY <1>1, <1>3, <1>5, Reconciled, ReconciledSets
<1>9. Published'
  BY <1>1, <1>2, <1>5, <1>8 DEF IInv, Published
<1>. QED
  BY <1>1, <1>5, <1>6, <1>7, <1>9, HandlerAtRest, Reconciled, ReconciledSets DEF IInv, Types

\* A claim starts a new attempt on the records the node has; no file is from it.
LEMMA ClaimInv ==
  ASSUME IInv, NEW w \in Workers, ClaimExport(w)
  PROVE  IInv'
<1>. DEFINE k == node.attempt_count + 1
            row == ClaimedRow(node, w, 0)
            handler == [NotWorking EXCEPT !.pc = "check", !.attempt = row.attempt_count,
                                          !.generation = row.generation, !.input = row.input]
<1>1. Types /\ node \in ExportRow /\ node.status = "pending" /\ node.attempt_count < MaxClaims
  BY DEF ClaimExport, IInv, Types
<1>2. \A v \in Workers : At(v, "idle")
  BY <1>1, AllAtRest
<1>3. /\ row \in ExportRow /\ row.status = "running" /\ row.worker_id = w
      /\ row.attempt_count = k /\ row.lease_token = k
      /\ row.generation = node.generation /\ row.input = node.input
  BY <1>1, ExportRows
<1>4. /\ node.generation \in Generations /\ node.generation \in Nat /\ node.input \in Inputs
      /\ node.attempt_count \in Nat /\ k \in AttemptNos /\ k \in Nat /\ k > node.attempt_count
  BY <1>1, ExportRows DEF AttemptNos, Generations
<1>5. /\ node' = row /\ rendered' = [rendered EXCEPT ![k] = node.input]
      /\ worker' = [worker EXCEPT ![w] = handler]
      /\ UNCHANGED <<replaced, manifest, staging, disk, exported>>
  BY <1>3 DEF ClaimExport, files
<1>. HIDE DEF row
<1>6. /\ handler \in Handler /\ handler.pc = "check" /\ handler.attempt = k
      /\ handler.generation = node.generation /\ handler.input = node.input
  <2>1. node.input \subseteq Names
    BY <1>4 DEF Names
  <2>2. NotWorking \in Handler
    BY DEF NotWorking, Handler, Steps
  <2>3. row.attempt_count \in Nat /\ row.generation \in Nat /\ row.input \in SUBSET Names
    BY <1>3, <1>4, <2>1
  <2>. HIDE DEF k
  <2>4. /\ handler \in Handler /\ handler.pc = "check" /\ handler.attempt = row.attempt_count
        /\ handler.generation = row.generation /\ handler.input = row.input
    BY <2>2, <2>3 DEF Handler, Steps
  <2>. QED
    BY <1>3, <2>4
<1>. HIDE DEF handler
<1>7. worker' \in [Workers -> Handler] /\ worker'[w] = handler
        /\ \A v \in Workers : v # w => worker'[v] = worker[v]
  BY <1>1, <1>5, <1>6 DEF Types
<1>8. /\ rendered' \in [AttemptNos -> Inputs \cup {NoInput}] /\ rendered'[k] = node.input
      /\ \A j \in AttemptNos : j # k => rendered'[j] = rendered[j]
  BY <1>1, <1>4, <1>5 DEF Types
<1>. HIDE DEF k
<1>9. \A v \in Workers : PublicationInv(v)'
  <2>1. ASSUME NEW v \in Workers, v # w PROVE PublicationInv(v)'
    BY <1>2, <1>7, <2>1, HandlerAtRest DEF At
  <2>2. Engaged(w)'
    BY <1>3, <1>4, <1>5, <1>6, <1>7, <1>8 DEF Engaged
  <2>3. PublicationInv(w)'
    BY <2>2, <1>6, <1>7 DEF PublicationInv, Registered, Staged, Measured, Renamed, Finished, At
  <2>. QED
    BY <2>1, <2>3
<1>10. InputsOfSet' = InputsOfSet
  BY <1>3, <1>5 DEF InputsOfSet
<1>11. \A j \in Nat \ {0} : j <= node.attempt_count => j # k /\ rendered'[j] = rendered[j]
  <2>. SUFFICES ASSUME NEW j \in Nat \ {0}, j <= node.attempt_count
                PROVE  j # k /\ rendered'[j] = rendered[j]
    OBVIOUS
  <2>1. j \in AttemptNos /\ j # k
    BY <1>1, <1>4 DEF AttemptNos
  <2>. QED
    BY <2>1, <1>8
<1>13. FromRecords'
  <2>. SUFFICES ASSUME NEW g \in Generations, NEW n \in Names
                PROVE  /\ disk[g][n] <= k /\ staging[g][n] <= k
                       /\ g > node.generation =>
                            disk[g][n] = 0 /\ staging[g][n] = 0 /\ manifest[g][n].status = "none"
                       /\ g = node.generation =>
                            /\ disk[g][n] # 0 => RenderingOf(disk[g][n], n)'
                            /\ staging[g][n] # 0 => RenderingOf(staging[g][n], n)'
                            /\ manifest[g][n].status # "none" => \E i \in InputsOfSet' : n \in i
    BY <1>3, <1>5 DEF FromRecords, RenderingOf
  <2>1. disk[g][n] \in Nat /\ staging[g][n] \in Nat
    BY <1>1 DEF Types
  <2>2. disk[g][n] <= node.attempt_count /\ staging[g][n] <= node.attempt_count
    BY DEF IInv, FromRecords
  <2>. QED
    BY <1>4, <1>5, <1>10, <1>11, <2>1, <2>2 DEF IInv, FromRecords, RenderingOf
<1>14. OneSet'
  <2>1. ASSUME NEW j \in AttemptNos, RegisteredBy(j) PROVE RegisteredBy(j)'
    <3>1. j \in Nat \ {0} /\ j <= node.attempt_count
      BY <2>1 DEF AttemptNos, RegisteredBy
    <3>2. rendered'[j] = rendered[j] /\ j <= k
      BY <1>4, <1>11, <3>1
    <3>. QED
      BY <1>3, <1>5, <1>10, <2>1, <3>2 DEF RegisteredBy, Logged
  <2>2. Logged(node.generation)' = Logged(node.generation)
    BY <1>3, <1>5 DEF Logged
  <2>. QED
    BY <2>1, <2>2 DEF IInv, OneSet
<1>15. Published'
  BY <1>3, <1>5 DEF IInv, Published
<1>12. CommittedSetsComplete' /\ RequiredLogged'
  BY <1>5 DEF IInv, CommittedSetsComplete, RequiredLogged, RowIsValid, Logged
<1>. QED
  BY <1>1, <1>3, <1>5, <1>7, <1>8, <1>9, <1>12, <1>13, <1>14, <1>15 DEF IInv, Types

------------------------------------------------------------------------------
(* The invariant is inductive *)

LEMMA InitInv == Init => IInv
<1>. SUFFICES ASSUME Init PROVE IInv
  OBVIOUS
<1>1. PICK i \in Inputs : node = CreatedRow(i)
  BY DEF Init
<1>2. 1 \in Generations /\ 0 \in 0 .. MaxClaims
  BY DEF Generations
<1>3. node \in ExportRow /\ node.status = "pending" /\ node.generation = 1 /\ node.attempt_count = 0
  BY <1>1, <1>2 DEF CreatedRow, ExportRow, NodeStatus
<1>4. NotWorking \in Handler /\ NotWorking.pc = "idle" /\ NoRow \in ManifestRow /\ NoRow.status = "none"
  BY DEF NotWorking, Handler, Steps, NoRow, ManifestRow
<1>5. /\ rendered = [j \in AttemptNos |-> NoInput] /\ replaced = [g \in Generations |-> {}]
      /\ manifest = [g \in Generations |-> [n \in Names |-> NoRow]]
      /\ staging = [g \in Generations |-> [n \in Names |-> 0]]
      /\ disk = [g \in Generations |-> [n \in Names |-> 0]]
      /\ worker = [w \in Workers |-> NotWorking]
  BY DEF Init
<1>6. Types
  BY <1>3, <1>4, <1>5 DEF Types
<1>7. \A w \in Workers : PublicationInv(w)
  BY <1>4, <1>5 DEF PublicationInv, Engaged, Registered, Staged, Measured, Renamed, Finished, At
<1>8. \A g \in Generations, n \in Names :
        manifest[g][n].status = "none" /\ disk[g][n] = 0 /\ staging[g][n] = 0
  BY <1>4, <1>5
<1>9. \A g \in Generations : Logged(g) = {}
  BY <1>8 DEF Logged
<1>10. CommittedSetsComplete /\ RequiredLogged /\ FromRecords /\ OneSet /\ Published
  BY <1>2, <1>3, <1>5, <1>8, <1>9 DEF CommittedSetsComplete, RequiredLogged, FromRecords, OneSet, Published
<1>. QED
  BY <1>6, <1>7, <1>10 DEF IInv

LEMMA NextInv == IInv /\ [Next]_vars => IInv'
<1>. SUFFICES ASSUME IInv, [Next]_vars PROVE IInv'
  OBVIOUS
<1>1. ASSUME NEW w \in Workers,
             \/ ClaimExport(w) \/ CheckPublished(w) \/ Render(w) \/ Register(w)
             \/ Measure(w) \/ Persist(w) \/ Verify(w)
             \/ CommitExport(w) \/ FailExport(w) \/ Crash(w)
      PROVE  IInv'
  BY <1>1, ClaimInv, CheckInv, RenderInv, RegisterInv, MeasureInv, PersistInv, VerifyInv,
     CommitInv, FailInv, CrashInv
<1>2. ASSUME NEW w \in Workers, NEW n \in Names, Rename(w, n) PROVE IInv'
  BY <1>2, RenameInv
<1>3. CASE RecoverExport \/ PromoteExport \/ RetryExport \/ Validate
  BY <1>3, RecoverInv, PromoteInv, RetryInv, ValidateInv
<1>4. ASSUME NEW i \in Inputs, ChangeRecords(i) \/ ChangeRecordsAfterSuccess(i) PROVE IInv'
  BY <1>4, ChangeRecordsInv, NewRecordsInv
<1>5. CASE UNCHANGED vars
  <2>1. UNCHANGED <<node, rendered, replaced, manifest, staging, disk, exported, worker>>
    BY <1>5 DEF vars, records
  <2>2. Types'
    BY <2>1 DEF IInv, Types
  <2>3. \A w \in Workers : PublicationInv(w)'
    BY <2>1 DEF IInv, PublicationInv, Engaged, Registered, Staged, Measured, Renamed, Finished,
                AllCommitted, Logged, At
  <2>4. CommittedSetsComplete' /\ RequiredLogged' /\ Published'
    BY <2>1 DEF IInv, CommittedSetsComplete, RequiredLogged, Published, AllCommitted, Logged, RowIsValid
  <2>5. FromRecords' /\ OneSet'
    BY <2>1 DEF IInv, FromRecords, OneSet, RenderingOf, RegisteredBy, InputsOfSet, Logged
  <2>. QED
    BY <2>2, <2>3, <2>4, <2>5 DEF IInv
<1>. QED
  BY <1>1, <1>2, <1>3, <1>4, <1>5 DEF Next

LEMMA PublicationInvariant == Spec => []IInv
<1>1. Init => IInv
  BY InitInv
<1>2. IInv /\ [Next]_vars => IInv'
  BY NextInv
<1>. QED
  BY <1>1, <1>2, PTL DEF Spec

------------------------------------------------------------------------------
(* The theorems *)

\* A committed manifest describes the file on the disk: no crash between the
\* renames and the commit of ArtifactSetManager.publish leaves one that does not.
THEOREM CommittedSetsAreComplete == Spec => []CommittedSetsComplete
<1>1. IInv => CommittedSetsComplete
  BY DEF IInv
<1>. QED
  BY <1>1, PublicationInvariant, PTL

\* The export node succeeds only after its set is committed, with all the files
\* named in its output on the disk, in the required formats.
THEOREM SuccessIsPublication == Spec => []SuccessMeansPublished
<1>1. IInv => SuccessMeansPublished
  <2>. SUFFICES ASSUME IInv, node.status = "succeeded" PROVE SuccessMeansPublished
    BY DEF SuccessMeansPublished
  <2>1. node.generation \in Generations
    BY DEF IInv, Types, ExportRow
  <2>2. exported = Logged(node.generation) /\ exported # {} /\ AllCommitted(node.generation)
    BY DEF IInv, Published
  <2>3. Required \subseteq exported
    BY <2>1, <2>2 DEF IInv, RequiredLogged
  <2>4. \A n \in exported : /\ manifest[node.generation][n].status = "committed"
                            /\ RowIsValid(node.generation, n)
    BY <2>1, <2>2 DEF IInv, CommittedSetsComplete, AllCommitted, Logged
  <2>. QED
    BY <2>3, <2>4 DEF SuccessMeansPublished
<1>. QED
  BY <1>1, PublicationInvariant, PTL

\* An export that has succeeded holds one whole record set of the inputs that its
\* generation has had, whichever attempts rendered it, and nothing of other inputs.
\* It need not be the set of the input it has now: export_handler takes over a set
\* that it finds complete, whatever it was rendered from (recoverable.py:573).
THEOREM ExportsMatchRecords == Spec => []ExportIsOneRecordSet
<1>1. IInv => ExportIsOneRecordSet
  <2>. SUFFICES ASSUME IInv, node.status = "succeeded" PROVE ExportIsOneRecordSet
    BY DEF ExportIsOneRecordSet
  <2>. DEFINE g == node.generation
  <2>1. g \in Generations /\ Types
    BY DEF IInv, Types, ExportRow
  <2>2. exported = Logged(g) /\ exported # {}
    BY DEF IInv, Published
  <2>3. \A n \in exported : /\ n \in Names /\ disk[g][n] # 0
                            /\ disk[g][n] = manifest[g][n].sha256
    BY <2>1, <2>2 DEF IInv, Published, AllCommitted, CommittedSetsComplete, RowIsValid, Logged
  <2>4. \A n \in exported : \E i \in InputsOfSet : n \in i /\ RenderedFrom(n, i)
    BY <2>1, <2>3 DEF IInv, FromRecords, RenderingOf, RenderedFrom
  <2>5. PICK k \in AttemptNos : RegisteredBy(k)
    BY <2>2 DEF IInv, OneSet
  <2>6. rendered[k] \in InputsOfSet /\ rendered[k] \subseteq exported
    BY <2>2, <2>5 DEF RegisteredBy
  <2>7. \A n \in rendered[k] : RenderedFrom(n, rendered[k])
    BY <2>3, <2>5, <2>6 DEF RegisteredBy, RenderedFrom
  <2>. QED
    BY <2>4, <2>6, <2>7 DEF ExportIsOneRecordSet
<1>. QED
  BY <1>1, PublicationInvariant, PTL

\* Whatever a crash left of a set, its regeneration succeeds: no publication that
\* runs to its end fails, unless the records were replaced under it.
THEOREM RegenerationSucceeds == Spec => []RegenerationWorks
<1>1. IInv => RegenerationWorks
  BY DEF IInv, PublicationInv, Finished, RegenerationWorks
<1>. QED
  BY <1>1, PublicationInvariant, PTL

==============================================================================
