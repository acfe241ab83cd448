---------------------------- MODULE ArtifactSets ----------------------------
(* Crash-recoverable publication of the export of one run: the export node,   *)
(* its handler (src/pipeline/recoverable.py) and ArtifactSetManager           *)
(* (src/execution/artifacts.py), between artifact_manifests and the file      *)
(* system.  The files of one publication form a set that is identified by the *)
(* generation of the export node, artifact_set_id = run-<id>-export-g<n>.     *)
(*                                                                            *)
(* An input of the export node is the set of logical names its records are    *)
(* exported to: "excel", "json" and a "markdown:..." per record.  What is in  *)
(* a file is abstracted to the attempt that rendered it, 0 for no file: two   *)
(* renderings differ, as the exports carry the time they were made.           *)
(*                                                                            *)
(* A crash is that of a process: files renamed before it stay renamed.        *)
EXTENDS ExecutionRows

CONSTANTS
  Workers,          \* processes that execute the export node
  Required,         \* the logical names every export has
  MaxClaims,        \* bound: how often the node is claimed
  MaxGenerations    \* bound: how many generations the node has

ASSUME ArtifactsAssumption ==
  /\ Required # {} /\ \A i \in Inputs : Required \subseteq i
  /\ NoWorker \notin Workers
  /\ MaxClaims \in Nat /\ MaxGenerations \in Nat \ {0}

VARIABLES
  node,      \* the export node's row of execution_nodes
  rendered,  \* by attempt, the input it was claimed with
  replaced,  \* by generation, its inputs that were replaced before it succeeded
  manifest,  \* by generation and logical name, the rows of artifact_manifests
  staging,   \* by generation and logical name, the temporary file
  disk,      \* by generation and logical name, the final file
  exported,  \* the logical names in the node's output_snapshot
  worker     \* by worker, where its handler is

records == <<rendered, replaced>>
vars == <<node, records, manifest, staging, disk, exported, worker>>

Names == UNION Inputs
AttemptNos == 1 .. MaxClaims
Generations == 1 .. MaxGenerations

NoRow == [status |-> "none", sha256 |-> 0]
NotWorking == [pc |-> "idle", attempt |-> 0, generation |-> 0, input |-> {},
               measured |-> [n \in Names |-> 0], left |-> {}]

Init ==
  /\ \E i \in Inputs : node = CreatedRow(i)
  /\ rendered = [k \in AttemptNos |-> NoInput]
  /\ replaced = [g \in Generations |-> {}]
  /\ manifest = [g \in Generations |-> [n \in Names |-> NoRow]]
  /\ staging = [g \in Generations |-> [n \in Names |-> 0]]
  /\ disk = [g \in Generations |-> [n \in Names |-> 0]]
  /\ exported = {}
  /\ worker = [w \in Workers |-> NotWorking]

files == <<staging, disk>>

------------------------------------------------------------------------------
(* ArtifactSetManager.reconcile *)

Logged(g) == {n \in Names : manifest[g][n].status # "none"}

RowIsValid(g, n) ==
  manifest[g][n].sha256 # 0 /\ disk[g][n] = manifest[g][n].sha256

\* Mutant of SetIsValid: a set with some valid file is accepted.
SetIsValid_Some(g) == \E n \in Logged(g) : RowIsValid(g, n)

SetIsValid(g) == Logged(g) # {} /\ \A n \in Logged(g) : RowIsValid(g, n)

\* The set is committed as a whole or rejected as a whole.
Reconcile(g) ==
  manifest' = [manifest EXCEPT ![g] = [n \in Names |->
    IF n \in Logged(g)
    THEN [manifest[g][n] EXCEPT !.status =
            IF SetIsValid(g) THEN "committed" ELSE "invalid"]
    ELSE NoRow]]

------------------------------------------------------------------------------
(* The export handler, step by step *)

At(w, pc) == worker[w].pc = pc

Goto(w, pc) == worker' = [worker EXCEPT ![w].pc = pc]

ClaimExport(w) ==
  /\ At(w, "idle")
  /\ node.status = "pending" /\ node.attempt_count < MaxClaims
  /\ LET row == ClaimedRow(node, w, 0) IN
       /\ node' = row
       /\ rendered' = [rendered EXCEPT ![row.attempt_count] = row.input]
       /\ worker' = [worker EXCEPT ![w] =
            [NotWorking EXCEPT !.pc = "check", !.attempt = row.attempt_count,
                               !.generation = row.generation, !.input = row.input]]
  /\ UNCHANGED <<replaced, manifest, files, exported>>

\* A set that is complete on disk is taken over without rendering anything.
CheckPublished(w) ==
  /\ At(w, "check")
  /\ Reconcile(worker[w].generation)
  /\ Goto(w, IF SetIsValid(worker[w].generation) THEN "commit" ELSE "render")
  /\ UNCHANGED <<node, records, files, exported>>

Render(w) ==
  /\ At(w, "render")
  /\ staging' = [staging EXCEPT ![worker[w].generation] =
       [n \in Names |-> IF n \in worker[w].input THEN worker[w].attempt ELSE @[n]]]
  /\ Goto(w, "register")
  /\ UNCHANGED <<node, records, manifest, disk, exported>>

\* The first transaction of publish: the files of this set are being written,
\* rows of the set left over from earlier publications are not part of it.
Register(w) ==
  /\ At(w, "register")
  /\ manifest' = [manifest EXCEPT ![worker[w].generation] = [n \in Names |->
       IF n \in worker[w].input THEN [status |-> "writing", sha256 |-> 0]
       ELSE IF @[n].status # "none" THEN [@[n] EXCEPT !.status = "invalid"]
       ELSE @[n]]]
  /\ Goto(w, "measure")
  /\ UNCHANGED <<node, records, files, exported>>

\* Every temporary file is flushed to the disk and hashed; a missing one raises.
Measure(w) ==
  LET g == worker[w].generation IN
    /\ At(w, "measure")
    /\ IF \A n \in worker[w].input : staging[g][n] # 0
       THEN worker' = [worker EXCEPT ![w].measured = staging[g], ![w].pc = "persist"]
       ELSE Goto(w, "fail")
    /\ UNCHANGED <<node, records, manifest, files, exported>>

\* Mutant of Persist: the hashes are left for after the renames.
Persist_NoHashes(w) ==
  /\ At(w, "persist")
  /\ worker' = [worker EXCEPT ![w].left = worker[w].input, ![w].pc = "rename"]
  /\ UNCHANGED <<node, records, manifest, files, exported>>

\* The second transaction: the expected hashes, before anything is renamed.
\* A row that is no longer "writing" raises a KeyError.
Persist(w) ==
  LET g == worker[w].generation IN
    /\ At(w, "persist")
    /\ IF \A n \in worker[w].input : manifest[g][n].status = "writing"
       THEN /\ manifest' = [manifest EXCEPT ![g] = [n \in Names |->
                 IF n \in worker[w].input
                 THEN [@[n] EXCEPT !.sha256 = worker[w].measured[n]] ELSE @[n]]]
            /\ worker' = [worker EXCEPT ![w].left = worker[w].input, ![w].pc = "rename"]
       ELSE Goto(w, "fail") /\ UNCHANGED manifest
    /\ UNCHANGED <<node, records, files, exported>>

\* os.replace, one file after the other.
Rename(w, n) ==
  LET g == worker[w].generation IN
    /\ At(w, "rename") /\ n \in worker[w].left
    /\ IF staging[g][n] # 0
       THEN /\ disk' = [disk EXCEPT ![g][n] = staging[g][n]]
            /\ staging' = [staging EXCEPT ![g][n] = 0]
            /\ worker' = [worker EXCEPT ![w].left = @ \ {n}]
       ELSE Goto(w, "fail") /\ UNCHANGED files
    /\ UNCHANGED <<node, records, manifest, exported>>

\* Mutant of Verify: the set is taken to be in order.
Verify_Trusting(w) ==
  /\ At(w, "rename") /\ worker[w].left = {}
  /\ Goto(w, "commit")
  /\ UNCHANGED <<node, records, manifest, files, exported>>

\* publish ends with reconcile and raises when the set does not verify.
Verify(w) ==
  /\ At(w, "rename") /\ worker[w].left = {}
  /\ Reconcile(worker[w].generation)
  /\ Goto(w, IF SetIsValid(worker[w].generation) THEN "commit" ELSE "fail")
  /\ UNCHANGED <<node, records, files, exported>>

Owns(w) ==
  /\ node.status = "running"
  /\ node.generation = worker[w].generation
  /\ node.lease_token = worker[w].attempt

\* The node succeeds with the manifests of the set as its output; without the
\* lease nothing is written.
CommitExport(w) ==
  /\ At(w, "commit")
  /\ IF Owns(w)
     THEN node' = SucceededRow(node) /\ exported' = Logged(worker[w].generation)
     ELSE UNCHANGED <<node, exported>>
  /\ worker' = [worker EXCEPT ![w] = NotWorking]
  /\ UNCHANGED <<records, manifest, files>>

\* The errors above are neither transient nor human: classify_error makes them
\* permanent.
FailExport(w) ==
  /\ At(w, "fail")
  /\ node' = IF Owns(w) THEN FailedRow(node, "permanent", 0) ELSE node
  /\ worker' = [worker EXCEPT ![w] = NotWorking]
  /\ UNCHANGED <<records, manifest, files, exported>>

------------------------------------------------------------------------------
(* Crashes, recovery, and what operators and upstream stages do to the node *)

Crash(w) ==
  /\ ~At(w, "idle")
  /\ worker' = [worker EXCEPT ![w] = NotWorking]
  /\ UNCHANGED <<node, records, manifest, files, exported>>

\* The lease runs out once the worker's heartbeat has stopped; a process that is
\* suspended for longer than its lease and then goes on is left out.  The retry is
\* due at once.
RecoverExport ==
  /\ node.status = "running"
  /\ ~\E w \in Workers : ~At(w, "idle") /\ Owns(w)
  /\ node' = RecoveredRow(node, MaxAttempts, 0)
  /\ UNCHANGED <<records, manifest, files, exported, worker>>

PromoteExport ==
  /\ node.status = "retry_wait"
  /\ node' = PromotedRow(node)
  /\ UNCHANGED <<records, manifest, files, exported, worker>>

\* ensure_node with the records the filter stage selected now.
ChangeRecords(i) ==
  /\ InputReplaceable(node, i) /\ i # node.input
  /\ node' = ReplacedInputRow(node, i)
  /\ replaced' = [replaced EXCEPT ![node.generation] = @ \cup {node.input}]
  /\ UNCHANGED <<rendered, manifest, files, exported, worker>>

ChangeRecordsAfterSuccess(i) ==
  /\ InputInvalidates(node, i)
  /\ node.generation < MaxGenerations
  /\ node' = InputInvalidatedRow(node, i)
  /\ UNCHANGED <<records, manifest, files, exported, worker>>

RetryExport ==
  /\ node.status = "failed"
  /\ node' = ResetRow(node, "retry")
  /\ UNCHANGED <<records, manifest, files, exported, worker>>

\* The success validator of a resumed run: _artifact_result_valid.
Validate ==
  LET g == node.generation IN
    /\ node.status = "succeeded"
    /\ Reconcile(g)
    /\ node' = IF /\ SetIsValid(g)
                  /\ Required \subseteq Logged(g)
                  /\ Logged(g) = exported
               THEN node ELSE ResultInvalidatedRow(node)
    /\ node'.generation \in Generations
    /\ UNCHANGED <<records, files, exported, worker>>

Next ==
  \/ \E w \in Workers :
       \/ ClaimExport(w) \/ CheckPublished(w) \/ Render(w) \/ Register(w)
       \/ Measure(w) \/ Persist(w) \/ Verify(w)
       \/ CommitExport(w) \/ FailExport(w) \/ Crash(w)
  \/ \E w \in Workers, n \in Names : Rename(w, n)
  \/ RecoverExport \/ PromoteExport \/ RetryExport \/ Validate
  \/ \E i \in Inputs : ChangeRecords(i) \/ ChangeRecordsAfterSuccess(i)

Spec == Init /\ [][Next]_vars
------------------------------------------------------------------------------

\* A committed manifest describes the file on the disk, whatever crash came
\* between the renames and the commit, and whichever attempt renamed the file.
CommittedSetsComplete ==
  \A g \in Generations, n \in Names :
    manifest[g][n].status = "committed" => RowIsValid(g, n)

\* The export node succeeds only after its set is committed: every file named in
\* its output is on the disk, complete, and in the required formats.
SuccessMeansPublished ==
  node.status = "succeeded" =>
    /\ Required \subseteq exported
    /\ \A n \in exported : /\ manifest[node.generation][n].status = "committed"
                            /\ RowIsValid(node.generation, n)

\* The inputs that the present generation of the export node has had.
InputsOfSet == {node.input} \cup replaced[node.generation]

\* The file was rendered from input i.
RenderedFrom(n, i) == rendered[disk[node.generation][n]] = i

\* An export that has succeeded holds every file of one input, rendered from that
\* input by whichever attempts; that is the input of the node, or one it had
\* before in this generation, as the name of a set does not depend on its input
\* (recoverable.py:572) and a set found complete is taken over.  Files besides
\* these are from inputs of this generation too.  Where none was replaced, the
\* export is that of the node's records.
ExportIsOneRecordSet ==
  node.status = "succeeded" =>
    /\ \E i \in InputsOfSet : i \subseteq exported /\ \A n \in i : RenderedFrom(n, i)
    /\ \A n \in exported : \E i \in InputsOfSet : n \in i /\ RenderedFrom(n, i)

\* A set that a crash left incomplete is regenerated: no publication that runs to
\* its end fails, unless the records were replaced within its generation.
RegenerationWorks ==
  \A w \in Workers : At(w, "fail") => replaced[worker[w].generation] # {}
=============================================================================
