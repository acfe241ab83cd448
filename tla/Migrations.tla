----------------------------- MODULE Migrations -----------------------------
(* How a database of any age is brought to the current schema:               *)
(* db/init_db.py, db/migrate.py and the five modules of db/migrations, run   *)
(* by several processes that start at once (a job of the server, the command *)
(* line) and may end at any point, with the writer of the evidence tables,   *)
(* matchers/sourcing_slice.py, as the program that uses the result.          *)
(*                                                                           *)
(* Every migration is one transaction begun by BEGIN IMMEDIATE, so it is one *)
(* step, and a process that ends inside it leaves nothing behind.  The       *)
(* statements of create_all are not: pysqlite opens no transaction for DDL,  *)
(* and each is on disk when it returns.                                      *)
EXTENDS Integers, FiniteSets, FiniteSetsExt

CONSTANTS
  Process,        \* the processes that start
  ResultTable,    \* the tables that carry a result_key
  Databases,      \* the databases found: no file, or one of an old version
  Payloads,       \* what a run of the sourcing stage has to store
  Null,           \* SQL's NULL
  MaxStarts,      \* bound: how often a process is started
  MaxWrites       \* bound: how often the evidence of a product is written

ASSUME MigrationsAssumption == MaxStarts \in Nat /\ MaxWrites \in Nat

VARIABLES
  applied,   \* the rows of schema_migrations
  evidence,  \* field_evidence, query_attempts and match_evidence
  audit,     \* legacy_evidence_audit
  results,   \* the tables of ResultTable
  created,   \* what the other migrations have created
  process,   \* the processes: where each is and what it has read
  issued,    \* history: every id a row of an evidence table was ever given
  starts, writes  \* how much of the bounds is used up

vars == <<applied, evidence, audit, results, created, process, issued, starts, writes>>

MIGRATIONS == 1..5
EvidenceTable == {"field_evidence", "query_attempts", "match_evidence"}
Statuses == {"not_started", "completed", "failed", "partial"}

-----------------------------------------------------------------------------
(* Rows and constraints.  A confidence is counted in quarters.               *)

ConfidenceAllowed(c) == c # Null => c \in 0..4
CountAllowed(n) == n # Null => n >= 0

RowAllowed(table, row) ==
  IF table # "query_attempts" THEN ConfidenceAllowed(row.confidence)
  ELSE /\ row.status \in Statuses
       /\ CountAllowed(row.result) /\ CountAllowed(row.relevant)
       /\ IF row.status = "completed" THEN row.result # Null /\ row.relevant # Null
                                      ELSE row.result = Null /\ row.relevant = Null

\* A table of the current 0001; `strict` says that its CHECKs are the current
\* ones and its measurements may be NULL.
EmptyTable == [exists |-> TRUE, strict |-> TRUE, rows |-> {}, seq |-> 0]

CreatedIfAbsent(t) == IF evidence[t].exists THEN evidence[t] ELSE EmptyTable

Ids(rows) == {row.id : row \in rows}

\* A row of the original 0001: its measurements NOT NULL, a confidence within its
\* CHECK in one table of the two, any status and any counts.
OriginalRow(table, row) ==
  CASE table = "field_evidence" ->
         row \in [id : Nat, scope : STRING, confidence : 0..4]
    [] table = "query_attempts" ->
         row \in [id : Nat, scope : STRING, status : STRING, result : Int, relevant : Int]
    [] OTHER -> row \in [id : Nat, scope : STRING, confidence : Int]

\* What SQLite guarantees of a table that is found, and what the versions applied
\* to its database have made of it.
Found(db, t) ==
  LET table == db.evidence[t] IN
    /\ DOMAIN table = {"exists", "strict", "rows", "seq"}
    /\ table.seq \in Nat /\ \A row \in table.rows : row.id \in 1..table.seq
    /\ \/ table.exists
       \/ 1 \notin db.applied /\ table.strict /\ table.rows = {} /\ table.seq = 0
    /\ \/ table.strict
       \/ 2 \notin db.applied /\ \A row \in table.rows : OriginalRow(t, row)

ASSUME DatabasesAssumption ==
  /\ Null \notin Int
  /\ \A db \in Databases :
       /\ db.applied \subseteq MIGRATIONS
       /\ DOMAIN db.evidence = EvidenceTable /\ \A t \in EvidenceTable : Found(db, t)

\* The rows of a payload have no id of their own yet, but a place for it.
ASSUME PayloadsAssumption ==
  \A payload \in Payloads :
    /\ IsFiniteSet(payload.attempts) /\ IsFiniteSet(payload.matches)
    /\ \A row \in payload.attempts \cup payload.matches : "id" \in DOMAIN row

-----------------------------------------------------------------------------
(* 0002_repair_evidence_semantics.                                           *)

AuditEntry(table, row, field, value) ==
  [table |-> table, id |-> row.id, field |-> field, original |-> value]

RepairConfidence(row) == [row EXCEPT !.confidence = IF @ = 0 THEN Null ELSE @]
FieldEvidenceAudit(rows) ==
  {AuditEntry("field_evidence", row, "confidence", row.confidence) :
     row \in {r \in rows : r.confidence = 0}}

Counted(row) == row.status = "completed" /\ row.result > 0 /\ row.relevant > 0

\* With the counts repaired and the status kept.
RepairAttempt_Completed(row) ==
  [row EXCEPT !.result = IF Counted(row) THEN @ ELSE Null,
              !.relevant = IF Counted(row) THEN @ ELSE Null]

RepairAttempt(row) ==
  [row EXCEPT !.result = IF Counted(row) THEN @ ELSE Null,
              !.relevant = IF Counted(row) THEN @ ELSE Null,
              !.status = IF Counted(row) THEN "completed"
                         ELSE IF @ \in {"not_started", "failed", "partial"} THEN @ ELSE "partial"]

\* Only the counts that were replaced are audited, not the status.
AttemptAudit_Counts(rows) ==
  {AuditEntry("query_attempts", row, "result", row.result) : row \in {r \in rows : ~Counted(r)}}
  \cup {AuditEntry("query_attempts", row, "relevant", row.relevant) : row \in {r \in rows : ~Counted(r)}}

AttemptAudit(rows) ==
  {AuditEntry("query_attempts", row, "status", row.status) :
     row \in {r \in rows : \/ r.status \notin Statuses
                           \/ r.status = "completed" /\ (r.result <= 0 \/ r.relevant <= 0)}}
  \cup {AuditEntry("query_attempts", row, "result", row.result) : row \in {r \in rows : ~Counted(r)}}
  \cup {AuditEntry("query_attempts", row, "relevant", row.relevant) : row \in {r \in rows : ~Counted(r)}}

RepairMatch(row) == [row EXCEPT !.confidence = IF @ \in 0..4 THEN @ ELSE Null]
MatchAudit(rows) ==
  {AuditEntry("match_evidence", row, "confidence", row.confidence) :
     row \in {r \in rows : r.confidence < 0 \/ r.confidence > 4}}

Repaired(table, row) ==
  CASE table = "field_evidence" -> RepairConfidence(row)
    [] table = "query_attempts" -> RepairAttempt(row)
    [] OTHER                    -> RepairMatch(row)

Audited(table, rows) ==
  CASE table = "field_evidence" -> FieldEvidenceAudit(rows)
    [] table = "query_attempts" -> AttemptAudit(rows)
    [] OTHER                    -> MatchAudit(rows)

\* Mutant of HighWater: only the rows that are left count.
HighWater_Rows(old, rows) == Max({0} \cup Ids(rows))

\* AUTOINCREMENT's high-water mark, which goes with the table that is dropped,
\* is put back.
HighWater(old, rows) == Max({old.seq, 0} \cup Ids(rows))

\* The table rebuilt: its rows copied with their ids.
Rebuilt(t) ==
  LET rows == {Repaired(t, row) : row \in evidence[t].rows}
  IN  [exists |-> TRUE, strict |-> TRUE, rows |-> rows, seq |-> HighWater(evidence[t], rows)]

NeedsRepair(t) == ~evidence[t].strict

-----------------------------------------------------------------------------
(* The migrations.  Each says whether its statements succeed and what they   *)
(* leave; one that fails leaves nothing.                                     *)

V0001 ==
  /\ evidence' = [t \in EvidenceTable |-> CreatedIfAbsent(t)]
  /\ UNCHANGED <<audit, results, created>>

RepairPossible ==
  \A t \in EvidenceTable : NeedsRepair(t) => \A row \in Rebuilt(t).rows : RowAllowed(t, row)

V0002 ==
  /\ audit' = audit \cup UNION {Audited(t, evidence[t].rows) : t \in {u \in EvidenceTable : NeedsRepair(u)}}
  /\ evidence' = [t \in EvidenceTable |-> IF NeedsRepair(t) THEN Rebuilt(t) ELSE evidence[t]]
  /\ UNCHANGED <<results, created>>

V0003 ==
  /\ created' = created \cup {"sellersprite_imports"}
  /\ UNCHANGED <<evidence, audit, results>>

\* A table that is not there yet is passed over.
WithResultKey(table) ==
  IF table.exists THEN [table EXCEPT !.column = TRUE, !.ux = TRUE] ELSE table

V0004 ==
  /\ created' = created \cup {"execution_nodes", "execution_attempts",
                              "execution_operations", "artifact_manifests"}
  /\ results' = [t \in ResultTable |-> WithResultKey(results[t])]
  /\ UNCHANGED <<evidence, audit>>

V0005 ==
  /\ created' = created \cup {"seller_research_runs", "seller_research_items"}
  /\ UNCHANGED <<evidence, audit, results>>

Possible(v) == v = 2 => RepairPossible

Upgrade(v) ==
  CASE v = 1 -> V0001 [] v = 2 -> V0002 [] v = 3 -> V0003 [] v = 4 -> V0004 [] OTHER -> V0005

-----------------------------------------------------------------------------
(* Starting: create_all, then the migrations.                                *)

NoProcess == [pc |-> "down", pending |-> {}, index |-> {}, next |-> 1]
Idle == [p \in Process |-> NoProcess]

Init ==
  /\ \E db \in Databases :
       /\ applied = db.applied /\ evidence = db.evidence /\ results = db.results
       /\ issued = [t \in EvidenceTable |-> 0..db.evidence[t].seq \ {0}]
  /\ audit = {} /\ created = {} /\ process = Idle /\ starts = 0 /\ writes = 0

Goto(p, pc) == process' = [process EXCEPT ![p].pc = pc]

\* init_db: create_all looks for all its tables before it creates the first.
InitDb(p) ==
  /\ process[p].pc \in {"down", "failed", "ready"} /\ starts < MaxStarts
  /\ starts' = starts + 1
  /\ process' = [process EXCEPT ![p] =
       [NoProcess EXCEPT !.pc = "create_all",
                         !.pending = {t \in ResultTable : ~results[t].exists}]]
  /\ UNCHANGED <<applied, evidence, audit, results, created, issued, writes>>

\* The seller research command runs the migrations only.
RunMigrations(p) ==
  /\ process[p].pc \in {"down", "failed", "ready"} /\ starts < MaxStarts
  /\ starts' = starts + 1
  /\ process' = [process EXCEPT ![p] = [NoProcess EXCEPT !.pc = "migrate"]]
  /\ UNCHANGED <<applied, evidence, audit, results, created, issued, writes>>

NewResultTable == [exists |-> TRUE, column |-> TRUE, ix |-> FALSE, ux |-> FALSE]

CreateTable(p) ==
  /\ process[p].pc = "create_all" /\ process[p].index = {}
  /\ \E t \in process[p].pending :
       IF results[t].exists
         THEN Goto(p, "failed") /\ UNCHANGED results
         ELSE /\ results' = [results EXCEPT ![t] = NewResultTable]
              /\ process' = [process EXCEPT ![p].pending = @ \ {t}, ![p].index = {t}]
  /\ UNCHANGED <<applied, evidence, audit, created, issued, starts, writes>>

\* The unique index of the model, created after its table.
CreateIndex(p) ==
  /\ process[p].pc = "create_all"
  /\ \E t \in process[p].index : results' = [results EXCEPT ![t].ix = TRUE]
  /\ process' = [process EXCEPT ![p].index = {}]
  /\ UNCHANGED <<applied, evidence, audit, created, issued, starts, writes>>

CreatedAll(p) ==
  /\ process[p].pc = "create_all" /\ process[p].pending = {} /\ process[p].index = {}
  /\ Goto(p, "migrate")
  /\ UNCHANGED <<applied, evidence, audit, results, created, issued, starts, writes>>

\* One migration, unless it is applied already.
Apply(p) ==
  LET v == process[p].next IN
  /\ process[p].pc = "migrate" /\ v \in MIGRATIONS
  /\ IF v \in applied \/ Possible(v) THEN process' = [process EXCEPT ![p].next = @ + 1]
                                     ELSE Goto(p, "failed")
  /\ IF v \notin applied /\ Possible(v) THEN Upgrade(v) /\ applied' = applied \cup {v}
                                        ELSE UNCHANGED <<applied, evidence, audit, results, created>>
  /\ UNCHANGED <<issued, starts, writes>>

\* The write lock is not had within five seconds: another process has it.
Locked(p) ==
  /\ process[p].pc = "migrate"
  /\ \E q \in Process \ {p} : process[q].pc = "migrate"
  /\ Goto(p, "failed")
  /\ UNCHANGED <<applied, evidence, audit, results, created, issued, starts, writes>>

Migrated(p) ==
  /\ process[p].pc = "migrate" /\ process[p].next \notin MIGRATIONS
  /\ Goto(p, "ready")
  /\ UNCHANGED <<applied, evidence, audit, results, created, issued, starts, writes>>

Crash(p) ==
  /\ process[p].pc \in {"create_all", "migrate", "ready"}
  /\ process' = [process EXCEPT ![p] = NoProcess]
  /\ UNCHANGED <<applied, evidence, audit, results, created, issued, starts, writes>>

-----------------------------------------------------------------------------
(* The program at work: _persist_serialized_on_connection, which replaces    *)
(* the evidence of one product of a run in one transaction.                  *)

\* The rows get the next ids, in any order.
Numbered(rows, seq) ==
  {number \in [rows -> (seq + 1)..(seq + Cardinality(rows))] :
     \A r, s \in rows : number[r] = number[s] => r = s}

StoredAttempt(a) == [a EXCEPT !.result = IF a.status = "completed" THEN @ ELSE Null,
                              !.relevant = IF a.status = "completed" THEN @ ELSE Null]

Entry(payload, t) == IF t = "query_attempts" THEN {StoredAttempt(a) : a \in payload.attempts}
                                             ELSE payload.matches

Stored(t, scope, rows, number) ==
  LET kept == {row \in evidence[t].rows : row.scope # scope}
      new == {[row EXCEPT !.id = number[row]] : row \in rows}
  IN  [evidence[t] EXCEPT !.rows = kept \cup new, !.seq = @ + Cardinality(rows)]

PersistEvidence(p) ==
  /\ process[p].pc = "ready" /\ writes < MaxWrites /\ writes' = writes + 1
  /\ \E payload \in Payloads :
       LET attempts == Entry(payload, "query_attempts")
           matches == Entry(payload, "match_evidence")
       IN  IF \A t \in {"query_attempts", "match_evidence"} :
                \A row \in Entry(payload, t) : RowAllowed(t, row)
           THEN \E n \in Numbered(attempts, evidence["query_attempts"].seq),
                   k \in Numbered(matches, evidence["match_evidence"].seq) :
                  /\ evidence' = [evidence EXCEPT
                       !["query_attempts"] = Stored("query_attempts", payload.scope, attempts, n),
                       !["match_evidence"] = Stored("match_evidence", payload.scope, matches, k)]
                  /\ issued' = [issued EXCEPT !["query_attempts"] = @ \cup {n[r] : r \in attempts},
                                              !["match_evidence"] = @ \cup {k[r] : r \in matches}]
           ELSE UNCHANGED <<evidence, issued>>
  /\ UNCHANGED <<applied, audit, results, created, process, starts>>

Next ==
  \E p \in Process :
    \/ InitDb(p) \/ RunMigrations(p)
    \/ CreateTable(p) \/ CreateIndex(p) \/ CreatedAll(p)
    \/ Apply(p) \/ Locked(p) \/ Migrated(p) \/ Crash(p)
    \/ PersistEvidence(p)

Spec == Init /\ [][Next]_vars

-----------------------------------------------------------------------------
(* Properties.                                                               *)

\* No database a person can bring is refused by a migration: the repair of any
\* row the original 0001 could hold satisfies the constraints of the new table,
\* so the transaction is not rolled back at every start for ever.
RepairIsPossible ==
  \A p \in Process : process[p].pc = "migrate" /\ process[p].next = 2 => RepairPossible

\* History is not rewritten unseen: when a migration is applied, every row is
\* still there under its id, and each value that differs is in the audit as it
\* was (tests/test_db_migrations.py, "repaired without losing history").
RepairsAreAudited ==
  [][applied' # applied =>
       \A t \in EvidenceTable : \A row \in evidence[t].rows :
         \E new \in evidence'[t].rows :
           /\ DOMAIN new = DOMAIN row
           /\ \A f \in DOMAIN row :
                new[f] = row[f] \/ AuditEntry(t, row, f, row[f]) \in audit']_vars

\* An id is given to one row only, ever: what the audit and exported reports
\* cite by id is not another query's row after the rebuild or after a re-run of
\* the product has deleted and inserted its rows.
IdsAreNeverReused ==
  [][writes' # writes =>
       \A t \in EvidenceTable : \A row \in evidence'[t].rows :
         row \in evidence[t].rows \/ row.id \notin issued[t]]_vars
=============================================================================
