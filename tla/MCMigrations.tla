---------------------------- MODULE MCMigrations ----------------------------
(* Databases of three ages for TLC: no file at all, one from before the      *)
(* migrations, and ones of the original 0001, whose columns were NOT NULL    *)
(* DEFAULT 0 and whose query_attempts had no CHECK                           *)
(* (tests/test_db_migrations.py:199-276).                                    *)
EXTENDS Migrations

NoTable == [exists |-> FALSE, strict |-> TRUE, rows |-> {}, seq |-> 0]
NoResult == [exists |-> FALSE, column |-> FALSE, ix |-> FALSE, ux |-> FALSE]
OldResult == [NoResult EXCEPT !.exists = TRUE]

Fresh == [applied |-> {}, evidence |-> [t \in EvidenceTable |-> NoTable],
          results |-> [t \in ResultTable |-> NoResult]]
Unmigrated == [Fresh EXCEPT !.results = [t \in ResultTable |-> OldResult]]

\* A table of the original 0001, whose last row was deleted.
LegacyTable(rows) == [exists |-> TRUE, strict |-> FALSE, rows |-> rows, seq |-> Max(Ids(rows)) + 1]

Attempt(id, scope, status, result, relevant) ==
  [id |-> id, scope |-> scope, status |-> status, result |-> result, relevant |-> relevant]
Measure(id, scope, c) == [id |-> id, scope |-> scope, confidence |-> c]

\* Every status with every sign of the counts, next to a row that is kept.
LegacyAttempts ==
  {{Attempt(1, "legacy", status, result, relevant), Attempt(2, "legacy", "completed", 3, 1)} :
     status \in Statuses \cup {"mystery"}, result \in {-1, 0, 2}, relevant \in {-1, 0, 1}}

Legacy(attempts) ==
  [applied |-> {1},
   evidence |-> [field_evidence |-> LegacyTable({Measure(1, "legacy", 0), Measure(2, "legacy", 3)}),
                 query_attempts |-> LegacyTable(attempts),
                 match_evidence |-> LegacyTable({Measure(1, "legacy", 0), Measure(2, "legacy", 6),
                                                 Measure(3, "legacy", -1), Measure(5, "legacy", 4)})],
   results |-> [t \in ResultTable |-> OldResult]]

MCDatabases == {Fresh, Unmigrated} \cup {Legacy(attempts) : attempts \in LegacyAttempts}

\* What evaluate_prefetched_suppliers hands over; its counts of a partial query
\* are observed but not stored.  The legacy run is resumed after the upgrade.
MCPayloads ==
  {[scope |-> scope,
    attempts |-> {Attempt(0, scope, "completed", 2, 1), Attempt(0, scope, "partial", 2, 0)},
    matches |-> {Measure(0, scope, 3)}] : scope \in {"legacy", "new"}}
=============================================================================
