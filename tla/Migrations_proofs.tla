-------------------------- MODULE Migrations_proofs --------------------------
(* Proofs about Migrations, for any databases that the assumptions of the     *)
(* module admit, and any number of processes and starts: no row of the        *)
(* original tables is beyond repair, what the repair changes is in the audit, *)
(* and no id is given out twice.                                              *)
EXTENDS Migrations, FiniteSetTheorems, TLAPS

(* The inductive invariant *)

\* Ids are below the high-water mark; a table that is not there has none.
IsTable(t) ==
  /\ DOMAIN evidence[t] = {"exists", "strict", "rows", "seq"}
  /\ evidence[t].seq \in Nat
  /\ \A row \in evidence[t].rows : row.id \in 1..evidence[t].seq
  /\ evidence[t].exists \/ (1 \notin applied /\ evidence[t].rows = {} /\ evidence[t].seq = 0)

TablesInv == DOMAIN evidence = EvidenceTable /\ \A t \in EvidenceTable : IsTable(t)

\* A table still in its original form is as the original program left it, since
\* nobody writes evidence before the second migration is applied.
OriginalInv ==
  \A t \in EvidenceTable :
    NeedsRepair(t) => 2 \notin applied /\ \A row \in evidence[t].rows : OriginalRow(t, row)

IsProcess(p) ==
  /\ DOMAIN process[p] = {"pc", "pending", "index", "next"}
  /\ process[p].next \in 1..6
  /\ process[p].pc = "create_all" => process[p].next = 1
  /\ process[p].pc = "migrate" => 1..(process[p].next - 1) \subseteq applied
  /\ process[p].pc = "ready" => MIGRATIONS \subseteq applied

ProcessInv == DOMAIN process = Process /\ \A p \in Process : IsProcess(p)

IssuedInv ==
  DOMAIN issued = EvidenceTable /\ \A t \in EvidenceTable : issued[t] \subseteq 1..evidence[t].seq

IInv == TablesInv /\ OriginalInv /\ ProcessInv /\ IssuedInv

-----------------------------------------------------------------------------
(* The repair of one row *)

\* What makes the change of a row an honest one: the same columns, and the value
\* that was there is audited wherever it is replaced.
Honest(t, row, new, entries) ==
  /\ DOMAIN new = DOMAIN row
  /\ \A f \in DOMAIN row : new[f] = row[f] \/ AuditEntry(t, row, f, row[f]) \in entries

LEMMA RepairedConfidence ==
  ASSUME NEW rows, NEW row \in rows, OriginalRow("field_evidence", row)
  PROVE  /\ RowAllowed("field_evidence", RepairConfidence(row))
         /\ RepairConfidence(row).id = row.id
         /\ Honest("field_evidence", row, RepairConfidence(row), FieldEvidenceAudit(rows))
<1>1. row \in [id : Nat, scope : STRING, confidence : 0..4]
  BY DEF OriginalRow
<1>2. PICK c : c = IF row.confidence = 0 THEN Null ELSE row.confidence
  OBVIOUS
<1>3. PICK new : new = [row EXCEPT !.confidence = c]
  OBVIOUS
<1>4. new = RepairConfidence(row)
  BY <1>2, <1>3 DEF RepairConfidence
<1>5. /\ DOMAIN new = DOMAIN row /\ DOMAIN row = {"id", "scope", "confidence"}
      /\ new.id = row.id /\ new.scope = row.scope /\ new.confidence = c
  BY <1>1, <1>3
<1>6. row.confidence # 0 => c = row.confidence
  BY <1>2
<1>7. row.confidence = 0 =>
        AuditEntry("field_evidence", row, "confidence", row.confidence) \in FieldEvidenceAudit(rows)
  BY DEF FieldEvidenceAudit
<1>8. Honest("field_evidence", row, new, FieldEvidenceAudit(rows))
  BY <1>5, <1>6, <1>7 DEF Honest
<1>9. RowAllowed("field_evidence", new)
  BY <1>1, <1>2, <1>5 DEF RowAllowed, ConfidenceAllowed
<1> QED BY <1>4, <1>5, <1>8, <1>9

LEMMA RepairedMatch ==
  ASSUME NEW rows, NEW row \in rows, OriginalRow("match_evidence", row)
  PROVE  /\ RowAllowed("match_evidence", RepairMatch(row))
         /\ RepairMatch(row).id = row.id
         /\ Honest("match_evidence", row, RepairMatch(row), MatchAudit(rows))
<1>1. row \in [id : Nat, scope : STRING, confidence : Int]
  BY DEF OriginalRow
<1>2. PICK c : c = IF row.confidence \in 0..4 THEN row.confidence ELSE Null
  OBVIOUS
<1>3. PICK new : new = [row EXCEPT !.confidence = c]
  OBVIOUS
<1>4. new = RepairMatch(row)
  BY <1>2, <1>3 DEF RepairMatch
<1>5. /\ DOMAIN new = DOMAIN row /\ DOMAIN row = {"id", "scope", "confidence"}
      /\ new.id = row.id /\ new.scope = row.scope /\ new.confidence = c
  BY <1>1, <1>3
<1>6. row.confidence \in 0..4 => c = row.confidence
  BY <1>2
<1>7. row.confidence \notin 0..4 =>
        AuditEntry("match_evidence", row, "confidence", row.confidence) \in MatchAudit(rows)
  <2> SUFFICES ASSUME row.confidence \notin 0..4
               PROVE  AuditEntry("match_evidence", row, "confidence", row.confidence)
                        \in MatchAudit(rows)
    OBVIOUS
  <2>1. row.confidence < 0 \/ row.confidence > 4
    BY <1>1
  <2> QED BY <2>1 DEF MatchAudit
<1>8. Honest("match_evidence", row, new, MatchAudit(rows))
  BY <1>5, <1>6, <1>7 DEF Honest
<1>9. RowAllowed("match_evidence", new)
  BY <1>2, <1>5 DEF RowAllowed, ConfidenceAllowed
<1> QED BY <1>4, <1>5, <1>8, <1>9

LEMMA RepairedAttempt ==
  ASSUME NEW rows, NEW row \in rows, OriginalRow("query_attempts", row)
  PROVE  /\ RowAllowed("query_attempts", RepairAttempt(row))
         /\ RepairAttempt(row).id = row.id
         /\ Honest("query_attempts", row, RepairAttempt(row), AttemptAudit(rows))
<1>1. row \in [id : Nat, scope : STRING, status : STRING, result : Int, relevant : Int]
  BY DEF OriginalRow
<1>2. PICK result, relevant, status :
        /\ result = IF Counted(row) THEN row.result ELSE Null
        /\ relevant = IF Counted(row) THEN row.relevant ELSE Null
        /\ status = IF Counted(row) THEN "completed"
                    ELSE IF row.status \in {"not_started", "failed", "partial"} THEN row.status
                    ELSE "partial"
  OBVIOUS
<1>3. PICK new : new = [row EXCEPT !.result = result, !.relevant = relevant, !.status = status]
  OBVIOUS
<1>4. new = RepairAttempt(row)
  BY <1>2, <1>3 DEF RepairAttempt
<1>5. /\ DOMAIN new = DOMAIN row
      /\ DOMAIN row = {"id", "scope", "status", "result", "relevant"}
      /\ new.id = row.id /\ new.scope = row.scope
      /\ new.result = result /\ new.relevant = relevant /\ new.status = status
  BY <1>1, <1>3
<1>6. Counted(row) => result = row.result /\ relevant = row.relevant /\ status = row.status
  BY <1>2 DEF Counted
<1>7. ~Counted(row) =>
        /\ AuditEntry("query_attempts", row, "result", row.result) \in AttemptAudit(rows)
        /\ AuditEntry("query_attempts", row, "relevant", row.relevant) \in AttemptAudit(rows)
  BY DEF AttemptAudit
<1>8. ~Counted(row) /\ status # row.status =>
        AuditEntry("query_attempts", row, "status", row.status) \in AttemptAudit(rows)
  <2> SUFFICES ASSUME ~Counted(row), status # row.status
               PROVE  AuditEntry("query_attempts", row, "status", row.status) \in AttemptAudit(rows)
    OBVIOUS
  <2>1. \/ row.status \notin Statuses
        \/ row.status = "completed" /\ (row.result <= 0 \/ row.relevant <= 0)
    BY <1>1, <1>2 DEF Counted, Statuses
  <2> QED BY <2>1 DEF AttemptAudit
<1>9. Honest("query_attempts", row, new, AttemptAudit(rows))
  BY <1>5, <1>6, <1>7, <1>8 DEF Honest
<1>10. RowAllowed("query_attempts", new)
  <2>1. CASE Counted(row)
    BY <1>1, <1>2, <1>5, <2>1, DatabasesAssumption
       DEF RowAllowed, CountAllowed, Counted, Statuses
  <2>2. CASE ~Counted(row)
    BY <1>2, <1>5, <2>2 DEF RowAllowed, CountAllowed, Statuses
  <2> QED BY <2>1, <2>2
<1> QED BY <1>4, <1>5, <1>9, <1>10

\* The repair of an original row is allowed, keeps its id and is honest.
LEMMA RepairedRow ==
  ASSUME NEW t \in EvidenceTable, NEW rows, NEW row \in rows, OriginalRow(t, row)
  PROVE  /\ RowAllowed(t, Repaired(t, row))
         /\ Repaired(t, row).id = row.id
         /\ Honest(t, row, Repaired(t, row), Audited(t, rows))
  BY RepairedConfidence, RepairedMatch, RepairedAttempt DEF Repaired, Audited, EvidenceTable

\* Nothing but rows below the mark: the rebuilt table keeps it.
LEMMA HighWaterKept ==
  ASSUME NEW old, old.seq \in Nat, NEW rows, \A row \in rows : row.id \in 1..old.seq
  PROVE  HighWater(old, rows) = old.seq
<1> DEFINE S == {old.seq, 0} \cup Ids(rows)
<1>1. \A x \in S : x \in Int /\ old.seq >= x
  BY DEF Ids
<1>2. old.seq \in S
  OBVIOUS
<1>3. Max(S) \in S /\ \A y \in S : Max(S) >= y
  BY <1>1, <1>2 DEF Max
<1>4. Max(S) = old.seq
  BY <1>1, <1>2, <1>3
<1> QED BY <1>4 DEF HighWater

-----------------------------------------------------------------------------
(* A migration *)

\* What a migration that succeeds has to show for one table.
Upgraded(t) ==
  /\ IsTable(t)'
  /\ NeedsRepair(t)' => 2 \notin applied' /\ \A row \in evidence'[t].rows : OriginalRow(t, row)
  /\ evidence'[t].seq = evidence[t].seq
  /\ \A row \in evidence[t].rows :
       \E new \in evidence'[t].rows : Honest(t, row, new, audit')

\* A row that stays as it is.
LEMMA SameRow ==
  ASSUME NEW t, NEW row, NEW entries
  PROVE  Honest(t, row, row, entries)
  BY DEF Honest

LEMMA TableKept ==
  ASSUME IInv, NEW t \in EvidenceTable, NEW v, v = 1 => evidence[t].exists,
         v = 2 => ~NeedsRepair(t),
         applied' = applied \cup {v}, evidence'[t] = evidence[t]
  PROVE  Upgraded(t)
<1>1. IsTable(t) /\ (NeedsRepair(t) => 2 \notin applied
                       /\ \A row \in evidence[t].rows : OriginalRow(t, row))
  BY DEF IInv, TablesInv, OriginalInv
<1>2. IsTable(t)'
  BY <1>1 DEF IsTable
<1>3. NeedsRepair(t)' => 2 \notin applied' /\ \A row \in evidence'[t].rows : OriginalRow(t, row)
  BY <1>1 DEF NeedsRepair
<1>4. \A row \in evidence[t].rows : Honest(t, row, row, audit')
  BY SameRow
<1> QED BY <1>2, <1>3, <1>4 DEF Upgraded

LEMMA TableCreated ==
  ASSUME IInv, NEW t \in EvidenceTable, ~evidence[t].exists, evidence'[t] = EmptyTable
  PROVE  Upgraded(t)
<1>1. evidence[t].rows = {} /\ evidence[t].seq = 0
  BY DEF IInv, TablesInv, IsTable
<1>2. PICK table : table = EmptyTable
  OBVIOUS
<1>3. /\ DOMAIN table = {"exists", "strict", "rows", "seq"}
      /\ table.exists /\ table.strict /\ table.rows = {} /\ table.seq = 0
  BY <1>2 DEF EmptyTable
<1>4. IsTable(t)'
  BY <1>2, <1>3 DEF IsTable
<1>5. ~NeedsRepair(t)'
  BY <1>2, <1>3 DEF NeedsRepair
<1> QED BY <1>1, <1>2, <1>3, <1>4, <1>5 DEF Upgraded

LEMMA TableRebuilt ==
  ASSUME IInv, NEW t \in EvidenceTable, NeedsRepair(t), evidence'[t] = Rebuilt(t),
         Audited(t, evidence[t].rows) \subseteq audit'
  PROVE  Upgraded(t)
<1>1. PICK old, rows : old = evidence[t] /\ rows = {Repaired(t, row) : row \in old.rows}
  OBVIOUS
<1>2. /\ old.seq \in Nat
      /\ \A row \in old.rows : row.id \in 1..old.seq /\ OriginalRow(t, row)
  BY <1>1 DEF IInv, TablesInv, OriginalInv, IsTable
<1>3. \A row \in old.rows :
        /\ Repaired(t, row).id = row.id
        /\ Honest(t, row, Repaired(t, row), Audited(t, old.rows))
  BY <1>2, RepairedRow
<1>4. HighWater(old, rows) = old.seq
  <2>1. \A row \in rows : row.id \in 1..old.seq
    BY <1>1, <1>2, <1>3
  <2> QED BY <1>2, <2>1, HighWaterKept
<1>5. PICK table : table = [exists |-> TRUE, strict |-> TRUE, rows |-> rows, seq |-> old.seq]
  OBVIOUS
<1>6. evidence'[t] = table
  BY <1>1, <1>4, <1>5 DEF Rebuilt
<1>7. /\ DOMAIN table = {"exists", "strict", "rows", "seq"}
      /\ table.exists /\ table.strict /\ table.rows = rows /\ table.seq = old.seq
  BY <1>5
<1>8. IsTable(t)'
  BY <1>1, <1>2, <1>3, <1>6, <1>7 DEF IsTable
<1>9. ~NeedsRepair(t)'
  BY <1>6, <1>7 DEF NeedsRepair
<1>10. \A row \in old.rows : Honest(t, row, Repaired(t, row), audit')
  BY <1>1, <1>3 DEF Honest
<1>11. \A row \in evidence[t].rows :
         \E new \in evidence'[t].rows : Honest(t, row, new, audit')
  BY <1>1, <1>6, <1>7, <1>10
<1> QED BY <1>1, <1>6, <1>7, <1>8, <1>9, <1>11 DEF Upgraded

LEMMA UpgradeStep ==
  ASSUME IInv, NEW v \in MIGRATIONS, v \notin applied, Upgrade(v), applied' = applied \cup {v}
  PROVE  DOMAIN evidence' = EvidenceTable /\ \A t \in EvidenceTable : Upgraded(t)
<1>1. CASE v = 1
  <2>1. evidence' = [t \in EvidenceTable |-> CreatedIfAbsent(t)]
    BY <1>1 DEF Upgrade, V0001
  <2>2. ASSUME NEW t \in EvidenceTable PROVE Upgraded(t)
    <3>1. CASE evidence[t].exists
      BY <1>1, <2>1, <3>1, TableKept DEF CreatedIfAbsent
    <3>2. CASE ~evidence[t].exists
      BY <2>1, <3>2, TableCreated DEF CreatedIfAbsent
    <3> QED BY <3>1, <3>2
  <2> QED BY <2>1, <2>2
<1>2. CASE v = 2
  <2>1. /\ evidence' = [t \in EvidenceTable |-> IF NeedsRepair(t) THEN Rebuilt(t) ELSE evidence[t]]
        /\ audit' = audit \cup UNION {Audited(t, evidence[t].rows) :
                                        t \in {u \in EvidenceTable : NeedsRepair(u)}}
    BY <1>2 DEF Upgrade, V0002
  <2>2. ASSUME NEW t \in EvidenceTable PROVE Upgraded(t)
    <3>1. CASE NeedsRepair(t)
      <4>1. Audited(t, evidence[t].rows) \subseteq audit'
        BY <2>1, <3>1
      <4> QED BY <2>1, <3>1, <4>1, TableRebuilt
    <3>2. CASE ~NeedsRepair(t)
      BY <1>2, <2>1, <3>2, TableKept
    <3> QED BY <3>1, <3>2
  <2> QED BY <2>1, <2>2
<1>3. CASE v \in 3..5
  <2>1. evidence' = evidence
    BY <1>3 DEF Upgrade, V0003, V0004, V0005
  <2>2. ASSUME NEW t \in EvidenceTable PROVE Upgraded(t)
    BY <1>3, <2>1, TableKept
  <2> QED BY <2>1, <2>2 DEF IInv, TablesInv
<1> QED BY <1>1, <1>2, <1>3 DEF MIGRATIONS

-----------------------------------------------------------------------------
(* The steps of a process *)

LEMMA ProcessMoves ==
  ASSUME ProcessInv, NEW p \in Process, NEW r, process' = [process EXCEPT ![p] = r],
         applied \subseteq applied',
         DOMAIN r = {"pc", "pending", "index", "next"}, r.next \in 1..6,
         r.pc = "create_all" => r.next = 1,
         r.pc = "migrate" => 1..(r.next - 1) \subseteq applied',
         r.pc = "ready" => MIGRATIONS \subseteq applied'
  PROVE  ProcessInv'
<1>1. /\ DOMAIN process' = Process /\ process'[p] = r
      /\ \A q \in Process : q # p => process'[q] = process[q]
  BY DEF ProcessInv
<1>2. ASSUME NEW q \in Process, q # p PROVE IsProcess(q)'
  BY <1>1, <1>2 DEF ProcessInv, IsProcess
<1>3. IsProcess(p)'
  BY <1>1 DEF IsProcess
<1> QED BY <1>1, <1>2, <1>3 DEF ProcessInv

\* Everything but what a process does on its own.
Rest == <<applied, evidence, issued>>

LEMMA RestKept ==
  ASSUME IInv, UNCHANGED Rest, ProcessInv'
  PROVE  IInv'
<1>1. TablesInv'
  BY DEF IInv, TablesInv, IsTable, Rest
<1>2. OriginalInv'
  BY DEF IInv, OriginalInv, NeedsRepair, Rest
<1>3. IssuedInv'
  BY DEF IInv, IssuedInv, Rest
<1> QED BY <1>1, <1>2, <1>3 DEF IInv

LEMMA GotoStep ==
  ASSUME IInv, UNCHANGED Rest, NEW p \in Process, NEW pc, Goto(p, pc),
         pc = "failed" \/ (pc = "migrate" /\ process[p].next = 1)
           \/ (pc = "ready" /\ process[p].pc = "migrate" /\ process[p].next \notin MIGRATIONS)
  PROVE  IInv'
<1>1. IsProcess(p) /\ ProcessInv
  BY DEF IInv, ProcessInv
<1>2. PICK old, r : old = process[p] /\ r = [old EXCEPT !.pc = pc]
  OBVIOUS
<1>3. process' = [process EXCEPT ![p] = r]
  BY <1>2 DEF Goto
<1>4. /\ DOMAIN r = {"pc", "pending", "index", "next"} /\ r.next = old.next /\ r.pc = pc
      /\ r.next \in 1..6
  BY <1>1, <1>2 DEF IsProcess
<1>5. pc = "migrate" => 1..(r.next - 1) \subseteq applied'
  BY <1>2, <1>4
<1>6. pc = "ready" => MIGRATIONS \subseteq applied'
  <2> SUFFICES ASSUME pc = "ready" PROVE MIGRATIONS \subseteq applied'
    OBVIOUS
  <2>1. old.next = 6
    BY <1>2, <1>4 DEF MIGRATIONS
  <2>2. 1..(old.next - 1) \subseteq applied
    BY <1>1, <1>2 DEF IsProcess
  <2> QED BY <2>1, <2>2 DEF MIGRATIONS, Rest
<1>7. applied \subseteq applied'
  BY DEF Rest
<1>8. ProcessInv'
  BY <1>1, <1>3, <1>4, <1>5, <1>6, <1>7, ProcessMoves
<1> QED BY <1>8, RestKept

\* A process that starts, ends, or creates the tables of the models.
LEMMA StartStep ==
  ASSUME IInv, NEW p \in Process,
         InitDb(p) \/ RunMigrations(p) \/ CreateTable(p) \/ CreateIndex(p) \/ Crash(p)
  PROVE  IInv'
<1>1. UNCHANGED Rest /\ IsProcess(p) /\ ProcessInv
  BY DEF InitDb, RunMigrations, CreateTable, CreateIndex, Crash, Rest, IInv, ProcessInv
<1>2. PICK old, base : old = process[p] /\ base = NoProcess
  OBVIOUS
<1>3. /\ DOMAIN base = {"pc", "pending", "index", "next"} /\ base.next = 1 /\ base.pc = "down"
      /\ DOMAIN old = {"pc", "pending", "index", "next"}
      /\ old.pc = "create_all" => old.next = 1
  BY <1>1, <1>2 DEF NoProcess, IsProcess
<1>4. ASSUME NEW r, process' = [process EXCEPT ![p] = r],
             DOMAIN r = {"pc", "pending", "index", "next"}, r.next = 1, r.pc # "ready"
      PROVE  IInv'
  <2>1. 1..(r.next - 1) \subseteq applied' /\ r.next \in 1..6 /\ applied \subseteq applied'
    BY <1>1, <1>4 DEF Rest
  <2>2. ProcessInv'
    BY <1>1, <1>4, <2>1, ProcessMoves
  <2> QED BY <1>1, <2>2, RestKept
<1>5. CASE InitDb(p)
  <2>1. PICK pending : pending = {t \in ResultTable : ~results[t].exists}
    OBVIOUS
  <2>2. PICK r : r = [base EXCEPT !.pc = "create_all", !.pending = pending]
    OBVIOUS
  <2>3. process' = [process EXCEPT ![p] = r]
    BY <1>2, <1>5, <2>1, <2>2 DEF InitDb
  <2>4. /\ DOMAIN r = {"pc", "pending", "index", "next"} /\ r.next = 1 /\ r.pc = "create_all"
    BY <1>3, <2>2
  <2> QED BY <1>4, <2>3, <2>4
<1>6. CASE RunMigrations(p)
  <2>1. PICK r : r = [base EXCEPT !.pc = "migrate"]
    OBVIOUS
  <2>2. process' = [process EXCEPT ![p] = r]
    BY <1>2, <1>6, <2>1 DEF RunMigrations
  <2>3. /\ DOMAIN r = {"pc", "pending", "index", "next"} /\ r.next = 1 /\ r.pc = "migrate"
    BY <1>3, <2>1
  <2> QED BY <1>4, <2>2, <2>3
<1>7. CASE Crash(p)
  BY <1>2, <1>3, <1>4, <1>7 DEF Crash
<1>8. CASE CreateTable(p)
  <2>1. CASE Goto(p, "failed")
    BY <1>1, <2>1, GotoStep
  <2>2. CASE ~Goto(p, "failed")
    <3>1. PICK t : process' = [process EXCEPT ![p].pending = @ \ {t}, ![p].index = {t}]
      BY <1>8, <2>2 DEF CreateTable
    <3>2. PICK r : r = [old EXCEPT !.pending = @ \ {t}, !.index = {t}]
      OBVIOUS
    <3>3. process' = [process EXCEPT ![p] = r]
      BY <1>1, <1>2, <3>1, <3>2 DEF ProcessInv
    <3>4. old.pc = "create_all"
      BY <1>2, <1>8 DEF CreateTable
    <3>5. /\ DOMAIN r = {"pc", "pending", "index", "next"} /\ r.next = 1 /\ r.pc = "create_all"
      BY <1>3, <3>2, <3>4
    <3> QED BY <1>4, <3>3, <3>5
  <2> QED BY <2>1, <2>2
<1>9. CASE CreateIndex(p)
  <2>1. PICK r : r = [old EXCEPT !.index = {}]
    OBVIOUS
  <2>2. process' = [process EXCEPT ![p] = r]
    BY <1>2, <1>9, <2>1 DEF CreateIndex
  <2>3. old.pc = "create_all"
    BY <1>2, <1>9 DEF CreateIndex
  <2>4. /\ DOMAIN r = {"pc", "pending", "index", "next"} /\ r.next = 1 /\ r.pc = "create_all"
    BY <1>3, <2>1, <2>3
  <2> QED BY <1>4, <2>2, <2>4
<1> QED BY <1>5, <1>6, <1>7, <1>8, <1>9

LEMMA ApplyStep ==
  ASSUME IInv, NEW p \in Process, Apply(p)
  PROVE  /\ IInv'
         /\ applied' # applied => \A t \in EvidenceTable : Upgraded(t)
<1>1. PICK old, v : old = process[p] /\ v = old.next
  OBVIOUS
<1>2. /\ old.pc = "migrate" /\ v \in MIGRATIONS
      /\ IF v \in applied \/ Possible(v) THEN process' = [process EXCEPT ![p].next = @ + 1]
                                         ELSE Goto(p, "failed")
      /\ IF v \notin applied /\ Possible(v)
         THEN Upgrade(v) /\ applied' = applied \cup {v}
         ELSE UNCHANGED <<applied, evidence, audit, results, created>>
      /\ UNCHANGED issued
  BY <1>1 DEF Apply
<1>3. IsProcess(p) /\ ProcessInv
  BY DEF IInv, ProcessInv
<1>4. CASE v \notin applied /\ ~Possible(v)
  <2>1. Goto(p, "failed") /\ UNCHANGED Rest
    BY <1>2, <1>4 DEF Rest
  <2> QED BY <2>1, GotoStep DEF Rest
<1>5. CASE v \in applied \/ Possible(v)
  <2>1. PICK r : r = [old EXCEPT !.next = v + 1]
    OBVIOUS
  <2>2. process' = [process EXCEPT ![p] = r]
    BY <1>1, <1>2, <1>5, <2>1
  <2>3. /\ DOMAIN r = {"pc", "pending", "index", "next"} /\ r.next = v + 1 /\ r.pc = "migrate"
    BY <1>1, <1>2, <1>3, <2>1 DEF IsProcess
  <2>4. applied \subseteq applied' /\ v \in applied'
    BY <1>2, <1>5
  <2>5. ProcessInv'
    <3>1. r.next \in 1..6
      BY <1>2, <2>3 DEF MIGRATIONS
    <3>2. 1..(r.next - 1) \subseteq applied'
      <4>1. 1..(v - 1) \subseteq applied
        BY <1>1, <1>2, <1>3 DEF IsProcess
      <4> QED BY <1>2, <2>3, <2>4, <4>1 DEF MIGRATIONS
    <3> QED BY <1>3, <2>2, <2>3, <2>4, <3>1, <3>2, ProcessMoves
  <2>6. CASE v \in applied
    BY <1>2, <2>5, <2>6, RestKept DEF Rest
  <2>7. CASE v \notin applied
    <3>1. DOMAIN evidence' = EvidenceTable /\ \A t \in EvidenceTable : Upgraded(t)
      BY <1>2, <1>5, <2>7, UpgradeStep
    <3>2. TablesInv' /\ OriginalInv'
      BY <3>1 DEF TablesInv, OriginalInv, Upgraded
    <3>3. IssuedInv'
      BY <1>2, <3>1 DEF IInv, IssuedInv, Upgraded
    <3> QED BY <2>5, <3>1, <3>2, <3>3 DEF IInv
  <2> QED BY <2>6, <2>7
<1> QED BY <1>4, <1>5

-----------------------------------------------------------------------------
(* The evidence of a product is replaced *)

LEMMA EntriesFinite ==
  ASSUME NEW payload \in Payloads, NEW t, NEW rows, rows = Entry(payload, t)
  PROVE  IsFiniteSet(rows) /\ \A row \in rows : "id" \in DOMAIN row
<1>1. /\ IsFiniteSet(payload.attempts) /\ IsFiniteSet(payload.matches)
      /\ \A row \in payload.attempts \cup payload.matches : "id" \in DOMAIN row
  BY PayloadsAssumption
<1>2. CASE t # "query_attempts"
  BY <1>1, <1>2 DEF Entry
<1>3. CASE t = "query_attempts"
  <2>1. PICK g : g = [a \in payload.attempts |-> StoredAttempt(a)]
    OBVIOUS
  <2>2. rows = {g[a] : a \in payload.attempts}
    BY <1>3, <2>1 DEF Entry
  <2>3. g \in Surjection(payload.attempts, rows)
    BY <2>1, <2>2 DEF Surjection
  <2>4. IsFiniteSet(rows)
    BY <1>1, <2>3, FS_Surjection
  <2>5. \A a \in payload.attempts : DOMAIN StoredAttempt(a) = DOMAIN a
    BY DEF StoredAttempt
  <2> QED BY <1>1, <2>1, <2>2, <2>4, <2>5
<1> QED BY <1>2, <1>3

\* The rows written are numbered above the mark, which rises with them.
LEMMA StoredRows ==
  ASSUME NEW t \in EvidenceTable, IsTable(t), NEW rows, IsFiniteSet(rows),
         \A row \in rows : "id" \in DOMAIN row,
         NEW old, old = evidence[t],
         NEW number \in Numbered(rows, old.seq), NEW scope,
         NEW table, table = Stored(t, scope, rows, number)
  PROVE  /\ DOMAIN table = {"exists", "strict", "rows", "seq"}
         /\ table.exists = old.exists /\ table.strict = old.strict
         /\ old.seq \in Nat /\ table.seq \in Nat /\ table.seq >= old.seq
         /\ \A row \in table.rows :
              /\ row.id \in 1..table.seq
              /\ row \in old.rows \/ row.id > old.seq
         /\ \A row \in rows : number[row] \in 1..table.seq
<1>1. PICK kept, new, n : /\ kept = {row \in old.rows : row.scope # scope}
                          /\ new = {[row EXCEPT !.id = number[row]] : row \in rows}
                          /\ n = Cardinality(rows)
  OBVIOUS
<1>2. table = [old EXCEPT !.rows = kept \cup new, !.seq = @ + n]
  BY <1>1 DEF Stored
<1>3. /\ DOMAIN old = {"exists", "strict", "rows", "seq"} /\ old.seq \in Nat
      /\ \A row \in old.rows : row.id \in 1..old.seq
  BY DEF IsTable
<1>4. n \in Nat
  BY <1>1, FS_CardinalityType
<1>5. /\ DOMAIN table = {"exists", "strict", "rows", "seq"}
      /\ table.exists = old.exists /\ table.strict = old.strict
      /\ table.rows = kept \cup new /\ table.seq = old.seq + n
  BY <1>2, <1>3
<1>6. \A row \in rows : number[row] \in (old.seq + 1)..(old.seq + n)
  BY <1>1 DEF Numbered
<1>7. \A row \in new : row.id \in (old.seq + 1)..(old.seq + n)
  <2> SUFFICES ASSUME NEW row \in rows, NEW r, r = [row EXCEPT !.id = number[row]]
               PROVE  r.id \in (old.seq + 1)..(old.seq + n)
    BY <1>1
  <2>1. r.id = number[row]
    OBVIOUS
  <2> QED BY <1>6, <2>1
<1>8. \A row \in table.rows : row \in old.rows \/ row \in new
  BY <1>1, <1>5
<1>9. \A row \in table.rows :
        row.id \in 1..table.seq /\ (row \in old.rows \/ row.id > old.seq)
  BY <1>3, <1>4, <1>5, <1>7, <1>8
<1>10. \A row \in rows : number[row] \in 1..table.seq
  BY <1>3, <1>4, <1>5, <1>6
<1> QED BY <1>3, <1>4, <1>5, <1>9, <1>10

\* What the replacement does to one table, and to the ids given out.
Replaced(t) ==
  /\ IsTable(t)'
  /\ NeedsRepair(t)' <=> NeedsRepair(t)
  /\ \A row \in evidence'[t].rows : row \in evidence[t].rows \/ row.id \notin issued[t]
  /\ issued'[t] \subseteq 1..evidence'[t].seq

LEMMA TableReplaced ==
  ASSUME IInv, NEW t \in EvidenceTable, NEW payload \in Payloads,
         NEW rows, rows = Entry(payload, t), evidence[t].exists, applied' = applied,
         NEW number \in Numbered(rows, evidence[t].seq),
         evidence'[t] = Stored(t, payload.scope, rows, number),
         issued'[t] = issued[t] \cup {number[r] : r \in rows}
  PROVE  Replaced(t)
<1>1. PICK old, table : old = evidence[t] /\ table = Stored(t, payload.scope, rows, number)
  OBVIOUS
<1>2. IsTable(t) /\ issued[t] \subseteq 1..old.seq
  BY <1>1 DEF IInv, TablesInv, IssuedInv
<1>3. /\ DOMAIN table = {"exists", "strict", "rows", "seq"}
      /\ table.exists = old.exists /\ table.strict = old.strict
      /\ old.seq \in Nat /\ table.seq \in Nat /\ table.seq >= old.seq
      /\ \A row \in table.rows :
           /\ row.id \in 1..table.seq
           /\ row \in old.rows \/ row.id > old.seq
      /\ \A row \in rows : number[row] \in 1..table.seq
  BY <1>1, <1>2, EntriesFinite, StoredRows
<1>4. IsTable(t)'
  <2>1. table.exists
    BY <1>1, <1>3
  <2> QED BY <1>1, <1>3, <2>1 DEF IsTable
<1>5. NeedsRepair(t)' <=> NeedsRepair(t)
  BY <1>1, <1>3 DEF NeedsRepair
<1>6. \A row \in table.rows : row \in old.rows \/ row.id \notin issued[t]
  BY <1>2, <1>3
<1>7. issued[t] \cup {number[r] : r \in rows} \subseteq 1..table.seq
  <2>1. 1..old.seq \subseteq 1..table.seq
    BY <1>3
  <2> QED BY <1>2, <1>3, <2>1
<1> QED BY <1>1, <1>4, <1>5, <1>6, <1>7 DEF Replaced

LEMMA TableUntouched ==
  ASSUME IInv, NEW t \in EvidenceTable, evidence'[t] = evidence[t], issued'[t] = issued[t],
         applied' = applied
  PROVE  Replaced(t)
  BY DEF IInv, TablesInv, IssuedInv, IsTable, NeedsRepair, Replaced

LEMMA PersistStep ==
  ASSUME IInv, NEW p \in Process, PersistEvidence(p)
  PROVE  IInv' /\ \A t \in EvidenceTable : Replaced(t)
<1>1. MIGRATIONS \subseteq applied /\ applied' = applied /\ process' = process
  BY DEF PersistEvidence, IInv, ProcessInv, IsProcess
<1>2. \A t \in EvidenceTable : evidence[t].exists /\ ~NeedsRepair(t)
  <2>1. 1 \in applied /\ 2 \in applied
    BY <1>1 DEF MIGRATIONS
  <2> QED BY <2>1 DEF IInv, TablesInv, IsTable, OriginalInv
<1>3. DOMAIN evidence = EvidenceTable /\ DOMAIN issued = EvidenceTable
  BY DEF IInv, TablesInv, IssuedInv
<1>4. /\ DOMAIN evidence' = EvidenceTable /\ DOMAIN issued' = EvidenceTable
      /\ \A t \in EvidenceTable : Replaced(t)
  <2>1. CASE UNCHANGED <<evidence, issued>>
    BY <1>1, <1>3, <2>1, TableUntouched
  <2>2. CASE ~UNCHANGED <<evidence, issued>>
    <3>1. PICK payload, attempts, matches :
            /\ payload \in Payloads
            /\ attempts = Entry(payload, "query_attempts")
            /\ matches = Entry(payload, "match_evidence")
            /\ \E n \in Numbered(attempts, evidence["query_attempts"].seq),
                  k \in Numbered(matches, evidence["match_evidence"].seq) :
                 /\ evidence' = [evidence EXCEPT
                      !["query_attempts"] = Stored("query_attempts", payload.scope, attempts, n),
                      !["match_evidence"] = Stored("match_evidence", payload.scope, matches, k)]
                 /\ issued' = [issued EXCEPT !["query_attempts"] = @ \cup {n[r] : r \in attempts},
                                             !["match_evidence"] = @ \cup {k[r] : r \in matches}]
      BY <2>2 DEF PersistEvidence
    <3>2. PICK n \in Numbered(attempts, evidence["query_attempts"].seq),
               k \in Numbered(matches, evidence["match_evidence"].seq) :
            /\ evidence' = [evidence EXCEPT
                 !["query_attempts"] = Stored("query_attempts", payload.scope, attempts, n),
                 !["match_evidence"] = Stored("match_evidence", payload.scope, matches, k)]
            /\ issued' = [issued EXCEPT !["query_attempts"] = @ \cup {n[r] : r \in attempts},
                                        !["match_evidence"] = @ \cup {k[r] : r \in matches}]
      BY <3>1
    <3>3. /\ evidence'["query_attempts"] =
               Stored("query_attempts", payload.scope, attempts, n)
          /\ evidence'["match_evidence"] =
               Stored("match_evidence", payload.scope, matches, k)
          /\ evidence'["field_evidence"] = evidence["field_evidence"]
          /\ DOMAIN evidence' = EvidenceTable
      BY <1>3, <3>2 DEF EvidenceTable
    <3>4. /\ issued'["query_attempts"] = issued["query_attempts"] \cup {n[r] : r \in attempts}
          /\ issued'["match_evidence"] = issued["match_evidence"] \cup {k[r] : r \in matches}
          /\ issued'["field_evidence"] = issued["field_evidence"]
          /\ DOMAIN issued' = EvidenceTable
      BY <1>3, <3>2 DEF EvidenceTable
    <3>5. Replaced("query_attempts")
      BY <1>1, <1>2, <3>1, <3>3, <3>4, TableReplaced DEF EvidenceTable
    <3>6. Replaced("match_evidence")
      BY <1>1, <1>2, <3>1, <3>3, <3>4, TableReplaced DEF EvidenceTable
    <3>7. Replaced("field_evidence")
      BY <1>1, <3>3, <3>4, TableUntouched DEF EvidenceTable
    <3> QED BY <3>3, <3>4, <3>5, <3>6, <3>7 DEF EvidenceTable
  <2> QED BY <2>1, <2>2
<1>5. TablesInv' /\ IssuedInv'
  BY <1>4 DEF TablesInv, IssuedInv, Replaced
<1>6. OriginalInv'
  BY <1>2, <1>4 DEF OriginalInv, Replaced
<1>7. ProcessInv'
  BY <1>1 DEF IInv, ProcessInv, IsProcess
<1> QED BY <1>4, <1>5, <1>6, <1>7 DEF IInv

-----------------------------------------------------------------------------
(* The invariant holds, and what follows from it *)

LEMMA InitInv ==
  ASSUME Init PROVE IInv
<1>1. PICK db \in Databases :
        /\ applied = db.applied /\ evidence = db.evidence
        /\ issued = [t \in EvidenceTable |-> 0..db.evidence[t].seq \ {0}]
  BY DEF Init
<1>2. DOMAIN evidence = EvidenceTable /\ \A t \in EvidenceTable : Found(db, t)
  BY <1>1, DatabasesAssumption
<1>3. TablesInv
  BY <1>1, <1>2 DEF TablesInv, IsTable, Found
<1>4. OriginalInv
  BY <1>1, <1>2 DEF OriginalInv, NeedsRepair, Found
<1>5. IssuedInv
  <2>1. \A t \in EvidenceTable : evidence[t].seq \in Nat
    BY <1>3 DEF TablesInv, IsTable
  <2> QED BY <1>1, <2>1 DEF IssuedInv
<1>6. ProcessInv
  <2>1. PICK base : base = NoProcess
    OBVIOUS
  <2>2. /\ DOMAIN base = {"pc", "pending", "index", "next"}
        /\ base.next = 1 /\ base.pc = "down"
    BY <2>1 DEF NoProcess
  <2> QED BY <2>1, <2>2 DEF Init, Idle, ProcessInv, IsProcess
<1> QED BY <1>3, <1>4, <1>5, <1>6 DEF IInv

LEMMA NextInv ==
  ASSUME IInv, [Next]_vars PROVE IInv'
<1>1. ASSUME NEW p \in Process,
             \/ InitDb(p) \/ RunMigrations(p) \/ CreateTable(p) \/ CreateIndex(p) \/ Crash(p)
      PROVE  IInv'
  BY <1>1, StartStep
<1>2. ASSUME NEW p \in Process, CreatedAll(p) PROVE IInv'
  <2>1. Goto(p, "migrate") /\ UNCHANGED Rest /\ process[p].next = 1
    BY <1>2 DEF CreatedAll, Rest, IInv, ProcessInv, IsProcess
  <2> QED BY <2>1, GotoStep
<1>3. ASSUME NEW p \in Process, Locked(p) PROVE IInv'
  BY <1>3, GotoStep DEF Locked, Rest
<1>4. ASSUME NEW p \in Process, Migrated(p) PROVE IInv'
  BY <1>4, GotoStep DEF Migrated, Rest
<1>5. ASSUME NEW p \in Process, Apply(p) PROVE IInv'
  BY <1>5, ApplyStep
<1>6. ASSUME NEW p \in Process, PersistEvidence(p) PROVE IInv'
  BY <1>6, PersistStep
<1>7. CASE UNCHANGED vars
  <2>1. UNCHANGED Rest /\ process' = process
    BY <1>7 DEF vars, Rest
  <2>2. ProcessInv'
    BY <2>1 DEF IInv, ProcessInv, IsProcess, Rest
  <2> QED BY <2>1, <2>2, RestKept
<1> QED BY <1>1, <1>2, <1>3, <1>4, <1>5, <1>6, <1>7 DEF Next

LEMMA RepairIsPossibleInv ==
  ASSUME IInv PROVE RepairIsPossible
<1>1. ASSUME NEW t \in EvidenceTable, NeedsRepair(t), NEW row \in Rebuilt(t).rows
      PROVE  RowAllowed(t, row)
  <2>1. PICK old \in evidence[t].rows : row = Repaired(t, old)
    BY <1>1 DEF Rebuilt
  <2>2. OriginalRow(t, old)
    BY <1>1 DEF IInv, OriginalInv
  <2> QED BY <2>1, <2>2, RepairedRow
<1> QED BY <1>1 DEF RepairIsPossible, RepairPossible

\* v0002 can repair every row a database of the original 0001 may hold: no process
\* that comes to it is turned away, whatever the others have done by then.
THEOREM RepairNeverRefused == Spec => []RepairIsPossible
<1>1. Init => IInv
  BY InitInv
<1>2. IInv /\ [Next]_vars => IInv'
  BY NextInv
<1>3. IInv => RepairIsPossible
  BY RepairIsPossibleInv
<1> QED BY <1>1, <1>2, <1>3, PTL DEF Spec

\* Every migration leaves each row under the same columns with its values, or with
\* the value it replaced in legacy_evidence_audit.
THEOREM HistoryAudited == Spec => RepairsAreAudited
<1>1. Init => IInv
  BY InitInv
<1>2. IInv /\ [Next]_vars => IInv'
  BY NextInv
<1>3. IInv /\ [Next]_vars =>
        [applied' # applied =>
           \A t \in EvidenceTable : \A row \in evidence[t].rows :
             \E new \in evidence'[t].rows :
               /\ DOMAIN new = DOMAIN row
               /\ \A f \in DOMAIN row :
                    new[f] = row[f] \/ AuditEntry(t, row, f, row[f]) \in audit']_vars
  <2> SUFFICES ASSUME IInv, Next, applied' # applied
               PROVE  \A t \in EvidenceTable : \A row \in evidence[t].rows :
                        \E new \in evidence'[t].rows : Honest(t, row, new, audit')
    BY DEF Honest
  <2>1. PICK p \in Process : Apply(p)
    BY DEF Next, InitDb, RunMigrations, CreateTable, CreateIndex, CreatedAll, Locked,
           Migrated, Crash, PersistEvidence
  <2> QED BY <2>1, ApplyStep DEF Upgraded
<1> QED BY <1>1, <1>2, <1>3, PTL DEF Spec, RepairsAreAudited

\* The rows a re-run of a product inserts have ids that no row of the table ever
\* had, not even before the rebuild of v0002 dropped and copied it.
THEOREM IdsIssuedOnce == Spec => IdsAreNeverReused
<1>1. Init => IInv
  BY InitInv
<1>2. IInv /\ [Next]_vars => IInv'
  BY NextInv
<1>3. IInv /\ [Next]_vars =>
        [writes' # writes =>
           \A t \in EvidenceTable : \A row \in evidence'[t].rows :
             row \in evidence[t].rows \/ row.id \notin issued[t]]_vars
  <2> SUFFICES ASSUME IInv, Next, writes' # writes
               PROVE  \A t \in EvidenceTable : \A row \in evidence'[t].rows :
                        row \in evidence[t].rows \/ row.id \notin issued[t]
    OBVIOUS
  <2>1. PICK p \in Process : PersistEvidence(p)
    BY DEF Next, InitDb, RunMigrations, CreateTable, CreateIndex, CreatedAll, Locked,
           Migrated, Crash, Apply
  <2> QED BY <2>1, PersistStep DEF Replaced
<1> QED BY <1>1, <1>2, <1>3, PTL DEF Spec, IdsAreNeverReused
=============================================================================
