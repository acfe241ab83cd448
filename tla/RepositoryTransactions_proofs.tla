------------------- MODULE RepositoryTransactions_proofs --------------------
(* Proofs about RepositoryTransactions, for any number of workers, heartbeats *)
(* and recovering processes whose statements interleave in any way with each  *)
(* other and with one thread that promotes or re-opens the node: the node is  *)
(* running exactly while its latest attempt is, and it is taken from its      *)
(* worker only once its lease has run out.                                    *)
(*                                                                            *)
(* Not every program that uses the repository is of that kind.  The methods   *)
(* that flush what they have read without a condition keep the properties     *)
(* only one after the other, so the theorems have three premises, and each of *)
(* them is one the code does not enforce and the properties do not hold       *)
(* without.                                                                   *)
EXTENDS RepositoryTransactions, TLAPS

\* No lease runs out between the SELECT and the flush of the thread that holds it.
ShortSessions == SlowSessions = FALSE

\* Nobody calls cancel_run.
NoCancelRun == "cancel" \notin Methods

\* One thread at a time promotes or re-opens the node.
OneRequester == \A r, s \in Requests : r = s

Studied == ShortSessions /\ NoCancelRun /\ OneRequester

------------------------------------------------------------------------------
(* The inductive invariant *)

RowFields == {"status", "generation", "attempt_count", "input", "output", "worker_id",
              "lease_token", "lease", "next_retry", "resume_token"}
SessionFields == {"method", "row", "att", "claim", "arg", "time"}

IsRow(row) ==
  /\ row = [f \in RowFields |-> row[f]]
  /\ row.status \in NodeStatus
  /\ row.attempt_count \in 0 .. MaxClaims
  /\ row.lease_token \in 0 .. MaxClaims
  /\ row.lease \in Int

IsAttempt(a) == a = [f \in {"status", "generation", "worker_id", "input"} |-> a[f]]

MethodsOf(t) ==
  CASE t[2] = "main"      -> {"claim", "succeed", "fail"}
    [] t[2] = "heartbeat" -> {"heartbeat"}
    [] t[2] = "recover"   -> {"recover"}
    [] t[2] = "request"   -> {"promote"} \cup Operations

Open(t) == txn[t] # Idle

IsSession(t) ==
  /\ txn[t] = [f \in SessionFields |-> txn[t][f]]
  /\ txn[t].method \in MethodsOf(t)
  /\ IsRow(txn[t].row)
  /\ txn[t].time \in 0 .. now
  /\ txn[t].method = "fail" => txn[t].arg \in Dispositions

TypeOK ==
  /\ IsRow(node)
  /\ attempt = [k \in AttemptNos |-> attempt[k]] /\ \A k \in AttemptNos : IsAttempt(attempt[k])
  /\ claim = [w \in Workers |-> claim[w]]
  /\ txn = [t \in Threads |-> txn[t]] /\ \A t \in Threads : Open(t) => IsSession(t)
  /\ now \in Nat

\* A running node has been claimed.
RunningInv == node.status = "running" => node.attempt_count > 0

\* Nobody but a heartbeat has written to the row since it was read.
SameButLease(row) == \A f \in RowFields \ {"lease"} : node[f] = row[f]

\* How far what a session has read still holds.
ClaimFine(s) ==
  /\ s.row.attempt_count < MaxClaims
  /\ s.row.attempt_count <= node.attempt_count
  /\ s.row.attempt_count = node.attempt_count =>
       node.status = "pending" /\ node.generation = s.row.generation

OutcomeFine(w, s) ==
  /\ SameButLease(s.row)
  /\ node.status = "running" /\ node.worker_id = w
  /\ node.lease_token = claim[w].attempt_no /\ s.claim = claim[w]
  /\ node.lease >= now

RecoverFine(s) ==
  /\ s.row.lease_token \in 1 .. node.attempt_count
  /\ s.arg = "attempt" /\ s.att = NoAttempt =>
       attempt[s.row.lease_token].status # "running"

RequestFine(s) == SameButLease(s.row) /\ node.status \notin {"pending", "running"}

Fine(t) ==
  LET s == txn[t] IN
    /\ s.method = "claim" => ClaimFine(s)
    /\ s.method \in {"succeed", "fail"} => OutcomeFine(t[1], s)
    /\ s.method = "heartbeat" => s.time = now
    /\ s.method = "recover" => RecoverFine(s)
    /\ t[2] = "request" => RequestFine(s)

SessionsInv == \A t \in Threads : Open(t) => Fine(t)

IInv == TypeOK /\ RunningInv /\ AttemptsAgree /\ SessionsInv

------------------------------------------------------------------------------
(* Threads, rows and sessions *)

LEMMA ThreadFacts ==
  ASSUME NEW t \in Threads
  PROVE  /\ t = <<t[1], t[2]>>
         /\ \/ t[2] \in {"main", "heartbeat"} /\ t[1] \in Workers
            \/ t[2] = "recover" /\ t[1] \in Recoverers
            \/ t[2] = "request" /\ t[1] \in Requests
         /\ \A m \in MethodsOf(t) :
              /\ m \in {"claim", "succeed", "fail"} <=> t[2] = "main"
              /\ m = "heartbeat" <=> t[2] = "heartbeat"
              /\ m = "recover" <=> t[2] = "recover"
              /\ m \in {"promote", "resume", "retry", "force_rerun"} <=> t[2] = "request"
<1>1. /\ t = <<t[1], t[2]>>
      /\ \/ t[2] \in {"main", "heartbeat"} /\ t[1] \in Workers
         \/ t[2] = "recover" /\ t[1] \in Recoverers
         \/ t[2] = "request" /\ t[1] \in Requests
  BY DEF Threads
<1> QED BY <1>1 DEF MethodsOf, Operations

LEMMA ThreadsExist ==
  /\ \A w \in Workers : <<w, "main">> \in Threads /\ <<w, "heartbeat">> \in Threads
  /\ \A p \in Recoverers : <<p, "recover">> \in Threads
  /\ \A r \in Requests : <<r, "request">> \in Threads
  BY DEF Threads

\* The columns that a flush leaves, and those it writes.
LEMMA FlushFacts ==
  ASSUME IsRow(node), NEW loaded, NEW new, NEW row, row = Flush(loaded, new)
  PROVE  /\ row = [f \in RowFields |-> row[f]]
         /\ \A f \in RowFields : new[f] = loaded[f] => row[f] = node[f]
         /\ \A f \in RowFields \ {"resume_token"} : new[f] # loaded[f] => row[f] = new[f]
<1>1. DOMAIN node = RowFields
  BY DEF IsRow
<1>2. row = [f \in RowFields |-> IF new[f] = loaded[f] THEN node[f]
                                 ELSE IF f = "resume_token" THEN node[f] + 1 ELSE new[f]]
  BY <1>1 DEF Flush
<1> QED BY <1>2

LEMMA RowFacts ==
  ASSUME NEW row, IsRow(row)
  PROVE  /\ row.status \in NodeStatus /\ row.lease \in Int
         /\ row.attempt_count \in Nat /\ row.attempt_count <= MaxClaims
         /\ row.lease_token \in Nat /\ row.lease_token <= MaxClaims
  BY TransactionsAssumption DEF IsRow

\* What a step leaves for a session that takes no part in it.
Keeps(t) ==
  /\ txn'[t] = txn[t]
  /\ node'.attempt_count >= node.attempt_count
  /\ node'.attempt_count = node.attempt_count /\ node.status = "pending" =>
       node'.status = "pending" /\ node'.generation = node.generation
  /\ txn[t].method \in {"succeed", "fail"} =>
       /\ \A f \in RowFields \ {"lease"} : node'[f] = node[f]
       /\ node'.lease >= now /\ claim'[t[1]] = claim[t[1]]
  /\ t[2] = "request" => \A f \in RowFields \ {"lease"} : node'[f] = node[f]
  /\ \A k \in AttemptNos : k <= node.attempt_count /\ attempt'[k].status = "running" =>
       attempt[k].status = "running"

LEMMA KeptSession ==
  ASSUME TypeOK, NEW t \in Threads, Open(t), Fine(t), IsRow(node'), now' = now, Keeps(t)
  PROVE  IsSession(t)' /\ Fine(t)'
<1>1. IsSession(t) /\ IsRow(node) /\ txn'[t] = txn[t]
  BY DEF TypeOK, Keeps
<1>2. IsSession(t)'
  BY <1>1 DEF IsSession, MethodsOf
<1>3. /\ node.attempt_count \in Nat /\ node'.attempt_count \in Nat
      /\ txn[t].row.attempt_count \in Nat /\ node'.attempt_count >= node.attempt_count
      /\ node.attempt_count <= MaxClaims /\ MaxClaims \in Nat
  BY <1>1, RowFacts, TransactionsAssumption DEF IsSession, Keeps
<1>4. txn[t].method = "claim" => ClaimFine(txn[t])'
  BY <1>1, <1>3 DEF Fine, ClaimFine, Keeps
<1>5. txn[t].method \in {"succeed", "fail"} => OutcomeFine(t[1], txn[t])'
  <2> SUFFICES ASSUME txn[t].method \in {"succeed", "fail"} PROVE OutcomeFine(t[1], txn[t])'
    OBVIOUS
  <2>1. OutcomeFine(t[1], txn[t])
    BY DEF Fine
  <2>2. /\ \A f \in RowFields \ {"lease"} : node'[f] = node[f]
        /\ node'.lease >= now /\ claim'[t[1]] = claim[t[1]]
    BY DEF Keeps
  <2> QED BY <1>1, <2>1, <2>2 DEF OutcomeFine, SameButLease, RowFields
<1>6. txn[t].method = "recover" => RecoverFine(txn[t])'
  <2> SUFFICES ASSUME txn[t].method = "recover" PROVE RecoverFine(txn[t])'
    OBVIOUS
  <2>1. RecoverFine(txn[t])
    BY DEF Fine
  <2>2. txn[t].row.lease_token \in AttemptNos /\ txn[t].row.lease_token <= node.attempt_count
    BY <1>3, <2>1 DEF RecoverFine, AttemptNos
  <2>3. txn[t].row.lease_token \in 1 .. node'.attempt_count
    BY <1>3, <2>1 DEF RecoverFine
  <2> QED BY <1>1, <2>1, <2>2, <2>3 DEF RecoverFine, Keeps
<1>7. t[2] = "request" => RequestFine(txn[t])'
  BY <1>1 DEF Fine, RequestFine, SameButLease, Keeps, RowFields
<1> QED BY <1>1, <1>2, <1>4, <1>5, <1>6, <1>7 DEF Fine

------------------------------------------------------------------------------
(* Steps that only open, advance or close sessions *)

LEMMA SessionsStep ==
  ASSUME TypeOK, SessionsInv, IsRow(node'), now' = now,
         txn' = [t \in Threads |-> txn'[t]],
         \A t \in Threads :
           Open(t)' => \/ Open(t) /\ Keeps(t)
                       \/ IsSession(t)' /\ Fine(t)'
  PROVE  /\ \A t \in Threads : Open(t)' => IsSession(t)'
         /\ SessionsInv'
<1>1. ASSUME NEW t \in Threads, Open(t)'
      PROVE  IsSession(t)' /\ Fine(t)'
  <2>1. CASE Open(t) /\ Keeps(t)
    BY <2>1, KeptSession DEF SessionsInv
  <2> QED BY <1>1, <2>1
<1> QED BY <1>1 DEF SessionsInv

\* The rows and claims stay as they are: the other sessions keep what they have.
LEMMA ReadStep ==
  ASSUME IInv, UNCHANGED <<node, attempt, claim, now>>,
         txn' = [t \in Threads |-> txn'[t]],
         \A t \in Threads :
           Open(t)' => txn'[t] = txn[t] \/ (IsSession(t)' /\ Fine(t)')
  PROVE  IInv'
<1>1. IsRow(node') /\ node'.attempt_count >= node.attempt_count
  BY RowFacts DEF IInv, TypeOK
<1>2. ASSUME NEW t \in Threads, txn'[t] = txn[t], Open(t)'
      PROVE  Open(t) /\ Keeps(t)
  <2>1. Open(t)
    BY <1>2 DEF Open
  <2>2. txn[t].method \in {"succeed", "fail"} => node.lease >= now
    BY <2>1 DEF IInv, SessionsInv, Fine, OutcomeFine
  <2> QED BY <1>1, <1>2, <2>1, <2>2 DEF Keeps
<1>3. (\A t \in Threads : Open(t)' => IsSession(t)') /\ SessionsInv'
  BY <1>1, <1>2, SessionsStep DEF IInv
<1>4. TypeOK'
  BY <1>3 DEF IInv, TypeOK, IsRow, IsAttempt
<1> QED BY <1>3, <1>4 DEF IInv, RunningInv, AttemptsAgree

\* A session may only end; the claim of a worker, only with its main session.
LEMMA CloseStep ==
  ASSUME IInv, UNCHANGED <<node, attempt, now>>,
         txn' = [t \in Threads |-> txn'[t]], claim' = [w \in Workers |-> claim'[w]],
         \A t \in Threads : txn'[t] = txn[t] \/ txn'[t] = Idle,
         \A w \in Workers : claim'[w] = claim[w] \/ txn'[<<w, "main">>] = Idle
  PROVE  IInv'
<1>1. IsRow(node') /\ node'.attempt_count >= node.attempt_count
  BY RowFacts DEF IInv, TypeOK
<1>2. ASSUME NEW t \in Threads, Open(t)'
      PROVE  Open(t) /\ Keeps(t)
  <2>1. Open(t) /\ txn'[t] = txn[t]
    BY <1>2 DEF Open
  <2>2. txn[t].method \in MethodsOf(t)
    BY <2>1 DEF IInv, TypeOK, IsSession
  <2>3. txn[t].method \in {"succeed", "fail"} => node.lease >= now /\ claim'[t[1]] = claim[t[1]]
    <3> SUFFICES ASSUME txn[t].method \in {"succeed", "fail"}
                 PROVE  node.lease >= now /\ claim'[t[1]] = claim[t[1]]
      OBVIOUS
    <3>1. node.lease >= now
      BY <2>1 DEF IInv, SessionsInv, Fine, OutcomeFine
    <3>2. t = <<t[1], "main">> /\ t[1] \in Workers
      BY <2>2, ThreadFacts
    <3>3. txn'[<<t[1], "main">>] # Idle
      BY <3>2, <1>2 DEF Open
    <3> QED BY <3>1, <3>2, <3>3
  <2> QED BY <1>1, <2>1, <2>3 DEF Keeps
<1>3. (\A t \in Threads : Open(t)' => IsSession(t)') /\ SessionsInv'
  BY <1>1, <1>2, SessionsStep DEF IInv
<1>4. TypeOK'
  BY <1>3 DEF IInv, TypeOK, IsRow, IsAttempt
<1> QED BY <1>3, <1>4 DEF IInv, RunningInv, AttemptsAgree

\* A session that has just been opened holds the row as it is.
LEMMA SelectStep ==
  ASSUME IInv, UNCHANGED <<node, attempt, claim, now>>,
         NEW t \in Threads, NEW method \in MethodsOf(t), NEW c, NEW arg,
         Select(t, method, c, arg),
         method = "fail" => arg \in Dispositions,
         method = "claim" => node.status = "pending" /\ node.attempt_count < MaxClaims,
         method \in {"succeed", "fail"} => c = claim[t[1]] /\ LockedNode(t[1], c),
         method = "recover" => node.status = "running" /\ arg = "none",
         t[2] = "request" => node.status \notin {"pending", "running"}
  PROVE  IInv'
<1> DEFINE s == [method |-> method, row |-> node, att |-> NoAttempt,
                 claim |-> c, arg |-> arg, time |-> now]
<1>1. /\ txn = [u \in Threads |-> txn[u]] /\ IsRow(node) /\ now \in Nat
      /\ node.attempt_count \in Nat /\ node.lease_token \in Nat
      /\ MaxClaims \in Nat
  BY RowFacts, TransactionsAssumption DEF IInv, TypeOK
<1>2. /\ txn' = [u \in Threads |-> txn'[u]] /\ txn'[t] = s
      /\ \A u \in Threads : u # t => txn'[u] = txn[u]
  BY <1>1 DEF Select
<1>3. IsSession(t)'
  <2>1. s = [f \in SessionFields |-> s[f]]
    BY DEF SessionFields
  <2>2. IsRow(s.row) /\ s.method \in MethodsOf(t) /\ s.time \in 0 .. now'
    BY <1>1
  <2>3. s.method = "fail" => s.arg \in Dispositions
    OBVIOUS
  <2> HIDE DEF s
  <2>4. PICK r : r = s
    OBVIOUS
  <2> QED BY <1>2, <2>1, <2>2, <2>3, <2>4 DEF IsSession, MethodsOf
<1>4. Fine(t)'
  <2>1. method = "claim" => ClaimFine(s)'
    BY <1>1 DEF ClaimFine
  <2>2. method \in {"succeed", "fail"} => OutcomeFine(t[1], s)'
    BY DEF OutcomeFine, SameButLease, LockedNode
  <2>3. method = "recover" => RecoverFine(s)'
    <3> SUFFICES ASSUME method = "recover" PROVE RecoverFine(s)'
      OBVIOUS
    <3>1. node.lease_token = node.attempt_count /\ node.attempt_count > 0
      BY DEF IInv, AttemptsAgree, RunningInv
    <3> QED BY <1>1, <3>1 DEF RecoverFine
  <2>4. t[2] = "request" => RequestFine(s)'
    BY DEF RequestFine, SameButLease
  <2> QED BY <1>2, <2>1, <2>2, <2>3, <2>4 DEF Fine
<1> HIDE DEF s
<1> QED BY <1>2, <1>3, <1>4, ReadStep

------------------------------------------------------------------------------
(* The statements that read, and the sessions that end without writing *)

LEMMA WorkerSelects ==
  ASSUME IInv, NEW w \in Workers, SelectForClaim(w) \/ SelectLockedNode(w)
  PROVE  IInv'
<1>1. <<w, "main">> \in Threads /\ <<w, "heartbeat">> \in Threads
  BY ThreadsExist
<1>2. /\ MethodsOf(<<w, "main">>) = {"claim", "succeed", "fail"}
      /\ MethodsOf(<<w, "heartbeat">>) = {"heartbeat"}
  BY DEF MethodsOf
<1>3. CASE SelectForClaim(w)
  BY <1>1, <1>2, <1>3, SelectStep DEF SelectForClaim
<1>4. CASE SelectLockedNode(w)
  <2>1. PICK c : c = claim[w]
    OBVIOUS
  <2>2. LockedNode(w, c) /\ UNCHANGED <<node, attempt, claim, now>>
    BY <1>4, <2>1 DEF SelectLockedNode
  <2>3. CASE Select(<<w, "heartbeat">>, "heartbeat", c, "none")
    BY <1>1, <1>2, <2>2, <2>3, SelectStep
  <2>4. CASE Select(<<w, "main">>, "succeed", c, "none")
    BY <1>1, <1>2, <2>1, <2>2, <2>4, SelectStep
  <2>5. ASSUME NEW d \in Dispositions, Select(<<w, "main">>, "fail", c, d)
        PROVE  IInv'
    BY <1>1, <1>2, <2>1, <2>2, <2>5, SelectStep
  <2> QED BY <1>4, <2>1, <2>3, <2>4, <2>5 DEF SelectLockedNode
<1> QED BY <1>3, <1>4

LEMMA OtherSelects ==
  ASSUME IInv, Studied,
         \/ \E p \in Recoverers : SelectStale(p)
         \/ \E r \in Requests : SelectForUpdate(r)
  PROVE  IInv'
<1>1. ASSUME NEW p \in Recoverers, SelectStale(p)
      PROVE  IInv'
  <2>1. <<p, "recover">> \in Threads /\ MethodsOf(<<p, "recover">>) = {"recover"}
    BY ThreadsExist DEF MethodsOf
  <2> QED BY <1>1, <2>1, SelectStep DEF SelectStale
<1>2. ASSUME NEW r \in Requests, SelectForUpdate(r)
      PROVE  IInv'
  <2>1. /\ <<r, "request">> \in Threads
        /\ MethodsOf(<<r, "request">>) = {"promote"} \cup Operations
    BY ThreadsExist DEF MethodsOf
  <2>2. PICK method \in FlushMethods :
          Readable(method) /\ Select(<<r, "request">>, method, NoClaim, "none")
    BY <1>2 DEF SelectForUpdate
  <2>3. method \in {"promote"} \cup Operations
    BY <2>2 DEF Studied, NoCancelRun, Select, FlushMethods
  <2>4. node.status \notin {"pending", "running"} /\ method # "fail" /\ method # "claim"
          /\ method \notin {"succeed", "fail"} /\ method # "recover"
    BY <2>2, <2>3 DEF Readable, Operations, OperationAllows
  <2> QED BY <1>2, <2>1, <2>2, <2>3, <2>4, SelectStep DEF SelectForUpdate
<1> QED BY <1>1, <1>2

LEMMA SelectsRunningAttempt ==
  ASSUME IInv, NEW t \in Threads, SelectRunningAttempt(t)
  PROVE  IInv'
<1>1. Open(t) /\ IsSession(t) /\ Fine(t) /\ txn[t].method \in {"heartbeat", "succeed", "fail"}
  BY DEF SelectRunningAttempt, ForClaim, Open, IInv, TypeOK, SessionsInv
<1>2. PICK s, a : s = txn[t] /\ a = attempt[s.claim.attempt_no]
  OBVIOUS
<1>3. /\ UNCHANGED <<node, attempt, claim, now>>
      /\ txn = [u \in Threads |-> txn[u]] /\ txn' = [txn EXCEPT ![t].att = a]
  BY <1>2 DEF SelectRunningAttempt, IInv, TypeOK
<1>4. /\ txn' = [u \in Threads |-> txn'[u]]
      /\ \A u \in Threads : u # t => txn'[u] = txn[u]
      /\ txn'[t] = [s EXCEPT !.att = a]
  BY <1>2, <1>3
<1>5. s = [f \in SessionFields |-> s[f]]
  BY <1>1, <1>2 DEF IsSession
<1>6. PICK r : r = [s EXCEPT !.att = a]
  OBVIOUS
<1>7. /\ r = [f \in SessionFields |-> r[f]] /\ txn'[t] = r
      /\ \A f \in SessionFields \ {"att"} : r[f] = s[f]
  BY <1>4, <1>5, <1>6 DEF SessionFields
<1>8. /\ r.method = s.method /\ r.row = s.row /\ r.claim = s.claim /\ r.arg = s.arg
      /\ r.time = s.time
  BY <1>7 DEF SessionFields
<1>9. IsSession(t)'
  BY <1>1, <1>2, <1>3, <1>7, <1>8 DEF IsSession, MethodsOf
<1>10. t[2] # "request" /\ s.method \notin {"claim", "recover"}
  BY <1>1, <1>2, ThreadFacts DEF IsSession
<1>11. Fine(t)'
  <2>1. s.method \in {"succeed", "fail"} => OutcomeFine(t[1], s)
    BY <1>1, <1>2 DEF Fine
  <2>2. r.method \in {"succeed", "fail"} => OutcomeFine(t[1], r)'
    BY <1>3, <1>8, <2>1 DEF OutcomeFine, SameButLease
  <2> QED BY <1>1, <1>2, <1>3, <1>7, <1>8, <1>10, <2>2 DEF Fine
<1> QED BY <1>3, <1>4, <1>9, <1>11, ReadStep

LEMMA SelectsStaleAttempt ==
  ASSUME IInv, NEW p \in Recoverers, SelectStaleAttempt(p)
  PROVE  IInv'
<1>1. PICK t \in Threads : t = <<p, "recover">>
  BY ThreadsExist
<1>2. Open(t) /\ IsSession(t) /\ Fine(t) /\ txn[t].method = "recover" /\ RecoverFine(txn[t])
  BY <1>1 DEF SelectStaleAttempt, Reading, Open, IInv, TypeOK, SessionsInv, Fine
<1>3. PICK s, k, a : /\ s = txn[t] /\ k = s.row.lease_token
                     /\ a = IF attempt[k].status = "running" THEN attempt[k] ELSE NoAttempt
  OBVIOUS
<1>4. /\ UNCHANGED <<node, attempt, claim, now>>
      /\ txn = [u \in Threads |-> txn[u]]
      /\ txn' = [txn EXCEPT ![t].arg = "attempt", ![t].att = a]
  BY <1>1, <1>3 DEF SelectStaleAttempt, IInv, TypeOK
<1>5. PICK r : r = [s EXCEPT !.arg = "attempt", !.att = a]
  OBVIOUS
<1>6. /\ txn' = [u \in Threads |-> txn'[u]]
      /\ \A u \in Threads : u # t => txn'[u] = txn[u]
      /\ txn'[t] = r
  BY <1>3, <1>4, <1>5
<1>7. s = [f \in SessionFields |-> s[f]]
  BY <1>2, <1>3 DEF IsSession
<1>8. /\ r = [f \in SessionFields |-> r[f]] /\ r.method = s.method /\ r.row = s.row
      /\ r.time = s.time /\ r.arg = "attempt" /\ r.att = a
  BY <1>5, <1>7 DEF SessionFields
<1>9. IsSession(t)'
  BY <1>2, <1>3, <1>4, <1>6, <1>8 DEF IsSession, MethodsOf
<1>10. Fine(t)'
  <2>1. a = NoAttempt => attempt[k].status # "running"
    BY <1>3 DEF NoAttempt
  <2>2. RecoverFine(r)'
    BY <1>2, <1>3, <1>4, <1>8, <2>1 DEF RecoverFine
  <2> QED BY <1>1, <1>2, <1>3, <1>6, <1>8, <2>2 DEF Fine
<1> QED BY <1>4, <1>6, <1>9, <1>10, ReadStep

LEMMA SessionsEnd ==
  ASSUME IInv,
         \/ \E w \in Workers : ClaimLost(w) \/ LeaseLost(w) \/ HeartbeatLost(w) \/ Crash(w)
         \/ \E p \in Recoverers : StaleLost(p)
  PROVE  IInv'
<1>1. txn = [t \in Threads |-> txn[t]] /\ claim = [w \in Workers |-> claim[w]]
  BY DEF IInv, TypeOK
<1>2. ASSUME NEW t \in Threads, Rejected(t)
      PROVE  IInv'
  <2>1. /\ txn' = [u \in Threads |-> txn'[u]] /\ claim' = claim
        /\ \A u \in Threads : txn'[u] = txn[u] \/ txn'[u] = Idle
        /\ UNCHANGED <<node, attempt, now>>
    BY <1>1, <1>2 DEF Rejected, Close
  <2> QED BY <1>1, <2>1, CloseStep
<1>3. ASSUME NEW w \in Workers, LeaseLost(w) \/ Crash(w)
      PROVE  IInv'
  <2>1. <<w, "main">> \in Threads
    BY ThreadsExist
  <2>2. /\ txn' = [u \in Threads |-> txn'[u]] /\ txn'[<<w, "main">>] = Idle
        /\ \A u \in Threads : txn'[u] = txn[u] \/ txn'[u] = Idle
    BY <1>1, <1>3, <2>1 DEF LeaseLost, Crash, Close
  <2>3. /\ claim' = [v \in Workers |-> claim'[v]] /\ UNCHANGED <<node, attempt, now>>
        /\ \A v \in Workers : v # w => claim'[v] = claim[v]
    BY <1>1, <1>3 DEF LeaseLost, Crash
  <2> QED BY <2>2, <2>3, CloseStep
<1> QED BY <1>2, <1>3, ThreadsExist DEF ClaimLost, HeartbeatLost, StaleLost

------------------------------------------------------------------------------
(* The statements that write *)

\* What a write has to establish for the invariant to stay.
LEMMA WriteStep ==
  ASSUME IInv, NEW t \in Threads, Close(t), now' = now, IsRow(node'),
         attempt' = [k \in AttemptNos |-> attempt'[k]],
         \A k \in AttemptNos : IsAttempt(attempt'[k]),
         claim' = [w \in Workers |-> claim'[w]],
         RunningInv', AttemptsAgree',
         \A u \in Threads : u # t /\ Open(u) => Keeps(u)
  PROVE  IInv'
<1>1. /\ txn' = [u \in Threads |-> txn'[u]] /\ txn'[t] = Idle
      /\ \A u \in Threads : u # t => txn'[u] = txn[u]
  BY DEF IInv, TypeOK, Close
<1>2. (\A u \in Threads : Open(u)' => IsSession(u)') /\ SessionsInv'
  BY <1>1, SessionsStep DEF IInv, Open
<1> QED BY <1>1, <1>2 DEF IInv, TypeOK

\* What the invariant says of an open session, thread by thread.
LEMMA SessionFacts ==
  ASSUME IInv, NEW u \in Threads, Open(u)
  PROVE  /\ IsSession(u) /\ Fine(u)
         /\ txn[u].method = "claim" => u[2] = "main"
         /\ txn[u].method \in {"succeed", "fail"} =>
              /\ u = <<node.worker_id, "main">> /\ u[1] \in Workers
              /\ node.status = "running" /\ node.lease >= now
              /\ OutcomeFine(u[1], txn[u])
         /\ u[2] = "request" =>
              /\ txn[u].method \in {"promote", "resume", "retry", "force_rerun"}
              /\ RequestFine(txn[u])
<1>1. IsSession(u) /\ Fine(u)
  BY DEF IInv, TypeOK, SessionsInv
<1>2. txn[u].method \in MethodsOf(u)
  BY <1>1 DEF IsSession
<1>3. txn[u].method \in {"succeed", "fail"} => u = <<u[1], "main">> /\ u[1] \in Workers
  BY <1>2, ThreadFacts
<1> QED BY <1>1, <1>2, <1>3, ThreadFacts DEF Fine, OutcomeFine

LEMMA ClaimWonStep ==
  ASSUME IInv, NEW w \in Workers, ClaimWon(w)
  PROVE  IInv'
<1>1. PICK t \in Threads : t = <<w, "main">>
  BY ThreadsExist
<1>2. PICK read, no, expiry, c : /\ read = txn[t].row /\ no = read.attempt_count + 1
                                 /\ expiry = txn[t].time + LeaseTicks
                                 /\ c = [attempt_no |-> no, generation |-> read.generation,
                                         input |-> read.input]
  OBVIOUS
<1>3. /\ txn[t].method = "claim" /\ Open(t)
      /\ node.status = "pending" /\ node.attempt_count = read.attempt_count
      /\ node' = ClaimedRow(node, w, expiry)
      /\ attempt' = [attempt EXCEPT ![no] = ClaimedAttempt(read, w)]
      /\ claim' = [claim EXCEPT ![w] = c]
      /\ Close(t) /\ now' = now
  BY <1>1, <1>2 DEF ClaimWon, ClaimCondition, Reading, Open
<1>4. /\ node.generation = read.generation /\ node.attempt_count < MaxClaims
      /\ txn[t].time \in Nat
  <2>1. ClaimFine(txn[t]) /\ IsSession(t) /\ now \in Nat
    BY <1>3, SessionFacts DEF Fine, IInv, TypeOK
  <2> QED BY <1>2, <1>3, <2>1 DEF ClaimFine, IsSession
<1>5. /\ IsRow(node) /\ node.attempt_count \in Nat /\ MaxClaims \in Nat
      /\ no = node.attempt_count + 1 /\ no \in AttemptNos /\ expiry \in Int
  <2>1. IsRow(node) /\ node.attempt_count \in Nat /\ MaxClaims \in Nat /\ LeaseTicks \in Nat
    BY RowFacts, TransactionsAssumption DEF IInv, TypeOK
  <2> QED BY <1>2, <1>3, <1>4, <2>1 DEF AttemptNos
<1>6. /\ node' = [f \in RowFields |-> node'[f]]
      /\ node'.status = "running" /\ node'.attempt_count = no /\ node'.lease_token = no
      /\ node'.worker_id = w /\ node'.lease = expiry /\ node'.generation = node.generation
  BY <1>3, <1>5 DEF ClaimedRow, IsRow, RowFields
<1>7. IsRow(node')
  BY <1>5, <1>6 DEF IsRow, AttemptNos, NodeStatus
<1>8. /\ attempt' = [k \in AttemptNos |-> attempt'[k]]
      /\ attempt'[no] = ClaimedAttempt(read, w)
      /\ \A k \in AttemptNos : k # no => attempt'[k] = attempt[k]
  BY <1>3, <1>5 DEF IInv, TypeOK
<1>9. \A k \in AttemptNos : IsAttempt(attempt'[k])
  BY <1>8 DEF IInv, TypeOK, IsAttempt, ClaimedAttempt
<1>10. \A k \in AttemptNos : attempt[k].status # "running"
  BY <1>3 DEF IInv, AttemptsAgree
<1>11. AttemptsAgree' /\ RunningInv'
  <2>1. /\ attempt'[no].status = "running" /\ attempt'[no].worker_id = w
        /\ attempt'[no].generation = node.generation
    BY <1>4, <1>8 DEF ClaimedAttempt
  <2>2. AttemptsAgree'
    BY <1>6, <1>8, <1>10, <2>1 DEF AttemptsAgree
  <2> QED BY <1>5, <1>6, <2>2 DEF RunningInv, AttemptNos
<1>12. claim' = [v \in Workers |-> claim'[v]]
  BY <1>3 DEF IInv, TypeOK
<1>13. ASSUME NEW u \in Threads, u # t, Open(u)
       PROVE  Keeps(u)
  <2>1. txn'[u] = txn[u]
    BY <1>3, <1>13 DEF Close, IInv, TypeOK
  <2>2. txn[u].method \notin {"succeed", "fail"} /\ u[2] # "request"
    BY <1>3, <1>13, SessionFacts DEF RequestFine
  <2>3. node'.attempt_count >= node.attempt_count /\ node'.attempt_count # node.attempt_count
    BY <1>5, <1>6
  <2>4. \A k \in AttemptNos : k <= node.attempt_count => attempt'[k] = attempt[k]
    BY <1>5, <1>8 DEF AttemptNos
  <2> QED BY <2>1, <2>2, <2>3, <2>4 DEF Keeps
<1> QED BY <1>3, <1>7, <1>8, <1>9, <1>11, <1>12, <1>13, WriteStep

LEMMA FlushHeartbeatStep ==
  ASSUME IInv, NEW w \in Workers, FlushHeartbeat(w)
  PROVE  IInv' /\ node'.status = node.status
<1>1. PICK t \in Threads : t = <<w, "heartbeat">>
  BY ThreadsExist
<1>2. PICK read, expiry : read = txn[t].row /\ expiry = txn[t].time + LeaseTicks
  OBVIOUS
<1>3. PICK new : new = [read EXCEPT !.lease = expiry]
  OBVIOUS
<1>4. /\ txn[t].method = "heartbeat" /\ Open(t)
      /\ node' = Flush(read, new)
      /\ Close(t) /\ UNCHANGED <<attempt, claim, now>>
  BY <1>1, <1>2, <1>3 DEF FlushHeartbeat, Reading, Open
<1>5. /\ IsRow(node) /\ IsRow(read) /\ expiry = now + LeaseTicks
      /\ now \in Nat /\ LeaseTicks \in Nat
  BY <1>2, <1>4, SessionFacts, TransactionsAssumption DEF IInv, TypeOK, IsSession, Fine
<1>6. /\ \A f \in RowFields \ {"lease"} : new[f] = read[f]
      /\ new.lease = expiry
  BY <1>3, <1>5 DEF IsRow, RowFields
<1>7. /\ node' = [f \in RowFields |-> node'[f]]
      /\ \A f \in RowFields \ {"lease"} : node'[f] = node[f]
      /\ node'.lease \in {node.lease, expiry}
  <2>1. PICK row : row = Flush(read, new)
    OBVIOUS
  <2>2. "lease" \in RowFields
    BY DEF RowFields
  <2> QED BY <1>4, <1>5, <1>6, <2>1, <2>2, FlushFacts
<1>8. /\ node'.status = node.status /\ node'.attempt_count = node.attempt_count
      /\ node'.lease_token = node.lease_token /\ node'.worker_id = node.worker_id
      /\ node'.generation = node.generation
  BY <1>7 DEF RowFields
<1>9. IsRow(node')
  BY <1>5, <1>7, <1>8 DEF IsRow
<1>10. AttemptsAgree' /\ RunningInv'
  BY <1>4, <1>8 DEF IInv, AttemptsAgree, RunningInv
<1>11. ASSUME NEW u \in Threads, u # t, Open(u)
       PROVE  Keeps(u)
  <2>1. txn'[u] = txn[u]
    BY <1>4, <1>11 DEF Close, IInv, TypeOK
  <2>2. txn[u].method \in {"succeed", "fail"} => node'.lease >= now
    <3>1. txn[u].method \in {"succeed", "fail"} => node.lease >= now
      BY <1>11, SessionFacts
    <3> QED BY <1>5, <1>7, <3>1
  <2>3. node'.attempt_count >= node.attempt_count
    BY <1>5, <1>8, RowFacts
  <2> QED BY <1>4, <1>7, <1>8, <2>1, <2>2, <2>3 DEF Keeps
<1>12. IInv'
  BY <1>4, <1>9, <1>10, <1>11, WriteStep DEF IInv, TypeOK
<1> QED BY <1>8, <1>12

\* A flush over a row that differs at most in the lease leaves what was computed.
LEMMA FlushSameButLease ==
  ASSUME IsRow(node), NEW read, NEW new, SameButLease(read), IsRow(read),
         new = [f \in RowFields |-> new[f]], new.lease \in Int,
         node' = Flush(read, new)
  PROVE  /\ node' = [f \in RowFields |-> node'[f]]
         /\ \A f \in RowFields \ {"lease", "resume_token"} : node'[f] = new[f]
         /\ node'.lease \in Int
<1>1. PICK row : row = Flush(read, new)
  OBVIOUS
<1>2. /\ row = [f \in RowFields |-> row[f]]
      /\ \A f \in RowFields : new[f] = read[f] => row[f] = node[f]
      /\ \A f \in RowFields \ {"resume_token"} : new[f] # read[f] => row[f] = new[f]
  BY <1>1, FlushFacts
<1>3. "lease" \in RowFields /\ node.lease \in Int
  BY DEF RowFields, IsRow
<1> QED BY <1>1, <1>2, <1>3 DEF SameButLease

LEMMA FlushOutcomeStep ==
  ASSUME IInv, NEW w \in Workers, FlushOutcome(w)
  PROVE  /\ IInv'
         /\ claim[w].attempt_no = node.lease_token /\ claim'[w] = NoClaim
<1>1. PICK t \in Threads : t = <<w, "main">>
  BY ThreadsExist
<1>2. PICK read, new, status, k : /\ read = txn[t].row /\ new = Outcome(t).row
                                  /\ status = Outcome(t).status
                                  /\ k = claim[w].attempt_no
  OBVIOUS
<1>3. /\ txn[t].method \in {"heartbeat", "succeed", "fail"} /\ Open(t)
      /\ node' = Flush(read, new)
      /\ attempt' = [attempt EXCEPT ![k] = FinishedAttempt(@, status)]
      /\ claim' = [claim EXCEPT ![w] = NoClaim]
      /\ Close(t) /\ now' = now
  BY <1>1, <1>2 DEF FlushOutcome, ForClaim, Open
<1>4. /\ IsSession(t) /\ txn[t].method \in {"succeed", "fail"}
      /\ OutcomeFine(w, txn[t])
  <2>1. txn[t].method \in MethodsOf(t) /\ t[2] = "main" /\ t[1] = w
    BY <1>1, <1>3, SessionFacts DEF IsSession
  <2>2. txn[t].method # "heartbeat"
    BY <2>1, ThreadFacts
  <2> QED BY <1>3, <2>1, <2>2, SessionFacts
<1>5. /\ IsRow(node) /\ IsRow(read) /\ SameButLease(read)
      /\ node.status = "running" /\ node.worker_id = w /\ k = node.lease_token
      /\ k = node.attempt_count /\ k \in AttemptNos /\ k \in Nat
  <2>1. k = node.attempt_count /\ node.attempt_count > 0
    BY <1>2, <1>4 DEF OutcomeFine, IInv, AttemptsAgree, RunningInv
  <2>2. IsRow(node) /\ node.attempt_count \in Nat /\ node.attempt_count <= MaxClaims
          /\ MaxClaims \in Nat
    BY RowFacts, TransactionsAssumption DEF IInv, TypeOK
  <2> QED BY <1>2, <1>4, <2>1, <2>2 DEF OutcomeFine, IsSession, AttemptNos
<1>6. /\ new = [f \in RowFields |-> new[f]]
      /\ new.status = status /\ new.lease_token = 0 /\ new.lease = -1
      /\ new.attempt_count = read.attempt_count
      /\ status \in NodeStatus \ {"running", "pending"}
  <2>1. CASE txn[t].method = "succeed"
    <3>1. new = SucceededRow(read) /\ status = "succeeded"
      BY <1>2, <2>1 DEF Outcome
    <3> QED BY <1>5, <3>1 DEF SucceededRow, IsRow, RowFields, NodeStatus
  <2>2. CASE txn[t].method = "fail"
    <3>1. PICK d, time : d \in ErrorDisposition /\ d = txn[t].arg /\ time = txn[t].time
      BY <1>4, <2>2, TransactionsAssumption DEF IsSession
    <3>2. new = FailedRow(read, d, time) /\ status = FailTarget(read, d)
      BY <1>2, <2>2, <3>1 DEF Outcome
    <3>3. status \in NodeStatus \ {"running", "pending"}
      BY <3>1, <3>2 DEF FailTarget, NodeStatus, ErrorDisposition
    <3> QED BY <1>5, <3>2, <3>3 DEF FailedRow, IsRow, RowFields
  <2> QED BY <1>4, <2>1, <2>2
<1>7. /\ node' = [f \in RowFields |-> node'[f]] /\ node'.lease \in Int
      /\ node'.status = status /\ node'.lease_token = 0
      /\ node'.attempt_count = node.attempt_count
  <2>1. /\ node' = [f \in RowFields |-> node'[f]] /\ node'.lease \in Int
        /\ \A f \in RowFields \ {"lease", "resume_token"} : node'[f] = new[f]
    BY <1>3, <1>5, <1>6, FlushSameButLease
  <2>2. read.attempt_count = node.attempt_count
    BY <1>5 DEF SameButLease, RowFields
  <2> QED BY <1>6, <2>1, <2>2 DEF RowFields
<1>8. IsRow(node')
  BY <1>5, <1>6, <1>7, TransactionsAssumption DEF IsRow
<1>9. /\ attempt' = [j \in AttemptNos |-> attempt'[j]]
      /\ attempt'[k] = FinishedAttempt(attempt[k], status)
      /\ \A j \in AttemptNos : j # k => attempt'[j] = attempt[j]
      /\ IsAttempt(attempt[k])
  BY <1>3, <1>5 DEF IInv, TypeOK
<1>10. attempt'[k].status = status /\ IsAttempt(attempt'[k])
  BY <1>9 DEF FinishedAttempt, IsAttempt
<1>11. \A j \in AttemptNos : attempt'[j].status # "running" /\ IsAttempt(attempt'[j])
  BY <1>5, <1>6, <1>9, <1>10 DEF IInv, AttemptsAgree, TypeOK
<1>12. AttemptsAgree' /\ RunningInv'
  BY <1>6, <1>7, <1>11 DEF AttemptsAgree, RunningInv
<1>13. claim' = [v \in Workers |-> claim'[v]] /\ claim'[w] = NoClaim
  BY <1>3 DEF IInv, TypeOK
<1>14. ASSUME NEW u \in Threads, u # t, Open(u)
       PROVE  Keeps(u)
  <2>1. txn'[u] = txn[u]
    BY <1>3, <1>14 DEF Close, IInv, TypeOK
  <2>2. txn[u].method \notin {"succeed", "fail"} /\ u[2] # "request"
    BY <1>1, <1>5, <1>14, SessionFacts DEF RequestFine
  <2>3. node'.attempt_count >= node.attempt_count
    BY <1>5, <1>7
  <2> QED BY <1>5, <1>7, <1>11, <2>1, <2>2, <2>3 DEF Keeps
<1>15. IInv'
  BY <1>3, <1>8, <1>9, <1>11, <1>12, <1>13, <1>14, WriteStep
<1> QED BY <1>2, <1>5, <1>13, <1>15

LEMMA UpdateStaleStep ==
  ASSUME IInv, NEW p \in Recoverers, UpdateStale(p)
  PROVE  IInv' /\ node.lease < now
<1>1. PICK t \in Threads : t = <<p, "recover">>
  BY ThreadsExist
<1>2. PICK read, time, k : /\ read = txn[t].row /\ time = txn[t].time
                           /\ k = read.lease_token
  OBVIOUS
<1>3. /\ txn[t].method = "recover" /\ Open(t) /\ txn[t].arg = "attempt"
      /\ node.status = "running" /\ node.lease_token = k /\ node.lease < time
      /\ node' = RecoveredRow(node, MaxAttempts, time)
      /\ Close(t) /\ UNCHANGED <<claim, now>>
  BY <1>1, <1>2 DEF UpdateStale, StaleCondition, Reading, Open
<1>4. /\ IsRow(node) /\ k = node.attempt_count /\ k \in AttemptNos /\ k \in Nat
      /\ attempt[k].status = "running"
  <2>1. k = node.attempt_count /\ node.attempt_count > 0 /\ attempt[k].status = "running"
    BY <1>3 DEF IInv, AttemptsAgree, RunningInv
  <2>2. IsRow(node) /\ node.attempt_count \in Nat /\ node.attempt_count <= MaxClaims
          /\ MaxClaims \in Nat
    BY RowFacts, TransactionsAssumption DEF IInv, TypeOK
  <2> QED BY <2>1, <2>2 DEF AttemptNos
<1>5. RecoverFine(txn[t]) /\ IsSession(t)
  BY <1>3, SessionFacts DEF Fine
<1>6. node.lease < now
  <2>1. time \in 0 .. now /\ now \in Nat /\ node.lease \in Int
    BY <1>2, <1>4, <1>5 DEF IsSession, IInv, TypeOK, IsRow
  <2> QED BY <1>3, <2>1
<1>7. txn[t].att # NoAttempt
  BY <1>2, <1>3, <1>4, <1>5 DEF RecoverFine
<1>8. attempt' = [attempt EXCEPT ![k] = FinishedAttempt(@, "stale")]
  BY <1>1, <1>2, <1>7 DEF UpdateStale
<1>9. /\ attempt' = [j \in AttemptNos |-> attempt'[j]]
      /\ attempt'[k] = FinishedAttempt(attempt[k], "stale")
      /\ \A j \in AttemptNos : j # k => attempt'[j] = attempt[j]
      /\ IsAttempt(attempt[k])
  BY <1>4, <1>8 DEF IInv, TypeOK
<1>10. attempt'[k].status = "stale" /\ IsAttempt(attempt'[k])
  BY <1>9 DEF FinishedAttempt, IsAttempt
<1>11. \A j \in AttemptNos : attempt'[j].status # "running" /\ IsAttempt(attempt'[j])
  BY <1>4, <1>9, <1>10 DEF IInv, AttemptsAgree, TypeOK
<1>12. /\ node' = [f \in RowFields |-> node'[f]] /\ node'.lease = -1
       /\ node'.status \in {"retry_wait", "failed"} /\ node'.lease_token = 0
       /\ node'.attempt_count = node.attempt_count
  <2>1. PICK target : target = RecoveryTarget(node, MaxAttempts)
    OBVIOUS
  <2>2. target \in {"retry_wait", "failed"}
    BY <2>1 DEF RecoveryTarget
  <2>3. PICK retry : retry = IF target = "retry_wait" THEN time ELSE -1
    OBVIOUS
  <2>4. node' = [node EXCEPT !.status = target, !.worker_id = NoWorker, !.lease_token = 0,
                             !.lease = -1, !.next_retry = retry]
    BY <1>3, <2>1, <2>3 DEF RecoveredRow
  <2> QED BY <1>4, <2>2, <2>4 DEF IsRow, RowFields
<1>13. IsRow(node')
  BY <1>4, <1>12, TransactionsAssumption DEF IsRow, NodeStatus
<1>14. AttemptsAgree' /\ RunningInv'
  BY <1>11, <1>12 DEF AttemptsAgree, RunningInv
<1>15. ASSUME NEW u \in Threads, u # t, Open(u)
       PROVE  Keeps(u)
  <2>1. txn'[u] = txn[u]
    BY <1>3, <1>15 DEF Close, IInv, TypeOK
  <2>2. txn[u].method \notin {"succeed", "fail"} /\ u[2] # "request"
    <3>1. now \in Nat /\ node.lease \in Int
      BY <1>4 DEF IInv, TypeOK, IsRow
    <3> QED BY <1>3, <1>6, <1>15, <3>1, SessionFacts DEF RequestFine
  <2>3. node'.attempt_count >= node.attempt_count
    BY <1>4, <1>12
  <2> QED BY <1>3, <1>11, <1>12, <2>1, <2>2, <2>3 DEF Keeps
<1>16. IInv'
  BY <1>3, <1>9, <1>11, <1>13, <1>14, <1>15, WriteStep DEF IInv, TypeOK
<1> QED BY <1>6, <1>16

LEMMA FlushUpdateStep ==
  ASSUME IInv, Studied, NEW r \in Requests, FlushUpdate(r)
  PROVE  IInv' /\ node.status # "running"
<1>1. PICK t \in Threads : t = <<r, "request">>
  BY ThreadsExist
<1>2. PICK read, new, method : read = txn[t].row /\ new = Updated(t) /\ method = txn[t].method
  OBVIOUS
<1>3. /\ Open(t) /\ node' = Flush(read, new) /\ Close(t)
      /\ UNCHANGED <<attempt, claim, now>>
  BY <1>1, <1>2 DEF FlushUpdate, Open
<1>4. /\ IsSession(t) /\ RequestFine(txn[t])
      /\ method \in {"promote", "resume", "retry", "force_rerun"}
  BY <1>1, <1>2, <1>3, SessionFacts
<1>5. /\ IsRow(node) /\ IsRow(read) /\ SameButLease(read)
      /\ node.status \notin {"pending", "running"} /\ node.attempt_count \in Nat
  BY <1>2, <1>4, RowFacts DEF RequestFine, IsSession, IInv, TypeOK
<1>6. /\ new = [f \in RowFields |-> new[f]]
      /\ new.status = "pending" /\ new.lease_token \in {0, read.lease_token}
      /\ new.lease \in {-1, read.lease} /\ new.attempt_count = read.attempt_count
  <2>1. CASE method = "promote"
    <3>1. new = PromotedRow(read)
      BY <1>2, <2>1 DEF Updated, Operations
    <3> QED BY <1>5, <3>1 DEF PromotedRow, IsRow, RowFields
  <2>2. CASE method \in Operations
    <3>1. new = ResetRow(read, method)
      BY <1>2, <2>2 DEF Updated, Operations
    <3>2. PICK g : g = IF method = "force_rerun" THEN read.generation + 1 ELSE read.generation
      OBVIOUS
    <3>3. new = [read EXCEPT !.status = "pending", !.generation = g,
                             !.worker_id = NoWorker, !.lease_token = 0, !.lease = -1,
                             !.next_retry = -1, !.output = 0, !.resume_token = @ + 1]
      BY <3>1, <3>2 DEF ResetRow
    <3> QED BY <1>5, <3>3 DEF IsRow, RowFields
  <2> QED BY <1>4, <2>1, <2>2 DEF Operations
<1>7. /\ node' = [f \in RowFields |-> node'[f]] /\ node'.lease \in Int
      /\ node'.status = "pending" /\ node'.lease_token \in {0, read.lease_token}
      /\ node'.attempt_count = node.attempt_count
  <2>1. new.lease \in Int
    BY <1>5, <1>6 DEF IsRow
  <2>2. /\ node' = [f \in RowFields |-> node'[f]] /\ node'.lease \in Int
        /\ \A f \in RowFields \ {"lease", "resume_token"} : node'[f] = new[f]
    BY <1>3, <1>5, <1>6, <2>1, FlushSameButLease
  <2>3. read.attempt_count = node.attempt_count
    BY <1>5 DEF SameButLease, RowFields
  <2> QED BY <1>6, <2>2, <2>3 DEF RowFields
<1>8. IsRow(node')
  BY <1>5, <1>7, TransactionsAssumption DEF IsRow, NodeStatus
<1>9. AttemptsAgree' /\ RunningInv'
  BY <1>3, <1>5, <1>7 DEF IInv, AttemptsAgree, RunningInv
<1>10. ASSUME NEW u \in Threads, u # t, Open(u)
       PROVE  Keeps(u)
  <2>1. txn'[u] = txn[u]
    BY <1>3, <1>10 DEF Close, IInv, TypeOK
  <2>2. txn[u].method \notin {"succeed", "fail"}
    BY <1>5, <1>10, SessionFacts
  <2>3. u[2] # "request"
    BY <1>1, <1>10, ThreadFacts DEF Studied, OneRequester
  <2>4. node'.attempt_count >= node.attempt_count
    BY <1>5, <1>7
  <2> QED BY <1>3, <1>5, <1>7, <2>1, <2>2, <2>3, <2>4 DEF Keeps
<1>11. IInv'
  BY <1>3, <1>8, <1>9, <1>10, WriteStep DEF IInv, TypeOK
<1> QED BY <1>5, <1>11

\* No session of a lease holder is open while time passes.
LEMMA TickStep ==
  ASSUME IInv, Studied, Tick
  PROVE  IInv'
<1>1. UNCHANGED <<node, attempt, claim, txn>> /\ now' = now + 1 /\ now \in Nat
  BY DEF Tick, IInv, TypeOK
<1>2. ASSUME NEW t \in Threads, Open(t)'
      PROVE  IsSession(t)' /\ Fine(t)'
  <2>1. Open(t) /\ IsSession(t) /\ Fine(t) /\ txn[t].method \notin {"heartbeat", "succeed", "fail"}
    BY <1>1, <1>2, SessionFacts DEF Open, Tick, Studied, ShortSessions, ForClaim
  <2>2. IsSession(t)'
    <3>1. txn[t].time \in 0 .. now'
      BY <1>1, <2>1 DEF IsSession
    <3> QED BY <1>1, <2>1, <3>1 DEF IsSession, MethodsOf
  <2>3. txn[t].method = "claim" => ClaimFine(txn[t])'
    BY <1>1, <2>1 DEF Fine, ClaimFine
  <2>4. txn[t].method = "recover" => RecoverFine(txn[t])'
    BY <1>1, <2>1 DEF Fine, RecoverFine
  <2>5. t[2] = "request" => RequestFine(txn[t])'
    BY <1>1, <2>1 DEF Fine, RequestFine, SameButLease
  <2> QED BY <1>1, <2>1, <2>2, <2>3, <2>4, <2>5 DEF Fine
<1>3. TypeOK'
  BY <1>1, <1>2 DEF IInv, TypeOK, IsRow, IsAttempt
<1> QED BY <1>1, <1>2, <1>3 DEF IInv, RunningInv, AttemptsAgree, SessionsInv

------------------------------------------------------------------------------
(* The invariant holds *)

LEMMA InitInv ==
  ASSUME Init PROVE IInv
<1>1. PICK i \in Inputs : node = CreatedRow(i)
  BY DEF Init
<1>2. IsRow(node) /\ node.status = "pending"
  BY <1>1, TransactionsAssumption DEF CreatedRow, IsRow, RowFields, NodeStatus
<1>3. \A k \in AttemptNos : attempt[k] = NoAttempt
  BY DEF Init
<1>4. IsAttempt(NoAttempt) /\ NoAttempt.status = "absent"
  BY DEF IsAttempt, NoAttempt
<1>5. txn = [t \in Threads |-> txn[t]] /\ \A t \in Threads : ~Open(t)
  BY DEF Init, Open
<1>6. TypeOK
  BY <1>2, <1>3, <1>4, <1>5 DEF TypeOK, Init
<1> QED BY <1>2, <1>3, <1>4, <1>5, <1>6
        DEF IInv, RunningInv, AttemptsAgree, SessionsInv

LEMMA NextInv ==
  ASSUME IInv, Studied, [Next]_vars PROVE IInv'
<1>1. ASSUME NEW w \in Workers,
             \/ SelectForClaim(w) \/ ClaimWon(w) \/ ClaimLost(w)
             \/ SelectLockedNode(w) \/ LeaseLost(w) \/ HeartbeatLost(w)
             \/ FlushHeartbeat(w) \/ FlushOutcome(w) \/ Crash(w)
      PROVE  IInv'
  BY <1>1, WorkerSelects, ClaimWonStep, FlushHeartbeatStep, FlushOutcomeStep, SessionsEnd
<1>2. ASSUME NEW t \in Threads, SelectRunningAttempt(t)
      PROVE  IInv'
  BY <1>2, SelectsRunningAttempt
<1>3. ASSUME NEW p \in Recoverers,
             SelectStale(p) \/ SelectStaleAttempt(p) \/ UpdateStale(p) \/ StaleLost(p)
      PROVE  IInv'
  BY <1>3, OtherSelects, SelectsStaleAttempt, UpdateStaleStep, SessionsEnd
<1>4. ASSUME NEW r \in Requests, SelectForUpdate(r) \/ FlushUpdate(r)
      PROVE  IInv'
  BY <1>4, OtherSelects, FlushUpdateStep
<1>5. CASE Tick
  BY <1>5, TickStep
<1>6. CASE UNCHANGED vars
  BY <1>6, CloseStep DEF vars, IInv, TypeOK
<1> QED BY <1>1, <1>2, <1>3, <1>4, <1>5, <1>6 DEF Next

\* The statements of claim, heartbeat, succeed, fail and recover_stale of any
\* number of threads, interleaved between any two SELECTs and flushes with each
\* other and with one thread that promotes or re-opens the node, never leave a
\* running node without its running attempt or the reverse, as long as no lease
\* runs out within a session of its holder and nobody cancels the run.
THEOREM AttemptsAgreeInterleaved ==
  ASSUME ShortSessions, NoCancelRun, OneRequester
  PROVE  Spec => []AttemptsAgree
<1>0. Studied
  BY DEF Studied
<1>1. Init => IInv
  BY InitInv
<1>2. IInv /\ [Next]_vars => IInv'
  BY <1>0, NextInv
<1>3. IInv => AttemptsAgree
  BY DEF IInv
<1> QED BY <1>1, <1>2, <1>3, PTL DEF Spec

\* Among claims, heartbeats, outcomes and recoveries in any interleaving, with one
\* thread that promotes or re-opens the node beside them, a running node is ended by
\* the worker that holds its lease or by a recover_stale that finds the lease
\* expired.  It is not so for a session that outlives its lease, for a second thread
\* that promotes or re-opens, and for cancel_run: what they flush may end an attempt
\* they have not read.
THEOREM LeasesRespected ==
  ASSUME ShortSessions, NoCancelRun, OneRequester
  PROVE  Spec => OnlyExpiredLeasesTaken
<1>0. Studied
  BY DEF Studied
<1> DEFINE Taken == node.status = "running" /\ node'.status # "running" =>
                      \/ node.lease < now
                      \/ \E w \in Workers :
                           claim[w].attempt_no = node.lease_token /\ claim'[w] = NoClaim
<1>1. Init => IInv
  BY InitInv
<1>2. IInv /\ [Next]_vars => IInv'
  BY <1>0, NextInv
<1>3. IInv /\ [Next]_vars => [Taken]_vars
  <2> SUFFICES ASSUME IInv, Next, node.status = "running", node'.status # "running"
               PROVE  \/ node.lease < now
                      \/ \E w \in Workers :
                           claim[w].attempt_no = node.lease_token /\ claim'[w] = NoClaim
    OBVIOUS
  <2>1. ASSUME NEW w \in Workers, FlushOutcome(w)
        PROVE  claim[w].attempt_no = node.lease_token /\ claim'[w] = NoClaim
    BY <2>1, FlushOutcomeStep
  <2>2. ASSUME NEW p \in Recoverers, UpdateStale(p)
        PROVE  node.lease < now
    BY <2>2, UpdateStaleStep
  <2>3. ASSUME NEW r \in Requests, FlushUpdate(r)
        PROVE  FALSE
    BY <1>0, <2>3, FlushUpdateStep
  <2>4. ASSUME NEW w \in Workers, ClaimWon(w)
        PROVE  FALSE
    BY <2>4 DEF ClaimWon, ClaimCondition
  <2>5. ASSUME NEW w \in Workers, FlushHeartbeat(w)
        PROVE  FALSE
    BY <2>5, FlushHeartbeatStep
  <2>6. node' # node
    OBVIOUS
  <2> QED BY <2>1, <2>2, <2>3, <2>4, <2>5, <2>6
          DEF Next, SelectForClaim, ClaimLost, Rejected, SelectLockedNode, LeaseLost,
              HeartbeatLost, Crash, SelectRunningAttempt, SelectStale, SelectStaleAttempt,
              StaleLost, SelectForUpdate, Tick
<1>4. QED
  BY <1>1, <1>2, <1>3, PTL DEF Spec, OnlyExpiredLeasesTaken
=============================================================================
