---------------------- MODULE SellerSpriteExport_proofs ----------------------
(* A call leaves one manifest at most and an outcome that needs a human ends  *)
(* its batch, for any number of callers, ASINs, retries and downloads.        *)
EXTENDS SellerSpriteExport, TLAPS

USE ExportAssumption

------------------------------------------------------------------------------
(* The inductive invariant *)

Steps == {"idle", "next", "open", "check", "submit", "snapshot", "click", "wait", "stable",
          "exported", "imported", "saved"}

ExportId == [id : Nat, attempt : Nat]

CallRow ==
  [pc : Steps, todo : Seq(Asins), export : ExportId, names : SUBSET Files, since : Nat,
   file : Files \cup {NoFile}, version : Nat]

FileRow ==
  [stage : {"absent", "requested", "done", "lost"}, asin : Asins \cup {NoAsin}, by : ExportId,
   mtime : Nat, version : Nat, late : BOOLEAN]

First(c) == call[c].export.id
Beyond(c) == call[c].export.id + Len(call[c].todo)

\* A batch under way has numbers for all that is left of it, ...
Numbered ==
  \A c \in Callers : ~At(c, "idle") =>
    First(c) > 0 /\ call[c].todo # <<>> /\ Beyond(c) <= calls + 1

\* ... which no other batch has, ...
Apart ==
  \A c, d \in Callers : c # d /\ ~At(c, "idle") /\ ~At(d, "idle") =>
    Beyond(c) <= First(d) \/ Beyond(d) <= First(c)

\* ... and no manifest, but that of a call which has just saved its own.
Unsaved ==
  \A m \in manifests :
    /\ m.id \in Nat /\ m.id <= calls
    /\ \A c \in Callers : ~At(c, "idle") =>
         m.id < First(c) \/ m.id >= Beyond(c) \/ (m.id = First(c) /\ At(c, "saved"))

\* A batch goes on only while no outcome has needed a human.
NoHumanYet ==
  \A c \in Callers : \A i \in 1 .. Len(results[c]) :
    results[c][i] = "NEEDS_HUMAN" => At(c, "idle") /\ i = Len(results[c])

BatchInv ==
  /\ call \in [Callers -> CallRow]
  /\ results \in [Callers -> Seq(Statuses)]
  /\ calls \in Nat
  /\ Numbered /\ Apart /\ Unsaved /\ NoHumanYet /\ OneManifestPerCall

Directory == page \in Asins \cup {NoAsin} /\ files \in [Files -> FileRow] /\ now \in Nat

IInv == BatchInv /\ Directory

------------------------------------------------------------------------------
(* One caller moves *)

Codes == {"HUMAN", "EXPORT_FAILED", "DOWNLOAD_TIMEOUT", "CANCELLED", "ASIN_MISMATCH",
          "AMBIGUOUS_DOWNLOAD", "INVALID_EXPORT", "INTERNAL"}

LEMMA CallFacts ==
  ASSUME IInv, NEW c \in Callers
  PROVE  /\ call[c] \in CallRow /\ call[c].todo \in Seq(Asins) /\ call[c].export \in ExportId
         /\ First(c) \in Nat /\ Len(call[c].todo) \in Nat /\ calls \in Nat
         /\ Beyond(c) \in Nat /\ Beyond(c) = First(c) + Len(call[c].todo)
BY DEF IInv, BatchInv, CallRow, ExportId, First, Beyond

\* The export of the present ASIN goes on, its attempts included.
LEMMA GoesOn ==
  ASSUME IInv, NEW c \in Callers, ~At(c, "idle"), ~At(c, "saved"), NEW row \in CallRow,
         row.pc # "idle", row.todo = call[c].todo, row.export.id = First(c),
         call' = [call EXCEPT ![c] = row], UNCHANGED <<results, manifests, calls>>
  PROVE  BatchInv'
<1>1. call' \in [Callers -> CallRow] /\ \A d \in Callers : call'[d] = IF d = c THEN row ELSE call[d]
  BY DEF IInv, BatchInv
<1>2. \A d \in Callers : /\ At(d, "idle")' <=> At(d, "idle")
                         /\ At(d, "saved") => At(d, "saved")'
                         /\ First(d)' = First(d) /\ Beyond(d)' = Beyond(d)
                         /\ call'[d].todo = call[d].todo
  BY <1>1 DEF At, First, Beyond
<1>3. Numbered' /\ Apart' /\ NoHumanYet' /\ OneManifestPerCall'
  BY <1>2 DEF IInv, BatchInv, Numbered, Apart, NoHumanYet, OneManifestPerCall
<1>4. Unsaved'
  BY <1>2 DEF IInv, BatchInv, Unsaved
<1>. QED
  BY <1>1, <1>3, <1>4 DEF IInv, BatchInv

\* The call has its outcome: the batch goes on with the next ASIN, or ends.
LEMMA Concludes ==
  ASSUME IInv, NEW c \in Callers, ~At(c, "idle"), NEW status \in Statuses, Conclude(c, status),
         calls' = calls,
         \/ manifests' = manifests
         \/ At(c, "imported") /\ manifests' = manifests \cup {Manifest(c)}
  PROVE  BatchInv'
<1>. DEFINE rest == Tail(call[c].todo)
            stops == status \in StopCodes \/ rest = <<>>
            row == IF stops THEN Idle
                   ELSE [Idle EXCEPT !.pc = "next", !.todo = rest, !.export.id = First(c) + 1]
<1>1. /\ First(c) \in Nat /\ First(c) > 0 /\ call[c].todo \in Seq(Asins) /\ call[c].todo # <<>>
      /\ calls \in Nat /\ Beyond(c) <= calls + 1 /\ Beyond(c) = First(c) + Len(call[c].todo)
  BY CallFacts DEF IInv, BatchInv, Numbered
<1>2. rest \in Seq(Asins) /\ Len(rest) = Len(call[c].todo) - 1 /\ Len(rest) \in Nat
        /\ Len(call[c].todo) \in Nat
  BY <1>1
<1>3. call' = [call EXCEPT ![c] = row] /\ results' = [results EXCEPT ![c] = Append(@, status)]
  BY DEF Conclude, First
<1>4. Idle \in CallRow /\ Idle.pc = "idle" /\ Idle.export \in ExportId
  BY DEF Idle, NoExport, CallRow, ExportId, Steps
<1>5. /\ row \in CallRow
      /\ stops => row.pc = "idle"
      /\ ~stops => /\ row.pc = "next" /\ row.todo = rest /\ row.export.id = First(c) + 1
  <2>1. CASE stops
    BY <2>1, <1>4
  <2>2. CASE ~stops
    <3>. DEFINE export == [Idle.export EXCEPT !.id = First(c) + 1]
    <3>1. export \in ExportId /\ export.id = First(c) + 1
      BY <1>1, <1>4 DEF ExportId
    <3>2. row = [Idle EXCEPT !.pc = "next", !.todo = rest, !.export = export]
      BY <2>2, <1>4 DEF CallRow
    <3>. HIDE DEF export, rest
    <3>3. row \in CallRow /\ row.pc = "next" /\ row.todo = rest /\ row.export = export
      BY <1>2, <1>4, <3>1, <3>2 DEF CallRow, Steps
    <3>. QED
      BY <2>2, <3>1, <3>3
  <2>. QED
    BY <2>1, <2>2
<1>. HIDE DEF row
<1>6. call' \in [Callers -> CallRow] /\ call'[c] = row /\ \A d \in Callers : d # c => call'[d] = call[d]
  BY <1>3, <1>5 DEF IInv, BatchInv
<1>7. \A d \in Callers : d # c => /\ At(d, "idle")' <=> At(d, "idle")
                                  /\ At(d, "saved")' <=> At(d, "saved")
                                  /\ First(d)' = First(d) /\ Beyond(d)' = Beyond(d)
  BY <1>6 DEF At, First, Beyond
<1>8. ~At(c, "idle")' => /\ ~stops /\ First(c)' = First(c) + 1 /\ Beyond(c)' = Beyond(c)
                         /\ call'[c].todo # <<>> /\ ~At(c, "saved")'
  <2>. SUFFICES ASSUME ~At(c, "idle")'
                PROVE  /\ ~stops /\ First(c)' = First(c) + 1 /\ Beyond(c)' = Beyond(c)
                       /\ call'[c].todo # <<>> /\ ~At(c, "saved")'
    OBVIOUS
  <2>1. ~stops /\ row.pc = "next" /\ row.todo = rest /\ row.export.id = First(c) + 1
    BY <1>5, <1>6 DEF At
  <2>2. call'[c].pc = "next" /\ call'[c].todo = rest /\ call'[c].export.id = First(c) + 1
    BY <1>6, <2>1
  <2>3. Beyond(c)' = First(c) + 1 + Len(rest)
    BY <2>2 DEF Beyond
  <2>4. Beyond(c)' = Beyond(c)
    <3>1. Len(rest) + 1 = Len(call[c].todo)
      BY <1>2
    <3>2. \A x, y, z \in Nat : y + 1 = z => x + 1 + y = x + z
      OBVIOUS
    <3>3. First(c) \in Nat /\ Len(rest) \in Nat /\ Len(call[c].todo) \in Nat
      BY <1>1, <1>2
    <3>4. Beyond(c) = First(c) + Len(call[c].todo)
      BY <1>1
    <3>. HIDE DEF rest
    <3>. QED
      BY <2>3, <3>1, <3>2, <3>3, <3>4
  <2>. QED
    BY <2>1, <2>2, <2>4 DEF At, First
<1>9. Numbered'
  <2>. SUFFICES ASSUME NEW d \in Callers, ~At(d, "idle")'
                PROVE  First(d)' > 0 /\ call'[d].todo # <<>> /\ Beyond(d)' <= calls + 1
    BY DEF Numbered
  <2>1. CASE d = c
    BY <2>1, <1>1, <1>8
  <2>2. CASE d # c
    BY <2>2, <1>6, <1>7 DEF IInv, BatchInv, Numbered
  <2>. QED
    BY <2>1, <2>2
<1>10. Apart'
  <2>. SUFFICES ASSUME NEW d \in Callers, NEW e \in Callers, d # e, ~At(d, "idle")', ~At(e, "idle")'
                PROVE  Beyond(d)' <= First(e)' \/ Beyond(e)' <= First(d)'
    BY DEF Apart
  <2>1. /\ ~At(d, "idle") /\ ~At(e, "idle")
        /\ Beyond(d)' = Beyond(d) /\ Beyond(e)' = Beyond(e)
        /\ First(d)' = First(d) \/ First(d)' = First(d) + 1
        /\ First(e)' = First(e) \/ First(e)' = First(e) + 1
    BY <1>7, <1>8
  <2>2. Beyond(d) <= First(e) \/ Beyond(e) <= First(d)
    BY <2>1 DEF IInv, BatchInv, Apart
  <2>3. First(d) \in Nat /\ First(e) \in Nat /\ Beyond(d) \in Nat /\ Beyond(e) \in Nat
    BY CallFacts
  <2>. QED
    BY <2>1, <2>2, <2>3
<1>11. NoHumanYet'
  <2>. SUFFICES ASSUME NEW d \in Callers, NEW i \in 1 .. Len(results'[d]), results'[d][i] = "NEEDS_HUMAN"
                PROVE  At(d, "idle")' /\ i = Len(results'[d])
    BY DEF NoHumanYet
  <2>1. results[d] \in Seq(Statuses) /\ results'[d] = IF d = c THEN Append(results[d], status) ELSE results[d]
    BY <1>3 DEF IInv, BatchInv
  <2>2. CASE d # c
    BY <2>1, <2>2, <1>7 DEF IInv, BatchInv, NoHumanYet
  <2>3. CASE d = c
    <3>1. Len(results'[c]) = Len(results[c]) + 1 /\ Len(results[c]) \in Nat
      BY <2>1, <2>3
    <3>2. i \in 1 .. Len(results[c]) => results[c][i] = "NEEDS_HUMAN"
      BY <2>1, <2>3
    <3>3. i = Len(results[c]) + 1
      BY <2>3, <3>1, <3>2 DEF IInv, BatchInv, NoHumanYet
    <3>4. status = "NEEDS_HUMAN"
      BY <2>1, <2>3, <3>3
    <3>. QED
      BY <2>3, <3>1, <3>3, <3>4, <1>5, <1>6 DEF StopCodes, At
  <2>. QED
    BY <2>2, <2>3
<1>12. \A m \in manifests' :
         \/ m \in manifests
         \/ m.id = First(c) /\ m = Manifest(c) /\ At(c, "imported")
  BY DEF Manifest, First
<1>13. Unsaved'
  <2>. SUFFICES ASSUME NEW m \in manifests'
                PROVE  /\ m.id \in Nat /\ m.id <= calls
                       /\ \A d \in Callers : ~At(d, "idle")' =>
                            m.id < First(d)' \/ m.id >= Beyond(d)' \/ (m.id = First(d)' /\ At(d, "saved")')
    BY DEF Unsaved
  <2>1. CASE m \in manifests
    <3>1. m.id \in Nat /\ m.id <= calls
      BY <2>1 DEF IInv, BatchInv, Unsaved
    <3>2. ASSUME NEW d \in Callers, ~At(d, "idle")', d # c
          PROVE  m.id < First(d)' \/ m.id >= Beyond(d)' \/ (m.id = First(d)' /\ At(d, "saved")')
      BY <2>1, <3>2, <1>7 DEF IInv, BatchInv, Unsaved
    <3>3. ASSUME ~At(c, "idle")' PROVE m.id < First(c)' \/ m.id >= Beyond(c)'
      <4>1. m.id < First(c) \/ m.id >= Beyond(c) \/ m.id = First(c)
        BY <2>1 DEF IInv, BatchInv, Unsaved
      <4>. QED
        BY <1>1, <1>8, <3>1, <3>3, <4>1
    <3>. QED
      BY <3>1, <3>2, <3>3
  <2>2. CASE m.id = First(c)
    <3>1. m.id \in Nat /\ m.id <= calls
      BY <2>2, <1>1, <1>2
    <3>2. ASSUME NEW d \in Callers, ~At(d, "idle")', d # c
          PROVE  m.id < First(d)' \/ m.id >= Beyond(d)'
      <4>1. ~At(d, "idle") /\ First(d)' = First(d) /\ Beyond(d)' = Beyond(d)
        BY <3>2, <1>7
      <4>2. Beyond(d) <= First(c) \/ Beyond(c) <= First(d)
        BY <3>2, <4>1 DEF IInv, BatchInv, Apart
      <4>3. Beyond(c) > First(c) /\ First(d) \in Nat /\ Beyond(d) \in Nat
        BY <3>2, <1>1, <1>2, CallFacts
      <4>. QED
        BY <2>2, <1>1, <4>1, <4>2, <4>3
    <3>3. ~At(c, "idle")' => m.id < First(c)'
      BY <2>2, <1>1, <1>8
    <3>. QED
      BY <3>1, <3>2, <3>3
  <2>. QED
    BY <2>1, <2>2, <1>12
<1>14. OneManifestPerCall'
  <2>1. At(c, "imported") => \A m \in manifests : m.id # First(c)
    BY <1>1, <1>2 DEF IInv, BatchInv, Unsaved, At
  <2>. QED
    BY <1>12, <2>1 DEF IInv, BatchInv, OneManifestPerCall
<1>15. results' \in [Callers -> Seq(Statuses)]
  BY <1>3 DEF IInv, BatchInv
<1>. QED
  BY <1>6, <1>9, <1>10, <1>11, <1>13, <1>14, <1>15 DEF IInv, BatchInv

LEMMA StepsOn ==
  ASSUME IInv, NEW c \in Callers, ~At(c, "idle"), ~At(c, "saved"), NEW pc \in Steps \ {"idle"},
         Step(c, pc), UNCHANGED <<results, manifests, calls>>
  PROVE  BatchInv'
<1>. DEFINE row == [call[c] EXCEPT !.pc = pc]
<1>1. row \in CallRow /\ row.pc = pc /\ row.todo = call[c].todo /\ row.export = call[c].export
  BY CallFacts DEF CallRow
<1>2. call' = [call EXCEPT ![c] = row]
  BY DEF Step
<1>. HIDE DEF row
<1>. QED
  BY <1>1, <1>2, GoesOn DEF First

\* An attempt raises: it is made again, or the call is concluded.
LEMMA Raises ==
  ASSUME IInv, NEW c \in Callers, ~At(c, "idle"), NEW code \in Codes, Raise(c, code),
         calls' = calls,
         code \in RetryableCodes => ~At(c, "saved") /\ manifests' = manifests,
         \/ manifests' = manifests
         \/ At(c, "imported") /\ manifests' = manifests \cup {Manifest(c)}
  PROVE  BatchInv'
<1>1. CASE code \in RetryableCodes /\ call[c].export.attempt < MaxRetries
  <2>. DEFINE export == [call[c].export EXCEPT !.attempt = @ + 1]
              row == [call[c] EXCEPT !.pc = "open", !.export = export]
  <2>1. call[c] \in CallRow /\ call[c].export \in ExportId
    BY CallFacts
  <2>2. export \in ExportId /\ export.id = call[c].export.id
    BY <2>1 DEF ExportId
  <2>3. call' = [call EXCEPT ![c] = row] /\ results' = results
    <3>1. call' = [call EXCEPT ![c].pc = "open", ![c].export.attempt = @ + 1] /\ results' = results
      BY <1>1 DEF Raise
    <3>. QED
      BY <3>1, <2>1 DEF IInv, BatchInv, CallRow
  <2>. HIDE DEF export
  <2>4. row \in CallRow /\ row.pc = "open" /\ row.todo = call[c].todo /\ row.export = export
    BY <2>1, <2>2 DEF CallRow, Steps
  <2>. HIDE DEF row
  <2>. QED
    BY <1>1, <2>2, <2>3, <2>4, GoesOn DEF First
<1>2. CASE ~(code \in RetryableCodes /\ call[c].export.attempt < MaxRetries)
  <2>1. Conclude(c, Status(code))
    BY <1>2 DEF Raise
  <2>2. Status(code) \in Statuses
    BY DEF Status, Statuses, Codes
  <2>. QED
    BY <2>1, <2>2, Concludes
<1>. QED
  BY <1>1, <1>2

\* The manifest is saved: it is the first one of its call.
LEMMA Saves ==
  ASSUME IInv, NEW c \in Callers, At(c, "imported"), Step(c, "saved"),
         manifests' = manifests \cup {Manifest(c)}, UNCHANGED <<results, calls>>
  PROVE  BatchInv'
<1>. DEFINE row == [call[c] EXCEPT !.pc = "saved"]
<1>1. row \in CallRow /\ row.pc = "saved" /\ row.todo = call[c].todo /\ row.export = call[c].export
  BY CallFacts DEF CallRow, Steps
<1>2. call' = [call EXCEPT ![c] = row]
  BY DEF Step
<1>. HIDE DEF row
<1>3. call' \in [Callers -> CallRow] /\ \A d \in Callers : call'[d] = IF d = c THEN row ELSE call[d]
  BY <1>1, <1>2 DEF IInv, BatchInv
<1>4. \A d \in Callers : /\ At(d, "idle")' <=> At(d, "idle")
                         /\ At(d, "saved")' <=> (d = c \/ At(d, "saved"))
                         /\ First(d)' = First(d) /\ Beyond(d)' = Beyond(d)
                         /\ call'[d].todo = call[d].todo
  BY <1>1, <1>3 DEF At, First, Beyond
<1>5. Numbered' /\ Apart' /\ NoHumanYet'
  BY <1>4 DEF IInv, BatchInv, Numbered, Apart, NoHumanYet
<1>6. /\ First(c) \in Nat /\ First(c) < Beyond(c) /\ First(c) <= calls /\ ~At(c, "idle")
  <2>1. ~At(c, "idle")
    BY DEF At
  <2>2. call[c].todo \in Seq(Asins) /\ call[c].todo # <<>> /\ Beyond(c) <= calls + 1
    BY <2>1, CallFacts DEF IInv, BatchInv, Numbered
  <2>3. Len(call[c].todo) > 0
    BY <2>2
  <2>. QED
    BY <2>1, <2>2, <2>3, CallFacts
<1>7. Manifest(c).id = First(c)
  BY DEF Manifest, First
<1>8. Unsaved'
  <2>. SUFFICES ASSUME NEW m \in manifests'
                PROVE  /\ m.id \in Nat /\ m.id <= calls
                       /\ \A d \in Callers : ~At(d, "idle") =>
                            m.id < First(d) \/ m.id >= Beyond(d) \/ (m.id = First(d) /\ At(d, "saved")')
    BY <1>4 DEF Unsaved
  <2>1. CASE m \in manifests
    BY <2>1, <1>4 DEF IInv, BatchInv, Unsaved
  <2>2. CASE m = Manifest(c)
    <3>1. ASSUME NEW d \in Callers, ~At(d, "idle"), d # c PROVE m.id < First(d) \/ m.id >= Beyond(d)
      <4>1. Beyond(d) <= First(c) \/ Beyond(c) <= First(d)
        BY <3>1, <1>6 DEF IInv, BatchInv, Apart
      <4>2. First(d) \in Nat /\ Beyond(d) \in Nat /\ Beyond(c) \in Nat
        BY <3>1, CallFacts
      <4>. QED
        BY <2>2, <1>6, <1>7, <4>1, <4>2
    <3>. QED
      BY <2>2, <3>1, <1>4, <1>6, <1>7
  <2>. QED
    BY <2>1, <2>2
<1>9. OneManifestPerCall'
  <2>1. \A m \in manifests : m.id # First(c)
    <3>. SUFFICES ASSUME NEW m \in manifests, m.id = First(c) PROVE FALSE
      OBVIOUS
    <3>1. m.id < First(c) \/ m.id >= Beyond(c) \/ At(c, "saved")
      BY <1>6 DEF IInv, BatchInv, Unsaved
    <3>2. Beyond(c) \in Nat /\ ~At(c, "saved")
      BY CallFacts DEF At
    <3>. QED
      BY <1>6, <3>1, <3>2
  <2>. QED
    BY <1>7, <2>1 DEF IInv, BatchInv, OneManifestPerCall
<1>. QED
  BY <1>3, <1>5, <1>8, <1>9 DEF IInv, BatchInv

LEMMA BatchUntouched ==
  ASSUME IInv, UNCHANGED <<call, results, manifests, calls>>
  PROVE  BatchInv'
BY DEF IInv, BatchInv, Numbered, Apart, Unsaved, NoHumanYet, OneManifestPerCall, At, First, Beyond

------------------------------------------------------------------------------
(* The steps of a batch *)

LEMMA StartInv ==
  ASSUME IInv, NEW c \in Callers, StartBatch(c)
  PROVE  IInv'
<1>0. PICK n \in 1 .. Cardinality(Asins) : \E batch \in [1 .. n -> Asins] :
        /\ calls' = calls + n
        /\ call' = [call EXCEPT ![c] = [Idle EXCEPT !.pc = "next", !.todo = batch, !.export.id = calls + 1]]
  BY DEF StartBatch
<1>1. PICK batch \in [1 .. n -> Asins] :
        /\ calls' = calls + n
        /\ call' = [call EXCEPT ![c] = [Idle EXCEPT !.pc = "next", !.todo = batch, !.export.id = calls + 1]]
  BY <1>0
<1>2. At(c, "idle") /\ results' = [results EXCEPT ![c] = <<>>] /\ UNCHANGED <<page, files, now, manifests>>
  BY DEF StartBatch
<1>. DEFINE export == [Idle.export EXCEPT !.id = calls + 1]
            row == [Idle EXCEPT !.pc = "next", !.todo = batch, !.export = export]
<1>3. n \in Nat /\ n > 0 /\ calls \in Nat /\ calls + n \in Nat
  BY DEF IInv, BatchInv
<1>4. batch \in Seq(Asins) /\ Len(batch) = n /\ batch # <<>>
  BY <1>3
<1>5. Idle \in CallRow /\ Idle.export \in ExportId
  BY DEF Idle, NoExport, CallRow, ExportId, Steps
<1>6. export \in ExportId /\ export.id = calls + 1
  BY <1>3, <1>5 DEF ExportId
<1>7. call' = [call EXCEPT ![c] = row]
  BY <1>1, <1>5 DEF CallRow
<1>. HIDE DEF export
<1>8. row \in CallRow /\ row.pc = "next" /\ row.todo = batch /\ row.export = export
  BY <1>4, <1>5, <1>6 DEF CallRow, Steps
<1>. HIDE DEF row
<1>9. call' \in [Callers -> CallRow] /\ call'[c] = row /\ \A d \in Callers : d # c => call'[d] = call[d]
  BY <1>7, <1>8 DEF IInv, BatchInv
<1>10. /\ \A d \in Callers : d # c => /\ At(d, "idle")' <=> At(d, "idle")
                                      /\ At(d, "saved")' <=> At(d, "saved")
                                      /\ First(d)' = First(d) /\ Beyond(d)' = Beyond(d)
       /\ First(c)' = calls + 1 /\ Beyond(c)' = calls + 1 + n /\ call'[c].todo # <<>>
  BY <1>4, <1>6, <1>8, <1>9 DEF At, First, Beyond
<1>11. Numbered'
  <2>. SUFFICES ASSUME NEW d \in Callers, ~At(d, "idle")'
                PROVE  First(d)' > 0 /\ call'[d].todo # <<>> /\ Beyond(d)' <= calls + n + 1
    BY <1>1 DEF Numbered
  <2>1. CASE d = c
    BY <2>1, <1>3, <1>10
  <2>2. CASE d # c
    <3>1. First(d) > 0 /\ call[d].todo # <<>> /\ Beyond(d) <= calls + 1 /\ Beyond(d) \in Nat
      BY <2>2, <1>10, CallFacts DEF IInv, BatchInv, Numbered
    <3>. QED
      BY <2>2, <3>1, <1>3, <1>9, <1>10
  <2>. QED
    BY <2>1, <2>2
<1>12. Apart'
  <2>. SUFFICES ASSUME NEW d \in Callers, NEW e \in Callers, d # e, ~At(d, "idle")', ~At(e, "idle")'
                PROVE  Beyond(d)' <= First(e)' \/ Beyond(e)' <= First(d)'
    BY DEF Apart
  <2>1. \A f \in Callers : f # c /\ ~At(f, "idle")' => Beyond(f)' <= First(c)'
    BY <1>10 DEF IInv, BatchInv, Numbered
  <2>2. CASE d = c \/ e = c
    BY <2>1, <2>2
  <2>3. CASE d # c /\ e # c
    BY <2>3, <1>10 DEF IInv, BatchInv, Apart
  <2>. QED
    BY <2>2, <2>3
<1>13. Unsaved'
  <2>. SUFFICES ASSUME NEW m \in manifests
                PROVE  /\ m.id \in Nat /\ m.id <= calls + n
                       /\ \A d \in Callers : ~At(d, "idle")' =>
                            m.id < First(d)' \/ m.id >= Beyond(d)' \/ (m.id = First(d)' /\ At(d, "saved")')
    BY <1>1, <1>2 DEF Unsaved
  <2>1. m.id \in Nat /\ m.id <= calls
    BY DEF IInv, BatchInv, Unsaved
  <2>2. m.id < First(c)'
    BY <2>1, <1>3, <1>10
  <2>3. \A d \in Callers : d # c /\ ~At(d, "idle")' =>
          m.id < First(d)' \/ m.id >= Beyond(d)' \/ (m.id = First(d)' /\ At(d, "saved")')
    BY <1>10 DEF IInv, BatchInv, Unsaved
  <2>. QED
    BY <2>1, <2>2, <2>3, <1>3
<1>14. results' \in [Callers -> Seq(Statuses)] /\ results'[c] = <<>>
         /\ \A d \in Callers : d # c => results'[d] = results[d]
  BY <1>2 DEF IInv, BatchInv
<1>15. NoHumanYet'
  <2>1. \A i \in 1 .. Len(results'[c]) : FALSE
    BY <1>14
  <2>. QED
    BY <2>1, <1>10, <1>14 DEF IInv, BatchInv, NoHumanYet
<1>16. OneManifestPerCall'
  BY <1>2 DEF IInv, BatchInv, OneManifestPerCall
<1>17. Directory' /\ calls' \in Nat
  BY <1>1, <1>2, <1>3 DEF IInv, Directory
<1>. QED
  BY <1>9, <1>11, <1>12, <1>13, <1>14, <1>15, <1>16, <1>17 DEF IInv, BatchInv

\* Nothing is left of a batch that was cancelled between two ASINs.
LEMMA NextAsinInv ==
  ASSUME IInv, NEW c \in Callers, NextAsin(c)
  PROVE  IInv'
<1>1. /\ At(c, "next") /\ ~At(c, "idle") /\ ~At(c, "saved")
      /\ UNCHANGED <<results, page, files, now, manifests, calls>>
  BY DEF NextAsin, At, World
<1>2. Directory'
  BY <1>1 DEF IInv, Directory
<1>3. CASE Step(c, "open")
  BY <1>1, <1>2, <1>3, StepsOn DEF IInv, Steps
<1>4. CASE call' = [call EXCEPT ![c] = Idle]
  <2>1. Idle \in CallRow /\ Idle.pc = "idle"
    BY DEF Idle, NoExport, CallRow, ExportId, Steps
  <2>2. call' \in [Callers -> CallRow] /\ \A d \in Callers : call'[d] = IF d = c THEN Idle ELSE call[d]
    BY <1>4, <2>1 DEF IInv, BatchInv
  <2>3. \A d \in Callers : /\ ~At(d, "idle")' => d # c /\ ~At(d, "idle")
                           /\ d # c => call'[d] = call[d]
                           /\ d # c => /\ At(d, "idle")' <=> At(d, "idle")
                                       /\ At(d, "saved")' <=> At(d, "saved")
                                       /\ First(d)' = First(d) /\ Beyond(d)' = Beyond(d)
    BY <2>1, <2>2 DEF At, First, Beyond
  <2>4. Numbered' /\ Apart'
    BY <1>1, <2>3 DEF IInv, BatchInv, Numbered, Apart
  <2>5. Unsaved'
    BY <1>1, <2>3 DEF IInv, BatchInv, Unsaved
  <2>6. NoHumanYet' /\ OneManifestPerCall'
    BY <1>1, <2>3 DEF IInv, BatchInv, NoHumanYet, OneManifestPerCall
  <2>. QED
    BY <1>1, <1>2, <2>2, <2>4, <2>5, <2>6 DEF IInv, BatchInv
<1>. QED
  BY <1>3, <1>4 DEF NextAsin

------------------------------------------------------------------------------
(* The steps of the session *)

LEMMA DirectoryUntouched ==
  ASSUME IInv, UNCHANGED <<page, files, now>>
  PROVE  Directory'
BY DEF IInv, Directory

LEMMA StoppedInv ==
  ASSUME IInv, NEW c \in Callers, Stopped(c)
  PROVE  IInv'
<1>1. /\ ~At(c, "idle") /\ Raise(c, "CANCELLED")
      /\ UNCHANGED <<page, files, now, manifests, calls>>
  BY DEF Stopped, At, World
<1>. QED
  BY <1>1, Raises, DirectoryUntouched DEF IInv, Codes, RetryableCodes

\* Steps that go on or raise, and change nothing but the call.
LEMMA SessionStep ==
  ASSUME IInv, NEW c \in Callers, ~At(c, "idle"), ~At(c, "saved"), UNCHANGED <<manifests, calls>>,
         \/ \E pc \in Steps \ {"idle"} : Step(c, pc) /\ UNCHANGED results
         \/ \E code \in Codes : Raise(c, code)
  PROVE  BatchInv'
BY StepsOn, Raises

LEMMA OpenInv ==
  ASSUME IInv, NEW c \in Callers, OpenProduct(c)
  PROVE  IInv'
<1>1. ~At(c, "idle") /\ ~At(c, "saved") /\ UNCHANGED <<page, files, now, manifests, calls>>
  BY DEF OpenProduct, Going, At, World
<1>2. \/ \E pc \in Steps \ {"idle"} : Step(c, pc) /\ UNCHANGED results
      \/ \E code \in Codes : Raise(c, code)
  BY DEF OpenProduct, Steps, Codes
<1>. QED
  BY <1>1, <1>2, SessionStep, DirectoryUntouched DEF IInv

LEMMA CheckInv ==
  ASSUME IInv, NEW c \in Callers, CheckExtension(c)
  PROVE  IInv'
<1>1. ~At(c, "idle") /\ ~At(c, "saved") /\ UNCHANGED <<page, files, now, manifests, calls>>
  BY DEF CheckExtension, Going, At, World
<1>2. \/ \E pc \in Steps \ {"idle"} : Step(c, pc) /\ UNCHANGED results
      \/ \E code \in Codes : Raise(c, code)
  BY DEF CheckExtension, Steps, Codes
<1>. QED
  BY <1>1, <1>2, SessionStep, DirectoryUntouched DEF IInv

LEMMA SubmitInv ==
  ASSUME IInv, NEW c \in Callers, Submit(c)
  PROVE  IInv'
<1>1. ~At(c, "idle") /\ ~At(c, "saved") /\ UNCHANGED <<files, now, manifests, calls>>
  BY DEF Submit, Going, At
<1>2. \/ \E pc \in Steps \ {"idle"} : Step(c, pc) /\ UNCHANGED results
      \/ \E code \in Codes : Raise(c, code)
  BY DEF Submit, Steps, Codes
<1>3. page' \in Asins \cup {NoAsin}
  <2>1. Asin(c) \in Asins
    BY <1>1, CallFacts DEF IInv, BatchInv, Numbered, Asin
  <2>. QED
    BY <2>1 DEF Submit, IInv, Directory
<1>. QED
  BY <1>1, <1>2, <1>3, SessionStep DEF IInv, Directory

LEMMA SnapshotInv ==
  ASSUME IInv, NEW c \in Callers, Snapshot(c)
  PROVE  IInv'
<1>1. ~At(c, "idle") /\ ~At(c, "saved") /\ UNCHANGED <<page, files, now, manifests, calls>>
  BY DEF Snapshot, Going, At, World
<1>2. CASE Raise(c, "INVALID_EXPORT")
  BY <1>1, <1>2, SessionStep, DirectoryUntouched DEF IInv, Codes
<1>3. CASE call' = [call EXCEPT ![c].pc = "click", ![c].names = Completed, ![c].since = now]
             /\ UNCHANGED results
  <2>. DEFINE row == [call[c] EXCEPT !.pc = "click", !.names = Completed, !.since = now]
  <2>1. now \in Nat /\ Completed \subseteq Files
    BY DEF IInv, Directory, Completed
  <2>2. row \in CallRow /\ row.pc = "click" /\ row.todo = call[c].todo /\ row.export = call[c].export
    BY <2>1, CallFacts DEF CallRow, Steps
  <2>3. call' = [call EXCEPT ![c] = row]
    BY <1>3 DEF IInv, BatchInv, CallRow
  <2>. HIDE DEF row
  <2>. QED
    BY <1>1, <1>3, <2>2, <2>3, GoesOn, DirectoryUntouched DEF IInv, First
<1>. QED
  BY <1>2, <1>3 DEF Snapshot

LEMMA UnusedRow == Unused \in FileRow
BY DEF Unused, FileRow, NoExport, ExportId

LEMMA ClickInv ==
  ASSUME IInv, NEW c \in Callers, ClickExport(c)
  PROVE  IInv'
<1>1. ~At(c, "idle") /\ ~At(c, "saved") /\ UNCHANGED <<page, now, manifests, calls>>
  BY DEF ClickExport, Going, At
<1>2. \/ \E pc \in Steps \ {"idle"} : Step(c, pc) /\ UNCHANGED results
      \/ \E code \in Codes : Raise(c, code)
  BY DEF ClickExport, Steps, Codes
<1>3. files' \in [Files -> FileRow]
  <2>1. CASE UNCHANGED files
    BY <2>1 DEF IInv, Directory
  <2>2. CASE NamesLeft /\ files' = [files EXCEPT ![NewName] =
                 [Unused EXCEPT !.stage = "requested", !.asin = page, !.by = call[c].export]]
    <3>1. page \in Asins \cup {NoAsin} /\ call[c].export \in ExportId
      BY CallFacts DEF IInv, Directory
    <3>2. [Unused EXCEPT !.stage = "requested", !.asin = page, !.by = call[c].export] \in FileRow
      BY <3>1, UnusedRow DEF FileRow
    <3>. QED
      BY <2>2, <3>2 DEF IInv, Directory
  <2>. QED
    BY <2>1, <2>2 DEF ClickExport, Requested
<1>. QED
  BY <1>1, <1>2, <1>3, SessionStep DEF IInv, Directory

LEMMA PollInv ==
  ASSUME IInv, NEW c \in Callers, Poll(c)
  PROVE  IInv'
<1>1. ~At(c, "idle") /\ ~At(c, "saved") /\ UNCHANGED <<page, files, now, manifests, calls>>
  BY DEF Poll, Going, At, World
<1>2. CASE Cardinality(Candidates(c)) > 1
  BY <1>1, <1>2, SessionStep, DirectoryUntouched DEF IInv, Codes, Poll
<1>3. CASE ~(Cardinality(Candidates(c)) > 1)
  <2>1. PICK f \in Candidates(c) :
          call' = [call EXCEPT ![c].pc = "stable", ![c].file = f, ![c].version = files[f].version]
    BY <1>3 DEF Poll
  <2>2. f \in Files /\ files[f].version \in Nat
    BY DEF Candidates, Completed, IInv, Directory, FileRow
  <2>. DEFINE row == [call[c] EXCEPT !.pc = "stable", !.file = f, !.version = files[f].version]
  <2>3. row \in CallRow /\ row.pc = "stable" /\ row.todo = call[c].todo /\ row.export = call[c].export
    BY <2>2, CallFacts DEF CallRow, Steps
  <2>4. call' = [call EXCEPT ![c] = row] /\ UNCHANGED results
    BY <1>3, <2>1 DEF IInv, BatchInv, CallRow, Poll
  <2>. HIDE DEF row
  <2>. QED
    BY <1>1, <2>3, <2>4, GoesOn, DirectoryUntouched DEF IInv, First
<1>. QED
  BY <1>2, <1>3

LEMMA AcceptInv ==
  ASSUME IInv, NEW c \in Callers, Accept(c)
  PROVE  IInv'
<1>1. ~At(c, "idle") /\ ~At(c, "saved") /\ UNCHANGED <<results, page, files, now, manifests, calls>>
  BY DEF Accept, Going, At, World
<1>2. CASE Step(c, "exported")
  BY <1>1, <1>2, StepsOn, DirectoryUntouched DEF IInv, Steps
<1>3. CASE call' = [call EXCEPT ![c].pc = "wait", ![c].file = NoFile, ![c].version = 0]
  <2>. DEFINE row == [call[c] EXCEPT !.pc = "wait", !.file = NoFile, !.version = 0]
  <2>1. row \in CallRow /\ row.pc = "wait" /\ row.todo = call[c].todo /\ row.export = call[c].export
    BY CallFacts DEF CallRow, Steps
  <2>2. call' = [call EXCEPT ![c] = row]
    BY <1>3 DEF IInv, BatchInv, CallRow
  <2>. HIDE DEF row
  <2>. QED
    BY <1>1, <2>1, <2>2, GoesOn, DirectoryUntouched DEF IInv, First
<1>. QED
  BY <1>2, <1>3 DEF Accept

LEMMA TimeOutInv ==
  ASSUME IInv, NEW c \in Callers, TimeOut(c)
  PROVE  IInv'
<1>1. ~At(c, "idle") /\ ~At(c, "saved") /\ UNCHANGED <<page, files, now, manifests, calls>>
  BY DEF TimeOut, Going, At, World
<1>2. \E code \in Codes : Raise(c, code)
  BY DEF TimeOut, Codes
<1>. QED
  BY <1>1, <1>2, SessionStep, DirectoryUntouched DEF IInv

LEMMA ImportInv ==
  ASSUME IInv, NEW c \in Callers, Import(c)
  PROVE  IInv'
<1>1. ~At(c, "idle") /\ ~At(c, "saved") /\ UNCHANGED <<page, files, now, manifests, calls>>
  BY DEF Import, Going, At, World
<1>2. \/ \E pc \in Steps \ {"idle"} : Step(c, pc) /\ UNCHANGED results
      \/ \E code \in Codes : Raise(c, code)
  BY DEF Import, Steps, Codes
<1>. QED
  BY <1>1, <1>2, SessionStep, DirectoryUntouched DEF IInv

LEMMA SaveInv ==
  ASSUME IInv, NEW c \in Callers, Save(c)
  PROVE  IInv'
<1>1. At(c, "imported") /\ ~At(c, "idle") /\ ~At(c, "saved") /\ UNCHANGED <<page, files, now, calls>>
  BY DEF Save, Going, At
<1>2. CASE Raise(c, "INTERNAL") /\ (manifests' = manifests \cup {Manifest(c)} \/ UNCHANGED manifests)
  BY <1>1, <1>2, Raises, DirectoryUntouched DEF IInv, Codes, RetryableCodes
<1>3. CASE Step(c, "saved") /\ UNCHANGED results /\ manifests' = manifests \cup {Manifest(c)}
  BY <1>1, <1>3, Saves, DirectoryUntouched DEF IInv
<1>. QED
  BY <1>2, <1>3 DEF Save

LEMMA SucceedInv ==
  ASSUME IInv, NEW c \in Callers, Succeed(c)
  PROVE  IInv'
<1>1. ~At(c, "idle") /\ Conclude(c, "SUCCESS") /\ UNCHANGED <<page, files, now, manifests, calls>>
  BY DEF Succeed, Going, At, World
<1>. QED
  BY <1>1, Concludes, DirectoryUntouched DEF IInv, Statuses

------------------------------------------------------------------------------
(* What others do *)

LEMMA CancelInv ==
  ASSUME IInv, NEW c \in Callers, Cancel(c)
  PROVE  IInv'
BY BatchUntouched, DirectoryUntouched DEF Cancel, World, IInv

LEMMA FinishInv ==
  ASSUME IInv, NEW f \in Files, FinishDownload(f)
  PROVE  IInv'
<1>1. now' = now + 1 /\ UNCHANGED <<call, results, page, manifests, calls>>
  BY DEF FinishDownload, Surroundings
<1>2. now' \in Nat /\ files[f] \in FileRow
  BY <1>1 DEF IInv, Directory
<1>3. Abandoned(f) \in BOOLEAN
  BY DEF Abandoned
<1>. DEFINE row == [files[f] EXCEPT !.stage = "done", !.mtime = now', !.version = 1, !.late = Abandoned(f)]
<1>4. row \in FileRow
  BY <1>2, <1>3 DEF FileRow
<1>5. files' = [files EXCEPT ![f] = row]
  BY <1>2 DEF FinishDownload, FileRow, IInv, Directory
<1>. HIDE DEF row
<1>6. Directory'
  BY <1>1, <1>2, <1>4, <1>5 DEF IInv, Directory
<1>. QED
  BY <1>1, <1>6, BatchUntouched DEF IInv

LEMMA LoseInv ==
  ASSUME IInv, NEW f \in Files, LoseDownload(f)
  PROVE  IInv'
<1>1. [Unused EXCEPT !.stage = "lost"] \in FileRow
  BY UnusedRow DEF FileRow
<1>2. UNCHANGED <<call, results, page, manifests, calls, now>>
        /\ files' = [files EXCEPT ![f] = [Unused EXCEPT !.stage = "lost"]]
  BY DEF LoseDownload, Surroundings
<1>3. Directory'
  BY <1>1, <1>2 DEF IInv, Directory
<1>. QED
  BY <1>2, <1>3, BatchUntouched DEF IInv

LEMMA RewriteInv ==
  ASSUME IInv, NEW f \in Files, Rewrite(f)
  PROVE  IInv'
<1>1. UNCHANGED <<call, results, page, manifests, calls, now>>
        /\ files' = [files EXCEPT ![f].version = @ + 1, ![f].mtime = now]
  BY DEF Rewrite, Surroundings
<1>2. files[f] \in FileRow /\ now \in Nat /\ files[f].version + 1 \in Nat
  BY DEF IInv, Directory, FileRow
<1>. DEFINE row == [files[f] EXCEPT !.version = files[f].version + 1, !.mtime = now]
<1>3. row \in FileRow
  BY <1>2 DEF FileRow
<1>4. files' = [files EXCEPT ![f] = row]
  BY <1>1, <1>2 DEF FileRow, IInv, Directory
<1>. HIDE DEF row
<1>5. Directory'
  BY <1>1, <1>3, <1>4 DEF IInv, Directory
<1>. QED
  BY <1>1, <1>5, BatchUntouched DEF IInv

LEMMA CopyInv ==
  ASSUME IInv, CopyOldExport
  PROVE  IInv'
<1>1. now' = now + 1 /\ UNCHANGED <<call, results, page, manifests, calls>>
  BY DEF CopyOldExport, Surroundings
<1>2. PICK a \in Asins :
        files' = [files EXCEPT ![NewName] = [Unused EXCEPT !.stage = "done", !.asin = a, !.version = 1]]
  BY DEF CopyOldExport
<1>3. [Unused EXCEPT !.stage = "done", !.asin = a, !.version = 1] \in FileRow
  BY UnusedRow DEF FileRow
<1>4. now' \in Nat
  BY <1>1 DEF IInv, Directory
<1>5. files' \in [Files -> FileRow]
  <2>. DEFINE row == [Unused EXCEPT !.stage = "done", !.asin = a, !.version = 1]
  <2>1. row \in FileRow /\ files' = [files EXCEPT ![NewName] = row]
    BY <1>2, <1>3
  <2>. HIDE DEF row
  <2>. QED
    BY <2>1 DEF IInv, Directory
<1>6. Directory'
  BY <1>1, <1>4, <1>5 DEF IInv, Directory
<1>. QED
  BY <1>1, <1>6, BatchUntouched DEF IInv

------------------------------------------------------------------------------
(* The invariant is inductive *)

LEMMA InitInv == Init => IInv
<1>. SUFFICES ASSUME Init PROVE IInv
  OBVIOUS
<1>1. Idle \in CallRow /\ Idle.pc = "idle"
  BY DEF Idle, NoExport, CallRow, ExportId, Steps
<1>2. call \in [Callers -> CallRow] /\ \A c \in Callers : At(c, "idle")
  BY <1>1 DEF Init, At
<1>3. results \in [Callers -> Seq(Statuses)] /\ \A c \in Callers : Len(results[c]) = 0
  BY DEF Init
<1>4. Numbered /\ Apart /\ Unsaved /\ NoHumanYet /\ OneManifestPerCall
  BY <1>2, <1>3 DEF Init, Numbered, Apart, Unsaved, NoHumanYet, OneManifestPerCall
<1>5. Directory /\ calls \in Nat
  BY UnusedRow DEF Init, Directory
<1>. QED
  BY <1>2, <1>3, <1>4, <1>5 DEF IInv, BatchInv

LEMMA NextInv == IInv /\ [Next]_vars => IInv'
<1>. SUFFICES ASSUME IInv, [Next]_vars PROVE IInv'
  OBVIOUS
<1>1. ASSUME NEW c \in Callers, StartBatch(c) \/ Cancel(c) PROVE IInv'
  BY <1>1, StartInv, CancelInv
<1>2. ASSUME NEW c \in Callers, Export(c) PROVE IInv'
  BY <1>2, NextAsinInv, StoppedInv, OpenInv, CheckInv, SubmitInv, SnapshotInv, ClickInv, PollInv,
     AcceptInv, TimeOutInv, ImportInv, SaveInv, SucceedInv DEF Export
<1>3. ASSUME NEW f \in Files, FinishDownload(f) \/ LoseDownload(f) \/ Rewrite(f) PROVE IInv'
  BY <1>3, FinishInv, LoseInv, RewriteInv
<1>4. CASE CopyOldExport
  BY <1>4, CopyInv
<1>5. CASE UNCHANGED vars
  BY <1>5, BatchUntouched, DirectoryUntouched DEF vars, IInv
<1>. QED
  BY <1>1, <1>2, <1>3, <1>4, <1>5 DEF Next

LEMMA ExportInvariant == FairSpec => []IInv
<1>1. Init => IInv
  BY InitInv
<1>2. IInv /\ [Next]_vars => IInv'
  BY NextInv
<1>. QED
  BY <1>1, <1>2, PTL DEF FairSpec

------------------------------------------------------------------------------
(* The theorems *)

\* However often run_reverse_keyword_export retries, wherever it fails and
\* whoever else exports, a call leaves one row of sellersprite_imports at most.
THEOREM CallsSaveOnce == FairSpec => []OneManifestPerCall
<1>1. IInv => OneManifestPerCall
  BY DEF IInv, BatchInv
<1>. QED
  BY <1>1, ExportInvariant, PTL

\* run_reverse_keyword_batch stops at the first outcome that needs a human.
THEOREM HumanEndsBatch == FairSpec => []HumanStopsBatch
<1>1. IInv => HumanStopsBatch
  BY DEF IInv, BatchInv, NoHumanYet, HumanStopsBatch
<1>. QED
  BY <1>1, ExportInvariant, PTL

------------------------------------------------------------------------------
(* With one caller at the browser, a manifest names the export of its own      *)
(* ASIN and no other call's evidence, whatever else is written to the          *)
(* download directory.                                                         *)

OneCaller == \A c, d \in Callers : c = d

------------------------------------------------------------------------------
(* The inductive invariant *)

Looking(c) == call[c].pc \in {"click", "wait", "stable", "exported", "imported", "saved"}
Chosen(c) == call[c].pc \in {"stable", "exported", "imported", "saved"}

\* A download belongs to a call up to the present one, the present one's to its ASIN.
Attributed ==
  \A f \in Files : files[f].stage \in {"requested", "done"} =>
    /\ files[f].by.id <= calls
    /\ \A c \in Callers : ~At(c, "idle") =>
         /\ files[f].by.id <= First(c)
         /\ files[f].by.id = First(c) => files[f].asin = Asin(c)

OnPage == \A c \in Callers : call[c].pc \in {"snapshot", "click"} => page = Asin(c)

\* A file that has come since the snapshot is an old copy, which its time tells,
\* was given up, or is that of the attempt.
Recognised ==
  \A c \in Callers : Looking(c) =>
    /\ call[c].since > 0
    /\ \A f \in Files \ call[c].names : files[f].stage = "done" =>
         files[f].mtime = 0 \/ files[f].late \/ files[f].by = call[c].export

Chose ==
  \A c \in Callers : Chosen(c) =>
    /\ call[c].file \in Files \ call[c].names
    /\ files[call[c].file].stage = "done" /\ files[call[c].file].mtime > 0

\* The files of manifests are there, and were there before the present attempt looked.
Kept ==
  \A m \in manifests :
    /\ m.file \in Files /\ files[m.file].stage = "done"
    /\ \A c \in Callers : Looking(c) /\ ~At(c, "saved") => m.file \in call[c].names

EvidenceInv ==
  now > 0 /\ Attributed /\ OnPage /\ Recognised /\ Chose /\ Kept /\ EvidenceIsOwn /\ EvidenceOnce

------------------------------------------------------------------------------
(* One caller moves *)

\* The files stay, but for one that the present attempt has requested.
Requests(c) ==
  \A f \in Files :
    \/ files'[f] = files[f]
    \/ /\ files[f].stage = "absent" /\ files'[f].stage = "requested"
       /\ files'[f].by = call[c].export /\ files'[f].asin = Asin(c)

\* What is known of the manifests, whatever the caller does with its call.
Evident ==
  /\ EvidenceIsOwn /\ EvidenceOnce
  /\ \A m \in manifests : m.file \in Files /\ files[m.file].stage = "done"

LEMMA DoneStays ==
  ASSUME NEW c \in Callers, Requests(c)
  PROVE  \A f \in Files : /\ files'[f].stage = "done" <=> files[f].stage = "done"
                          /\ files[f].stage = "done" => files'[f] = files[f]
BY DEF Requests

LEMMA OldManifests ==
  ASSUME EvidenceInv, NEW c \in Callers, Requests(c), UNCHANGED manifests
  PROVE  Evident'
BY DoneStays DEF EvidenceInv, Kept, Evident, EvidenceIsOwn, EvidenceOnce

\* The new manifest is of a file that no other one can be of.
LEMMA NewManifest ==
  ASSUME IInv, EvidenceInv, NEW c \in Callers, At(c, "imported"), UNCHANGED files,
         manifests' = manifests \cup {Manifest(c)}
  PROVE  Evident'
<1>. DEFINE f == call[c].file
<1>1. Looking(c) /\ Chosen(c) /\ ~At(c, "idle") /\ ~At(c, "saved")
  BY DEF At, Looking, Chosen
<1>2. f \in Files \ call[c].names /\ files[f].stage = "done" /\ files[f].mtime > 0
  BY <1>1 DEF EvidenceInv, Chose
<1>3. Manifest(c).file = f /\ Manifest(c).asin = Asin(c) /\ Manifest(c).id = First(c)
  BY DEF Manifest, First
<1>4. ~files[f].late => files[f].asin = Asin(c) /\ files[f].by.id = First(c)
  <2>1. ~files[f].late => files[f].by = call[c].export
    BY <1>1, <1>2 DEF EvidenceInv, Recognised
  <2>. QED
    BY <1>1, <1>2, <2>1 DEF EvidenceInv, Attributed, First
<1>5. \A m \in manifests : m.file # f
  BY <1>1, <1>2 DEF EvidenceInv, Kept
<1>6. \A m \in manifests' : m \in manifests \/ m = Manifest(c)
  OBVIOUS
<1>7. EvidenceIsOwn'
  BY <1>3, <1>4, <1>6 DEF EvidenceInv, EvidenceIsOwn
<1>8. EvidenceOnce'
  BY <1>3, <1>5, <1>6 DEF EvidenceInv, EvidenceOnce
<1>. QED
  BY <1>2, <1>3, <1>6, <1>7, <1>8 DEF EvidenceInv, Kept, Evident

\* The export goes on, and looks at the directory only as it did before.
LEMMA ExportGoesOn ==
  ASSUME OneCaller, IInv, EvidenceInv, NEW c \in Callers, ~At(c, "idle"), NEW row \in CallRow,
         row.pc \notin {"idle", "saved"}, row.todo = call[c].todo, row.export.id = First(c),
         call' = [call EXCEPT ![c] = row], Requests(c), UNCHANGED <<now, manifests, calls>>,
         row.pc \in {"snapshot", "click"} => page' = Asin(c),
         row.pc \in {"click", "wait", "stable", "exported", "imported"} =>
           /\ Looking(c) /\ ~At(c, "saved") /\ row.names = call[c].names
           /\ row.since = call[c].since /\ row.export = call[c].export,
         row.pc \in {"stable", "exported", "imported"} =>
           row.file \in Completed \ row.names /\ files[row.file].mtime > 0
  PROVE  EvidenceInv'
<1>1. call' \in [Callers -> CallRow] /\ call'[c] = row /\ \A d \in Callers : d = c
  BY DEF IInv, BatchInv, OneCaller
<1>2. Asin(c)' = Asin(c) /\ First(c)' = First(c) /\ ~At(c, "saved")'
        /\ (Looking(c)' <=> row.pc \in {"click", "wait", "stable", "exported", "imported"})
        /\ (Chosen(c)' <=> row.pc \in {"stable", "exported", "imported"})
  BY <1>1 DEF Asin, First, Looking, Chosen, At
<1>3. Attributed'
  <2>1. First(c) \in Nat /\ First(c) <= calls
    <3>1. call[c].todo \in Seq(Asins) /\ call[c].todo # <<>> /\ Beyond(c) <= calls + 1
      BY CallFacts DEF IInv, BatchInv, Numbered
    <3>2. Len(call[c].todo) > 0
      BY <3>1
    <3>. QED
      BY <3>1, <3>2, CallFacts
  <2>. SUFFICES ASSUME NEW f \in Files, files'[f].stage \in {"requested", "done"}
                PROVE  /\ files'[f].by.id <= calls /\ files'[f].by.id <= First(c)
                       /\ files'[f].by.id = First(c) => files'[f].asin = Asin(c)
    BY <1>1, <1>2 DEF Attributed
  <2>2. CASE files'[f] = files[f]
    BY <2>2 DEF EvidenceInv, Attributed
  <2>3. CASE files'[f].by = call[c].export /\ files'[f].asin = Asin(c)
    BY <2>1, <2>3 DEF First
  <2>. QED
    BY <2>2, <2>3 DEF Requests
<1>4. OnPage'
  BY <1>1, <1>2 DEF OnPage
<1>5. Recognised'
  BY <1>1, <1>2, DoneStays DEF EvidenceInv, Recognised
<1>6. Chose'
  BY <1>1, <1>2, DoneStays DEF Chose, Completed
<1>7. Kept'
  BY <1>1, <1>2, DoneStays DEF EvidenceInv, Kept
<1>8. EvidenceIsOwn' /\ EvidenceOnce' /\ now' > 0
  BY OldManifests DEF Evident, EvidenceInv
<1>. QED
  BY <1>3, <1>4, <1>5, <1>6, <1>7, <1>8 DEF EvidenceInv

\* The call has its outcome; the batch does not look at the directory.
LEMMA ExportConcludes ==
  ASSUME OneCaller, IInv, EvidenceInv, NEW c \in Callers, ~At(c, "idle"), NEW status, Conclude(c, status),
         Requests(c), UNCHANGED <<now, calls>>, Evident'
  PROVE  EvidenceInv'
<1>. DEFINE rest == Tail(call[c].todo)
            row == IF status \in StopCodes \/ rest = <<>> THEN Idle
                   ELSE [Idle EXCEPT !.pc = "next", !.todo = rest, !.export.id = First(c) + 1]
<1>1. call' = [call EXCEPT ![c] = row] /\ \A d \in Callers : d = c
  BY DEF Conclude, First, OneCaller
<1>2. /\ row.pc \in {"idle", "next"}
      /\ row.pc = "next" => row.export.id = First(c) + 1
  BY DEF Idle, NoExport
<1>. HIDE DEF row
<1>3. call'[c] = row
  BY <1>1 DEF IInv, BatchInv
<1>4. First(c) \in Nat /\ calls \in Nat /\ First(c) <= calls
  <2>1. call[c].todo \in Seq(Asins) /\ call[c].todo # <<>> /\ Beyond(c) <= calls + 1
    BY CallFacts DEF IInv, BatchInv, Numbered
  <2>2. Len(call[c].todo) > 0
    BY <2>1
  <2>. QED
    BY <2>1, <2>2, CallFacts
<1>5. Attributed'
  <2>. SUFFICES ASSUME NEW f \in Files, files'[f].stage \in {"requested", "done"}
                PROVE  files'[f].by.id <= calls /\ files'[f].by.id <= First(c) /\ files'[f].by.id \in Nat
    <3>1. ~At(c, "idle")' => First(c)' = First(c) + 1
      BY <1>2, <1>3 DEF At, First
    <3>2. \A x \in Nat : x <= First(c) => x <= First(c) + 1 /\ x # First(c) + 1
      BY <1>4
    <3>. QED
      BY <1>1, <3>1, <3>2 DEF Attributed
  <2>1. CASE files'[f] = files[f]
    BY <2>1 DEF EvidenceInv, Attributed, IInv, Directory, FileRow, ExportId
  <2>2. CASE files'[f].by = call[c].export
    BY <2>2, <1>4 DEF First
  <2>. QED
    BY <2>1, <2>2 DEF Requests
<1>6. ~Looking(c)' /\ ~Chosen(c)' /\ call'[c].pc \notin {"snapshot", "click"}
  BY <1>2, <1>3 DEF Looking, Chosen
<1>7. OnPage' /\ Recognised' /\ Chose'
  BY <1>1, <1>6 DEF OnPage, Recognised, Chose
<1>8. Kept' /\ EvidenceIsOwn' /\ EvidenceOnce'
  BY <1>1, <1>6 DEF Evident, Kept
<1>. QED
  BY <1>5, <1>7, <1>8 DEF EvidenceInv

LEMMA ExportStepsOn ==
  ASSUME OneCaller, IInv, EvidenceInv, NEW c \in Callers, ~At(c, "idle"), Requests(c),
         NEW pc \in Steps \ {"idle", "saved"}, Step(c, pc), UNCHANGED <<now, manifests, calls>>,
         pc \in {"snapshot", "click"} => page' = Asin(c),
         pc \in {"click", "wait", "stable", "exported", "imported"} => Looking(c) /\ ~At(c, "saved"),
         pc \in {"stable", "exported", "imported"} => Chosen(c)
  PROVE  EvidenceInv'
<1>. DEFINE row == [call[c] EXCEPT !.pc = pc]
<1>1. /\ row \in CallRow /\ row.pc = pc /\ row.todo = call[c].todo /\ row.export = call[c].export
      /\ row.names = call[c].names /\ row.since = call[c].since /\ row.file = call[c].file
  BY CallFacts DEF CallRow
<1>2. call' = [call EXCEPT ![c] = row]
  BY DEF Step
<1>3. Chosen(c) => row.file \in Completed \ row.names /\ files[row.file].mtime > 0
  BY <1>1 DEF EvidenceInv, Chose, Completed
<1>. HIDE DEF row
<1>. QED
  BY <1>1, <1>2, <1>3, ExportGoesOn DEF First

\* An attempt raises.  Its retry starts by opening the product again.
LEMMA ExportRaises ==
  ASSUME OneCaller, IInv, EvidenceInv, NEW c \in Callers, ~At(c, "idle"), NEW code, Raise(c, code),
         Requests(c), UNCHANGED <<now, calls>>, Evident',
         code \in RetryableCodes => UNCHANGED manifests
  PROVE  EvidenceInv'
<1>1. CASE code \in RetryableCodes /\ call[c].export.attempt < MaxRetries
  <2>. DEFINE export == [call[c].export EXCEPT !.attempt = @ + 1]
              row == [call[c] EXCEPT !.pc = "open", !.export = export]
  <2>1. call[c] \in CallRow /\ call[c].export \in ExportId
    BY CallFacts
  <2>2. export \in ExportId /\ export.id = call[c].export.id
    BY <2>1 DEF ExportId
  <2>3. call' = [call EXCEPT ![c] = row]
    <3>1. call' = [call EXCEPT ![c].pc = "open", ![c].export.attempt = @ + 1]
      BY <1>1 DEF Raise
    <3>. QED
      BY <3>1, <2>1 DEF IInv, BatchInv, CallRow
  <2>. HIDE DEF export
  <2>4. row \in CallRow /\ row.pc = "open" /\ row.todo = call[c].todo /\ row.export = export
    BY <2>1, <2>2 DEF CallRow, Steps
  <2>. HIDE DEF row
  <2>. QED
    BY <1>1, <2>2, <2>3, <2>4, ExportGoesOn DEF First
<1>2. CASE ~(code \in RetryableCodes /\ call[c].export.attempt < MaxRetries)
  BY <1>2, ExportConcludes DEF Raise
<1>. QED
  BY <1>1, <1>2

------------------------------------------------------------------------------
(* The steps of a batch *)

LEMMA StartEvidence ==
  ASSUME OneCaller, IInv, EvidenceInv, NEW c \in Callers, StartBatch(c)
  PROVE  EvidenceInv'
<1>0. PICK n \in 1 .. Cardinality(Asins) : \E batch \in [1 .. n -> Asins] :
        /\ calls' = calls + n
        /\ call' = [call EXCEPT ![c] = [Idle EXCEPT !.pc = "next", !.todo = batch, !.export.id = calls + 1]]
  BY DEF StartBatch
<1>1. PICK batch \in [1 .. n -> Asins] :
        /\ calls' = calls + n
        /\ call' = [call EXCEPT ![c] = [Idle EXCEPT !.pc = "next", !.todo = batch, !.export.id = calls + 1]]
  BY <1>0
<1>2. UNCHANGED <<files, now, manifests>> /\ \A d \in Callers : d = c
  BY DEF StartBatch, OneCaller
<1>3. call'[c].pc = "next" /\ First(c)' = calls + 1
  BY <1>1 DEF IInv, BatchInv, First, Idle, NoExport
<1>4. calls \in Nat /\ calls' > calls /\ calls' \in Nat
  BY <1>1 DEF IInv, BatchInv
<1>5. Attributed'
  <2>. SUFFICES ASSUME NEW f \in Files, files[f].stage \in {"requested", "done"}
                PROVE  files[f].by.id <= calls' /\ files[f].by.id <= calls + 1 /\ files[f].by.id # calls + 1
    BY <1>2, <1>3 DEF Attributed
  <2>1. files[f].by.id <= calls /\ files[f].by.id \in Nat
    BY DEF EvidenceInv, Attributed, IInv, Directory, FileRow, ExportId
  <2>. QED
    BY <1>4, <2>1
<1>6. ~Looking(c)' /\ ~Chosen(c)' /\ call'[c].pc \notin {"snapshot", "click"}
  BY <1>3 DEF Looking, Chosen
<1>7. OnPage' /\ Recognised' /\ Chose'
  BY <1>2, <1>6 DEF OnPage, Recognised, Chose
<1>8. Kept' /\ EvidenceIsOwn' /\ EvidenceOnce' /\ now' > 0
  BY <1>2, <1>6 DEF EvidenceInv, Kept, EvidenceIsOwn, EvidenceOnce
<1>. QED
  BY <1>5, <1>7, <1>8 DEF EvidenceInv

LEMMA NextAsinEvidence ==
  ASSUME OneCaller, IInv, EvidenceInv, NEW c \in Callers, NextAsin(c)
  PROVE  EvidenceInv'
<1>1. /\ ~At(c, "idle") /\ UNCHANGED <<page, files, now, manifests, calls>> /\ Requests(c)
      /\ \A d \in Callers : d = c
  BY DEF NextAsin, At, World, Requests, OneCaller
<1>2. CASE Step(c, "open")
  BY <1>1, <1>2, ExportStepsOn DEF Steps
<1>3. CASE call' = [call EXCEPT ![c] = Idle]
  <2>1. call'[c].pc = "idle"
    BY <1>3 DEF IInv, BatchInv, Idle
  <2>2. At(c, "idle")' /\ ~Looking(c)' /\ ~Chosen(c)' /\ call'[c].pc \notin {"snapshot", "click"}
    BY <2>1 DEF At, Looking, Chosen
  <2>3. OnPage' /\ Recognised' /\ Chose' /\ Attributed' /\ Kept'
    BY <1>1, <2>2 DEF EvidenceInv, OnPage, Recognised, Chose, Attributed, Kept
  <2>. QED
    BY <1>1, <2>3 DEF EvidenceInv, EvidenceIsOwn, EvidenceOnce
<1>. QED
  BY <1>2, <1>3 DEF NextAsin

LEMMA StoppedEvidence ==
  ASSUME OneCaller, IInv, EvidenceInv, NEW c \in Callers, Stopped(c)
  PROVE  EvidenceInv'
<1>1. ~At(c, "idle") /\ Raise(c, "CANCELLED") /\ UNCHANGED <<files, now, manifests, calls>> /\ Requests(c)
  BY DEF Stopped, At, World, Requests
<1>. QED
  BY <1>1, ExportRaises, OldManifests

\* The steps before the snapshot of the directory.
LEMMA BeforeSnapshot ==
  ASSUME OneCaller, IInv, EvidenceInv, NEW c \in Callers,
         OpenProduct(c) \/ CheckExtension(c) \/ Submit(c)
  PROVE  EvidenceInv'
<1>1. ~At(c, "idle") /\ UNCHANGED <<files, now, manifests, calls>> /\ Requests(c)
  BY DEF OpenProduct, CheckExtension, Submit, Going, At, World, Requests
<1>2. \/ \E code \in Codes : Raise(c, code)
      \/ \E pc \in {"check", "submit"} : Step(c, pc)
      \/ Step(c, "snapshot") /\ page' = Asin(c)
  BY DEF OpenProduct, CheckExtension, Submit, Codes
<1>3. ASSUME NEW code \in Codes, Raise(c, code) PROVE EvidenceInv'
  BY <1>1, <1>3, ExportRaises, OldManifests
<1>4. ASSUME NEW pc \in {"check", "submit"}, Step(c, pc) PROVE EvidenceInv'
  BY <1>1, <1>4, ExportStepsOn DEF Steps
<1>5. CASE Step(c, "snapshot") /\ page' = Asin(c)
  BY <1>1, <1>5, ExportStepsOn DEF Steps
<1>. QED
  BY <1>2, <1>3, <1>4, <1>5

\* What is in the directory before the click is not taken for its download.
LEMMA SnapshotEvidence ==
  ASSUME OneCaller, IInv, EvidenceInv, NEW c \in Callers, Snapshot(c)
  PROVE  EvidenceInv'
<1>1. /\ ~At(c, "idle") /\ UNCHANGED <<page, files, now, manifests, calls>> /\ Requests(c)
      /\ call[c].pc = "snapshot" /\ \A d \in Callers : d = c
  BY DEF Snapshot, Going, At, World, Requests, OneCaller
<1>2. CASE Raise(c, "INVALID_EXPORT")
  BY <1>1, <1>2, ExportRaises, OldManifests
<1>3. CASE call' = [call EXCEPT ![c].pc = "click", ![c].names = Completed, ![c].since = now]
  <2>1. /\ call'[c].pc = "click" /\ call'[c].names = Completed /\ call'[c].since = now
        /\ call'[c].todo = call[c].todo /\ call'[c].export = call[c].export
    BY <1>3 DEF IInv, BatchInv, CallRow
  <2>2. Asin(c)' = Asin(c) /\ First(c)' = First(c) /\ ~Chosen(c)' /\ ~At(c, "idle")'
    BY <2>1 DEF Asin, First, Chosen, At
  <2>3. Attributed' /\ OnPage' /\ Chose'
    BY <1>1, <2>1, <2>2 DEF EvidenceInv, Attributed, OnPage, Chose
  <2>4. Recognised' /\ Kept'
    BY <1>1, <2>1 DEF EvidenceInv, Recognised, Kept, Completed
  <2>. QED
    BY <1>1, <2>3, <2>4 DEF EvidenceInv, EvidenceIsOwn, EvidenceOnce
<1>. QED
  BY <1>2, <1>3 DEF Snapshot

LEMMA ClickEvidence ==
  ASSUME OneCaller, IInv, EvidenceInv, NEW c \in Callers, ClickExport(c)
  PROVE  EvidenceInv'
<1>1. ~At(c, "idle") /\ At(c, "click") /\ Looking(c) /\ ~At(c, "saved") /\ UNCHANGED <<now, manifests, calls>>
  BY DEF ClickExport, Going, At, Looking
<1>2. Requests(c)
  <2>1. page = Asin(c)
    BY <1>1 DEF EvidenceInv, OnPage, At
  <2>2. CASE UNCHANGED files
    BY <2>2 DEF Requests
  <2>3. CASE NamesLeft /\ files' = [files EXCEPT ![NewName] =
                 [Unused EXCEPT !.stage = "requested", !.asin = page, !.by = call[c].export]]
    <3>. DEFINE row == [Unused EXCEPT !.stage = "requested", !.asin = page, !.by = call[c].export]
    <3>1. row.stage = "requested" /\ row.asin = page /\ row.by = call[c].export
      BY DEF Unused
    <3>2. NewName \in Files /\ files[NewName].stage = "absent"
      BY <2>3 DEF NamesLeft, NewName
    <3>3. files' = [files EXCEPT ![NewName] = row]
      BY <2>3
    <3>. HIDE DEF row
    <3>. QED
      BY <2>1, <3>1, <3>2, <3>3 DEF Requests, IInv, Directory
  <2>. QED
    BY <2>2, <2>3 DEF ClickExport, Requested
<1>3. CASE Step(c, "wait")
  BY <1>1, <1>2, <1>3, ExportStepsOn DEF Steps
<1>4. ASSUME NEW code, Raise(c, code) PROVE EvidenceInv'
  BY <1>1, <1>2, <1>4, ExportRaises, OldManifests
<1>. QED
  BY <1>3, <1>4 DEF ClickExport

LEMMA PollEvidence ==
  ASSUME OneCaller, IInv, EvidenceInv, NEW c \in Callers, Poll(c)
  PROVE  EvidenceInv'
<1>1. /\ ~At(c, "idle") /\ Looking(c) /\ ~At(c, "saved")
      /\ UNCHANGED <<page, files, now, manifests, calls>> /\ Requests(c)
  BY DEF Poll, Going, At, World, Requests, Looking
<1>2. CASE Cardinality(Candidates(c)) > 1
  BY <1>1, <1>2, ExportRaises, OldManifests DEF Poll
<1>3. CASE ~(Cardinality(Candidates(c)) > 1)
  <2>1. PICK f \in Candidates(c) :
          call' = [call EXCEPT ![c].pc = "stable", ![c].file = f, ![c].version = files[f].version]
    BY <1>3 DEF Poll
  <2>2. /\ f \in Completed \ call[c].names /\ f \in Files /\ files[f].version \in Nat
        /\ files[f].mtime \in Nat /\ call[c].since \in Nat /\ files[f].mtime >= call[c].since
    BY CallFacts DEF Candidates, Completed, IInv, Directory, FileRow, CallRow
  <2>3. files[f].mtime > 0
    BY <1>1, <2>2 DEF EvidenceInv, Recognised
  <2>. DEFINE row == [call[c] EXCEPT !.pc = "stable", !.file = f, !.version = files[f].version]
  <2>4. /\ row \in CallRow /\ row.pc = "stable" /\ row.todo = call[c].todo /\ row.export = call[c].export
        /\ row.names = call[c].names /\ row.since = call[c].since /\ row.file = f
    BY <2>2, CallFacts DEF CallRow, Steps
  <2>5. call' = [call EXCEPT ![c] = row]
    BY <2>1 DEF IInv, BatchInv, CallRow
  <2>. HIDE DEF row
  <2>. QED
    BY <1>1, <2>2, <2>3, <2>4, <2>5, ExportGoesOn DEF First
<1>. QED
  BY <1>2, <1>3

LEMMA AcceptEvidence ==
  ASSUME OneCaller, IInv, EvidenceInv, NEW c \in Callers, Accept(c)
  PROVE  EvidenceInv'
<1>1. /\ ~At(c, "idle") /\ Looking(c) /\ Chosen(c) /\ ~At(c, "saved")
      /\ UNCHANGED <<page, files, now, manifests, calls>> /\ Requests(c)
  BY DEF Accept, Going, At, World, Requests, Looking, Chosen
<1>2. CASE Step(c, "exported")
  BY <1>1, <1>2, ExportStepsOn DEF Steps
<1>3. CASE call' = [call EXCEPT ![c].pc = "wait", ![c].file = NoFile, ![c].version = 0]
  <2>. DEFINE row == [call[c] EXCEPT !.pc = "wait", !.file = NoFile, !.version = 0]
  <2>1. /\ row \in CallRow /\ row.pc = "wait" /\ row.todo = call[c].todo /\ row.export = call[c].export
        /\ row.names = call[c].names /\ row.since = call[c].since
    BY CallFacts DEF CallRow, Steps
  <2>2. call' = [call EXCEPT ![c] = row]
    BY <1>3 DEF IInv, BatchInv, CallRow
  <2>. HIDE DEF row
  <2>. QED
    BY <1>1, <2>1, <2>2, ExportGoesOn DEF First
<1>. QED
  BY <1>2, <1>3 DEF Accept

LEMMA TimeOutEvidence ==
  ASSUME OneCaller, IInv, EvidenceInv, NEW c \in Callers, TimeOut(c)
  PROVE  EvidenceInv'
<1>1. ~At(c, "idle") /\ UNCHANGED <<files, now, manifests, calls>> /\ Requests(c)
  BY DEF TimeOut, Going, At, World, Requests
<1>. QED
  BY <1>1, ExportRaises, OldManifests DEF TimeOut

LEMMA ImportEvidence ==
  ASSUME OneCaller, IInv, EvidenceInv, NEW c \in Callers, Import(c)
  PROVE  EvidenceInv'
<1>1. /\ ~At(c, "idle") /\ Looking(c) /\ Chosen(c) /\ ~At(c, "saved")
      /\ UNCHANGED <<page, files, now, manifests, calls>> /\ Requests(c)
  BY DEF Import, Going, At, World, Requests, Looking, Chosen
<1>2. CASE Step(c, "imported")
  BY <1>1, <1>2, ExportStepsOn DEF Steps
<1>3. CASE Raise(c, "INVALID_EXPORT")
  BY <1>1, <1>3, ExportRaises, OldManifests
<1>. QED
  BY <1>2, <1>3 DEF Import

LEMMA SaveEvidence ==
  ASSUME OneCaller, IInv, EvidenceInv, NEW c \in Callers, Save(c)
  PROVE  EvidenceInv'
<1>1. /\ At(c, "imported") /\ ~At(c, "idle") /\ Looking(c) /\ Chosen(c)
      /\ UNCHANGED <<page, files, now, calls>> /\ Requests(c) /\ \A d \in Callers : d = c
  BY DEF Save, Going, At, Requests, Looking, Chosen, OneCaller
<1>2. CASE Raise(c, "INTERNAL") /\ UNCHANGED manifests
  BY <1>1, <1>2, ExportRaises, OldManifests
<1>3. CASE Raise(c, "INTERNAL") /\ manifests' = manifests \cup {Manifest(c)}
  BY <1>1, <1>3, ExportRaises, NewManifest DEF RetryableCodes
<1>4. CASE Step(c, "saved") /\ manifests' = manifests \cup {Manifest(c)}
  <2>1. /\ call'[c].pc = "saved" /\ call'[c].names = call[c].names /\ call'[c].since = call[c].since
        /\ call'[c].todo = call[c].todo /\ call'[c].export = call[c].export /\ call'[c].file = call[c].file
    BY <1>4 DEF Step, IInv, BatchInv, CallRow
  <2>2. Asin(c)' = Asin(c) /\ First(c)' = First(c) /\ At(c, "saved")' /\ ~At(c, "idle")'
    BY <2>1 DEF Asin, First, At
  <2>3. Evident'
    BY <1>1, <1>4, NewManifest
  <2>4. Attributed' /\ OnPage'
    BY <1>1, <2>1, <2>2 DEF EvidenceInv, Attributed, OnPage
  <2>5. Recognised' /\ Chose'
    BY <1>1, <2>1 DEF EvidenceInv, Recognised, Chose
  <2>6. Kept'
    BY <1>1, <2>2, <2>3 DEF Evident, Kept
  <2>. QED
    BY <1>1, <2>3, <2>4, <2>5, <2>6 DEF EvidenceInv, Evident
<1>. QED
  BY <1>2, <1>3, <1>4 DEF Save

LEMMA SucceedEvidence ==
  ASSUME OneCaller, IInv, EvidenceInv, NEW c \in Callers, Succeed(c)
  PROVE  EvidenceInv'
<1>1. /\ ~At(c, "idle") /\ Conclude(c, "SUCCESS")
      /\ UNCHANGED <<files, now, manifests, calls>> /\ Requests(c)
  BY DEF Succeed, Going, At, World, Requests
<1>. QED
  BY <1>1, ExportConcludes, OldManifests

------------------------------------------------------------------------------
(* What others do *)

LEMMA SameEvidence ==
  ASSUME EvidenceInv, UNCHANGED <<call, page, files, now, manifests, calls>>
  PROVE  EvidenceInv'
BY DEF EvidenceInv, Attributed, OnPage, Recognised, Chose, Kept, EvidenceIsOwn, EvidenceOnce,
       At, First, Asin, Looking, Chosen

\* One file changes, which is not in any manifest unless its time is all that changes.
LEMMA FileChanges ==
  ASSUME IInv, EvidenceInv, UNCHANGED <<call, page, manifests, calls>>, now' > 0, NEW f \in Files, NEW row,
         files' = [files EXCEPT ![f] = row],
         files[f].stage # "done" \/ (row.stage = "done" /\ row.mtime > 0 /\ files[f].mtime > 0
                                       /\ row.late = files[f].late /\ row.by = files[f].by
                                       /\ row.asin = files[f].asin),
         row.stage \in {"requested", "done"} =>
           \/ row.by.id = 0
           \/ /\ row.by = files[f].by /\ row.asin = files[f].asin
              /\ files[f].stage \in {"requested", "done"},
         row.stage = "done" =>
           \/ row.mtime = 0
           \/ \A c \in Callers : Looking(c) =>
                f \in call[c].names \/ row.late \/ row.by = call[c].export
  PROVE  EvidenceInv'
<1>1. files'[f] = row /\ \A g \in Files : g # f => files'[g] = files[g]
  BY DEF IInv, Directory
<1>2. \A c \in Callers : First(c) \in Nat /\ (~At(c, "idle") => First(c) > 0) /\ calls \in Nat
  BY CallFacts DEF IInv, BatchInv, Numbered
<1>3. Attributed'
  <2>. SUFFICES ASSUME NEW g \in Files, files'[g].stage \in {"requested", "done"}
                PROVE  /\ files'[g].by.id <= calls
                       /\ \A c \in Callers : ~At(c, "idle") =>
                            /\ files'[g].by.id <= First(c)
                            /\ files'[g].by.id = First(c) => files'[g].asin = Asin(c)
    BY DEF Attributed, At, First, Asin
  <2>1. CASE files'[g].by.id = 0
    <3>1. calls \in Nat
      BY DEF IInv, BatchInv
    <3>. QED
      BY <2>1, <3>1, <1>2
  <2>2. CASE files'[g].by = files[g].by /\ files'[g].asin = files[g].asin
             /\ files[g].stage \in {"requested", "done"}
    BY <2>2 DEF EvidenceInv, Attributed
  <2>. QED
    BY <2>1, <2>2, <1>1
<1>4. OnPage'
  BY DEF EvidenceInv, OnPage, Asin
<1>5. Recognised'
  BY <1>1 DEF EvidenceInv, Recognised, Looking
<1>6. Chose'
  BY <1>1 DEF EvidenceInv, Chose, Chosen
<1>7. Kept'
  BY <1>1 DEF EvidenceInv, Kept, Looking, At
<1>8. \A g \in Files : files[g].stage = "done" =>
        files'[g].asin = files[g].asin /\ files'[g].by.id = files[g].by.id /\ files'[g].late = files[g].late
  BY <1>1
<1>9. EvidenceIsOwn' /\ EvidenceOnce'
  BY <1>8 DEF EvidenceInv, Kept, EvidenceIsOwn, EvidenceOnce
<1>. QED
  BY <1>3, <1>4, <1>5, <1>6, <1>7, <1>9 DEF EvidenceInv

LEMMA FinishEvidence ==
  ASSUME OneCaller, IInv, EvidenceInv, NEW f \in Files, FinishDownload(f)
  PROVE  EvidenceInv'
<1>1. /\ files[f].stage = "requested" /\ files[f] \in FileRow /\ now' = now + 1 /\ now' > 0
      /\ UNCHANGED <<call, page, manifests, calls>>
  BY DEF FinishDownload, Surroundings, IInv, Directory, EvidenceInv
<1>. DEFINE row == [files[f] EXCEPT !.stage = "done", !.mtime = now', !.version = 1, !.late = Abandoned(f)]
<1>2. /\ row.stage = "done" /\ row.by = files[f].by /\ row.asin = files[f].asin /\ row.late = Abandoned(f)
  BY <1>1 DEF FileRow
<1>3. files' = [files EXCEPT ![f] = row]
  BY <1>1 DEF FinishDownload, FileRow, IInv, Directory
<1>. HIDE DEF row
<1>4. \A c \in Callers : row.late \/ row.by = call[c].export
  BY <1>2 DEF Abandoned, OneCaller
<1>. QED
  BY <1>1, <1>2, <1>3, <1>4, FileChanges

LEMMA LoseEvidence ==
  ASSUME IInv, EvidenceInv, NEW f \in Files, LoseDownload(f)
  PROVE  EvidenceInv'
<1>. DEFINE row == [Unused EXCEPT !.stage = "lost"]
<1>1. /\ files[f].stage = "requested" /\ UNCHANGED <<call, page, manifests, calls>> /\ now' > 0
      /\ files' = [files EXCEPT ![f] = row]
  BY DEF LoseDownload, Surroundings, EvidenceInv
<1>2. row.stage = "lost"
  BY DEF Unused
<1>. HIDE DEF row
<1>. QED
  BY <1>1, <1>2, FileChanges

LEMMA RewriteEvidence ==
  ASSUME IInv, EvidenceInv, NEW f \in Files, Rewrite(f)
  PROVE  EvidenceInv'
<1>1. /\ files[f].stage = "done" /\ files[f].mtime > 0 /\ files[f] \in FileRow /\ now' > 0 /\ now > 0
      /\ UNCHANGED <<call, page, manifests, calls>>
      /\ files' = [files EXCEPT ![f].version = @ + 1, ![f].mtime = now]
  BY DEF Rewrite, Surroundings, IInv, Directory, EvidenceInv
<1>. DEFINE row == [files[f] EXCEPT !.version = files[f].version + 1, !.mtime = now]
<1>2. /\ row.stage = "done" /\ row.by = files[f].by /\ row.asin = files[f].asin /\ row.late = files[f].late
      /\ row.mtime = now
  BY <1>1 DEF FileRow
<1>3. files' = [files EXCEPT ![f] = row]
  BY <1>1 DEF FileRow, IInv, Directory
<1>. HIDE DEF row
<1>4. \A c \in Callers : Looking(c) => f \in call[c].names \/ row.late \/ row.by = call[c].export
  BY <1>1, <1>2 DEF EvidenceInv, Recognised, FileRow
<1>. QED
  BY <1>1, <1>2, <1>3, <1>4, FileChanges

\* The time of a copy is that of the export it copies.
LEMMA CopyEvidence ==
  ASSUME IInv, EvidenceInv, CopyOldExport
  PROVE  EvidenceInv'
<1>1. now' > 0 /\ UNCHANGED <<call, page, manifests, calls>> /\ NamesLeft
  BY DEF CopyOldExport, Surroundings, EvidenceInv, IInv, Directory
<1>2. PICK a \in Asins :
        files' = [files EXCEPT ![NewName] = [Unused EXCEPT !.stage = "done", !.asin = a, !.version = 1]]
  BY DEF CopyOldExport
<1>. DEFINE row == [Unused EXCEPT !.stage = "done", !.asin = a, !.version = 1]
<1>3. row.stage = "done" /\ row.mtime = 0 /\ row.by.id = 0
  BY DEF Unused, NoExport
<1>4. files' = [files EXCEPT ![NewName] = row]
  BY <1>2
<1>5. NewName \in Files /\ files[NewName].stage = "absent"
  BY <1>1 DEF NamesLeft, NewName
<1>. HIDE DEF row
<1>. QED
  BY <1>1, <1>3, <1>4, <1>5, FileChanges

------------------------------------------------------------------------------
(* The invariant is inductive *)

LEMMA InitEvidence == Init => EvidenceInv
<1>. SUFFICES ASSUME Init PROVE EvidenceInv
  OBVIOUS
<1>1. \A c \in Callers : call[c].pc = "idle"
  BY DEF Init, Idle
<1>2. \A f \in Files : files[f].stage = "absent"
  BY DEF Init, Unused
<1>3. now > 0 /\ manifests = {}
  BY DEF Init
<1>. QED
  BY <1>1, <1>2, <1>3 DEF EvidenceInv, Attributed, OnPage, Recognised, Chose, Kept, EvidenceIsOwn,
                          EvidenceOnce, Looking, Chosen

LEMMA NextEvidence ==
  ASSUME OneCaller
  PROVE  IInv /\ EvidenceInv /\ [Next]_vars => EvidenceInv'
<1>. SUFFICES ASSUME IInv, EvidenceInv, [Next]_vars PROVE EvidenceInv'
  OBVIOUS
<1>1. ASSUME NEW c \in Callers, StartBatch(c) PROVE EvidenceInv'
  BY <1>1, StartEvidence
<1>2. ASSUME NEW c \in Callers, Cancel(c) PROVE EvidenceInv'
  BY <1>2, SameEvidence DEF Cancel, World
<1>3. ASSUME NEW c \in Callers, Export(c) PROVE EvidenceInv'
  BY <1>3, NextAsinEvidence, StoppedEvidence, BeforeSnapshot, SnapshotEvidence, ClickEvidence, PollEvidence,
     AcceptEvidence, TimeOutEvidence, ImportEvidence, SaveEvidence, SucceedEvidence DEF Export
<1>4. ASSUME NEW f \in Files, FinishDownload(f) \/ LoseDownload(f) \/ Rewrite(f) PROVE EvidenceInv'
  BY <1>4, FinishEvidence, LoseEvidence, RewriteEvidence
<1>5. CASE CopyOldExport
  BY <1>5, CopyEvidence
<1>6. CASE UNCHANGED vars
  BY <1>6, SameEvidence DEF vars
<1>. QED
  BY <1>1, <1>2, <1>3, <1>4, <1>5, <1>6 DEF Next

LEMMA EvidenceInvariant ==
  ASSUME OneCaller
  PROVE  FairSpec => []EvidenceInv
<1>1. Init => IInv /\ EvidenceInv
  BY InitInv, InitEvidence
<1>2. IInv /\ EvidenceInv /\ [Next]_vars => IInv' /\ EvidenceInv'
  BY NextInv, NextEvidence
<1>. QED
  BY <1>1, <1>2, PTL DEF FairSpec

------------------------------------------------------------------------------
(* The theorems *)

\* What wait_for_new_download recognises and save_sellersprite_import records for
\* a call is the export of its ASIN, when the page and the directory have one
\* user and no download ends after its attempt was given up.
THEOREM ManifestsNameOwnExports ==
  ASSUME OneCaller
  PROVE  FairSpec => []EvidenceIsOwn
<1>1. EvidenceInv => EvidenceIsOwn
  BY DEF EvidenceInv
<1>. QED
  BY <1>1, EvidenceInvariant, PTL

\* A file is recorded for one call only, late ones included.
THEOREM FilesServeOneCall ==
  ASSUME OneCaller
  PROVE  FairSpec => []EvidenceOnce
<1>1. EvidenceInv => EvidenceOnce
  BY DEF EvidenceInv
<1>. QED
  BY <1>1, EvidenceInvariant, PTL
==============================================================================
