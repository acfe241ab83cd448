-------------------------- MODULE SellerSpriteExport --------------------------
(* The browser export of SellerSprite keywords: a caller (the market stage, a *)
(* request of the web API, the command line) works through a batch of ASINs,  *)
(* has the extension export each one, recognises the download among the files *)
(* of a directory it does not own, imports it and records a manifest.         *)
(*                                                                            *)
(* The browser and other programs write to the directory whenever they like.  *)
(* Time is the number of changes the directory has seen: it is all that the   *)
(* comparison of modification times depends on.  A wait may time out at any   *)
(* moment.                                                                    *)
EXTENDS Naturals, Sequences, FiniteSets, SequencesExt

CONSTANTS
  Asins,
  Callers,       \* threads that export; they share the browser page
  Files,         \* names a download can get
  NoAsin, NoFile,
  MaxRetries,    \* sellersprite_browser_max_retries
  MaxCalls,      \* bound: exports that are asked for
  MaxTampering   \* bound: files that other programs copy or rewrite

ASSUME ExportAssumption ==
  /\ NoAsin \notin Asins /\ NoFile \notin Files
  /\ MaxRetries \in {0, 1}
  /\ MaxCalls \in Nat /\ MaxTampering \in Nat

VARIABLES
  call,       \* by caller, the export under way
  results,    \* by caller, the statuses of its batch so far
  cancelled,  \* by caller, whether it was told to stop
  page,       \* the ASIN the extension was last asked for
  files,      \* by name, what the download directory holds
  now,        \* changes of the directory so far, its modification time
  manifests,  \* rows of sellersprite_imports
  calls,      \* exports asked for so far
  tampering   \* how much of the bound is used up

vars == <<call, results, cancelled, page, files, now, manifests, calls, tampering>>

NoExport == [id |-> 0, attempt |-> 0]
Unused == [stage |-> "absent", asin |-> NoAsin, by |-> NoExport, mtime |-> 0,
           version |-> 0, late |-> FALSE]
Idle == [pc |-> "idle", todo |-> <<>>, export |-> NoExport, names |-> {}, since |-> 0,
         file |-> NoFile, version |-> 0]

Init ==
  /\ call = [c \in Callers |-> Idle]
  /\ results = [c \in Callers |-> <<>>]
  /\ cancelled = [c \in Callers |-> FALSE]
  /\ page = NoAsin
  /\ files = [f \in Files |-> Unused]
  /\ now = 1
  /\ manifests = {}
  /\ calls = 0 /\ tampering = 0

------------------------------------------------------------------------------
(* Outcomes of one export, and how the batch goes on *)

\* Mutant of RetryableCodes: what went wrong after the import is retried as well.
RetryableCodes_Internal == {"EXPORT_FAILED", "DOWNLOAD_TIMEOUT", "INTERNAL"}
\* HUMAN stands for the five codes a human has to deal with.
RetryableCodes == {"EXPORT_FAILED", "DOWNLOAD_TIMEOUT"}

Status(code) == IF code = "HUMAN" THEN "NEEDS_HUMAN" ELSE code
Statuses == {"SUCCESS", "NEEDS_HUMAN", "EXPORT_FAILED", "DOWNLOAD_TIMEOUT", "CANCELLED",
             "ASIN_MISMATCH", "AMBIGUOUS_DOWNLOAD", "INVALID_EXPORT", "INTERNAL"}
\* Mutant of StopCodes: a human outcome does not stop the batch.
StopCodes_None == {}
\* The other codes of _STOP_CODES are never the status of a result.
StopCodes == {"NEEDS_HUMAN"}

Asin(c) == Head(call[c].todo)
At(c, pc) == call[c].pc = pc
Step(c, pc) == call' = [call EXCEPT ![c].pc = pc]

\* run_reverse_keyword_batch, once the call has a result.
Conclude(c, status) ==
  /\ results' = [results EXCEPT ![c] = Append(@, status)]
  /\ LET rest == Tail(call[c].todo)
     IN  call' = [call EXCEPT ![c] =
           IF status \in StopCodes \/ rest = <<>> THEN Idle
           ELSE [Idle EXCEPT !.pc = "next", !.todo = rest, !.export.id = call[c].export.id + 1]]

\* run_reverse_keyword_export, when an attempt raises.
Raise(c, code) ==
  IF code \in RetryableCodes /\ call[c].export.attempt < MaxRetries
  THEN /\ call' = [call EXCEPT ![c].pc = "open", ![c].export.attempt = @ + 1]
       /\ UNCHANGED results
  ELSE Conclude(c, Status(code))

World == <<page, files, now, manifests, calls, tampering>>

\* _ensure_not_cancelled stands before every step of the session.
Stopped(c) ==
  /\ call[c].pc \in {"open", "check", "submit", "snapshot", "click", "wait", "stable",
                      "exported", "imported", "saved"}
  /\ cancelled[c]
  /\ Raise(c, "CANCELLED")
  /\ UNCHANGED <<cancelled, World>>

Going(c, pc) == At(c, pc) /\ ~cancelled[c]

------------------------------------------------------------------------------
(* The batch *)

\* run_reverse_keyword_batch; a single export is a batch of one.
StartBatch(c) ==
  /\ At(c, "idle")
  /\ \E n \in 1..Cardinality(Asins) : \E batch \in [1..n -> Asins] :
       /\ IsInjective(batch)
       /\ calls + n <= MaxCalls
       /\ calls' = calls + n
       /\ call' = [call EXCEPT ![c] = [Idle EXCEPT !.pc = "next", !.todo = batch,
                                                    !.export.id = calls + 1]]
  /\ results' = [results EXCEPT ![c] = <<>>]
  /\ cancelled' = [cancelled EXCEPT ![c] = FALSE]
  /\ UNCHANGED <<page, files, now, manifests, tampering>>

NextAsin(c) ==
  /\ At(c, "next")
  /\ IF cancelled[c] THEN call' = [call EXCEPT ![c] = Idle] ELSE Step(c, "open")
  /\ UNCHANGED <<results, cancelled, World>>

\* The operator of the caller cancels it, at any moment.
Cancel(c) ==
  /\ ~At(c, "idle") /\ ~cancelled[c]
  /\ cancelled' = [cancelled EXCEPT ![c] = TRUE]
  /\ UNCHANGED <<call, results, World>>

------------------------------------------------------------------------------
(* The session with the browser *)

\* __enter__ and open_amazon_product
OpenProduct(c) ==
  /\ Going(c, "open")
  /\ \/ Step(c, "check") /\ UNCHANGED results
     \/ \E code \in {"HUMAN", "EXPORT_FAILED", "ASIN_MISMATCH", "INTERNAL"} : Raise(c, code)
  /\ UNCHANGED <<cancelled, World>>

CheckExtension(c) ==
  /\ Going(c, "check")
  /\ \/ Step(c, "submit") /\ UNCHANGED results
     \/ Raise(c, "HUMAN")
  /\ UNCHANGED <<cancelled, World>>

\* export_sellersprite_reverse_keywords, up to the table of results.
Submit(c) ==
  /\ Going(c, "submit")
  /\ \/ /\ page' = Asin(c)
        /\ Step(c, "snapshot") /\ UNCHANGED results
     \/ /\ \E code \in {"HUMAN", "EXPORT_FAILED", "DOWNLOAD_TIMEOUT"} : Raise(c, code)
        /\ page' \in {page, Asin(c)}
  /\ UNCHANGED <<cancelled, files, now, manifests, calls, tampering>>

Completed == {f \in Files : files[f].stage = "done"}

\* snapshot_download_dir
Snapshot(c) ==
  /\ Going(c, "snapshot")
  /\ \/ /\ call' = [call EXCEPT ![c].pc = "click", ![c].names = Completed, ![c].since = now]
        /\ UNCHANGED results
     \/ Raise(c, "INVALID_EXPORT")
  /\ UNCHANGED <<cancelled, World>>

NamesLeft == \E f \in Files : files[f].stage = "absent"
NewName == CHOOSE f \in Files : files[f].stage = "absent"

\* The browser is asked for a download, or loses the click.
Requested(c) ==
  \/ UNCHANGED files
  \/ /\ NamesLeft
     /\ files' = [files EXCEPT ![NewName] = [Unused EXCEPT !.stage = "requested", !.asin = page,
                                                             !.by = call[c].export]]

\* The click can raise although the browser has seen it.
ClickExport(c) ==
  /\ Going(c, "click")
  /\ Requested(c)
  /\ \/ Step(c, "wait") /\ UNCHANGED results
     \/ \E code \in {"HUMAN", "EXPORT_FAILED"} : Raise(c, code)
  /\ UNCHANGED <<cancelled, page, now, manifests, calls, tampering>>

------------------------------------------------------------------------------
(* Recognising the download *)

\* Mutant of Candidates: the names are not compared.
Candidates_AnyName(c) == {f \in Completed : files[f].mtime >= call[c].since}
\* Mutant of Candidates: their times are not compared.
Candidates_AnyTime(c) == Completed \ call[c].names

\* _new_export_candidates
Candidates(c) ==
  {f \in Completed \ call[c].names : files[f].mtime >= call[c].since}

\* wait_for_new_download, one round up to the first look at the candidate's size.
Poll(c) ==
  /\ Going(c, "wait")
  /\ IF Cardinality(Candidates(c)) > 1 THEN Raise(c, "AMBIGUOUS_DOWNLOAD")
     ELSE /\ UNCHANGED results
          /\ \E f \in Candidates(c) :
               call' = [call EXCEPT ![c].pc = "stable", ![c].file = f,
                                    ![c].version = files[f].version]
  /\ UNCHANGED <<cancelled, World>>

\* The second look, and the digest.  A file that changes while it is read is not taken.
Accept(c) ==
  /\ Going(c, "stable")
  /\ \/ /\ files[call[c].file].version = call[c].version
        /\ Step(c, "exported")
     \/ call' = [call EXCEPT ![c].pc = "wait", ![c].file = NoFile, ![c].version = 0]
  /\ UNCHANGED <<results, cancelled, World>>

\* Mutant of TimeOut: the wait has no deadline.
TimeOut_Never(c) == FALSE /\ UNCHANGED vars

\* The wait ends without a file: the deadline, or a directory that cannot be listed.
TimeOut(c) ==
  /\ Going(c, "wait")
  /\ \E code \in {"DOWNLOAD_TIMEOUT", "INVALID_EXPORT"} : Raise(c, code)
  /\ UNCHANGED <<cancelled, World>>

------------------------------------------------------------------------------
(* Import and manifest *)

\* import_sellersprite_export: the digest is compared again before the rows are read.
Import(c) ==
  /\ Going(c, "exported")
  /\ \/ /\ files[call[c].file].version = call[c].version
        /\ Step(c, "imported") /\ UNCHANGED results
     \/ Raise(c, "INVALID_EXPORT")
  /\ UNCHANGED <<cancelled, World>>

Manifest(c) == [id |-> call[c].export.id, attempt |-> call[c].export.attempt,
                asin |-> Asin(c), file |-> call[c].file]

\* save_sellersprite_import: the row is committed and read again.
Save(c) ==
  /\ Going(c, "imported")
  /\ \/ /\ manifests' = manifests \cup {Manifest(c)}
        /\ \/ Step(c, "saved") /\ UNCHANGED results
           \/ Raise(c, "INTERNAL")
     \/ UNCHANGED manifests /\ Raise(c, "INTERNAL")
  /\ UNCHANGED <<cancelled, page, files, now, calls, tampering>>


Succeed(c) ==
  /\ Going(c, "saved")
  /\ Conclude(c, "SUCCESS")
  /\ UNCHANGED <<cancelled, World>>

------------------------------------------------------------------------------
(* The directory *)

Surroundings == <<call, results, cancelled, page, manifests, calls>>

\* Whether the attempt that asked for the file has ended.
Abandoned(f) == \A c \in Callers : call[c].export # files[f].by

\* The download is written under a temporary name and renamed at the end.  (One
\* whose last write precedes another change of the directory is not recognised,
\* as if it were lost.)
FinishDownload(f) ==
  /\ files[f].stage = "requested"
  /\ now' = now + 1
  /\ files' = [files EXCEPT ![f].stage = "done", ![f].mtime = now', ![f].version = 1,
                            ![f].late = Abandoned(f)]
  /\ UNCHANGED <<Surroundings, tampering>>

LoseDownload(f) ==
  /\ files[f].stage = "requested"
  /\ files' = [files EXCEPT ![f] = [Unused EXCEPT !.stage = "lost"]]
  /\ UNCHANGED <<Surroundings, now, tampering>>

Tamper == tampering < MaxTampering /\ tampering' = tampering + 1

\* Somebody copies an old export into the directory.
CopyOldExport ==
  /\ Tamper
  /\ NamesLeft
  /\ \E a \in Asins :
       files' = [files EXCEPT ![NewName] = [Unused EXCEPT !.stage = "done", !.asin = a, !.version = 1]]
  /\ now' = now + 1
  /\ UNCHANGED Surroundings

\* Somebody writes to a download; the directory's own time stays.  (An old copy
\* that is written to cannot be told from a download by its time.)
Rewrite(f) ==
  /\ Tamper
  /\ files[f].stage = "done" /\ files[f].mtime > 0
  /\ files' = [files EXCEPT ![f].version = @ + 1, ![f].mtime = now]
  /\ UNCHANGED <<Surroundings, now>>

------------------------------------------------------------------------------

Export(c) ==
  \/ NextAsin(c) \/ Stopped(c) \/ OpenProduct(c) \/ CheckExtension(c) \/ Submit(c)
  \/ Snapshot(c) \/ ClickExport(c) \/ Poll(c) \/ Accept(c) \/ TimeOut(c)
  \/ Import(c) \/ Save(c) \/ Succeed(c)

Next ==
  \/ \E c \in Callers : StartBatch(c) \/ Cancel(c) \/ Export(c)
  \/ \E f \in Files : FinishDownload(f) \/ LoseDownload(f) \/ Rewrite(f)
  \/ CopyOldExport

\* The callers' threads run; a wait that goes on for ever reaches its deadline.
FairSpec ==
  /\ Init /\ [][Next]_vars
  /\ \A c \in Callers : WF_vars(Export(c)) /\ SF_vars(TimeOut(c))

------------------------------------------------------------------------------

\* However often an export is retried, and wherever it fails, a call leaves at
\* most one manifest.
OneManifestPerCall ==
  \A m, n \in manifests : m.id = n.id => m = n

\* A manifest names the export of its own ASIN, unless the download was
\* finished only after the attempt that asked for it had been given up.  Old
\* files, copied or rewritten ones are not taken for it.  (One caller.)
EvidenceIsOwn ==
  \A m \in manifests : ~files[m.file].late =>
    /\ files[m.file].asin = m.asin
    /\ files[m.file].by.id = m.id

\* One export is evidence for one call only.  (One caller.)
EvidenceOnce ==
  \A m, n \in manifests : m.file = n.file => m = n

\* "an explicit human stop gate": nothing follows an outcome that needs a human.
HumanStopsBatch ==
  \A c \in Callers : \A i \in 1..Len(results[c]) :
    results[c][i] = "NEEDS_HUMAN" => i = Len(results[c]) /\ At(c, "idle")

\* Every batch comes to its end, whatever the browser does.
BatchesEnd == \A c \in Callers : []<>At(c, "idle")
=============================================================================
