---------------------------- MODULE FilingLedger ----------------------------
(***************************************************************************)
(* The document ledger of one CA firm and the protocol that locks a filing *)
(* period (api/routes/worker.py, agents/pipeline.py,                       *)
(* agents/filing_approval.py, db/queries/{documents,filings}.py).          *)
(*                                                                         *)
(* Every Telegram message is handled by its own asyncio background task    *)
(* with its own database session; the sessions run READ COMMITTED, so      *)
(* every SELECT of a task sees what the other tasks have committed by      *)
(* then.  One action below is the code between two such reads (or between  *)
(* a read and the commit that relies on it), which is exactly where tasks  *)
(* interleave.                                                             *)
(*                                                                         *)
(* An upload task stores at most one row of the documents table, so the    *)
(* task is also the identity of the row.                                   *)
(***************************************************************************)
EXTENDS Naturals, FiniteSets

CONSTANTS Uploads,    \* document messages, each with its background task
          Commands,   \* text messages of the approval protocol, likewise
          Files,      \* contents of uploaded files (their SHA-256)
          Clients,    \* clients of the firm
          Invoices,   \* natural keys: vendor GSTIN, invoice number and date
          Periods,    \* (month, year) pairs
          PeriodOf,   \* PeriodOf[k]: period of the date in k, None if unreadable
          None        \* SQL NULL / Python None

ASSUME PeriodOfType == PeriodOf \in [Invoices -> Periods \cup {None}]
ASSUME NoneIsNoPeriod == None \notin Periods
ASSUME NoneIsNoInvoice == None \notin Invoices
ASSUME NoneIsNoFile == None \notin Files
ASSUME NoneIsNoClient == None \notin Clients
ASSUME NoneIsNoCommand == None \notin Commands
ASSUME NoneIsNoContent == \A S \in SUBSET Uploads : S # None

VARIABLES
  pc,          \* where each upload task stands
  row,         \* what each upload task has worked out: its row, once stored
  docs,        \* committed rows of the documents table
  cpc,         \* where each command task stands
  want,        \* the snapshot a confirm command names by its hash
  todo,        \* periods a confirm command has still to look at
  at,          \* the period a command is looking at
  intent,      \* the snapshot finalize_approval derived, to be stored
  prompted,    \* snapshots the CA was asked to confirm (kept in the chat)
  approval,    \* committed rows of filing_approvals: the frozen snapshot
  inserting    \* filing_approvals row flushed but not committed, by whom

uploadVars == <<pc, row, docs>>
commandVars == <<cpc, want, todo, at, intent, prompted, approval, inserting>>
vars == <<pc, row, docs, cpc, want, todo, at, intent, prompted, approval, inserting>>

(***************************************************************************)
(* Control states.                                                         *)
(***************************************************************************)
UploadRunning == {"dedup", "extract", "verdict", "lockcheck", "content", "persist"}
UploadSettled == {"rejected", "reupload", "unreadable", "refused", "duplicate",
                  "saved", "unsaved", "lost"}
UploadPC == {"idle", "parked"} \cup UploadRunning \cup UploadSettled

CommandRunning == {"parse", "snap", "list", "scan", "match", "relock", "resnap",
                   "insert", "commit"}
CommandSettled == {"prompted", "unsent", "refused", "drifted", "nomatch",
                   "locked", "rolledback", "lost"}
CommandPC == {"idle"} \cup CommandRunning \cup CommandSettled

Row == [file    : Files \cup {None},
        client  : Clients \cup {None},
        key     : Invoices \cup {None},
        period  : Periods \cup {None},
        verdict : {"unset", "done", "locked"}]

Blank == [file |-> None, client |-> None, key |-> None, period |-> None,
          verdict |-> "unset"]

(* What the extractor may read on a document: an incomplete natural key    *)
(* disables the content hash, an unreadable date leaves it in no period.   *)
Readings == {[key |-> k, period |-> PeriodOf[k]] : k \in Invoices}
            \cup {[key |-> None, period |-> p] : p \in Periods \cup {None}}

(* What a row gains on the way: its file, its extraction and client, its   *)
(* verdict.  A row that was parked forgets the hash of its file.           *)
WithFile(r, f) == [r EXCEPT !.file = f]
WithRoute(r, x, c) == [r EXCEPT !.key = x.key, !.period = x.period, !.client = c]
WithVerdict(r, v) == [r EXCEPT !.verdict = v]

(***************************************************************************)
(* Queries.                                                                *)
(***************************************************************************)
IsPeriodLocked(p) == p \in Periods /\ approval[p] # None

DocsOf(p) == {d \in docs : row[d].period = p}

(* The snapshot hash, taken to be injective: the totals in the snapshot    *)
(* are a function of the documents, whose extraction never changes.        *)
Snapshot(p) == <<p, DocsOf(p)>>

SameFile(f) == {d \in docs : row[d].file = f}

SameInvoice(c, k) == {d \in docs : row[d].client = c /\ row[d].key = k}

TypeOK ==
  /\ pc \in [Uploads -> UploadPC]
  /\ row \in [Uploads -> Row]
  /\ docs \subseteq Uploads
  /\ cpc \in [Commands -> CommandPC]
  /\ want \in [Commands -> {None} \cup (Periods \X SUBSET Uploads)]
  /\ todo \in [Commands -> SUBSET Periods]
  /\ at \in [Commands -> Periods \cup {None}]
  /\ intent \in [Commands -> {None} \cup (Periods \X SUBSET Uploads)]
  /\ prompted \subseteq Periods \X SUBSET Uploads
  /\ approval \in [Periods -> {None} \cup SUBSET Uploads]
  /\ inserting \in [Periods -> Commands \cup {None}]

Init ==
  /\ pc = [u \in Uploads |-> "idle"]
  /\ row = [u \in Uploads |-> Blank]
  /\ docs = {}
  /\ cpc = [c \in Commands |-> "idle"]
  /\ want = [c \in Commands |-> None]
  /\ todo = [c \in Commands |-> {}]
  /\ at = [c \in Commands |-> None]
  /\ intent = [c \in Commands |-> None]
  /\ prompted = {}
  /\ approval = [p \in Periods |-> None]
  /\ inserting = [p \in Periods |-> None]

(***************************************************************************)
(* Upload tasks: _run_document_pipeline, then finalize_document.           *)
(***************************************************************************)
Goto(u, next) == pc' = [pc EXCEPT ![u] = next]

(* A document message arrives and its file is downloaded; no firm, no file *)
(* in the message or a failed download end the task with an error reply.   *)
Receive(u, f) ==
  /\ pc[u] = "idle"
  /\ row' = [row EXCEPT ![u] = WithFile(@, f)]
  /\ Goto(u, "dedup") \/ Goto(u, "rejected")
  /\ UNCHANGED <<docs, commandVars>>

(* Early dedup: the bytes are looked up before money is spent on LLMs.     *)
EarlyDedup(u) ==
  /\ pc[u] = "dedup"
  /\ Goto(u, IF SameFile(row[u].file) # {} THEN "reupload" ELSE "extract")
  /\ UNCHANGED <<row, docs, commandVars>>

(* extract_only raises PipelineError when the file is unreadable.          *)
ExtractFails(u) ==
  /\ pc[u] = "extract"
  /\ Goto(u, "unreadable")
  /\ UNCHANGED <<row, docs, commandVars>>

(* extract_only reads the document and resolve_identity routes it: to a    *)
(* client, to a client that is gone by then, or to nobody, in which case a *)
(* pending_assignments row keeps the extraction for a later assignment.    *)
ExtractAndRoute(u) ==
  /\ pc[u] = "extract"
  /\ \E x \in Readings, c \in Clients \cup {None} :
        /\ row' = [row EXCEPT ![u] = WithRoute(@, x, c)]
        /\ IF c = None THEN Goto(u, "parked")
                       ELSE Goto(u, "verdict") \/ Goto(u, "rejected")
  /\ UNCHANGED <<docs, commandVars>>

(* The CA assigns a parked document.  The command resolves the pending row *)
(* and finalises the cached extraction, or reads the file again when the   *)
(* row holds none; the hash of the file is on neither path.  If the        *)
(* acknowledgement cannot be sent, the exception ends the command here.    *)
Assign(u, c) ==
  /\ pc[u] = "parked"
  /\ \E x \in Readings :
        /\ x = [key |-> row[u].key, period |-> row[u].period]
             \/ (row[u].key = None /\ row[u].period = None)
        /\ row' = [row EXCEPT ![u] = WithRoute(WithFile(@, None), x, c)]
  /\ Goto(u, "verdict") \/ Goto(u, "lost")
  /\ UNCHANGED <<docs, commandVars>>

(* The tax engine reads the locked periods and refuses to judge a document *)
(* of one (LockedPeriodError), which is not fatal; "done" is a verdict or  *)
(* an engine failure, neither of which depends on a lock.                  *)
Verdict(u) ==
  /\ pc[u] = "verdict"
  /\ row' = [row EXCEPT ![u] = WithVerdict(@,
                IF IsPeriodLocked(row[u].period) THEN "locked" ELSE "done")]
  /\ Goto(u, "lockcheck")
  /\ UNCHANGED <<docs, commandVars>>

(* Mutant: the lock is not read before the row is written.                 *)
LockCheckSkipped(u) ==
  /\ pc[u] = "lockcheck"
  /\ Goto(u, "content")
  /\ UNCHANGED <<row, docs, commandVars>>

(* finalize_document reads filing_approvals for the period of the invoice. *)
LockCheck(u) ==
  /\ pc[u] = "lockcheck"
  /\ Goto(u, IF IsPeriodLocked(row[u].period) THEN "refused" ELSE "content")
  /\ UNCHANGED <<row, docs, commandVars>>

(* Mutant: no lookup by content hash.                                      *)
ContentCheckSkipped(u) ==
  /\ pc[u] = "content"
  /\ Goto(u, "persist")
  /\ UNCHANGED <<row, docs, commandVars>>

(* The content-hash lookup; a row with an incomplete key is let through.   *)
ContentCheck(u) ==
  /\ pc[u] = "content"
  /\ Goto(u, IF row[u].key # None /\ SameInvoice(row[u].client, row[u].key) # {}
             THEN "duplicate" ELSE "persist")
  /\ UNCHANGED <<row, docs, commandVars>>

(* INSERT and COMMIT.  No constraint of the table can refuse the row.      *)
Persist(u) ==
  /\ pc[u] = "persist"
  /\ docs' = docs \cup {u}
  /\ Goto(u, "saved")
  /\ UNCHANGED <<row, commandVars>>

(* A database error rolls back; the task goes on and answers the CA.       *)
PersistFails(u) ==
  /\ pc[u] = "persist"
  /\ Goto(u, "unsaved")
  /\ UNCHANGED <<row, docs, commandVars>>

UploadStep(u) ==
  \/ EarlyDedup(u) \/ ExtractFails(u) \/ ExtractAndRoute(u)
  \/ Verdict(u) \/ LockCheck(u) \/ ContentCheck(u)
  \/ Persist(u) \/ PersistFails(u)

(***************************************************************************)
(* Command tasks: ENMA APPROVE FILING <p>, ENMA CONFIRM FILING <hash>.     *)
(***************************************************************************)
CGoto(c, next) == cpc' = [cpc EXCEPT ![c] = next]

ApproveText(c, p) ==
  /\ cpc[c] = "idle"
  /\ at' = [at EXCEPT ![c] = p]
  /\ CGoto(c, "parse")
  /\ UNCHANGED <<uploadVars, want, todo, intent, prompted, approval, inserting>>

(* parse_approval_intent, first read.                                      *)
ParseLockCheck(c) ==
  /\ cpc[c] = "parse"
  /\ CGoto(c, IF IsPeriodLocked(at[c]) THEN "refused" ELSE "snap")
  /\ UNCHANGED <<uploadVars, want, todo, at, intent, prompted, approval, inserting>>

(* parse_approval_intent, second read; then the summary and the hash go to *)
(* the CA, unless Telegram refuses the message.                            *)
ParseSnapshot(c) ==
  /\ cpc[c] = "snap"
  /\ \/ prompted' = prompted \cup {Snapshot(at[c])} /\ CGoto(c, "prompted")
     \/ UNCHANGED prompted /\ CGoto(c, "unsent")
  /\ UNCHANGED <<uploadVars, want, todo, at, intent, approval, inserting>>

(* The CA copies a hash from a prompt; it may be an old one.               *)
ConfirmText(c, h) ==
  /\ cpc[c] = "idle"
  /\ h \in prompted
  /\ want' = [want EXCEPT ![c] = h]
  /\ CGoto(c, "list")
  /\ UNCHANGED <<uploadVars, todo, at, intent, prompted, approval, inserting>>

(* Mutant: rows without a filing period are not filtered out.              *)
ListPeriodsWithNull(c) ==
  /\ cpc[c] = "list"
  /\ todo' = [todo EXCEPT ![c] = {row[d].period : d \in docs}]
  /\ CGoto(c, "scan")
  /\ UNCHANGED <<uploadVars, want, at, intent, prompted, approval, inserting>>

(* Mutant: only the period of one document, say the latest, is visited.    *)
ListPeriodsOfOneDoc(c) ==
  /\ cpc[c] = "list"
  /\ \E d \in docs : todo' = [todo EXCEPT ![c] = {row[d].period} \ {None}]
  /\ CGoto(c, "scan")
  /\ UNCHANGED <<uploadVars, want, at, intent, prompted, approval, inserting>>

(* _handle_approval_confirm collects the periods that hold a document.     *)
ListPeriods(c) ==
  /\ cpc[c] = "list"
  /\ todo' = [todo EXCEPT ![c] = {row[d].period : d \in docs} \ {None}]
  /\ CGoto(c, "scan")
  /\ UNCHANGED <<uploadVars, want, at, intent, prompted, approval, inserting>>

(* It visits them in the arbitrary order of a Python set; a locked one is  *)
(* skipped.                                                                *)
ScanLockCheck(c, p) ==
  /\ cpc[c] = "scan"
  /\ p \in todo[c]
  /\ todo' = [todo EXCEPT ![c] = @ \ {p}]
  /\ at' = [at EXCEPT ![c] = p]
  /\ CGoto(c, IF IsPeriodLocked(p) THEN "scan" ELSE "match")
  /\ UNCHANGED <<uploadVars, want, intent, prompted, approval, inserting>>

(* The snapshot of the visited period is compared with the hash.           *)
ScanSnapshot(c) ==
  /\ cpc[c] = "match"
  /\ CGoto(c, IF Snapshot(at[c]) = want[c] THEN "relock" ELSE "scan")
  /\ UNCHANGED <<uploadVars, want, todo, at, intent, prompted, approval, inserting>>

ScanExhausted(c) ==
  /\ cpc[c] = "scan"
  /\ todo[c] = {}
  /\ CGoto(c, "nomatch")
  /\ UNCHANGED <<uploadVars, want, todo, at, intent, prompted, approval, inserting>>

(* Mutant: the second derivation is stored without being compared.         *)
RecheckSnapshotTrusted(c) ==
  /\ cpc[c] = "resnap"
  /\ intent' = [intent EXCEPT ![c] = Snapshot(at[c])]
  /\ CGoto(c, "insert")
  /\ UNCHANGED <<uploadVars, want, todo, at, prompted, approval, inserting>>

(* finalize_approval derives the snapshot a second time: both reads of     *)
(* parse_approval_intent, then the comparison.                             *)
RecheckLock(c) ==
  /\ cpc[c] = "relock"
  /\ CGoto(c, IF IsPeriodLocked(at[c]) THEN "refused" ELSE "resnap")
  /\ UNCHANGED <<uploadVars, want, todo, at, intent, prompted, approval, inserting>>

RecheckSnapshot(c) ==
  /\ cpc[c] = "resnap"
  /\ intent' = [intent EXCEPT ![c] = Snapshot(at[c])]
  /\ CGoto(c, IF Snapshot(at[c]) = want[c] THEN "insert" ELSE "drifted")
  /\ UNCHANGED <<uploadVars, want, todo, at, prompted, approval, inserting>>

(* Mutant: no unique key, two sessions may both hold a flushed row.        *)
InsertApprovalNoKey(c) ==
  /\ cpc[c] = "insert"
  /\ approval[at[c]] = None
  /\ inserting' = [inserting EXCEPT ![at[c]] = c]
  /\ CGoto(c, "commit")
  /\ UNCHANGED <<uploadVars, want, todo, at, intent, prompted, approval>>

(* The flushed INSERT takes the unique key (firm, month, year); another    *)
(* session's uncommitted row makes it wait.                                *)
InsertApproval(c) ==
  /\ cpc[c] = "insert"
  /\ approval[at[c]] = None
  /\ inserting[at[c]] = None
  /\ inserting' = [inserting EXCEPT ![at[c]] = c]
  /\ CGoto(c, "commit")
  /\ UNCHANGED <<uploadVars, want, todo, at, intent, prompted, approval>>

(* Mutant: the documents are read once more when the row is written.       *)
CommitApprovalLate(c) ==
  /\ cpc[c] = "commit"
  /\ approval' = [approval EXCEPT ![at[c]] = DocsOf(at[c])]
  /\ inserting' = [inserting EXCEPT ![at[c]] = None]
  /\ CGoto(c, "locked")
  /\ UNCHANGED <<uploadVars, want, todo, at, intent, prompted>>

(* Mutant: the handler of the conflict deletes the row, taking it for its  *)
(* own.                                                                    *)
InsertConflictsCleansUp(c) ==
  /\ cpc[c] = "insert"
  /\ approval[at[c]] # None
  /\ approval' = [approval EXCEPT ![at[c]] = None]
  /\ CGoto(c, "refused")
  /\ UNCHANGED <<uploadVars, want, todo, at, intent, prompted, inserting>>

(* The key is taken: IntegrityError, rolled back, FilingAlreadyApproved.   *)
InsertConflicts(c) ==
  /\ cpc[c] = "insert"
  /\ approval[at[c]] # None
  /\ CGoto(c, "refused")
  /\ UNCHANGED <<uploadVars, want, todo, at, intent, prompted, approval, inserting>>

CommitApproval(c) ==
  /\ cpc[c] = "commit"
  /\ approval' = [approval EXCEPT ![at[c]] = intent[c][2]]
  /\ inserting' = [inserting EXCEPT ![at[c]] = None]
  /\ CGoto(c, "locked")
  /\ UNCHANGED <<uploadVars, want, todo, at, intent, prompted>>

(* The COMMIT fails: the session is closed and the flushed row vanishes.   *)
CommitFails(c) ==
  /\ cpc[c] = "commit"
  /\ inserting' = [inserting EXCEPT ![at[c]] = None]
  /\ CGoto(c, "rolledback")
  /\ UNCHANGED <<uploadVars, want, todo, at, intent, prompted, approval>>

CommandStep(c) ==
  \/ ParseLockCheck(c) \/ ParseSnapshot(c)
  \/ ListPeriods(c) \/ (\E p \in Periods : ScanLockCheck(c, p))
  \/ ScanSnapshot(c) \/ ScanExhausted(c)
  \/ RecheckLock(c) \/ RecheckSnapshot(c)
  \/ InsertApproval(c) \/ InsertConflicts(c)
  \/ CommitApproval(c) \/ CommitFails(c)

(* Mutant: the flushed rows of the dead sessions keep their unique keys.   *)
CrashLeavesRows ==
  /\ pc' = [u \in Uploads |-> IF pc[u] \in UploadRunning THEN "lost" ELSE pc[u]]
  /\ cpc' = [c \in Commands |-> IF cpc[c] \in CommandRunning THEN "lost" ELSE cpc[c]]
  /\ UNCHANGED <<row, docs, want, todo, at, intent, prompted, approval, inserting>>

(***************************************************************************)
(* The backend process dies: every running task is gone and what it had    *)
(* not committed is rolled back.  Nothing restarts them.                   *)
(***************************************************************************)
Crash ==
  /\ pc' = [u \in Uploads |-> IF pc[u] \in UploadRunning THEN "lost" ELSE pc[u]]
  /\ cpc' = [c \in Commands |-> IF cpc[c] \in CommandRunning THEN "lost" ELSE cpc[c]]
  /\ inserting' = [p \in Periods |-> None]
  /\ UNCHANGED <<row, docs, want, todo, at, intent, prompted, approval>>

Next ==
  \/ \E u \in Uploads :
        \/ \E f \in Files : Receive(u, f)
        \/ \E c \in Clients : Assign(u, c)
        \/ UploadStep(u)
  \/ \E c \in Commands :
        \/ \E p \in Periods : ApproveText(c, p)
        \/ \E h \in prompted : ConfirmText(c, h)
        \/ CommandStep(c)
  \/ Crash

Spec == Init /\ [][Next]_vars

(* A started task runs on: asyncio schedules every ready task, and the     *)
(* network calls it awaits carry timeouts.  Messages need not arrive.      *)
Fairness ==
  /\ \A u \in Uploads : WF_vars(UploadStep(u))
  /\ \A c \in Commands : WF_vars(CommandStep(c))

FairSpec == Spec /\ Fairness
-----------------------------------------------------------------------------
(***************************************************************************)
(* Correctness.                                                            *)
(***************************************************************************)

(* Whatever is locked is what the CA saw: the frozen snapshot of a period  *)
(* was in a prompt for that very period, and all its documents are stored  *)
(* there.  finalize_approval's second derivation is what this rests on.    *)
LockedContentWasShown ==
  \A p \in Periods : approval[p] # None =>
     /\ <<p, approval[p]>> \in prompted
     /\ approval[p] \subseteq DocsOf(p)

(* A refusal sent to the CA is true when it is sent and stays true: a      *)
(* refused document's period, or a refused command's period, is locked; a  *)
(* drifted filing has other documents than the prompt listed; and "no      *)
(* matching pending filing" for a prompt that listed documents means that  *)
(* the period has been locked or has changed since.  Several tasks and the *)
(* order in which they read and commit are needed to make it false.        *)
RefusalsAreTrue ==
  /\ \A u \in Uploads : pc[u] = "refused" => IsPeriodLocked(row[u].period)
  /\ \A c \in Commands :
       /\ cpc[c] = "refused" => IsPeriodLocked(at[c])
       /\ cpc[c] = "drifted" => Snapshot(want[c][1]) # want[c]
       /\ cpc[c] = "nomatch" /\ want[c][2] # {} =>
            IsPeriodLocked(want[c][1]) \/ Snapshot(want[c][1]) # want[c]

(* A document the tax engine refused because its period was locked is      *)
(* never stored: the pipeline's own lock check comes later, and a lock     *)
(* that was there for the first read is there for the second.              *)
NoRowWithoutVerdictFromLock == \A d \in docs : row[d].verdict = "done"

(* The unique key at work: between two sessions only one ever holds the    *)
(* uncommitted row of a period, and never while the period is locked.      *)
OneApprovalInFlight ==
  /\ \A p \in Periods : inserting[p] # None => approval[p] = None
  /\ \A c, d \in Commands :
       cpc[c] = "commit" /\ cpc[d] = "commit" /\ at[c] = at[d] => c = d

(* An approval is irreversible: its row never changes, across crashes and  *)
(* concurrent confirmations of the same or of another prompt.              *)
ApprovalIsForever ==
  [][\A p \in Periods : approval[p] # None => approval'[p] = approval[p]]_vars

(* A locked period takes a document only from a task that had passed its   *)
(* lock check before, and no task passes it any more: once those that had  *)
(* passed it have ended, the content is frozen.                            *)
PastLockCheck(p) ==
  {u \in Uploads : pc[u] \in {"content", "persist"} /\ row[u].period = p}

LockedPeriodDrains ==
  [][\A p \in Periods :
       approval[p] # None =>
         /\ DocsOf(p)' \subseteq DocsOf(p) \cup PastLockCheck(p)
         /\ PastLockCheck(p)' \subseteq PastLockCheck(p)]_vars

(* A second row of an invoice comes only from a task that had looked for a *)
(* first one before there was one, and no task passes that look any more:  *)
(* without overlap there is no duplicate.                                  *)
PastContentCheck(c, k) ==
  {u \in Uploads : pc[u] = "persist" /\ row[u].client = c /\ row[u].key = k}

DuplicatesNeedOverlap ==
  [][\A c \in Clients, k \in Invoices :
       SameInvoice(c, k) # {} =>
         /\ SameInvoice(c, k)' \subseteq SameInvoice(c, k) \cup PastContentCheck(c, k)
         /\ PastContentCheck(c, k)' \subseteq PastContentCheck(c, k)]_vars

(* Every command comes to an end, also a confirmation that waits for       *)
(* another session's uncommitted approval.                                 *)
CommandsEnd ==
  \A c \in Commands : cpc[c] \in CommandRunning ~> cpc[c] \in CommandSettled

(***************************************************************************)
(* What comments of the code claim and the code does not do.               *)
(***************************************************************************)

(* "no documents flow into a locked period" (filing_approval.py:322-323).  *)
NoDocumentEntersLockedPeriod ==
  [][\A p \in Periods : approval[p] # None => DocsOf(p)' = DocsOf(p)]_vars

(* "so the ledger and filing snapshot don't accumulate three rows for the  *)
(* same real-world invoice" (pipeline.py:526-530).                         *)
OneRowPerInvoice ==
  \A c \in Clients, k \in Invoices : Cardinality(SameInvoice(c, k)) <= 1

(* The protocol as the CA sees it: PeriodLock under this mapping.          *)
PL == INSTANCE PeriodLock
        WITH Docs <- Uploads, Periods <- Periods, Open <- None,
             filed <- [p \in Periods |-> DocsOf(p)],
             shown <- prompted,
             lock <- approval

ImplementsPeriodLock == PL!Spec
=============================================================================
