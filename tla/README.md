# Enma Labs in TLA+

Enma Labs is an assistant for Indian chartered accountants (CAs) on Telegram.
A Node.js gateway (`enma-gateway/src`) polls Telegram and posts signed envelopes
to a FastAPI backend (`enma-backend/app`), which extracts invoices with language
models, files them in a per-firm document ledger, and locks monthly filing
periods on the CA's explicit approval. This directory models the parts of the
system where order, concurrency and failure decide what is correct, checks them
with TLC on small instances, and proves most of what is checked with TLAPS for
instances of every size.

## 1. Inventory

| Component | State it keeps | Operations | Talks to |
|---|---|---|---|
| Telegram intake (`polling/`, `routing/`, `buffering/`) | offset, LRU of update ids, album buffers, all in memory | poll, dedup, route, flush an album, stop | Telegram; dispatch |
| Dispatch (`dispatch/backend_client.js`) | semaphore count and queue | acquire, fetch with a 5 s abort, release | worker and cron routes over HTTP |
| Cron scheduler (`cron/cron_scheduler.js`) | none | fire a kind at its minute | dispatch |
| Worker routes (`api/routes/worker.py`, `api/middleware/`) | `idempotency_log`; background tasks in memory | verify, dedup, spawn, acknowledge | pipelines |
| Document ledger and filing approval (`agents/pipeline.py`, `agents/filing_approval.py`, `db/queries/{documents,filings}.py`) | `documents`, `filing_approvals` | receive, dedup, extract, route, judge, check lock, store; approve, confirm | resolver, tax engine |
| Pending assignments (`db/queries/pending_assignments.py`) | `pending_assignments` (24 h) | park, prompt, resolve, resume | ledger |
| Identity resolver (`identity/resolver.py`) | none of its own | a cascade from GSTIN to "ask the CA" | clients, conversation, pending |
| Tax engine (`agents/tax_engine.py`, `tax/`) | none | ITC, RCM, TDS, blocked credits, firm directives | rules, locked periods |
| Reconciler, verifier, GSTIN validator | none | recompute and cross-check an extraction | pipeline |
| Conversation memory (`db/queries/conversations.py`) | `conversations` | append, list live, compact, tombstone | supervisor |
| Onboarding (`agents/onboarding.py`, `db/queries/firms.py`) | `ca_firms`, `firm_users` | link a chat, ask for names | worker |
| Supervisor (`agents/supervisor.py`) | through its tools, in one session per message | LLM loop over tools | everything |
| Cron routes (`api/routes/cron.py`) | `tasks.last_notified_at`, `client_notifications` | heartbeat, briefing, chase, cleanup | Telegram |
| Tally import and export | `brain_events`, `tally_export_runs` | parse, dedup, compose, audit | ledger |
| Outbound clients, cache, WhatsApp channel, configuration | connections and caches | calls with retries | third parties |

What is hard about it:

* Every Telegram message becomes an asyncio task with a database session of its
  own; sessions run READ COMMITTED, so two reads of one task may see different
  databases. Nothing serialises two tasks of one firm.
* The gateway and the backend keep their work in memory. Telegram's queue, the
  idempotency log and the tables are all that survives a restart.
* The idempotency row is committed before the work it stands for.
* Telegram messages cannot be rolled back, database marks about them can.
* A filing approval is irreversible, so it must be exactly what the CA saw.

What makes each component correct is stated in its module and summarised in
sections 2 and 3; what is left out is in section 6. `PROJECT.json` lists the
hazards at their lines.

## 2. Modules

| Module | Models | Role |
|---|---|---|
| `PeriodLock` | what filing approval promises | abstract specification |
| `FilingLedger` | upload tasks, approval commands, the two tables | core; implements `PeriodLock` |
| `Delivery` | Telegram, gateway, network, idempotency log, routes | the way of a message to its pipeline |
| `Cron` | scheduler, shared cron key, heartbeat, briefing, chase | scheduled work |
| `TaxEngine` | the verdict of one document and the rules that bend it | pure core of the pipeline |
| `Invoice` | one invoice from the photo to the two exports | extraction, reconciliation, verification, export |
| `Chat` | messages of a linked chat, waiting documents, commands, voice | who a waiting document goes to |
| `Onboarding` | `/start`, deep links, the two places a chat is looked up in | who a chat belongs to |
| `Conversation` | turns, windows, compaction | what the supervisor remembers |
| `Supervisor` | the LLM loop and its tools on one session | what a free-form message may change |
| `Router` | the cascade of the identity resolver | whose document it is |
| `TallyImport` | re-sent Tally exports, deduplicated vouchers | what is imported |
| `ChatParts` | `Chat`, `Onboarding`, `Conversation`, `Supervisor`, `Router`, `TallyImport` side by side | composition |
| `FilingLedgerProofs`, `DeliveryProofs`, `CronProofs`, `TaxEngineProofs`, `InvoiceProofs` | | TLAPS proofs about the module each is named after |
| `ConversationProofs` | | TLAPS proofs about `Conversation` and `Router`, which share the chat's turns, and about `Supervisor` |
| `ChatProofs` | | TLAPS proofs about `Chat`, `Onboarding`, `TallyImport` and the composition `ChatParts` |
| `SumTheorems` | | lemmas about sums over finite sets, for `TaxEngineProofs` and `InvoiceProofs` |
| `MCFilingLedger`, `MCDelivery`, `MCCron` | | instances for TLC |
| `MCTaxEngine` | `TaxEngine` and `Invoice` | instance for TLC; `part` says which of them runs |
| `MCChat` | `ChatParts` | instance for TLC; `part` says which of the parts runs |

The operators named `...Skipped`, `...Trusted`, `...OrDrop` and so on, each
under a comment that starts with "Mutant", are faulty variants of the operator
that follows them. No specification uses them; they serve to show that each
property notices a bug of the kind it is there for.

How the parts meet. `Delivery` ends where a background task starts; what the task
does is `FilingLedger` for a document, `Chat` for a text or a voice note, and
`TallyImport` for an XML file. `Chat` hands a text to `FilingLedger` (approvals), to
`Supervisor` and `Conversation` (whatever is not a command), or to `Onboarding`
(`/start`). `FilingLedger` takes the client a document belongs to from `Router`,
and parks it in `Chat` when `Router` knows none; the content of a document, an
arbitrary value there, is `Invoice` and `TaxEngine`. Where a module needs a little
of another it says so and cuts it down to the reads and commits that race with
its own: `Supervisor` has the period lock of `FilingLedger`, `Router` the turns of
`Conversation` that carry a client. `ChatParts` puts the parts of a chat side by side,
any of them taking a step between two of any other. They share no variable, so TLC
explores them one at a time and not as a product (`MCChat`); that each keeps, beside
the others, what was found of it alone is proved (`PartsImplementEach`).

### FilingLedger

An upload task and an approval command are each a program counter; one action is
the code between two database reads, or between a read and the commit that
relies on it. That is the grain at which READ COMMITTED sessions interleave.

| State | Code |
|---|---|
| `pc[u]`, `row[u]` | a task in `_run_document_pipeline`, and the `Document` it builds |
| `docs` | committed rows of `documents` |
| `cpc`, `want`, `todo`, `at`, `intent` | a task in `_handle_approval_parse` or `_handle_approval_confirm`, with its local variables |
| `prompted` | the hashes the CA can copy from the chat |
| `approval` | committed rows of `filing_approvals` |
| `inserting` | a flushed, uncommitted row, on which an INSERT of the same key blocks |

An upload runs `Receive`, `EarlyDedup`, `ExtractAndRoute` (or `ExtractFails`),
`Verdict`, `LockCheck`, `ContentCheck`, `Persist` (or `PersistFails`); a document
that nobody can be found for is `parked` until `Assign`. A command runs
`ParseLockCheck`, `ParseSnapshot`, or `ListPeriods`, `ScanLockCheck` and
`ScanSnapshot` for each period, then `RecheckLock`, `RecheckSnapshot`,
`InsertApproval`, `CommitApproval`. `Crash` ends the tasks under way and rolls
back what they had not committed.

The extraction is any reading; two different contents of a file, two natural
keys and two snapshots never have the same hash. The confirm message carries
8 hex digits of the snapshot hash, taken to be the hash itself.

### Delivery

`sent` and `confirmed` are Telegram's queue. The gateway's variables are those
of `poll()`, `DedupCache`, `MediaGroupBuffer` and `Semaphore`; `GatewayStops`
resets all of them. `net` is what has been posted and not read. `Accept` is the
idempotency dependency with its own commit, `Spawn` and `Acknowledge` are the
two halves of `_process_envelope`, `BackendDies` comes between any two of them.
Updates that a failure destroys are recorded in `dropped`, so that
`NothingVanishes` can say that nothing else is lost. Ids of updates rise, with gaps for
those that are not written; `Scenes` bounds which ones may be written together.

### Cron

A run is the background task of one cron envelope. It visits the firms in order
of creation (`VisitFirm`), sends one message at a time (`Send`, `SendFails`,
`Skip`), marks each (`Mark`), and commits once per firm (`LeaveFirm`).
`FirmFails` is a database error in a firm's session, or the victim PostgreSQL
chooses when two heartbeats wait for each other's row locks. `pings` and `saved`
are history. Tasks never leave the state `pending`: nothing in the backend calls
`TaskQuery.mark_complete` or `TaskQuery.update_status`.

### TaxEngine

The engine is a pure function with three loops, and each loop is an action that
repeats: `WalkLine` for the sub-engines (`compute_blocked`, `compute_rcm`,
`compute_itc` share only the blocked tax of the line at hand, so they walk
together), `Apply` for the rules in `_apply_directives`, `Aim` for the lines a rule
is about. `Start` is the lock check, the dispatch on the document type and the
retrieval of rules: any `TopK` of the eligible ones, sorted. `Withhold` is
`compute_tds`. Money is in paise and rounds as `quantize_money` does. An HSN code
is the class of codes the tables put it in. `claim`, `defer`, `block`, `rcm` and
`tds` are the totals of `_ApplyState`, `applied` is the audit trail.

### Invoice

A sheet is an extraction: lines with what the model read in each field, or
`Absent`. `ProcessFile`, `ClassifyFile` and `ExtractFile` are the stages of
`extract_only` with their failures; `ReconcileSheet` computes (`Reconcile`) and
writes the n-th line that was kept (`Place`, `Nth`) onto the n-th that was read
(`Patch`); `VerifySheet` is the verifier; `ExportLedger` and `ExportTally` recompute
from the stored sheet as the two exports do, the latter with a purchase entry for
each rate (`Purchases`) and a tax entry for each rate and bucket (`Taxes`). A
reconciled line keeps the number of the line it was computed from (`KeptLines`),
where the code has a list without the dropped ones: sums do not care, and `Nth` gives
the list back. Money is in paise and rates in thousandths of a percent, so that
halving and the two-decimal reading back are exact arithmetic; a quantity times its
price is in hundredths of a paisa, as it has up to four decimals. As in the code the tax
is taken on that product (`TaxOn`) and the taxable value is rounded to paise afterwards
(`ReconcileLine`), while the verifier starts from the rounded value. Of an odd sheet
`GstinIssues` skips the party that is no object and still checks the other.

### Chat

`rows` is `pending_assignments`, `task[t]` the background task of message `t`: where
it is, and the document and client it carries. `Classify` is the order of precedence
of `_run_command_pipeline`, after `Transcribe` for a voice note. A reply goes through
`MatchReply`, the ranked search that chooses its client, and `ResolveReply`, which comes
an await later, when others may have added clients; an `/assign` goes through `ChooseRow`
and `AssignRow`. Both end in the conditional UPDATE `ResolveRow`, which one of any number
of competitors wins. `Command` is the commands that decide no document. `Reply`
is the acknowledgement that nothing guards, `Resume` the pipeline of the cached
extraction. `Expire` lets a day pass, `TasksDie` stops the backend.

### Onboarding

`admin` is `ca_firms.admin_chat_id`, `users` is `firm_users`. `ReadFirm` reads and
judges the firm, `FindUser` looks for the user row, `CommitLink` writes both, over
whatever another session has committed in between.

### Conversation

`turns` are the committed rows; a turn's text stands for a set of turns (`says`),
itself or those a summary was made of. `stamp` is the start of the transaction
that wrote it, since `created_at` is `NOW()`. `Begin`, `Recall`, `LogUser`, `ToolQuery`,
`AppendAnswer`, `Compact` are the steps of `_handle_supervisor` and `maybe_compact`
between two awaits; `AnswerFails` and `SummaryFails` are the two places a language
model can fail.

### Supervisor

`turn[s]` is a task in `run_supervisor`: the round, the calls still to be made in it,
and the rows it has flushed and not committed. `Ask` is one LLM call, which may
answer anything; it may be throttled and tried again (`Throttled`), lose its tools to a
rejected request (`DropTools`), or fail (`AskFails`). Each tool that writes or sends is an
action (`CreateTask`, `AddClient`, `UpdateClient`, `MarkDocument`, `AddFirmRule`,
`CorrectVerdict` with `Embed`, `BeginExport` with `Gather`, `Send`, `Audit`, and
`ExportClientLedger`), and so are those that only read (`GetFirmInfo`, `QueryDocumentByRef`,
`GetFilingSummary`, `ApproveFiling`, which only prompts, and `Look` for the lists). A call that
comes to nothing is `Refuse` (unknown tool, malformed arguments), `Misread` (an id or a
number that is none), `NoSuchClient` or `NoSuchDocument`; the LLM is told of an error in
the first three and reads plain text in the last. A commit
writes all that the session holds, a rollback takes all of it. `JudgePaper`,
`FilePaper`, `ReadPeriod` and `LockPeriod` are what the ledger does meanwhile.

### Router

`ResolveByPaper` is the cascade down to the session stage, `ResolveByRest` what comes
after it, as their queries are apart: `Finds` says which clients a stage finds, `Knows`
which stage of a list is the first to find one; `Emit` writes the log row, which the next
commit makes lasting. `mentions` are the turns that carry a client. `Recognise` is the early
check of the bytes, whose notice carries the client of a document of any age. `FileUpload`
files the document, refuses it (a locked period, a duplicate) or loses it (the insert
fails); `Summarise` leaves a turn with the client in each of these cases, or none if the
summary fails. `ImportBook` is the turn after a Tally import. `Hear` and `Answered` hand the
client of the last turn on. A turn has the stamp of its transaction's start, which may lie
before turns committed earlier.

### TallyImport

`Parse`, `RouteImport`, `Insert` (one `INSERT ... ON CONFLICT DO NOTHING`, which waits for
uncommitted rows of the same keys), `CommitImport`, `Report`; `ImportDies` anywhere.
A voucher is its dedup key, in which there is no client.

## 3. Runs

| Run | Question | Instance | Result |
|---|---|---|---|
| `ledger` | Is what is locked what was shown, are refusals true, is `PeriodLock` implemented? | 2 uploads, 3 commands, 2 periods, 1 readable invoice, crashes | holds |
| `ledger_liveness` | Does every approval command end? | 2 commands, fair | holds |
| `ledger_lock_race` | Do documents stay out of a locked period? | 2 uploads, 2 commands | violated |
| `ledger_duplicates` | Is there one row per invoice? | 2 uploads | violated |
| `delivery` | Is nothing processed twice, does nothing vanish, are slots used, does everything settle? | two photos of an album, a document, or two taps with one key; 1 slot, cache of 1, 2 faults, fair | holds |
| `cron` | Who may be pinged twice, who may be silenced, do firms stay isolated, does every run end? | 2 firms, 2 tasks, 1 client, 2 heartbeats, 1 fault, fair | holds |
| `cron_collision` | Are only repeated firings of the same job swallowed? | 1 firm | violated |
| `tax` | Is tax conserved, withheld unless forced, does the audit trail tell the truth; do the exports show what was reconciled, are the verifier's findings real? | documents of up to 2 lines, 5 rules, 2 consulted; invoices of up to 2 of 11 kinds of lines, 12 ways of printed totals | holds |
| `voucher_balance` | Does every Tally voucher balance? | the same invoices | violated |
| `export_rereads` | Do the exports find what the reconciliation found? | the same invoices | violated |
| `chat` | Is a document decided and filed once, is a link or a turn lost, are the supervisor's writes whole, has every routing a reason, do vouchers land once, does every message end? | see below | holds |
| `onboarding_steal` | Is a link never overwritten? | 2 firms, 2 chats, 3 taps | violated |

**What the properties of `chat` say.** `RoutedOnce`, `DecidedOnce`: whatever replies,
commands and voice notes race for a document, it is filed once, and given to one
client, while its row is open, by a message that has it in hand and for the client
this message had chosen. A message chooses a client only when its words name him alone (for
`/assign`: when he is all it finds)
of the clients there are at that moment; one who is added between the search
(`worker.py:685`) and the UPDATE (`worker.py:698`) is not considered, and the code does not
promise more. Which of several waiting documents a reply meant is not a question the
code can answer: it takes the newest open one.
`LossNeedsFault`: a document is lost only to a fault between the commit of its row and its
pipeline (the send in between is guarded by nothing). `LinkedChatsStayKnown`: a chat
that was told it is linked is found from then on, though another took its link.
`NothingForgotten`, `ToldOnceUnlessRaced`: every committed turn is live or told by a
live summary, and by two only after two compactions of the same rows.
`ToldTasksSurvive`, `BooksAreWhole`: what the LLM was told it had written is written
when the user reads the answer, but for the rollback of a GSTIN conflict; a
correction comes with its rule, an export with its audit row. `ExportsTheSnapshot`: an
export of a locked period is the approved snapshot, but for documents already on
their way in and those a tool has re-marked. `RoutesAreExplained`: a
client is of the firm the document was sent to, what is on file is in the resolution log,
and a client chosen by the session stage is one the chat had spoken of within the
look-back, or about whom somebody has been writing since (`Remembered`), and whom
another stage, the CA or a Tally export had named before (`Rooted`): the memory
never invents a client. He need not have a document on file, as refused, failed and
repeated uploads leave turns too.
`VouchersLandOnce`: a voucher has one row, and the counts the CA reads are true.

**Bounds.** Two uploads are enough for each race of the ledger, which is between
a reader and a writer; three commands let a prompt and two competing
confirmations coexist, and two periods let a confirmation pass over one of them.
In `Delivery`, `MaxFaults = 2` allows each pair of a gateway stop, a backend death, a
failed poll and a repeated answer; the three `Scenes` are two photos of one album, the
second of which may come after the flush and open a second group, a document alone,
and two taps on the buttons of one message, the only updates that share a key; with one
slot the second envelope has to queue; with a cache of one every second id is
evicted. In `Cron`, `Horizon = 2` gives
two heartbeats, which may overlap; `Cooldown = 0` is the quiet time in units of a
firing, so that the second heartbeat falls into it or not depending on when the
first marked; `ChaseCap = 1` is reached by one client. In `TaxEngine`, two lines let a
rule aim at some and not at others, and two consulted rules (`TopK`, 3 in the code)
can oppose each other while the cut leaves others out; `Threshold` is scaled down so
that two lines reach it exactly; the dates fall on both sides of the time-bar. In
`Invoice`, two lines let one be dropped before one that is kept; the kinds of lines
are listed in `MCTaxEngine`, with the roundings that meet there, fractional products
and a rate beyond 200 % among them, and the printed totals lie within and beyond the tolerance of a rupee. In `Chat`, two documents make
"the newest open one" a choice, and of three messages one is a voice note that
reads as a reply, one an `/assign` with two hits or one, depending on the client the
third adds. In `Onboarding`, one link is tapped by two chats, one of which has another
firm. In `Conversation`, two supervisor tasks and two notes exceed `Trigger = 2` while
a compaction is out, so that two of them may overlap; `Window` is one more. In
`Supervisor`, one task has the tools that share flushed rows and roll back, with every
tool that reads and two calls in a round (`Batch`), the other those that race with the
lock, one at a time; `Retries = 1` lets a throttled call succeed or fail the second time. In `Router`, two firms share a GSTIN, the name
and caption matches are too close to call, one file is sent twice and less is read of it
the second time, a Tally export and a message leave turns beside the uploads', and time
moves past the look-back. In
`TallyImport`, three files overlap in a voucher, one repeats a voucher within itself
and one is malformed. `MaxFaults`, `MaxLapses`, `MaxOutages` and `MaxBreaks` bound failures. Each
bound is a constant with that name; the proofs of section 5 need none of them.

**Deadlock** is not checked, since the system may rest: no message needs to
arrive. That tasks do not stop half way is what the liveness properties say.

**Fairness.** `FilingLedger`, `Cron` and `Chat` assume weak fairness of each running
task, since asyncio runs every ready task and every awaited call has a timeout.
`Delivery` assumes it of the polling loop, of each album's timer, of the fetches
(which abort after 5 s) and of the backend's handlers. Arrival of messages,
replies of users, the passing of a day and failures are never fair. The steps of
`Reject` and `Lose` need not happen.

## 4. Where documentation and code disagree

* `ledger_lock_race`: an upload that has passed its lock check stores its document
  after the lock (`filing_approval.py:322-323` says none does).
  `LockedPeriodDrains` gives the exact bound: only tasks that had passed the
  check can, and once they have ended the period is frozen.
* `ledger_duplicates`: two overlapping uploads of one invoice are both stored
  (`pipeline.py:526-530`). `DuplicatesNeedOverlap` says that overlap is the only way.
* `cron_collision`: the cron key is not `(kind, minute)` as ADR-007 decides, but
  `(0, minute)`. At 03:30 the heartbeat and the briefing (on the 28th also the
  chase) compete for it, and the losers are answered as duplicates.
* `onboarding_steal`: the firm is read before the link is written, without a lock, and
  of two chats that open a link at once the second takes the firm
  (`onboarding.py:140`, `firms.py:135-137`). `LinkedChatsStayKnown` says what the first
  one keeps.
* `voucher_balance`: a printed taxable value within a rupee of the lines wins for the
  totals, the purchases are booked by line, and "Rounded Off" absorbs something else
  (`tally.py:276-278`). `BooksShowTheInvoice` bounds the difference.
* `export_rereads`: after a dropped line the figures are written a line too early, and
  both exports recompute from what was written (`pipeline.py:284-287`).

Seen while reading, and not the subject of a run:

* Gateway. `cron_idempotency_cleanup` has no entry in `ROUTE_BY_KIND`
  (`backend_client.js:34-44`), so that the daily prune is never dispatched; the schedules
  say 09:00 IST and fire at 03:30 IST (`cron_scheduler.js:43-48`).
* Cron. ADR-007, Decision 4, describes a conditional UPDATE that lets one of two
  concurrent heartbeats win, while `mark_notified` is unconditional and comes after the
  message.
* Worker. "The ACK is re-attempted" (`worker.py:1503-1504`) by nobody; albums are
  acknowledged as being processed (`worker.py:1335`) but handed to a stub that only
  logs (`worker.py:903`); an empty period is prompted for and can never be confirmed
  (`worker.py:1117-1122`, `1139-1141`).
* WhatsApp. The webhook spawns the command pipeline without asking the idempotency
  log (`whatsapp.py:225`), so a repeated request is carried out again.
* Telegram client. The doubling that `_with_retry` announces (`telegram.py:166-170`) is
  overwritten at the next attempt (`telegram.py:177`); every wait is `Retry-After` or one
  second, and jitter.
* Tax. Rules are sorted "best first", "so newer rules win" (`rules.py:206-208`), and
  applied in that order, so that the worst of opposed rules has the last word
  (`tax_engine.py:262`); GST-TDS is withheld at the threshold already (`tds.py:55`)
  though "exceeds" is said (`tds.py:8`); the deferral to another period
  (`itc.py:130-138`) is out of the pipeline's reach, since a locked period is refused
  first; a forced block of a line that is blocked already takes the claim of other
  lines (`tax_engine.py:298`); one line in the scope of a `disable_rcm` is enough to clear
  the reverse charge of all lines (`tax_engine.py:341-346`), which `AuditTrailIsTrue` says
  of that directive alone.
* Figures. The half of 0.25% is stored as 0.125 and read back as 0.13, and the verifier
  reports a mismatch of the reconciler's own figures; numbers that JSON delivers as
  floats count as missing, as `parse_money` refuses them (`decimal_utils.py:60-62`); the sum of
  two half rates is taken if either is positive (`reconciler.py:280-281`), so that it may be
  negative, and what is then stored is read back as no rate at all; the tax is taken before the
  taxable value is rounded to paise (`reconciler.py:304`, `318-333`), so that beyond a rate of
  200 % a product that is no whole number of paise gives a mismatch of the reconciler's own
  figures (1.5 × 10.01 at 500 %: 75.08 against 75.10), which `FindingsAreReal` leaves out
  (`Tolerable`).
* Exports. Tally gets a Purchase voucher also where the client is the vendor
  (`tally.py:204`), which the ledger export calls a SALE (`export.py:163`); one stored
  vendor that is no object makes both exports of its period raise
  (`supervisor.py:1013`).

## 5. Proofs

Each theorem is proved for every choice of the constants under the named
assumptions of its module, which say that the parameters are functions of the
right types, that bounds are naturals, and that `None` and its like are none of the
values they are told apart from. Of the 40 properties of the passing runs, the
theorems below state 36, every invariant and the refinement of `PeriodLock` among them.

| Module | Theorem | States |
|---|---|---|
| `FilingLedgerProofs` | `Invariance` | `[]Inv`, the inductive invariant |
| | `TypeCorrect` | `[]TypeOK` |
| | `LockedContent` | `[]LockedContentWasShown` |
| | `TrueRefusals` | `[]RefusalsAreTrue` |
| | `StoredIsJudged` | `[]NoRowWithoutVerdictFromLock` |
| | `OneHolder` | `[]OneApprovalInFlight` |
| | `Irreversible` | `ApprovalIsForever` |
| | `LockDrains` | `LockedPeriodDrains` |
| | `NoDuplicateAlone` | `DuplicatesNeedOverlap` |
| | `Refinement` | `ImplementsPeriodLock` |
| `DeliveryProofs` | `DeliveryTyping` | `[]TypeOK` |
| | `DeliveredOnce` | `[]AtMostOnce` |
| | `SlotsAccounted` | `[]SlotsAreUsed` |
| | `DeliveryLosesNothing` | `[]NothingVanishes` |
| `CronProofs` | `CronTyping` | `[]TypeOK` |
| | `QuietIsKept` | `[]CooldownUnlessUnsaved` |
| | `NobodyIsSilenced` | `[]SilenceIsEarned` |
| | `FailureIsLocal` | `[]FirmsAreIsolated` |
| `TaxEngineProofs` | `TaxTypes` | `[]TypeOK` |
| | `Conservation` | `[]TaxIsConserved` |
| | `WithheldStaysWithheld` | `[]WithheldUnlessForced` |
| | `AuditTrailHolds` | `AuditTrailIsTrue` |
| `InvoiceProofs` | `InvoiceInvariant` | `[]InvoiceInv`, what each stage holds |
| | `InvoiceTyping` | `[]InvoiceTypeOK` |
| | `BooksShowInvoices` | `[]BooksShowTheInvoice` |
| | `VerifierFindsWhatIsReal` | `[]FindingsAreReal` |
| `ChatProofs` | `ChatTyping` | `[]ChatTypeOK` |
| | `ChatRoutedOnce` | `[]RoutedOnce` |
| | `ChatLossNeedsFault` | `[]LossNeedsFault` |
| | `ChatDecidedOnce` | `DecidedOnce` |
| | `OnboardingTyping` | `[]OnboardingTypeOK` |
| | `LinkedChatsStayKnownAlways` | `[]LinkedChatsStayKnown` |
| | `ImportTyping` | `[]ImportTypeOK` |
| | `ImportLandsOnce` | `[]VouchersLandOnce` |
| | `PartsImplementEach` | the composition implements the six specifications |
| | `PartsTyping` | `[]TypesOK` |
| | `PartsKeepTheirPromises` | the ten other invariants of the parts, of the composition |
| `ConversationProofs` | `ConversationTyping` | `[]ConversationTypeOK` |
| | `ConversationForgetsNothing` | `[]NothingForgotten` |
| | `ConversationTellsOnce` | `[]ToldOnceUnlessRaced` |
| | `RouterTyping` | `[]RouterTypeOK` |
| | `EveryRouteIsExplained` | `[]RoutesAreExplained` |
| | `SupervisorTyping` | `[]SupervisorTypeOK` |
| | `ToldTasksAreSaved` | `[]ToldTasksSurvive` |
| | `BooksStayWhole` | `[]BooksAreWhole` |
| | `ExportsMatchTheLock` | `[]ExportsTheSnapshot` |

None of these state predicates is inductive alone. What is added to each:

* **`FilingLedgerProofs`.** `Inv` adds what each task knows from what it has read:
  `Committed` (stored documents belong to tasks that saved them), `UploadKnows` (a task
  past its lock check with a `locked` verdict does not exist, because a lock seen by the
  first read is seen by the second), `PromptsAreStored` (whatever was prompted is still
  stored, as documents are never deleted or moved), `CommandKnows` and `ScanKnows`
  (what a command holds was prompted, and what it has passed over in its scan was
  locked or different), and `KeyHolder` (who is about to commit holds the key). Two
  lemmas (`UploadEffect`, `CommandEffect`) say what an upload and a command may change at
  all, so that most conjuncts are settled once for all actions of the other side.
* **`DeliveryProofs`.** `Shape` says of what envelopes are built: one that is no album
  carries one update, and that decides its key. `OnceInv`: the log holds the key of
  every handler and of all that ran, and one handler per key got through. `SlotInv`:
  envelopes take slots in the order of their nonces, so an envelope never meets itself
  in the semaphore. For `NothingVanishes` the invariant is `Kept`: everything below the
  offset is safe (in a buffer, on its way, taken up, or destroyed by a recorded
  failure); with `GatewayInv` (a batch skips nothing that was sent, an update still to be
  written is not below the offset, the cache holds only what is) and `BackendInv` (a row of the log was taken up) the offset may move on.
* **`CronProofs`.** `Shape` adds what a run holds (`Holds`: rows of the firm it visits, each
  once on its way from the list over the message to the mark; `Outside`: nothing
  between two firms). `PingInv` relates marks, tables and history: a mark is no older than
  the messages of its run (`MarkTimes`), no two sessions hold the mark of one task
  (`Exclusive`, from the row locks), what is saved is in the tables (`SavedInv`), and what a
  heartbeat still has to send is overdue as far as it could know (`Overdue`). `IsoInv` has
  each firm ahead of a briefing, at hand, or behind it.
* **`TaxEngineProofs`.** What is left of a line and what is blocked of it make up its tax
  (`LineSplit`, which uses that a document type without ITC has all of its lines
  blocked), and a rule that applies only moves tax and never more than its source
  holds (`ApplySplit`). Withholding adds that no rule is marked before its turn
  (`Unmarked`), so that a forced claim, once marked, stays marked. For the audit trail,
  `target` is the sum of the taxes of those lines of the rule's scope that have been
  walked (`Aimed`), and the claim and the deferred amount stay at zero or above even with
  discounts on the document (`Available`), so that a shift moves no more than it aims at;
  a `disable_rcm`, which does (`ClearsRcm`), sets the reverse charge to zero and leaves
  the rest alone.
* **`InvoiceProofs`.** From the reconciliation on, `intake`, the stored sheet, the issues,
  the row and the voucher are functions of the extraction the model returned
  (`InvoiceInv`); what remains is arithmetic of those functions for any number of lines. A
  line that was written is reconciled to the same figures (`Rewritten`), and where the
  kept lines come first each gets its own (`InPlace`), so an export reads what intake
  found (`ReadAgain`). The voucher is a set of entries, so two that coincide would count
  once: entries of different ledgers are different, and rates whose halves are exact
  keep tax entries apart (`TaxesSum`); the entries of one rate after the other add up to
  those of all lines (`SlicesTaxable`, `SlicesTax`). The verifier's sums over the stored
  lines are the reconciler's (`SumsOfPatched`), whose totals differ from them by the
  preferred printed value alone (`TotalIssuesOfPatched`). A line's tax and the verifier's
  differ by what rounding its taxable value makes, at most half a paisa times the
  rate: this is why the theorem asks for whole paise or 200 % at most (`Tolerable`).
* **`SumTheorems`.** `SumFunctionOnSet` of the community modules is defined by a recursive
  function on the parts of a set that takes elements in an order `CHOOSE` fixes. That
  the function exists, and that the order does not matter, follows because a finite set
  of parts has a smallest member (`LeastSet`); this is an induction over finite sets
  whose predicate is a set (`SetInduction`), which the provers can instantiate.
* **`ChatProofs`.** A task past the commit of its row owns that row, and no other task
  does; its document is not in the ledger yet. A task that is about to change a row has
  a document and a client (`Holding`), and a client once chosen stays one, as none is ever
  removed; only `MatchReply` and `ChooseRow` give a task its client (`StepChooses`), only
  `ResolveReply` and `AssignRow` change a row (`StepDecides`). Of the link: the admin chat of
  a firm has a `firm_users` row, and rows stay.
  Of imports: one row per key, and the rows of an upload are those it counted. Of the
  composition: a step of one part is a step of that part and a stutter of the
  others (`StepOfAPart`), since the parts share no variable.
* **`ConversationProofs`.** What a summariser was given is still on file or is the answer
  to be committed with its summary; ids are unique. Of the cascade: a turn that
  carries a client names one of its firm whom somebody had named before
  (`MentionFits`); a message passes on only what was spoken of before it, and its turns
  are no later than its end unless it is still being answered (`WireFits`); an
  upload that has a client keeps him, with the reason he was chosen for (`FateFits`), and
  what is on file is logged (`FileFits`). These reasons last because no step takes back a
  turn, a document, a log row, or what a message has begun (`Onward`): a message that is
  answered later only moves its end forward.
  Of the supervisor: what was told is flushed or committed, and nothing is flushed once
  the turn is saved (`ToldIsKept`); a correction is flushed only while its rule is being
  embedded (`CorrectionsWait`); a file that is out and not audited is the one its task
  holds (`FilesAreAudited`). For the export: once the period is locked, what is filed is
  in the snapshot or straddling, and so is whatever is still to be filed (`LockKnows`), so
  each file that is gathered, held or sent stays the exportable part of the snapshot
  while papers are filed and marked (`ExportsKnow`).

Only model-checked: liveness under fairness (`CommandsEnd`, `EveryMessageSettles`,
`RunsEnd`, `MessagesEnd`), which is out of the prover's reach. `BooksShowInvoices` and
`VerifierFindsWhatIsReal` speak of exact invoices (`Exact`: a rate's half has two
decimals and is not negative), the latter of `Tolerable` ones, as the properties do; the run `export_rereads` and the
notes of section 4 show what becomes of the others.

## 6. Not modelled

* Signatures, schemas and rate limits (one nondeterministic refusal in `Delivery`).
* What language models, the transcriber and the embedding service answer (any
  answer, or a failure); their retries, which are bounded and change no state.
* The WhatsApp channel: signature checks and renderings around the command pipeline
  that `Chat` models.
* The signup inside Telegram (`OnboardingStage`): nothing in the program enters its
  first stage. Deactivation of clients and completion of tasks: nothing calls them.
* Whether a GSTIN is valid, the XML and CSV of the exports, formatting, prompts and
  tax tables: functions of strings without state.
* The Redis cache, whose every failure is a miss; configuration, logging, health
  checks; migrations and row level security.

Sharper models of two things would come next: the composition of `Router` with
`FilingLedger`, so that a routed client is the one a period is locked for, and that of
`Supervisor` with `Chat`, whose tasks share no session but do share the chat.
`PROJECT.json` gives the status and the reason per component.
