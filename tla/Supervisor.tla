----------------------------- MODULE Supervisor -----------------------------
(***************************************************************************)
(* The supervisor (agents/supervisor.py): a loop of LLM calls and tools,   *)
(* one per free-form message, all of whose tools share the database        *)
(* session of the message's task. A tool commits or not; a flushed row     *)
(* that nobody has committed is lost with the task or by a rollback.       *)
(*                                                                         *)
(* One client, one filing period. FilingLedger says how a document is      *)
(* filed and a period approved; here both are cut down to the reads and    *)
(* commits that race with the tools. What the LLM chooses is any choice    *)
(* among the tools it is given, any text, or a failure.                    *)
(***************************************************************************)
EXTENDS Naturals, FiniteSets

CONSTANTS Requests,  \* free-form messages
          Uses,      \* Uses[s]: the tools the LLM may call for s
          Papers,    \* documents of the period
          Gstins,    \* GSTINs clients may have
          Rounds,    \* MAX_TOOL_ITERATIONS
          Retries,   \* LLM_MAX_RETRIES
          MaxTools,  \* bound: tool calls in one LLM answer ...
          Batch,     \* ... and in one for s: the LLM is asked not to, but may
          Unlocked,  \* the period before its approval
          MaxOutages \* bound: failed LLM calls and sends, dead tasks

DeskTools == {"get_firm_info", "query_documents", "query_document_by_ref", "get_client_status",
              "list_tasks", "create_task", "get_filing_summary"}
BookTools == {"add_client", "update_client", "mark_document", "correct_verdict", "add_firm_rule"}
SendingTools == {"export_to_tally", "export_client_ledger", "approve_filing"}

Toolbox == DeskTools \cup BookTools \cup SendingTools

ASSUME SupervisorBounds ==
  /\ Uses \in [Requests -> SUBSET Toolbox]
  /\ Rounds \in Nat \ {0} /\ Retries \in Nat /\ MaxTools \in Nat \ {0} /\ MaxOutages \in Nat
  /\ Batch \in [Requests -> 1..MaxTools]

VARIABLES
  turn,      \* turn[s]: the task of s
  book,      \* committed rows, as pairs of request and kind
  gstins,    \* GSTINs of the firm's clients
  status,    \* status[d]: "absent", or the kind of its processing_status
  judged,    \* pipelines that have seen the period open and will file
  snap,      \* what the approval under way has read, or Unlocked
  frozen,    \* the approved snapshot, or Unlocked
  straddling,     \* history: papers on their way in while the approval was
  marked,    \* history: papers whose status a tool has changed
  delivered, \* Tally exports sent: request and papers
  audited,   \* their committed tally_export_runs rows
  outages

periodVars == <<status, judged, snap, frozen, straddling>>
exportVars == <<delivered, audited>>
supervisorVars == <<turn, book, gstins, periodVars, marked, exportVars, outages>>

Unasked == [at |-> "new", round |-> 0, tries |-> 0, forced |-> FALSE, left |-> 0,
            work |-> {}, told |-> {}, undone |-> FALSE, file |-> {}]

Stops == {"new", "answered", "apologised", "dead"}

SupervisorTypeOK ==
  /\ turn \in [Requests ->
       [at : Stops \cup {"asking", "running", "embedding", "gathering", "sending",
                         "auditing", "last", "rewriting", "saving", "replying"},
        round : 0..Rounds, tries : 0..Retries, forced : BOOLEAN, left : 0..MaxTools,
        work : SUBSET {"task", "correction"}, told : SUBSET {"task"},
        undone : BOOLEAN, file : SUBSET Papers]]
  /\ book \subseteq Requests \X {"task", "correction", "rule"}
  /\ gstins \subseteq Gstins
  /\ status \in [Papers -> {"absent", "exportable", "withheld"}]
  /\ judged \subseteq Papers /\ straddling \subseteq Papers /\ marked \subseteq Papers
  /\ {snap, frozen} \subseteq {Unlocked} \cup SUBSET Papers
  /\ delivered \subseteq [by : Requests, papers : SUBSET Papers]
  /\ audited \subseteq [by : Requests, papers : SUBSET Papers]
  /\ outages \in 0..MaxOutages

SupervisorInit ==
  /\ turn = [s \in Requests |-> Unasked]
  /\ book = {} /\ gstins = {}
  /\ status = [d \in Papers |-> "absent"]
  /\ judged = {} /\ snap = Unlocked /\ frozen = Unlocked /\ straddling = {} /\ marked = {}
  /\ delivered = {} /\ audited = {} /\ outages = 0

Outage == outages < MaxOutages /\ outages' = outages + 1

Filed == {d \in Papers : status[d] # "absent"}

Becomes(s, r) == turn' = [turn EXCEPT ![s] = r]
Moves(s, at) == turn' = [turn EXCEPT ![s].at = at]

(* The task ends in an exception or an apology: its session is closed, and *)
(* what it had not committed is gone.                                      *)
Abandoned(s, at) == Becomes(s, [turn[s] EXCEPT !.at = at, !.work = {}, !.file = {}])

(* session.commit() writes all that the session has flushed so far, of     *)
(* this tool and of those before it.                                       *)
Commit(s, rows) == book' = book \cup ({s} \X (turn[s].work \cup rows))

(* The task as it goes on after a tool: the next call of the round, the    *)
(* next round, or the last, text-only LLM call. An error makes the next    *)
(* round text-only too.                                                    *)
AfterTool(r, err) ==
  LET f == r.forced \/ err
  IN  CASE r.left > 1 -> [r EXCEPT !.at = "running", !.left = @ - 1, !.forced = f]
        [] r.left = 1 /\ r.round < Rounds ->
             [r EXCEPT !.at = "asking", !.left = 0, !.round = @ + 1, !.forced = f]
        [] OTHER -> [r EXCEPT !.at = "last", !.left = 0, !.forced = FALSE]

ToolDone(s, r, err) == Becomes(s, AfterTool(r, err))

(***************************************************************************)
(* The loop.                                                               *)
(***************************************************************************)
Start(s) ==
  /\ turn[s].at = "new"
  /\ Becomes(s, [Unasked EXCEPT !.at = "asking", !.round = 1])
  /\ UNCHANGED <<book, gstins, periodVars, marked, exportVars, outages>>

(* One LLM call that is answered: with tool calls, unless tool_choice is   *)
(* "none"; a text; or a text that is the JSON of a tool's result.          *)
Ask(s) ==
  /\ turn[s].at = "asking"
  /\ \/ /\ ~turn[s].forced
        /\ \E n \in 1..Batch[s] :
             Becomes(s, [turn[s] EXCEPT !.at = "running", !.left = n, !.tries = 0])
     \/ \E at \in {"saving", "rewriting"} :
             Becomes(s, [turn[s] EXCEPT !.at = at, !.forced = FALSE, !.tries = 0])
  /\ UNCHANGED <<book, gstins, periodVars, marked, exportVars, outages>>

(* call_chat: on a 429 or 503 the call is made again after a pause.        *)
Throttled(s) ==
  /\ turn[s].at = "asking" /\ turn[s].tries < Retries
  /\ Becomes(s, [turn[s] EXCEPT !.tries = @ + 1])
  /\ UNCHANGED <<book, gstins, periodVars, marked, exportVars, outages>>

(* An endpoint that takes only single tool calls refuses the request: it   *)
(* is made once more without the tools, and then not again.                *)
DropTools(s) ==
  /\ turn[s].at = "asking" /\ ~turn[s].forced
  /\ Becomes(s, [turn[s] EXCEPT !.forced = TRUE, !.tries = Retries])
  /\ UNCHANGED <<book, gstins, periodVars, marked, exportVars, outages>>

(* Any other status, a dead connection, an answer out of shape or a last   *)
(* 429 is an LLMError: the turn ends with an apology.                      *)
AskFails(s) ==
  /\ turn[s].at = "asking"
  /\ Outage
  /\ Abandoned(s, "apologised")
  /\ UNCHANGED <<book, gstins, periodVars, marked, exportVars>>

(* The rounds are used up: a text, whatever happens.                       *)
AskLast(s) ==
  /\ turn[s].at = "last"
  /\ \E at \in {"saving", "rewriting"} : Moves(s, at)
  /\ UNCHANGED <<book, gstins, periodVars, marked, exportVars, outages>>

(* JSON is never shown: it is rewritten by the LLM, or a canned text.      *)
Humanize(s) ==
  /\ turn[s].at = "rewriting"
  /\ Moves(s, "saving")
  /\ UNCHANGED <<book, gstins, periodVars, marked, exportVars, outages>>

SaveNothing(s) ==
  /\ turn[s].at = "saving"
  /\ Moves(s, "replying")
  /\ UNCHANGED <<book, gstins, periodVars, marked, exportVars, outages>>

(* _handle_supervisor appends the answer and commits; what the tools left  *)
(* is committed with it ...                                                *)
Save(s) ==
  /\ turn[s].at = "saving"
  /\ Commit(s, {})
  /\ Becomes(s, [turn[s] EXCEPT !.at = "replying", !.work = {}])
  /\ UNCHANGED <<gstins, periodVars, marked, exportVars, outages>>

(* ... and only then is the answer sent.                                   *)
Answer(s) ==
  /\ turn[s].at = "replying"
  /\ Moves(s, "answered")
  /\ UNCHANGED <<book, gstins, periodVars, marked, exportVars, outages>>

(* Anything but a ToolError and an LLMError ends the task: a database      *)
(* error, a refused send, a crash.                                         *)
Dies(s) ==
  /\ turn[s].at \notin Stops
  /\ Outage
  /\ Abandoned(s, "dead")
  /\ UNCHANGED <<book, gstins, periodVars, marked, exportVars>>

(***************************************************************************)
(* Tools.                                                                  *)
(***************************************************************************)
Calls(s, tool) == turn[s].at = "running" /\ tool \in Uses[s]

(* A tool that leaves the database alone.                                  *)
Tells(s, err) ==
  /\ ToolDone(s, turn[s], err)
  /\ UNCHANGED <<book, gstins, periodVars, marked, exportVars, outages>>

(* A call of an unknown name, or with arguments that are no JSON object or *)
(* lack what the tool requires.                                            *)
Refuse(s) == turn[s].at = "running" /\ Tells(s, TRUE)

(* An argument that should be a UUID or a number is none: ToolError.       *)
Misread(s) ==
  /\ \E tool \in Toolbox \ {"get_firm_info", "query_document_by_ref", "get_client_status",
                           "add_client", "mark_document", "correct_verdict"} : Calls(s, tool)
  /\ Tells(s, TRUE)

(* The client a writing or sending tool is to work on is not named, is not *)
(* there, or is not the only one of that name.                             *)
NoSuchClient(s) ==
  /\ \E tool \in {"update_client", "add_firm_rule", "export_to_tally", "export_client_ledger"} :
       Calls(s, tool)
  /\ Tells(s, TRUE)

(* A document that is not found, or not the only one, is no error.         *)
NoSuchDocument(s) ==
  /\ \E tool \in {"mark_document", "correct_verdict"} : Calls(s, tool)
  /\ Tells(s, FALSE)

(* The tools that only read. The firm's row is always there; a client or   *)
(* document that is not found, or not the only one, is not an error.       *)
GetFirmInfo(s) == Calls(s, "get_firm_info") /\ Tells(s, FALSE)
Look(s) ==
  /\ \E tool \in {"query_documents", "get_client_status", "list_tasks"} : Calls(s, tool)
  /\ Tells(s, FALSE)
QueryDocumentByRef(s) == Calls(s, "query_document_by_ref") /\ Tells(s, FALSE)
GetFilingSummary(s) == Calls(s, "get_filing_summary") /\ Tells(s, FALSE)

(* The prompt for an approval, or the news that the period is locked: only *)
(* the CA's own confirmation approves anything.                            *)
ApproveFiling(s) == Calls(s, "approve_filing") /\ Tells(s, FALSE)

(* The client ledger is sent whatever the state of its period, and is not  *)
(* audited. It may be empty, or Telegram may refuse it.                    *)
ExportClientLedger(s) ==
  /\ Calls(s, "export_client_ledger")
  /\ \/ ToolDone(s, turn[s], FALSE) /\ UNCHANGED outages
     \/ Outage /\ Abandoned(s, "dead")
  /\ UNCHANGED <<book, gstins, periodVars, marked, exportVars>>

(* The row is flushed, and its id told to the LLM.                         *)
CreateTask(s) ==
  /\ Calls(s, "create_task")
  /\ ToolDone(s, [turn[s] EXCEPT !.work = @ \cup {"task"}, !.told = @ \cup {"task"}], FALSE)
  /\ UNCHANGED <<book, gstins, periodVars, marked, exportVars, outages>>

(* A GSTIN the firm has already: the session is rolled back, with all it   *)
(* had flushed, and the LLM is told of the GSTIN only.                     *)
AddClient(s, g) ==
  /\ Calls(s, "add_client")
  /\ IF g \in gstins
     THEN /\ ToolDone(s, [turn[s] EXCEPT !.work = {}, !.undone = TRUE], TRUE)
          /\ UNCHANGED <<book, gstins>>
     ELSE /\ gstins' = gstins \cup {g}
          /\ Commit(s, {})
          /\ ToolDone(s, [turn[s] EXCEPT !.work = {}], FALSE)
  /\ UNCHANGED <<periodVars, marked, exportVars, outages>>

(* The same conflict in an update is nobody's ToolError.                   *)
UpdateClient(s, g) ==
  /\ Calls(s, "update_client")
  /\ IF g \in gstins
     THEN Abandoned(s, "dead") /\ UNCHANGED <<book, gstins>>
     ELSE /\ \E old \in SUBSET gstins : /\ Cardinality(old) <= 1
                                        /\ gstins' = (gstins \ old) \cup {g}
          /\ Commit(s, {})
          /\ ToolDone(s, [turn[s] EXCEPT !.work = {}], FALSE)
  /\ UNCHANGED <<periodVars, marked, exportVars, outages>>

(* Any status for any document; nobody asks whether its period is locked.  *)
MarkDocument(s, d) ==
  /\ Calls(s, "mark_document") /\ d \in Filed
  /\ \E v \in {"exportable", "withheld"} : status' = [status EXCEPT ![d] = v]
  /\ marked' = marked \cup {d}
  /\ Commit(s, {})
  /\ ToolDone(s, [turn[s] EXCEPT !.work = {}], FALSE)
  /\ UNCHANGED <<gstins, judged, snap, frozen, straddling, exportVars, outages>>

(* add_firm_rule has its text embedded before it writes; correct_verdict   *)
(* flushes its correction row first.                                       *)
AddFirmRule(s) ==
  /\ Calls(s, "add_firm_rule")
  /\ Moves(s, "embedding")
  /\ UNCHANGED <<book, gstins, periodVars, marked, exportVars, outages>>

CorrectVerdict(s) ==
  /\ Calls(s, "correct_verdict") /\ Filed # {}
  /\ Becomes(s, [turn[s] EXCEPT !.at = "embedding", !.work = @ \cup {"correction"}])
  /\ UNCHANGED <<book, gstins, periodVars, marked, exportVars, outages>>

EmbedCaught(s) ==
  /\ turn[s].at = "embedding"
  /\ \/ Commit(s, {"rule"}) /\ ToolDone(s, [turn[s] EXCEPT !.work = {}], FALSE)
     \/ ToolDone(s, turn[s], TRUE) /\ UNCHANGED book
  /\ UNCHANGED <<gstins, periodVars, marked, exportVars, outages>>

(* The rule is inserted and all is committed. (An embedding that fails is  *)
(* no ToolError: Dies.)                                                    *)
Embed(s) ==
  /\ turn[s].at = "embedding"
  /\ Commit(s, {"rule"})
  /\ ToolDone(s, [turn[s] EXCEPT !.work = {}], FALSE)
  /\ UNCHANGED <<gstins, periodVars, marked, exportVars, outages>>

BeginUnlockedExport(s) ==
  /\ Calls(s, "export_to_tally")
  /\ Moves(s, "gathering")
  /\ UNCHANGED <<book, gstins, periodVars, marked, exportVars, outages>>

(* export_to_tally: an open period is refused ...                          *)
BeginExport(s) ==
  /\ Calls(s, "export_to_tally")
  /\ IF frozen = Unlocked THEN ToolDone(s, turn[s], TRUE) ELSE Moves(s, "gathering")
  /\ UNCHANGED <<book, gstins, periodVars, marked, exportVars, outages>>

(* ... and of a locked one the documents are taken as they are now.        *)
Gather(s) ==
  /\ turn[s].at = "gathering"
  /\ LET file == {d \in Papers : status[d] = "exportable"}
     IN  IF file = {} THEN ToolDone(s, turn[s], FALSE)
         ELSE Becomes(s, [turn[s] EXCEPT !.at = "sending", !.file = file])
  /\ UNCHANGED <<book, gstins, periodVars, marked, exportVars, outages>>

(* The file goes out before its audit row is written. A send that fails    *)
(* may have been delivered.                                                *)
Send(s) ==
  /\ turn[s].at = "sending"
  /\ delivered' = delivered \cup {[by |-> s, papers |-> turn[s].file]}
  /\ \/ Moves(s, "auditing") /\ UNCHANGED outages
     \/ Outage /\ Abandoned(s, "dead")
  /\ UNCHANGED <<book, gstins, periodVars, marked, audited>>

Audit(s) ==
  /\ turn[s].at = "auditing"
  /\ audited' = audited \cup {[by |-> s, papers |-> turn[s].file]}
  /\ Commit(s, {})
  /\ ToolDone(s, [turn[s] EXCEPT !.work = {}, !.file = {}], FALSE)
  /\ UNCHANGED <<gstins, periodVars, marked, delivered, outages>>

(***************************************************************************)
(* The ledger, meanwhile.                                                  *)
(***************************************************************************)
(* A pipeline sees the period open, and files later.                       *)
JudgePaper(d) ==
  /\ status[d] = "absent" /\ frozen = Unlocked
  /\ judged' = judged \cup {d}
  /\ UNCHANGED <<turn, book, gstins, status, snap, frozen, straddling, marked, exportVars, outages>>

FilePaper(d) ==
  /\ d \in judged
  /\ judged' = judged \ {d}
  /\ \E v \in {"exportable", "withheld"} : status' = [status EXCEPT ![d] = v]
  /\ UNCHANGED <<turn, book, gstins, snap, frozen, straddling, marked, exportVars, outages>>

(* The confirmation reads the period, and then locks it on what it read.   *)
ReadPeriod ==
  /\ frozen = Unlocked
  /\ snap' = Filed
  /\ UNCHANGED <<turn, book, gstins, status, judged, frozen, straddling, marked, exportVars, outages>>

LockPeriod ==
  /\ frozen = Unlocked /\ snap # Unlocked
  /\ frozen' = snap
  /\ straddling' = judged \cup (Filed \ snap)
  /\ UNCHANGED <<turn, book, gstins, status, judged, snap, marked, exportVars, outages>>

SupervisorStep(s) ==
  \/ Start(s) \/ Ask(s) \/ Throttled(s) \/ DropTools(s) \/ AskFails(s) \/ AskLast(s)
  \/ Humanize(s) \/ Save(s) \/ Answer(s) \/ Dies(s)
  \/ Refuse(s) \/ Misread(s) \/ NoSuchClient(s) \/ NoSuchDocument(s)
  \/ ApproveFiling(s) \/ ExportClientLedger(s)
  \/ GetFirmInfo(s) \/ Look(s) \/ QueryDocumentByRef(s) \/ GetFilingSummary(s)
  \/ CreateTask(s) \/ AddFirmRule(s) \/ CorrectVerdict(s) \/ Embed(s)
  \/ BeginExport(s) \/ Gather(s) \/ Send(s) \/ Audit(s)
  \/ \E g \in Gstins : AddClient(s, g) \/ UpdateClient(s, g)
  \/ \E d \in Papers : MarkDocument(s, d)

SupervisorNext ==
  \/ \E s \in Requests : SupervisorStep(s)
  \/ \E d \in Papers : JudgePaper(d) \/ FilePaper(d)
  \/ ReadPeriod \/ LockPeriod

SupervisorSpec == SupervisorInit /\ [][SupervisorNext]_supervisorVars
-----------------------------------------------------------------------------
(* A task the LLM was told it had created is in the database when the user *)
(* reads the answer, unless a rollback of the same turn took it along: the *)
(* turn is committed before it is sent (worker.py: _handle_supervisor).    *)
ToldTasksSurvive ==
  \A s \in Requests :
    turn[s].at = "answered" /\ ~turn[s].undone => {s} \X turn[s].told \subseteq book

(* What belongs together is written together: a correction of a verdict    *)
(* with the rule that is to make the next one right, and every exported    *)
(* file has its audit row, unless the task died right after the send.      *)
BooksAreWhole ==
  /\ \A s \in Requests : <<s, "correction">> \in book => <<s, "rule">> \in book
  /\ \A e \in delivered : e \in audited \/ turn[e.by].at \in {"auditing", "dead"}

(* The Tally export of a period is made from the documents as they are,    *)
(* not from the approved snapshot. Still it is that snapshot's exportable  *)
(* part, but for documents a tool has marked and those that were on their  *)
(* way into the period when it was locked.                                 *)
ExportsTheSnapshot ==
  \A e \in delivered :
    /\ frozen # Unlocked
    /\ e.papers \ (straddling \cup marked) =
         {d \in frozen \ (straddling \cup marked) : status[d] = "exportable"}
=============================================================================
