---------------------------- MODULE Conversation ----------------------------
(***************************************************************************)
(* The memory of one chat (db/queries/conversations.py) and the tasks that *)
(* use it: _handle_supervisor (api/routes/worker.py), one per message, and *)
(* the document pipelines, which only append.                              *)
(*                                                                         *)
(* A turn's created_at is NOW(), in PostgreSQL the time its transaction    *)
(* began: "stamp" numbers the transactions in the order they began. Turns  *)
(* of one transaction carry one stamp, and the database may sort them      *)
(* either way. The text of a summary stands for the turns it was made of.  *)
(***************************************************************************)
EXTENDS Naturals, FiniteSets

CONSTANTS Messages,   \* free-form messages that reach the supervisor
          Notes,      \* summaries and banners the document pipelines append
          Heavy,      \* messages whose turns alone exceed COMPACT_TRIGGER_TOKENS
          Trigger,    \* COMPACT_TRIGGER_TURNS
          Window,     \* COMPACT_WINDOW_TURNS
          Recent,     \* RECENT_WINDOW_TURNS
          Nil,
          MaxLapses   \* bound: failed LLM calls, crashes and long silences

ASSUME ConversationBounds ==
  /\ Trigger \in Nat /\ Recent \in Nat /\ MaxLapses \in Nat
  /\ Window \in Nat /\ Window > Trigger
  /\ Heavy \subseteq Messages /\ Messages \cap Notes = {}
  /\ Nil \notin Messages \cup Notes

VARIABLES
  turns,   \* the committed rows
  now,     \* stamps given so far
  talk,    \* talk[m]: the task of message m
  quiet,   \* the last turn is more than SESSION_IDLE_HOURS old
  raced,   \* history: a turn was summarised by two compactions at once
  lapses

conversationVars == <<turns, now, talk, quiet, raced, lapses>>

(* A turn, and the turns its text stands for: itself, but for a summary.   *)
Ids == (Messages \X {"user", "assistant", "system"}) \cup (Notes \X {"assistant"})
Turn == [id : Ids, stamp : Nat, says : SUBSET Ids, into : Ids \cup {Nil}]

ASSUME NilIsNoTurn == Nil \notin Ids

NewTurn(i, s) == [id |-> i, stamp |-> s, says |-> {i}, into |-> Nil]

Talk == [at : {"new", "begun", "recalled", "thinking", "summarising", "done", "failed"},
         stamp : Nat, sees : SUBSET Ids, oldest : SUBSET Turn]

TalkAt(at, stamp) == [at |-> at, stamp |-> stamp, sees |-> {}, oldest |-> {}]

ConversationTypeOK ==
  /\ turns \subseteq Turn /\ now \in Nat
  /\ talk \in [Messages -> Talk]
  /\ quiet \in BOOLEAN /\ raced \in BOOLEAN /\ lapses \in 0..MaxLapses

ConversationInit ==
  /\ turns = {} /\ now = 0 /\ quiet = FALSE /\ raced = FALSE /\ lapses = 0
  /\ talk = [m \in Messages |-> TalkAt("new", 0)]

Live(T) == {t \in T : t.into = Nil}

(* ORDER BY created_at DESC LIMIT n, and its last k: what they may return. *)
Smaller(a, b) == IF a < b THEN a ELSE b

Newest(T, n) == {W \in SUBSET T : /\ Cardinality(W) = Smaller(n, Cardinality(T))
                                  /\ \A x \in W, y \in T \ W : x.stamp >= y.stamp}

Oldest(T, n) == {W \in SUBSET T : /\ Cardinality(W) = n
                                  /\ \A x \in W, y \in T \ W : x.stamp <= y.stamp}

Lapse == lapses < MaxLapses /\ lapses' = lapses + 1

(* The task's session begins its first transaction with the firm lookup.   *)
Begin(m) ==
  /\ talk[m].at = "new"
  /\ now' = now + 1
  /\ talk' = [talk EXCEPT ![m] = TalkAt("begun", now')]
  /\ UNCHANGED <<turns, quiet, raced, lapses>>

(* list_recent_live: nothing after a long silence.                         *)
Recall(m) ==
  /\ talk[m].at = "begun"
  /\ \E W \in Newest(Live(turns), Recent) :
       talk' = [talk EXCEPT ![m] = [TalkAt("recalled", @.stamp) EXCEPT
                                      !.sees = IF quiet THEN {} ELSE {t.id : t \in W}]]
  /\ UNCHANGED <<turns, now, quiet, raced, lapses>>

(* The user's turn is appended and committed before the LLM is asked.      *)
LogUser(m) ==
  /\ talk[m].at = "recalled"
  /\ turns' = turns \cup {NewTurn(<<m, "user">>, talk[m].stamp)}
  /\ quiet' = FALSE
  /\ talk' = [talk EXCEPT ![m] = TalkAt("thinking", 0)]
  /\ UNCHANGED <<now, raced, lapses>>

(* A tool of the supervisor queries the database, and so begins the second *)
(* transaction.                                                            *)
ToolQuery(m) ==
  /\ talk[m].at = "thinking" /\ talk[m].stamp = 0
  /\ now' = now + 1
  /\ talk' = [talk EXCEPT ![m] = TalkAt("thinking", now')]
  /\ UNCHANGED <<turns, quiet, raced, lapses>>

AnswerIn(m, s) == NewTurn(<<m, "assistant">>, s)

(* The answer is appended, uncommitted, and maybe_compact reads the live   *)
(* window with it in it: few and short turns and the answer is committed,  *)
(* otherwise the older half goes to the summariser.                        *)
AppendAnswer(m) ==
  /\ talk[m].at = "thinking"
  /\ LET s == IF talk[m].stamp = 0 THEN now + 1 ELSE talk[m].stamp
         answer == AnswerIn(m, s)
     IN  /\ now' = IF talk[m].stamp = 0 THEN now + 1 ELSE now
         /\ \E W \in Newest(Live(turns) \cup {answer}, Window) :
              IF Cardinality(W) <= Trigger /\ \A t \in W : t.id[1] \notin Heavy
              THEN /\ turns' = turns \cup {answer} /\ quiet' = FALSE
                   /\ talk' = [talk EXCEPT ![m] = TalkAt("done", 0)]
              ELSE /\ \E O \in Oldest(W, IF Cardinality(W) < 2 THEN 1 ELSE Cardinality(W) \div 2) :
                        talk' = [talk EXCEPT ![m] = [TalkAt("summarising", s) EXCEPT !.oldest = O]]
                   /\ UNCHANGED <<turns, quiet>>
  /\ UNCHANGED <<raced, lapses>>

(* NoEndpointConfigured or LLMError: an apology; the user's turn stays.    *)
AnswerFails(m) ==
  /\ talk[m].at = "thinking" /\ Lapse
  /\ talk' = [talk EXCEPT ![m] = TalkAt("failed", 0)]
  /\ UNCHANGED <<turns, now, quiet, raced>>

(* The summary of the rows the summariser was given.                       *)
Summary(m) == [id |-> <<m, "system">>, stamp |-> talk[m].stamp,
               says |-> UNION {t.says : t \in talk[m].oldest}, into |-> Nil]

With(m) == turns \cup {AnswerIn(m, talk[m].stamp)}

TombstoneWindow(m) ==
  /\ talk[m].at = "summarising"
  /\ turns' = {[t EXCEPT !.into = Summary(m).id] : t \in With(m)} \cup {Summary(m)}
  /\ talk' = [talk EXCEPT ![m] = TalkAt("done", 0)]
  /\ quiet' = FALSE
  /\ UNCHANGED <<now, raced, lapses>>

InsertSummaryOnly(m) ==
  /\ talk[m].at = "summarising"
  /\ turns' = With(m) \cup {Summary(m)}
  /\ talk' = [talk EXCEPT ![m] = TalkAt("done", 0)]
  /\ quiet' = FALSE
  /\ UNCHANGED <<now, raced, lapses>>

(* The summary row is inserted, the rows it was made of are marked with    *)
(* it, whoever else marked them meanwhile, and all is committed.           *)
Compact(m) ==
  LET ids == {t.id : t \in talk[m].oldest}
  IN  /\ talk[m].at = "summarising"
      /\ turns' = {IF t.id \in ids THEN [t EXCEPT !.into = Summary(m).id] ELSE t : t \in With(m)}
                    \cup {Summary(m)}
      /\ raced' = (raced \/ \E t \in turns : t.id \in ids /\ t.into # Nil)
      /\ talk' = [talk EXCEPT ![m] = TalkAt("done", 0)]
      /\ quiet' = FALSE
      /\ UNCHANGED <<now, lapses>>

(* A summariser outage is swallowed: the answer is committed alone.        *)
SummaryFails(m) ==
  /\ talk[m].at = "summarising" /\ Lapse
  /\ turns' = With(m) /\ quiet' = FALSE
  /\ talk' = [talk EXCEPT ![m] = TalkAt("done", 0)]
  /\ UNCHANGED <<now, raced>>

(* A document pipeline appends its summary; nothing is compacted.          *)
Note(n) ==
  /\ \A t \in turns : t.id # <<n, "assistant">>
  /\ now' = now + 1
  /\ turns' = turns \cup {NewTurn(<<n, "assistant">>, now')} /\ quiet' = FALSE
  /\ UNCHANGED <<talk, raced, lapses>>

(* Four hours in which nobody writes.                                      *)
Silence ==
  /\ Lapse /\ ~quiet /\ turns # {}
  /\ \A m \in Messages : talk[m].at \in {"new", "done", "failed"}
  /\ quiet' = TRUE
  /\ UNCHANGED <<turns, now, talk, raced>>

(* The backend stops; what is not committed is rolled back.                *)
ConversationStops ==
  /\ Lapse
  /\ talk' = [m \in Messages |-> IF talk[m].at \in {"new", "done"} THEN talk[m]
                                 ELSE TalkAt("failed", 0)]
  /\ UNCHANGED <<turns, now, quiet, raced>>

ConversationNext ==
  \/ \E m \in Messages : \/ Begin(m) \/ Recall(m) \/ LogUser(m) \/ ToolQuery(m)
                         \/ AppendAnswer(m) \/ AnswerFails(m) \/ Compact(m) \/ SummaryFails(m)
  \/ \E n \in Notes : Note(n)
  \/ Silence \/ ConversationStops

ConversationSpec == ConversationInit /\ [][ConversationNext]_conversationVars
-----------------------------------------------------------------------------
(* Nothing that was said is forgotten: every turn ever committed is live,  *)
(* or the text of a live summary stands for it, whatever compactions ran   *)
(* side by side, failed or were cut short (ConversationQuery.maybe_compact *)
(* and _tombstone).                                                        *)
NothingForgotten ==
  \A t \in turns : \A i \in t.says : \E l \in Live(turns) : i \in l.says

(* A turn is told once: two live turns stand for the same one only after   *)
(* two compactions took the same rows to the summariser at the same time.  *)
ToldOnceUnlessRaced ==
  raced \/ \A x, y \in Live(turns) : x # y => x.says \cap y.says = {}
=============================================================================
