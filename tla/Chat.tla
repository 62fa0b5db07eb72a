-------------------------------- MODULE Chat --------------------------------
(***************************************************************************)
(* What a linked chat can say, and the documents that wait for a client:   *)
(* the command pipeline of api/routes/worker.py (one background task per   *)
(* message, nothing orders the tasks of a chat), its slash commands        *)
(* (agents/commands.py), voice notes, and pending_assignments              *)
(* (db/queries/pending_assignments.py).                                    *)
(*                                                                         *)
(* FilingLedger says what finalising a document does and what the approval *)
(* texts do, Conversation what the supervisor does, Onboarding what /start *)
(* does; here those are ends. A name is what the searches make of it: its  *)
(* pg_trgm similarity to every client, and the clients ILIKE finds.        *)
(***************************************************************************)
EXTENDS Naturals, FiniteSets, Sequences

CONSTANTS Docs,        \* uploads the identity resolver cannot route
          Texts,       \* messages
          Clients,     \* clients the firm has or will have
          Registered,  \* those it has from the start
          Verb,        \* Verb[t]: what kind of text t is
          Spoken,      \* voice notes
          Sim,         \* Sim[t][c]: similarity to a client's name, in percent
          Found,       \* Found[t]: the clients whose name contains t's argument
          None,
          MaxFaults    \* bound: refused sends, refused pipelines and crashes

High == 85      \* BUYER_NAME_TRGM_HIGH_THRESHOLD
Medium == 55    \* BUYER_NAME_TRGM_THRESHOLD
Margin == 5

Slash == {"add_client", "list_clients", "status", "assign", "bug"}

ASSUME ChatMaps == /\ Verb \in [Texts -> Slash \cup {"plain", "empty", "unknown", "filing"}]
                   /\ Sim \in [Texts -> [Clients -> 0..100]]
                   /\ Found \in [Texts -> SUBSET Clients]
ASSUME ChatSubsets == Registered \subseteq Clients /\ Spoken \subseteq Texts
ASSUME ChatFaultBound == MaxFaults \in Nat

Row == [by : Texts \cup {None}, client : Clients \cup {None}]

ASSUME ChatNone == None \notin Docs \cup Texts \cup Clients \cup Row

VARIABLES
  rows,       \* rows[d]: the pending_assignments row of d, None before it is made
  filed,      \* the documents of those rows, oldest row first
  expired,    \* rows older than PENDING_ASSIGNMENT_TTL_SECONDS
  prompting,  \* documents whose prompt is still to be sent
  clients,    \* the firm's active clients
  task,       \* task[t]: the background task of message t
  finalised,  \* finalised[d]: how often d went through the ledger's pipeline
  spoilt,     \* history: documents a fault kept from the ledger
  chatFaults

rowVars == <<rows, filed, expired, prompting>>
chatVars == <<rowVars, clients, task, finalised, spoilt, chatFaults>>

Open == [by |-> None, client |-> None]

Idle == [at |-> "unsent", doc |-> None, client |-> None]

Places == {"unsent", "voice", "text", "matching", "matched", "assigning", "replying", "resuming",
           "answered", "filing", "supervisor", "dead"}

Task == [at : Places, doc : Docs \cup {None}, client : Clients \cup {None}]

Ended == {"answered", "filing", "supervisor", "dead"}

ChatTypeOK ==
  /\ rows \in [Docs -> Row \cup {None}]
  /\ filed \in Seq(Docs) /\ expired \subseteq Docs /\ prompting \subseteq Docs
  /\ clients \subseteq Clients
  /\ task \in [Texts -> Task]
  /\ finalised \in [Docs -> Nat] /\ spoilt \subseteq Docs /\ chatFaults \in 0..MaxFaults

ChatInit ==
  /\ rows = [d \in Docs |-> None] /\ filed = <<>> /\ expired = {} /\ prompting = {}
  /\ clients = Registered
  /\ task = [t \in Texts |-> Idle]
  /\ finalised = [d \in Docs |-> 0] /\ spoilt = {} /\ chatFaults = 0

ChatFault == chatFaults < MaxFaults /\ chatFaults' = chatFaults + 1

(* The row is unresolved and within its time to live.                      *)
IsOpen(d) == rows[d] # None /\ rows[d] = Open /\ d \notin expired

(* list_open_for_chat, newest first, of which both callers take the first. *)
NewestOpen == {filed[i] : i \in {j \in DOMAIN filed :
                 IsOpen(filed[j]) /\ \A k \in j+1..Len(filed) : ~IsOpen(filed[k])}}

(* How a task goes on, and how it ends: with a reply of its own, or as the *)
(* business of the filing approval or of the supervisor.                   *)
Continue(t, at, d, c) ==
  task' = [task EXCEPT ![t] = [at |-> at, doc |-> d, client |-> c]]

End(t, at) == task' = [task EXCEPT ![t] = [Idle EXCEPT !.at = at]]

(***************************************************************************)
(* Documents.                                                              *)
(***************************************************************************)
(* The resolver gave up: its pending row, with the cached extraction, is   *)
(* committed before anyone is asked.                                       *)
Park(d) ==
  /\ rows[d] = None
  /\ rows' = [rows EXCEPT ![d] = Open]
  /\ filed' = Append(filed, d)
  /\ prompting' = prompting \cup {d}
  /\ UNCHANGED <<expired, clients, task, finalised, spoilt, chatFaults>>

(* "Which client is this document for?"; a firm without clients is told to *)
(* add one instead, and a send that fails is only logged.                  *)
Prompt(d) ==
  /\ d \in prompting
  /\ prompting' = prompting \ {d}
  /\ UNCHANGED <<rows, filed, expired, clients, task, finalised, spoilt, chatFaults>>

(* A day passes over an unanswered prompt.                                 *)
Expire(d) ==
  /\ IsOpen(d)
  /\ expired' = expired \cup {d}
  /\ UNCHANGED <<rows, filed, prompting, clients, task, finalised, spoilt, chatFaults>>

(***************************************************************************)
(* Messages.                                                               *)
(***************************************************************************)
(* The backend starts the pipeline of a message of the linked chat.        *)
Say(t) ==
  /\ task[t].at = "unsent"
  /\ Continue(t, IF t \in Spoken THEN "voice" ELSE "text", None, None)
  /\ UNCHANGED <<rowVars, clients, finalised, spoilt, chatFaults>>

(* A voice note that cannot be downloaded or transcribed, or is silent, is *)
(* an error; the transcript enters the command pipeline.                   *)
Transcribe(t) ==
  /\ task[t].at = "voice"
  /\ Continue(t, "text", None, None) \/ End(t, "answered")
  /\ UNCHANGED <<rowVars, clients, finalised, spoilt, chatFaults>>

ClassifyAll(t) ==
  /\ task[t].at = "text" /\ Verb[t] \notin Slash
  /\ CASE Verb[t] = "filing" -> End(t, "filing")
       [] Verb[t] = "plain" /\ NewestOpen # {} ->
            \E d \in NewestOpen : Continue(t, "matching", d, None)
       [] OTHER -> End(t, "ignored")
  /\ UNCHANGED <<rowVars, clients, finalised, spoilt, chatFaults>>

(* The order of precedence. A text that is no command is first read as the *)
(* answer to the newest open prompt; an unknown verb never is.             *)
Classify(t) ==
  /\ task[t].at = "text" /\ Verb[t] \notin Slash
  /\ CASE Verb[t] = "empty" -> End(t, "answered")
       [] Verb[t] = "filing" -> End(t, "filing")
       [] Verb[t] = "plain" /\ NewestOpen # {} ->
            \E d \in NewestOpen : Continue(t, "matching", d, None)
       [] OTHER -> End(t, "supervisor")
  /\ UNCHANGED <<rowVars, clients, finalised, spoilt, chatFaults>>

(* search_by_name_ranked, and the one candidate that stands out.           *)
Candidates(t) == {c \in clients : Sim[t][c] >= Medium}

StandsOut(t, c) ==
  /\ c \in Candidates(t) /\ Sim[t][c] >= High
  /\ \A o \in Candidates(t) \ {c} : Sim[t][o] + Margin < Sim[t][c]

ResolveAnyway(t, d, c, else) ==
  /\ rows' = [rows EXCEPT ![d] = [by |-> t, client |-> c]]
  /\ Continue(t, "replying", d, c)

(* UPDATE ... WHERE resolved_at IS NULL AND expires_at > now: the row goes *)
(* to the first task that still finds it open, which carries on; the       *)
(* loser does what "else" says.                                            *)
ResolveRow(t, d, c, else) ==
  IF IsOpen(d)
  THEN /\ rows' = [rows EXCEPT ![d] = [by |-> t, client |-> c]]
       /\ Continue(t, "replying", d, c)
  ELSE rows' = rows /\ End(t, else)

(* The search: a client who stands out is the reply's. Nobody fits: the    *)
(* supervisor's; several, or one not clearly enough: they are told back.   *)
MatchReply(t) ==
  /\ task[t].at = "matching"
  /\ \/ \E c \in clients : StandsOut(t, c) /\ Continue(t, "matched", task[t].doc, c)
     \/ /\ \A c \in clients : ~StandsOut(t, c)
        /\ End(t, IF Candidates(t) = {} THEN "supervisor" ELSE "answered")
  /\ UNCHANGED <<rowVars, clients, finalised, spoilt, chatFaults>>

(* The row found before the search is resolved and committed, whoever was  *)
(* added since; the supervisor gets the reply if the row is gone.          *)
ResolveReply(t) ==
  /\ task[t].at = "matched"
  /\ ResolveRow(t, task[t].doc, task[t].client, "supervisor")
  /\ UNCHANGED <<filed, expired, prompting, clients, finalised, spoilt, chatFaults>>

(***************************************************************************)
(* Slash commands.                                                         *)
(***************************************************************************)
(* The commands that decide no document. /add_client adds its client,      *)
(* unless an argument is missing or bad, or the firm has the GSTIN (the    *)
(* insert is rolled back); /list_clients, /status and /bug only tell the   *)
(* user something (/bug writes a row nothing here reads).                  *)
Command(t) ==
  /\ task[t].at = "text" /\ Verb[t] \in Slash \ {"assign"}
  /\ Continue(t, "replying", None, None)
  /\ \/ UNCHANGED clients
     \/ /\ Verb[t] = "add_client" /\ Found[t] \cap clients = {}
        /\ clients' = clients \cup Found[t]
  /\ UNCHANGED <<rowVars, finalised, spoilt, chatFaults>>

(* /assign: exactly one client must match, and the newest open document of *)
(* the chat is chosen ...                                                  *)
ChooseRow(t) ==
  /\ task[t].at = "text" /\ Verb[t] = "assign"
  /\ \/ \E c \in clients, d \in NewestOpen :
          Found[t] \cap clients = {c} /\ Continue(t, "assigning", d, c)
     \/ /\ Cardinality(Found[t] \cap clients) # 1 \/ NewestOpen = {}
        /\ Continue(t, "replying", None, None)
  /\ UNCHANGED <<rowVars, clients, finalised, spoilt, chatFaults>>

(* ... and resolved, if it is still open.                                  *)
AssignRow(t) ==
  /\ task[t].at = "assigning"
  /\ ResolveRow(t, task[t].doc, task[t].client, "answered")
  /\ UNCHANGED <<filed, expired, prompting, clients, finalised, spoilt, chatFaults>>

(* "Routed to", "Assigned" or the command's result, sent after the commit. *)
(* Nothing guards this send: if Telegram refuses it the task is over, and  *)
(* with it the document it had resolved.                                   *)
Reply(t) ==
  /\ task[t].at = "replying"
  /\ \/ /\ task[t].doc # None
        /\ task' = [task EXCEPT ![t].at = "resuming"]
        /\ UNCHANGED <<spoilt, chatFaults>>
     \/ task[t].doc = None /\ End(t, "answered") /\ UNCHANGED <<spoilt, chatFaults>>
     \/ /\ ChatFault /\ End(t, "dead")
        /\ spoilt' = spoilt \cup ({task[t].doc} \ {None})
  /\ UNCHANGED <<rowVars, clients, finalised>>

ResumeOpenRow(t) ==
  /\ task[t].at = "resuming"
  /\ End(t, "answered")
  /\ finalised' = IF IsOpen(task[t].doc) THEN [finalised EXCEPT ![task[t].doc] = @ + 1]
                  ELSE finalised
  /\ UNCHANGED <<rowVars, clients, spoilt, chatFaults>>

(* The row is read again, whatever its state, and the cached extraction is *)
(* finalised; without one the file is fetched and extracted anew. Either   *)
(* can fail, and the user is told.                                         *)
Resume(t) ==
  /\ task[t].at = "resuming"
  /\ \/ /\ rows[task[t].doc].client \in clients
        /\ finalised' = [finalised EXCEPT ![task[t].doc] = @ + 1]
        /\ End(t, "answered")
        /\ UNCHANGED <<spoilt, chatFaults>>
     \/ /\ ChatFault
        /\ spoilt' = spoilt \cup {task[t].doc}
        /\ End(t, "answered")
        /\ UNCHANGED finalised
  /\ UNCHANGED <<rowVars, clients>>

(* The backend stops: the tasks are gone, the rows stay, prompted or not.  *)
TasksDie ==
  /\ ChatFault
  /\ task' = [t \in Texts |-> IF task[t].at \in {"unsent"} \cup Ended
                              THEN task[t] ELSE [Idle EXCEPT !.at = "dead"]]
  /\ spoilt' = spoilt \cup
       ({task[t].doc : t \in {u \in Texts : task[u].at \in {"replying", "resuming"}}} \ {None})
  /\ prompting' = {}
  /\ UNCHANGED <<rows, filed, expired, clients, finalised>>

ChatStep(t) ==
  \/ Transcribe(t) \/ Classify(t) \/ MatchReply(t) \/ ResolveReply(t) \/ Command(t)
  \/ ChooseRow(t) \/ AssignRow(t) \/ Reply(t) \/ Resume(t)

ChatNext ==
  \/ \E d \in Docs : Park(d) \/ Prompt(d) \/ Expire(d)
  \/ \E t \in Texts : Say(t) \/ ChatStep(t)
  \/ TasksDie

ChatSpec == ChatInit /\ [][ChatNext]_chatVars
-----------------------------------------------------------------------------
(***************************************************************************)
(* Properties.                                                             *)
(***************************************************************************)
(* The tasks of the chat run on the backend's event loop, and every await  *)
(* in them has a timeout: a task that can go on does. Nobody must write,   *)
(* upload or wait.                                                         *)
ChatFairSpec == ChatSpec /\ \A t \in Texts : WF_chatVars(ChatStep(t))

(* A document that waited goes through the ledger's pipeline at most once, *)
(* however many replies, /assign commands and voice notes race for it      *)
(* (worker.py: _try_resolve_pending_from_text, commands.py: _cmd_assign).  *)
RoutedOnce == \A d \in Docs : finalised[d] <= 1

Resuming(d) == \E t \in Texts : /\ rows[d].by = t /\ task[t].doc = d
                                /\ task[t].at \in {"replying", "resuming"}

(* A document that has been given to a client is in the ledger, is on its  *)
(* way there, or a refused send, a failed pipeline or a crash came between *)
(* the commit of its row and its pipeline: in that case only it is lost.   *)
LossNeedsFault ==
  \A d \in Docs : rows[d] \notin {None, Open} =>
    finalised[d] > 0 \/ d \in spoilt \/ Resuming(d)

Chosen(t, c) == StandsOut(t, c) \/ Found[t] \cap clients = {c}

(* Which client a document goes to is decided once: while its row is open  *)
(* and unexpired, by a message that has it in hand, and for the client the *)
(* message has chosen. A message chooses only where it names one alone of  *)
(* the clients there are at that moment: its words stand out for him, or   *)
(* he is all that /assign finds. One who is added between the choice and   *)
(* the change of the row is not considered.                                *)
DecidedOnce ==
  [][/\ \A d \in Docs : rows[d] # None /\ rows'[d] # rows[d] =>
          /\ IsOpen(d)
          /\ LET t == rows'[d].by
             IN  /\ task[t].doc = d
                 /\ task[t].client \in clients /\ task[t].client = rows'[d].client
     /\ \A t \in Texts : LET c == task'[t].client
                         IN  c \notin {None, task[t].client} => Chosen(t, c)]_chatVars

(* Every message is answered, unless the backend died or Telegram refused  *)
(* the reply.                                                              *)
MessagesEnd == \A t \in Texts : task[t].at # "unsent" ~> task[t].at \in Ended
=============================================================================
