------------------------------- MODULE Router -------------------------------
(***************************************************************************)
(* Which client an uploaded document belongs to (identity/resolver.py),    *)
(* and the chat memory its session stage reads. A turn that carries a      *)
(* client is left by every upload that was routed, filed or not, by every  *)
(* re-upload of a filed document, by every Tally import and, with the      *)
(* client of the turn before it, by every message the supervisor answers   *)
(* (api/routes/worker.py).                                                 *)
(*                                                                         *)
(* A name or caption is its pg_trgm similarity to each client. Time is a   *)
(* coarse clock. Clients are never deactivated: nothing in the program     *)
(* calls ClientQuery.deactivate.                                           *)
(***************************************************************************)
EXTENDS Integers, FiniteSets, Sequences

CONSTANTS Uploads,
          Offices,    \* CA firms, one chat each
          Customers,  \* their clients
          OfficeOf,   \* OfficeOf[c]: the firm client c belongs to
          GstinOf,    \* GstinOf[c]: unique within a firm
          Paper,      \* Paper[u]: what the extractor and the caption say of u
          Wires,      \* free-form messages
          DayBooks,   \* Tally exports
          DeskOf,     \* DeskOf[x]: the firm whose chat message or export x is sent to
          LookBack,   \* SESSION_LOOKBACK_MINUTES
          MinHits,    \* VENDOR_HISTORY_MIN_HITS
          Noone,
          LastTick    \* bound: the clock

ASSUME RouterMaps ==
  /\ OfficeOf \in [Customers -> Offices] /\ DeskOf \in [Wires \cup DayBooks -> Offices]
  /\ \A b, c \in Customers :
       b # c /\ OfficeOf[b] = OfficeOf[c] => GstinOf[b] # GstinOf[c]
  /\ \A u \in Uploads : Paper[u].office \in Offices
  /\ Uploads \cap Wires = {} /\ Uploads \cap DayBooks = {} /\ Wires \cap DayBooks = {}
  /\ Noone \notin Customers
  /\ LookBack \in Nat /\ MinHits \in Nat \ {0} /\ LastTick \in Nat

VARIABLES
  clock,
  mentions, \* the turns that carry a client: what left them, the chat, their stamp
  fate,     \* fate[u]: where u is, the client and the stage that chose it, and when
  onFile,   \* filed documents, as upload and client
  wire,     \* wire[w]: the supervisor's task for message w
  log       \* identity_resolution_log, committed: uploads and stages

routerVars == <<clock, mentions, fate, onFile, wire, log>>

Stages == {"BUYER_GSTIN", "VENDOR_GSTIN", "BUYER_NAME", "VENDOR_NAME", "SESSION",
           "CAPTION", "GSTIN", "VENDOR", "EXPLICIT_ASK"}

Unrouted == [at |-> "new", client |-> Noone, stage |-> Noone, time |-> 0]

Mention == [by : Uploads \cup DayBooks \cup Wires, office : Offices,
            client : Customers, at : 0..LastTick]

RouterTypeOK ==
  /\ clock \in 0..LastTick
  /\ mentions \subseteq Mention
  /\ fate \in [Uploads -> [at : {"new", "known", "read", "unnamed", "routed", "asked",
                                 "filed", "refused", "lost", "done"},
                           client : Customers \cup {Noone},
                           stage : Stages \cup {Noone}, time : 0..LastTick]]
  /\ onFile \subseteq [doc : Uploads, client : Customers]
  /\ wire \in [Wires -> [at : {"new", "thinking", "done"},
                         client : Customers \cup {Noone},
                         time : 0..LastTick, end : 0..LastTick]]
  /\ log \subseteq Uploads \X Stages

RouterInit ==
  /\ clock = 0 /\ mentions = {} /\ onFile = {} /\ log = {}
  /\ fate = [u \in Uploads |-> Unrouted]
  /\ wire = [w \in Wires |-> [at |-> "new", client |-> Noone, time |-> 0, end |-> 0]]

ClientsOf(o) == {c \in Customers : OfficeOf[c] = o}

(* get_by_gstin, for a GSTIN that is_valid_gstin.                          *)
Holders(o, g) == {c \in ClientsOf(o) : g # Noone /\ GstinOf[c] = g}

(* The best of the clients whose similarity reaches "floor", unless the    *)
(* runner-up is within 0.05 of it.                                         *)
Best(o, sim, floor) ==
  {c \in ClientsOf(o) : /\ sim[c] >= floor
                        /\ \A b \in ClientsOf(o) \ {c} : sim[b] >= floor => sim[c] - sim[b] >= 5}

(* _resolve_from_buyer_name, of which only HIGH counts: its caller drops a *)
(* MEDIUM candidate. The runner-up is looked for from MEDIUM on.           *)
NameHolders(o, sim) == {c \in Best(o, sim, 55) : sim[c] >= 85}

(* The newest turn that carries a client; of two of the same stamp, either.*)
LastMentions(o) ==
  {t \in mentions : t.office = o /\ \A x \in mentions : x.office = o => x.at <= t.at}

ByOldSession(u) == {t.client : t \in LastMentions(Paper[u].office)}

(* _resolve_from_session: the client of that turn, unless it is too old.   *)
BySession(u) == {t.client : t \in {t \in LastMentions(Paper[u].office) : t.at + LookBack >= clock}}

(* _resolve_from_gstin: the GSTINs found in the caption, first hit wins.   *)
ByScan(u) ==
  LET At(i) == Holders(Paper[u].office, Paper[u].scan[i])
  IN  UNION {At(i) : i \in {i \in DOMAIN Paper[u].scan : \A j \in 1..(i - 1) : At(j) = {}}}

(* _resolve_from_vendor_history: enough documents of this vendor, and two  *)
(* more than any other client of the firm has.                             *)
Hits(u, c) == Cardinality({d \in onFile : d.client = c /\ Paper[d.doc].vendor = Paper[u].vendor})

ByHistory(u) ==
  IF Paper[u].vendor = Noone THEN {}
  ELSE {c \in ClientsOf(Paper[u].office) :
          /\ Hits(u, c) >= MinHits
          /\ \A b \in ClientsOf(Paper[u].office) \ {c} : Hits(u, b) > 0 => Hits(u, c) - Hits(u, b) >= 2}

(* What each stage finds, and their order: the last of PaperStages asks    *)
(* the chat.                                                               *)
PaperStages == <<"BUYER_GSTIN", "VENDOR_GSTIN", "BUYER_NAME", "VENDOR_NAME", "SESSION">>
RestStages == <<"CAPTION", "GSTIN", "VENDOR">>

Finds(u, stage) ==
  LET o == Paper[u].office
  IN  CASE stage = "BUYER_GSTIN" -> Holders(o, Paper[u].buyer)
        [] stage = "VENDOR_GSTIN" -> Holders(o, Paper[u].vendor)
        [] stage = "BUYER_NAME" -> NameHolders(o, Paper[u].buyerName)
        [] stage = "VENDOR_NAME" -> NameHolders(o, Paper[u].vendorName)
        [] stage = "SESSION" -> BySession(u)
        [] stage = "CAPTION" -> Best(o, Paper[u].caption, 55)
        [] stage = "GSTIN" -> ByScan(u)
        [] stage = "VENDOR" -> ByHistory(u)

(* The first of the stages that finds a client, if any does.               *)
Knows(u, stages) ==
  {stages[i] : i \in {i \in DOMAIN stages : /\ Finds(u, stages[i]) # {}
                                            /\ \A j \in 1..(i - 1) : Finds(u, stages[j]) = {}}}

(* The early check for the bytes of a filed document: a notice that        *)
(* carries that document's client, or no more than that (the notice or its *)
(* turn may fail). A document filed by the CA's answer keeps no hash. The  *)
(* turn is stamped with the start of the task, which may be long ago.      *)
Recognise(u) ==
  LET same == {d \in onFile : /\ Paper[d.doc].office = Paper[u].office
                              /\ Paper[d.doc].bytes = Paper[u].bytes
                              /\ fate[d.doc].stage # "EXPLICIT_ASK"}
      Notice(d, time) == [by |-> u, office |-> Paper[u].office, client |-> d.client, at |-> time]
  IN  /\ fate[u].at = "new"
      /\ fate' = [fate EXCEPT ![u].at = IF same = {} THEN "read" ELSE "known"]
      /\ \/ UNCHANGED mentions
         \/ \E d \in same, time \in 0..clock : mentions' = mentions \cup {Notice(d, time)}
      /\ UNCHANGED <<clock, onFile, wire, log>>

(* _emit: the outcome; its row in the log waits for the next commit.       *)
Emit(u, stage, at, c) ==
  fate' = [fate EXCEPT ![u] = [at |-> at, client |-> c, stage |-> stage, time |-> clock]]

Logged(u) == log \cup {<<u, fate[u].stage>>}

(* The cascade down to the session. Its queries are apart from those of    *)
(* the rest: turns and documents of other tasks may come in between.       *)
ResolveByPaper(u) ==
  /\ fate[u].at = "read"
  /\ \/ /\ Knows(u, PaperStages) = {}
        /\ fate' = [fate EXCEPT ![u].at = "unnamed"]
     \/ \E stage \in Knows(u, PaperStages) :
          \E c \in Finds(u, stage) : Emit(u, stage, "routed", c)
  /\ UNCHANGED <<clock, mentions, onFile, wire, log>>

(* The rest of it, down to the question, which is committed.               *)
ResolveByRest(u) ==
  /\ fate[u].at = "unnamed"
  /\ \/ /\ Knows(u, RestStages) = {}
        /\ Emit(u, "EXPLICIT_ASK", "asked", Noone)
        /\ log' = log \cup {<<u, "EXPLICIT_ASK">>}
     \/ /\ \E stage \in Knows(u, RestStages) :
             \E c \in Finds(u, stage) : Emit(u, stage, "routed", c)
        /\ UNCHANGED log
  /\ UNCHANGED <<clock, mentions, onFile, wire>>

(* The CA's answer (Chat says which): any client of the firm.              *)
Settled(u) ==
  /\ fate[u].at = "asked"
  /\ \E c \in ClientsOf(Paper[u].office) :
       fate' = [fate EXCEPT ![u].at = "routed", ![u].client = c]
  /\ UNCHANGED <<clock, mentions, onFile, wire, log>>

(* finalize_document (FilingLedger says how): the document is filed, the   *)
(* log row with it; or it is refused, for its period is locked or it is a  *)
(* duplicate, and nothing is committed yet; or the insert fails and all is *)
(* rolled back.                                                            *)
FileUpload(u) ==
  /\ fate[u].at = "routed"
  /\ \/ /\ fate' = [fate EXCEPT ![u].at = "filed"]
        /\ onFile' = onFile \cup {[doc |-> u, client |-> fate[u].client]}
        /\ log' = Logged(u)
     \/ /\ \E at \in {"refused", "lost"} : fate' = [fate EXCEPT ![u].at = at]
        /\ UNCHANGED <<onFile, log>>
  /\ UNCHANGED <<clock, mentions, wire>>

(* The transaction of a refused upload began with its task, or with the    *)
(* answer; any other begins after the document's.                          *)
Begun(u) == IF fate[u].at = "refused" /\ fate[u].stage # "EXPLICIT_ASK" THEN 0 ELSE fate[u].time

(* Whatever came of it, its summary becomes a turn with the client; but    *)
(* the summary may fail to be sent, or the turn to be written.             *)
Summarise(u) ==
  /\ fate[u].at \in {"filed", "refused", "lost"}
  /\ fate' = [fate EXCEPT ![u].at = "done"]
  /\ \/ UNCHANGED <<mentions, log>>
     \/ /\ \E time \in Begun(u)..clock :
             mentions' = mentions \cup {[by |-> u, office |-> Paper[u].office,
                                        client |-> fate[u].client, at |-> time]}
        /\ log' = IF fate[u].at = "refused" THEN Logged(u) ELSE log
  /\ UNCHANGED <<clock, onFile, wire>>

(* A turn of the chat x was sent to.                                       *)
Leave(x, c, time) ==
  mentions' = mentions \cup {[by |-> x, office |-> DeskOf[x], client |-> c, at |-> time]}

(* A Tally export, once its vouchers are committed (TallyImport says whose *)
(* they are: any client of the firm).                                      *)
ImportBook(x) ==
  /\ \A t \in mentions : t.by # x
  /\ \E c \in ClientsOf(DeskOf[x]) : Leave(x, c, clock)
  /\ UNCHANGED <<clock, fate, onFile, wire, log>>

(* _handle_supervisor: the client of the newest turn, however old it is    *)
(* (get_last_client_id), goes into the user's turn ...                     *)
Hear(w) ==
  /\ wire[w].at = "new"
  /\ LET last == {t.client : t \in LastMentions(DeskOf[w])}
         Heard(c) == wire' = [wire EXCEPT ![w] = [@ EXCEPT !.at = "thinking", !.client = c,
                                                           !.time = clock]]
     IN  \/ last = {} /\ Heard(Noone) /\ UNCHANGED mentions
         \/ \E c \in last : Heard(c) /\ Leave(w, c, clock)
  /\ UNCHANGED <<clock, fate, onFile, log>>

(* ... and into the answer's, whatever was filed meanwhile; its stamp is   *)
(* the start of the task's second transaction. The LLM may fail.           *)
Answered(w) ==
  /\ wire[w].at = "thinking"
  /\ wire' = [wire EXCEPT ![w].at = "done", ![w].end = clock]
  /\ \/ /\ wire[w].client # Noone
        /\ \E time \in wire[w].time..clock : Leave(w, wire[w].client, time)
     \/ UNCHANGED mentions
  /\ UNCHANGED <<clock, fate, onFile, log>>

Tick ==
  /\ clock < LastTick
  /\ clock' = clock + 1
  /\ UNCHANGED <<mentions, fate, onFile, wire, log>>

RouterNext ==
  \/ \E u \in Uploads : \/ Recognise(u) \/ ResolveByPaper(u) \/ ResolveByRest(u) \/ Settled(u)
                        \/ FileUpload(u) \/ Summarise(u)
  \/ \E x \in DayBooks : ImportBook(x)
  \/ \E w \in Wires : Hear(w) \/ Answered(w)
  \/ Tick

RouterSpec == RouterInit /\ [][RouterNext]_routerVars
-----------------------------------------------------------------------------
Lately(u, time) == time + LookBack >= fate[u].time

(* The chat had spoken of u's client: something other than a message left  *)
(* a turn with it, within the look-back, or somebody has been writing      *)
(* since (_handle_supervisor hands the client of the last turn on without  *)
(* a limit of age).                                                        *)
Remembered(u) ==
  LET spoken == {t \in mentions : /\ t.by \notin Wires \cup {u} /\ t.office = Paper[u].office
                                  /\ t.client = fate[u].client /\ t.at <= fate[u].time}
      during == {w \in Wires : /\ wire[w].at # "new" /\ wire[w].client = fate[u].client
                               /\ wire[w].time <= fate[u].time}
  IN  /\ spoken # {}
      /\ \/ \E t \in spoken : Lately(u, t.at)
         \/ \E w \in during : wire[w].at = "thinking" \/ Lately(u, wire[w].end)

(* Somebody had named client c by then who did not have it from the memory *)
(* itself: another stage, or the CA, for some upload, or a Tally export.   *)
Rooted(c, time) ==
  \/ \E v \in Uploads : fate[v].client = c /\ fate[v].stage # "SESSION" /\ fate[v].time <= time
  \/ \E t \in mentions : t.by \in DayBooks /\ t.client = c /\ t.at <= time

(* A document goes to a client of the firm whose chat it was sent to; what *)
(* is on file is in the resolution log, though only its own commit writes  *)
(* it there; and when the session names the client, the chat had spoken of *)
(* him lately, or ever since, and not only from its own memory             *)
(* (resolve_identity, _finalize_and_summarise, _handle_supervisor).        *)
RoutesAreExplained ==
  \A u \in Uploads :
    /\ (\E d \in onFile : d.doc = u) => <<u, fate[u].stage>> \in log
    /\ fate[u].client # Noone =>
         /\ OfficeOf[fate[u].client] = Paper[u].office
         /\ fate[u].stage = "SESSION" => Remembered(u) /\ Rooted(fate[u].client, fate[u].time)
=============================================================================
