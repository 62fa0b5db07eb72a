---------------------------- MODULE TallyImport ----------------------------
(***************************************************************************)
(* Tally exports sent to a firm's chat: services/tally_import.py parses    *)
(* one, _run_tally_ingestion (api/routes/worker.py) routes it to a client  *)
(* and stores its vouchers as brain_events rows (db/queries/               *)
(* brain_events.py). One background task per upload; nothing orders them.  *)
(*                                                                         *)
(* A voucher is its dedup key, the hash of its type, number, date,         *)
(* narration and ledger lines: who the party and the client are is not in  *)
(* it. A company name or caption is its similarity to each client.         *)
(***************************************************************************)
EXTENDS Integers, FiniteSets, Sequences

CONSTANTS Exports,   \* uploads
          Vouchers,  \* dedup keys
          Parties,   \* the firm's clients
          Content,   \* Content[x]: the vouchers of x in order; Missing: malformed
          Entries,   \* vouchers that carry ledger entries
          Caption,   \* Caption[x][c]: similarity of the caption; all 0: none
          Company,   \* Company[x][c]: of SVCURRENTCOMPANY
          Missing,
          MaxBreaks  \* bound: refused sends and crashes

ASSUME ImportMaps ==
  /\ Content \in [Exports -> Seq(Vouchers) \cup {Missing}] /\ Entries \subseteq Vouchers
  /\ Caption \in [Exports -> [Parties -> 0..100]] /\ Company \in [Exports -> [Parties -> 0..100]]
  /\ Missing \notin Parties /\ MaxBreaks \in Nat

VARIABLES
  import,   \* import[x]: the task of x
  pending,  \* its uncommitted brain_events rows
  events,   \* the committed ones: client and voucher, and the upload they came with
  breaks

importVars == <<import, pending, events, breaks>>

Idling == [at |-> "new", client |-> Missing, inserted |-> 0, skipped |-> 0]

ImportTask == [at : {"new", "parsed", "inserting", "inserted", "reported", "done", "refused",
                     "dead"},
               client : Parties \cup {Missing}, inserted : Nat, skipped : Nat]

Event == [client : Parties, voucher : Vouchers, by : Exports]

ImportTypeOK ==
  /\ import \in [Exports -> ImportTask]
  /\ pending \subseteq Event /\ events \subseteq Event
  /\ breaks \in 0..MaxBreaks

ImportInit ==
  /\ import = [x \in Exports |-> Idling]
  /\ pending = {} /\ events = {} /\ breaks = 0

Break == breaks < MaxBreaks /\ breaks' = breaks + 1

Proceeds(x, at) == import' = [import EXCEPT ![x].at = at]

(* The vouchers parse_tally_export returns, by their place in the file:    *)
(* without those that carry no ledger entries.                             *)
Parsed(x) == {i \in DOMAIN Content[x] : Content[x][i] \in Entries}

Keys(x) == {Content[x][i] : i \in Parsed(x)}

(* One bad date or amount, or not a voucher left, refuses the whole file.  *)
Parse(x) ==
  /\ import[x].at = "new"
  /\ Proceeds(x, IF Content[x] # Missing /\ Parsed(x) # {} THEN "parsed" ELSE "refused")
  /\ UNCHANGED <<pending, events, breaks>>

(* search_by_name_ranked with its best match clear of the runner-up.       *)
Named(sim) ==
  {c \in Parties : /\ sim[c] >= 60
                   /\ \A b \in Parties \ {c} : sim[b] >= 55 => sim[b] < sim[c] - 5}

(* _resolve_tally_client: the caption, and if it names nobody the company. *)
ImportClient(x) == IF Named(Caption[x]) # {} THEN Named(Caption[x]) ELSE Named(Company[x])

RouteImport(x) ==
  /\ import[x].at = "parsed"
  /\ IF ImportClient(x) = {} THEN Proceeds(x, "refused")
     ELSE \E c \in ImportClient(x) :
            import' = [import EXCEPT ![x] = [at |-> "inserting", client |-> c,
                                             inserted |-> 0, skipped |-> 0]]
  /\ UNCHANGED <<pending, events, breaks>>

(* record_dedup_bulk: one INSERT ... ON CONFLICT DO NOTHING of the keys,   *)
(* each once. It waits while another task's uncommitted row has one of     *)
(* them. What it does not insert counts as skipped.                        *)
New(x) == Keys(x) \ {e.voucher : e \in events}

InsertUnlocked(x) ==
  /\ import[x].at = "inserting"
  /\ pending' = pending \cup {[client |-> import[x].client, voucher |-> v, by |-> x] : v \in New(x)}
  /\ import' = [import EXCEPT ![x] = [at |-> "inserted", client |-> @.client,
                   inserted |-> Cardinality(New(x)),
                   skipped |-> Cardinality(Parsed(x)) - Cardinality(New(x))]]
  /\ UNCHANGED <<events, breaks>>

Insert(x) ==
  /\ import[x].at = "inserting"
  /\ \A e \in pending : e.voucher \notin Keys(x)
  /\ pending' = pending \cup {[client |-> import[x].client, voucher |-> v, by |-> x] : v \in New(x)}
  /\ import' = [import EXCEPT ![x] = [at |-> "inserted", client |-> @.client,
                   inserted |-> Cardinality(New(x)),
                   skipped |-> Cardinality(Parsed(x)) - Cardinality(New(x))]]
  /\ UNCHANGED <<events, breaks>>

(* The commit, before anything is said.                                    *)
CommitImport(x) ==
  /\ import[x].at = "inserted"
  /\ events' = events \cup {e \in pending : e.by = x}
  /\ pending' = {e \in pending : e.by # x}
  /\ Proceeds(x, "reported")
  /\ UNCHANGED breaks

(* "Vouchers in file", "New", "Already on file": a refused send ends the   *)
(* task. Then the turn for the supervisor, whose failure is only logged.   *)
Report(x) ==
  /\ import[x].at = "reported"
  /\ \/ Proceeds(x, "done") /\ UNCHANGED breaks
     \/ Proceeds(x, "dead") /\ Break
  /\ UNCHANGED <<pending, events>>

(* A database error or the end of the backend: what is not committed goes. *)
ImportDies(x) ==
  /\ import[x].at \notin {"new", "done", "refused", "dead"}
  /\ Break
  /\ Proceeds(x, "dead")
  /\ pending' = {e \in pending : e.by # x}
  /\ UNCHANGED events

ImportNext == \E x \in Exports : \/ Parse(x) \/ RouteImport(x) \/ Insert(x) \/ CommitImport(x)
                                 \/ Report(x) \/ ImportDies(x)

ImportSpec == ImportInit /\ [][ImportNext]_importVars
-----------------------------------------------------------------------------
(* Files may be sent again and again, at the same time, by a CA who saw no *)
(* answer ("only new vouchers are added", _run_tally_ingestion): a voucher *)
(* has one row, a file that was answered is on file as a whole, and the    *)
(* counts in the answer are those of its own rows. (The row may be another *)
(* client's: the key does not say whose voucher it is.)                    *)
VouchersLandOnce ==
  /\ \A e, g \in events : e.voucher = g.voucher => e = g
  /\ \A x \in Exports : import[x].at \in {"reported", "done"} =>
       LET own == {e \in events : e.by = x}
       IN  /\ Keys(x) \subseteq {e.voucher : e \in events}
           /\ import[x].inserted = Cardinality(own)
           /\ import[x].inserted + import[x].skipped = Cardinality(Parsed(x))
           /\ \A e \in own : e.client = import[x].client
=============================================================================
