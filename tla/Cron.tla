-------------------------------- MODULE Cron --------------------------------
(***************************************************************************)
(* Scheduled work: the gateway's node-cron jobs                            *)
(* (enma-gateway/src/cron/cron_scheduler.js) and what the backend does     *)
(* with them (api/routes/cron.py, db/queries/{tasks,notifications}.py):    *)
(* the heartbeat over overdue tasks, the morning briefing, and the chase   *)
(* of clients without documents.                                           *)
(*                                                                         *)
(* A run visits the firms one after the other, in a session of its own for *)
(* each; messages go out one by one, and what was sent is committed only   *)
(* when the firm is done.  Several runs may be under way at once: the next *)
(* heartbeat does not wait for the last one.                               *)
(*                                                                         *)
(* Time is counted in firings of the most frequent job.  The chase's quiet *)
(* week and the 72 hours of idempotency_log are longer than any behaviour  *)
(* looked at here.                                                         *)
(***************************************************************************)
EXTENDS Naturals, FiniteSets, Sequences

CONSTANTS Firms, Tasks, Clients,
          FirmOf,      \* FirmOf[x]: the firm of a task or client
          CreatedAt,   \* CreatedAt[f]: when a firm was created
          DueAt,       \* DueAt[t]: when a task is due
          FiresAt,     \* FiresAt[k]: the times at which a job fires
          Cooldown,    \* HEARTBEAT_COOLDOWN_MINUTES, in the same unit
          ChaseCap,    \* CLIENT_CHASE_BATCH_CAP
          Horizon,     \* bound: the last time looked at
          MaxFaults,   \* bound: crashes, failing sessions, lost envelopes
          None

Kinds == {"heartbeat", "briefing", "chase"}

ASSUME FirmOfType == FirmOf \in [Tasks \cup Clients -> Firms]
ASSUME TimesAreNat == /\ CreatedAt \in [Firms -> Nat] /\ Firms # {}
                      /\ DueAt \in [Tasks -> Nat]
                      /\ FiresAt \in [Kinds -> SUBSET Nat]
                      /\ Cooldown \in Nat /\ Horizon \in Nat /\ MaxFaults \in Nat
ASSUME ItemsAreDistinct == /\ Tasks \cap Clients = {} /\ (Tasks \cup Clients) \cap Firms = {}
                           /\ None \notin Tasks \cup Clients \cup Firms \cup Nat
ASSUME CapIsPositive == ChaseCap \in Nat \ {0}

VARIABLES
  now,       \* the time
  net,       \* envelopes <<kind, scheduled_at>> on their way
  log,       \* the minutes in idempotency_log under chat_id 0
  swallowed, \* envelopes answered as duplicates
  run,       \* run[e]: the background task started for envelope e
  notified,  \* tasks.last_notified_at, committed
  chased,    \* clients with a committed client_notifications row
  pings,     \* history: for each task, client or firm, the messages sent
  saved,     \* history: <<e, x>>, run e committed its message about x
  faults

vars == <<now, net, log, swallowed, run, notified, chased, pings, saved, faults>>

Envelopes == Kinds \X (0..Horizon)
Items == Tasks \cup Clients \cup Firms

(* The progress of a run: the firms to visit, the one being visited, what  *)
(* is still to be sent there, the item sent and not yet marked, and the    *)
(* uncommitted marks with their times.                                     *)
Run == [at : {"none", "running", "done", "lost"},
        firms : SUBSET Firms, firm : Firms \cup {None},
        list : SUBSET Items, item : Items \cup {None},
        marks : SUBSET (Items \X Nat),
        failed : SUBSET Firms,         \* history: firms whose visit failed
        knew : SUBSET (Envelopes \X Items)]   \* history: saved, when it looked

NoRun == [at |-> "none", firms |-> {}, firm |-> None, list |-> {}, item |-> None,
          marks |-> {}, failed |-> {}, knew |-> {}]

Marked(e) == {m[1] : m \in run[e].marks}

TypeOK ==
  /\ now \in 0..Horizon
  /\ net \subseteq Envelopes /\ log \subseteq 0..Horizon /\ swallowed \subseteq Envelopes
  /\ run \in [Envelopes -> Run]
  /\ notified \in [Tasks -> (0..Horizon) \cup {None}]
  /\ chased \subseteq Clients
  /\ pings \in [Items -> Seq([by : Envelopes, time : 0..Horizon,
                              knew : SUBSET (Envelopes \X Items)])]
  /\ saved \subseteq Envelopes \X Items
  /\ faults \in 0..MaxFaults

Init ==
  /\ now = 0 /\ net = {} /\ log = {} /\ swallowed = {}
  /\ run = [e \in Envelopes |-> NoRun]
  /\ notified = [t \in Tasks |-> None]
  /\ chased = {}
  /\ pings = [x \in Items |-> <<>>]
  /\ saved = {}
  /\ faults = 0

Fault == faults < MaxFaults /\ faults' = faults + 1

Running == {e \in Envelopes : run[e].at = "running"}

(***************************************************************************)
(* Gateway.                                                                *)
(***************************************************************************)
(* The clock moves; every job whose schedule matches sends its envelope,   *)
(* unless the gateway is down, and nobody fires it later.                  *)
Tick ==
  /\ now < Horizon
  /\ now' = now + 1
  /\ \/ net' = net \cup {<<k, now + 1>> : k \in {j \in Kinds : now + 1 \in FiresAt[j]}}
        /\ UNCHANGED faults
     \/ Fault /\ UNCHANGED net
  /\ UNCHANGED <<log, swallowed, run, notified, chased, pings, saved>>

(***************************************************************************)
(* Backend.                                                                *)
(***************************************************************************)
(* check_idempotency_cron under the key (0, minute), then _process_cron    *)
(* spawns the fan-out over all firms.                                      *)
Accept(e) ==
  /\ e \in net
  /\ net' = net \ {e}
  /\ IF e[2] \in log
     THEN swallowed' = swallowed \cup {e} /\ UNCHANGED <<log, run>>
     ELSE /\ log' = log \cup {e[2]}
          /\ run' = [run EXCEPT ![e] = [NoRun EXCEPT !.at = "running", !.firms = Firms]]
          /\ UNCHANGED swallowed
  /\ UNCHANGED <<now, notified, chased, pings, saved, faults>>

(* The request is lost, or comes when the backend is down.                 *)
Lose(e) ==
  /\ e \in net
  /\ Fault
  /\ net' = net \ {e}
  /\ UNCHANGED <<now, log, swallowed, run, notified, chased, pings, saved>>

(* Mutant: the cooldown is not looked at.                                  *)
DueForHeartbeatAlways(f) == {t \in Tasks : FirmOf[t] = f /\ DueAt[t] <= now}

(* TaskQuery.list_due_for_heartbeat.  Tasks stay pending: nothing in the   *)
(* backend calls mark_complete or TaskQuery.update_status.                 *)
DueForHeartbeat(f) ==
  {t \in Tasks :
     /\ FirmOf[t] = f
     /\ DueAt[t] <= now
     /\ notified[t] = None \/ notified[t] + Cooldown < now}

(* What a run may find to send to a firm: the due tasks, the digest, or    *)
(* the clients without documents, whoever they are.                        *)
Lists(k, f) ==
  CASE k = "heartbeat" -> {DueForHeartbeat(f)}
    [] k = "briefing" -> {{f}}
    [] k = "chase" -> SUBSET {c \in Clients : FirmOf[c] = f}

(* The run opens a session for the next firm and reads its list.           *)
VisitFirm(e, f) ==
  /\ run[e].at = "running" /\ run[e].firm = None
  /\ f \in run[e].firms
  /\ \A g \in run[e].firms : CreatedAt[f] <= CreatedAt[g]
  /\ \E S \in Lists(e[1], f) :
        run' = [run EXCEPT ![e].firms = @ \ {f}, ![e].firm = f, ![e].list = S,
                           ![e].knew = saved]
  /\ UNCHANGED <<now, net, log, swallowed, notified, chased, pings, saved, faults>>

(* Tasks come in the order of their due dates, the rest in any order.      *)
MayBeNext(e, x) ==
  /\ run[e].at = "running" /\ run[e].item = None
  /\ x \in run[e].list
  /\ x \in Tasks => \A t \in run[e].list : DueAt[x] <= DueAt[t]

(* The chase looks at each client again, and stops at its cap.             *)
Chaseable(e, c) ==
  /\ c \notin chased /\ c \notin Marked(e)
  /\ Cardinality(run[e].marks) < ChaseCap

Skip(e, c) ==
  /\ e[1] = "chase"
  /\ MayBeNext(e, c)
  /\ ~Chaseable(e, c)
  /\ run' = [run EXCEPT ![e].list = IF Cardinality(run[e].marks) < ChaseCap
                                    THEN @ \ {c} ELSE {}]
  /\ UNCHANGED <<now, net, log, swallowed, notified, chased, pings, saved, faults>>

(* The message goes out; tasks and clients have then to be marked.         *)
Send(e, x) ==
  /\ MayBeNext(e, x)
  /\ e[1] = "chase" => Chaseable(e, x)
  /\ pings' = [pings EXCEPT ![x] = Append(@,
        [by |-> e, time |-> now, knew |-> IF e[1] = "chase" THEN saved ELSE run[e].knew])]
  /\ run' = [run EXCEPT ![e].list = @ \ {x},
                        ![e].item = IF e[1] = "briefing" THEN None ELSE x]
  /\ UNCHANGED <<now, net, log, swallowed, notified, chased, saved, faults>>

(* Mutant: a task is marked whether or not its message went out.           *)
SendFailsSilently(e, x) ==
  /\ MayBeNext(e, x)
  /\ e[1] = "chase" => Chaseable(e, x)
  /\ run' = [run EXCEPT ![e].list = @ \ {x},
                        ![e].failed = @ \cup (IF e[1] = "briefing" THEN {x} ELSE {}),
                        ![e].item = IF e[1] = "briefing" THEN None ELSE x]
  /\ UNCHANGED <<now, net, log, swallowed, notified, chased, pings, saved, faults>>

(* TelegramAPIError: logged, and on to the next one.                       *)
SendFails(e, x) ==
  /\ MayBeNext(e, x)
  /\ e[1] = "chase" => Chaseable(e, x)
  /\ run' = [run EXCEPT ![e].list = @ \ {x},
                        ![e].failed = @ \cup (IF e[1] = "briefing" THEN {x} ELSE {})]
  /\ UNCHANGED <<now, net, log, swallowed, notified, chased, pings, saved, faults>>

(* The UPDATE of a task waits for a session that has marked it and has not *)
(* committed; a chase only inserts.                                        *)
WaitsFor(e, d) ==
  /\ e # d
  /\ run[e].item \in Tasks
  /\ run[e].item \in Marked(d)

(* Mutant: no continue after a failed send.                                *)
MarkUnsent(e) ==
  /\ run[e].at = "running" /\ run[e].firm # None
  /\ \A d \in Envelopes : ~WaitsFor(e, d)
  /\ run' = [run EXCEPT ![e].marks = @ \cup {<<run[e].item, now>>}, ![e].item = None]
  /\ UNCHANGED <<now, net, log, swallowed, notified, chased, pings, saved, faults>>

(* mark_notified or record_notification, in the firm's session.            *)
Mark(e) ==
  /\ run[e].at = "running" /\ run[e].item # None
  /\ \A d \in Envelopes : ~WaitsFor(e, d)
  /\ run' = [run EXCEPT ![e].marks = @ \cup {<<run[e].item, now>>}, ![e].item = None]
  /\ UNCHANGED <<now, net, log, swallowed, notified, chased, pings, saved, faults>>

(* The session is closed; after the last firm the run is done.             *)
Leave(r) == [r EXCEPT !.at = IF r.firms = {} THEN "done" ELSE "running",
                      !.firm = None, !.list = {}, !.item = None, !.marks = {}]

GiveUp(r) == [Leave(r) EXCEPT !.failed = @ \cup {r.firm}]

FirmDone(e) ==
  /\ run[e].at = "running" /\ run[e].firm # None
  /\ run[e].list = {} /\ run[e].item = None

Committed(e) ==
  /\ notified' = [t \in Tasks |-> IF t \in Marked(e)
                                  THEN CHOOSE s \in 0..Horizon : <<t, s>> \in run[e].marks
                                  ELSE notified[t]]
  /\ chased' = chased \cup (Marked(e) \cap Clients)
  /\ saved' = saved \cup ({e} \X Marked(e))

(* Mutant: the session goes back to its pool with its row locks.           *)
LeaveFirmLocked(e) ==
  /\ FirmDone(e)
  /\ Committed(e)
  /\ run' = [run EXCEPT ![e].firm = None, ![e].at = Leave(run[e]).at]
  /\ UNCHANGED <<now, net, log, swallowed, pings, faults>>

(* The one COMMIT, after the last message.                                 *)
LeaveFirm(e) ==
  /\ FirmDone(e)
  /\ Committed(e)
  /\ run' = [run EXCEPT ![e] = Leave(@)]
  /\ UNCHANGED <<now, net, log, swallowed, pings, faults>>

(* Mutant: no try around the visit of one firm.                            *)
FirmFailsStopsRun(e) ==
  /\ run[e].at = "running" /\ run[e].firm # None
  /\ \/ \E d \in Envelopes : WaitsFor(e, d) /\ WaitsFor(d, e) /\ UNCHANGED faults
     \/ Fault
  /\ run' = [run EXCEPT ![e] = [Leave(@) EXCEPT !.failed = @ \cup {run[e].firm},
                                                !.at = "done"]]
  /\ UNCHANGED <<now, net, log, swallowed, notified, chased, pings, saved>>

(* A database error, or PostgreSQL breaking a deadlock: the session rolls  *)
(* back, what was sent stays unmarked, and _fanout goes on to the next     *)
(* firm.                                                                   *)
FirmFails(e) ==
  /\ run[e].at = "running" /\ run[e].firm # None
  /\ \/ \E d \in Envelopes : WaitsFor(e, d) /\ WaitsFor(d, e) /\ UNCHANGED faults
     \/ Fault
  /\ run' = [run EXCEPT ![e] = GiveUp(@)]
  /\ UNCHANGED <<now, net, log, swallowed, notified, chased, pings, saved>>

(* The backend dies with the runs under way; nobody starts them again.     *)
BackendDies ==
  /\ Fault
  /\ run' = [e \in Envelopes |-> IF e \in Running THEN [Leave(run[e]) EXCEPT !.at = "lost"]
                                                  ELSE run[e]]
  /\ UNCHANGED <<now, net, log, swallowed, notified, chased, pings, saved>>

RunStep(e) ==
  \/ \E f \in Firms : VisitFirm(e, f)
  \/ \E x \in run[e].list : Skip(e, x) \/ Send(e, x) \/ SendFails(e, x)
  \/ Mark(e) \/ LeaveFirm(e) \/ FirmFails(e)

Next ==
  \/ Tick
  \/ \E e \in net : Accept(e) \/ Lose(e)
  \/ \E e \in Running : RunStep(e)
  \/ BackendDies

Spec == Init /\ [][Next]_vars

(* Ready background tasks run on, and sending a message has a timeout.     *)
FairSpec == Spec /\ \A e \in Envelopes : WF_vars(RunStep(e))
-----------------------------------------------------------------------------
(***************************************************************************)
(* Correctness.                                                            *)
(***************************************************************************)
(* Nobody is pinged twice within the quiet time by a run that could know   *)
(* better: the first ping was not yet committed, or never was, when the    *)
(* second run read the database -- overlapping runs, a crash, a failed     *)
(* session.                                                                *)
Quiet(x) == IF x \in Tasks THEN Cooldown ELSE Horizon

CooldownUnlessUnsaved ==
  \A x \in Tasks \cup Clients : \A i, j \in DOMAIN pings[x] :
     i < j /\ pings[x][j].time <= pings[x][i].time + Quiet(x)
       => <<pings[x][i].by, x>> \notin pings[x][j].knew

(* A task stays silent only after a message: a committed last_notified_at  *)
(* lies at or after a message about that task, though sends fail, sessions *)
(* roll back and other runs interleave.                                    *)
SilenceIsEarned ==
  /\ \A t \in Tasks : notified[t] # None =>
        \E i \in DOMAIN pings[t] : pings[t][i].time <= notified[t]
  /\ \A c \in chased : pings[c] # <<>>

(* One firm's failure is its own: a briefing that is done has reached each *)
(* firm, but for those whose own visit failed.                             *)
FirmsAreIsolated ==
  \A e \in Envelopes : e[1] = "briefing" /\ run[e].at = "done" =>
     \A f \in Firms : \/ f \in run[e].failed
                      \/ \E i \in DOMAIN pings[f] : pings[f][i].by = e

(* Every run ends: the row locks that two overlapping heartbeats take on   *)
(* the same tasks hold up neither of them for good.                        *)
RunsEnd ==
  \A e \in Envelopes : run[e].at = "running" ~> run[e].at \in {"done", "lost"}

(***************************************************************************)
(* What the decision record claims and the code does not do.               *)
(***************************************************************************)
(* "Cron envelopes use a separate idempotency key: (kind,                  *)
(* scheduled_at_minute)" (ADR-007, Decision 2): only a second firing of    *)
(* the same job in one minute is a duplicate.                              *)
OnlyOwnKindSwallows == \A e \in swallowed : run[e].at # "none"
=============================================================================
