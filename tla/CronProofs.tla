------------------------------ MODULE CronProofs ------------------------------
(***************************************************************************)
(* For any firms, tasks, clients and schedules, any number of overlapping  *)
(* runs and any failures: nobody is pinged again by a run that could know  *)
(* of the first ping, nobody is silenced without a message, and a firm's   *)
(* failure leaves the others alone.                                        *)
(***************************************************************************)
EXTENDS Cron, TLAPS

(* What a run holds: the rows of the firm it visits, each of them once on  *)
(* its way from the list over the message to the mark.                     *)
Mine(e, x) == /\ \/ e[1] = "heartbeat" /\ x \in Tasks
                 \/ e[1] = "chase" /\ x \in Clients
              /\ FirmOf[x] = run[e].firm

Holds(e) ==
  /\ e[1] = "briefing" => run[e].list \subseteq {run[e].firm} /\ run[e].item = None
                          /\ run[e].marks = {}
  /\ e[1] # "briefing" =>
       /\ \A x \in run[e].list : Mine(e, x)
       /\ \A m \in run[e].marks : Mine(e, m[1])
       /\ run[e].item # None => Mine(e, run[e].item)
  /\ run[e].item \notin run[e].list
  /\ \A m \in run[e].marks : m[1] \notin run[e].list /\ m[1] # run[e].item

Outside(e) ==
  /\ run[e].firm = None => run[e].list = {} /\ run[e].item = None /\ run[e].marks = {}
  /\ run[e].at # "running" => run[e].firm = None
  /\ run[e].firm \notin run[e].firms

(* A mark is no older than the messages of its run, and what is committed  *)
(* under it; two sessions never hold the mark of one task.                 *)
MarkTimes(e) == \A m \in run[e].marks :
  /\ \E i \in DOMAIN pings[m[1]] : pings[m[1]][i].time <= m[2]
  /\ \A i \in DOMAIN pings[m[1]] : pings[m[1]][i].by = e => pings[m[1]][i].time <= m[2]
  /\ m[1] \in Tasks /\ notified[m[1]] # None => notified[m[1]] <= m[2]

OneMark(e) == \A m, n \in run[e].marks : m[1] = n[1] => m = n

Exclusive == \A e, d \in Envelopes : \A m \in run[e].marks : \A n \in run[d].marks :
               m[1] \in Tasks /\ m[1] = n[1] => e = d

Announced(e) == run[e].item # None => pings[run[e].item] # <<>>

(* What a heartbeat still has to send is overdue as far as it could know.  *)
Overdue(e) == e[1] = "heartbeat" =>
  /\ run[e].knew \subseteq saved
  /\ \A x \in run[e].list : \A i \in DOMAIN pings[x] :
       <<pings[x][i].by, x>> \in run[e].knew => pings[x][i].time + Cooldown < now

InTime(e) == \A m \in run[e].marks : m[2] <= now

Local(e) == Holds(e) /\ Outside(e) /\ OneMark(e) /\ InTime(e)

Shape == TypeOK /\ \A e \in Envelopes : Local(e)

(* A saved message is in the tables, and its run has left that firm.       *)
SavedInv == \A d \in Envelopes, x \in Items : <<d, x>> \in saved =>
  /\ x \in Tasks => /\ notified[x] # None
                    /\ \A i \in DOMAIN pings[x] :
                         pings[x][i].by = d => pings[x][i].time <= notified[x]
  /\ x \in Clients => x \in chased
  /\ x \in Tasks \cup Clients
  /\ run[d].at # "none" /\ FirmOf[x] \notin run[d].firms /\ run[d].firm # FirmOf[x]

PastInv == /\ \A x \in Items : \A i \in DOMAIN pings[x] : pings[x][i].time <= now
           /\ \A t \in Tasks : notified[t] # None => notified[t] <= now

NetInv == \A e \in Envelopes : /\ e \in net => run[e].at = "none"
                               /\ e[2] > now => e \notin net /\ run[e].at = "none"

PingInv == /\ (\A e \in Envelopes : MarkTimes(e) /\ Announced(e) /\ Overdue(e))
           /\ Exclusive /\ SavedInv /\ PastInv /\ NetInv
           /\ CooldownUnlessUnsaved /\ SilenceIsEarned
-----------------------------------------------------------------------------
LEMMA EnvelopeParts ==
  ASSUME NEW e \in Envelopes
  PROVE  e[1] \in {"heartbeat", "briefing", "chase"} /\ e[2] \in 0..Horizon /\ e = <<e[1], e[2]>>
BY DEF Envelopes, Kinds

LEMMA NoRunType ==
  /\ NoRun \in Run /\ NoRun.at = "none" /\ NoRun.firms = {} /\ NoRun.firm = None
  /\ NoRun.list = {} /\ NoRun.item = None /\ NoRun.marks = {} /\ NoRun.failed = {}
  /\ NoRun.knew = {}
BY DEF NoRun, Run

(* One run is replaced.                                                    *)
LEMMA Replaced ==
  ASSUME run \in [Envelopes -> Run], NEW e \in Envelopes, NEW r \in Run,
         run' = [run EXCEPT ![e] = r]
  PROVE  /\ run' \in [Envelopes -> Run] /\ run'[e] = r
         /\ \A d \in Envelopes \ {e} : run'[d] = run[d]
OBVIOUS

LEMMA AcceptEffect ==
  ASSUME TypeOK, NEW e \in net, Accept(e)
  PROVE  \/ UNCHANGED run
         \/ /\ run' \in [Envelopes -> Run] /\ \A d \in Envelopes \ {e} : run'[d] = run[d]
            /\ run'[e].at = "running" /\ run'[e].firms = Firms /\ run'[e].firm = None
            /\ run'[e].list = {} /\ run'[e].item = None /\ run'[e].marks = {}
            /\ run'[e].failed = {} /\ run'[e].knew = {}
<1> DEFINE r == [NoRun EXCEPT !.at = "running", !.firms = Firms]
<1>1. /\ r \in Run /\ r.at = "running" /\ r.firms = Firms /\ r.firm = None
      /\ r.list = {} /\ r.item = None /\ r.marks = {} /\ r.failed = {} /\ r.knew = {}
  BY DEF NoRun, Run
<1>2. run' = run \/ run' = [run EXCEPT ![e] = r]
  BY DEF Accept
<1> HIDE DEF r
<1>3. run \in [Envelopes -> Run] /\ e \in Envelopes
  BY DEF TypeOK
<1> QED
  BY <1>1, <1>2, <1>3, Replaced

LEMMA VisitEffect ==
  ASSUME TypeOK, NEW e \in Envelopes, NEW f \in Firms, VisitFirm(e, f)
  PROVE  /\ run' \in [Envelopes -> Run] /\ \A d \in Envelopes \ {e} : run'[d] = run[d]
         /\ run'[e].at = run[e].at /\ run'[e].firms = run[e].firms \ {f} /\ run'[e].firm = f
         /\ run'[e].list \in Lists(e[1], f) /\ run'[e].item = run[e].item
         /\ run'[e].marks = run[e].marks
         /\ run'[e].failed = run[e].failed /\ run'[e].knew = saved
<1>1. PICK S \in Lists(e[1], f) :
        run' = [run EXCEPT ![e].firms = @ \ {f}, ![e].firm = f, ![e].list = S, ![e].knew = saved]
  BY DEF VisitFirm
<1>2. S \subseteq Items
  BY EnvelopeParts DEF Lists, Items, DueForHeartbeat
<1>3. run \in [Envelopes -> Run] /\ run[e] \in Run /\ saved \subseteq Envelopes \X Items
  BY DEF TypeOK
<1> DEFINE r == [run[e] EXCEPT !.firms = @ \ {f}, !.firm = f, !.list = S, !.knew = saved]
<1>4. /\ r \in Run /\ r.at = run[e].at /\ r.firms = run[e].firms \ {f} /\ r.firm = f
      /\ r.list = S /\ r.item = run[e].item /\ r.marks = run[e].marks
      /\ r.failed = run[e].failed /\ r.knew = saved
  BY <1>2, <1>3 DEF Run
<1>5. run' = [run EXCEPT ![e] = r]
  BY <1>1, <1>3
<1> HIDE DEF r
<1> QED
  BY <1>3, <1>4, <1>5, Replaced

(* What is tried is taken from the list: skipped, failed, or sent and then *)
(* to be marked.                                                           *)
Tried(e, x) ==
  /\ run' \in [Envelopes -> Run] /\ \A d \in Envelopes \ {e} : run'[d] = run[d]
  /\ run'[e].at = run[e].at /\ run'[e].firms = run[e].firms /\ run'[e].firm = run[e].firm
  /\ x \notin run'[e].list /\ run'[e].list \subseteq run[e].list
  /\ run'[e].marks = run[e].marks /\ run[e].failed \subseteq run'[e].failed
  /\ run'[e].knew = run[e].knew

LEMMA SkipEffect ==
  ASSUME TypeOK, NEW e \in Envelopes, NEW c, Skip(e, c)
  PROVE  Tried(e, c) /\ run'[e].item = run[e].item
<1> DEFINE L == IF Cardinality(run[e].marks) < ChaseCap THEN run[e].list \ {c} ELSE {}
           r == [run[e] EXCEPT !.list = L]
<1>1. run \in [Envelopes -> Run] /\ run[e] \in Run
  BY DEF TypeOK
<1>2. run' = [run EXCEPT ![e] = r]
  BY <1>1 DEF Skip
<1>3. L \subseteq run[e].list /\ c \notin L
  OBVIOUS
<1> HIDE DEF L
<1>4. /\ r \in Run /\ r.at = run[e].at /\ r.firms = run[e].firms /\ r.firm = run[e].firm
      /\ r.list = L /\ r.item = run[e].item /\ r.marks = run[e].marks
      /\ r.failed = run[e].failed /\ r.knew = run[e].knew
  BY <1>1, <1>3 DEF Run
<1> HIDE DEF r
<1> QED
  BY <1>1, <1>2, <1>3, <1>4, Replaced DEF Tried

LEMMA SendEffect ==
  ASSUME TypeOK, NEW e \in Envelopes, NEW x, Send(e, x)
  PROVE  /\ Tried(e, x) /\ run'[e].item = IF e[1] = "briefing" THEN None ELSE x
         /\ x \in run[e].list /\ run[e].item = None /\ run[e].at = "running" /\ x \in Items
<1> DEFINE n == IF e[1] = "briefing" THEN None ELSE x
           r == [run[e] EXCEPT !.list = @ \ {x}, !.item = n]
<1>1. run \in [Envelopes -> Run] /\ run[e] \in Run
  BY DEF TypeOK
<1>2. run' = [run EXCEPT ![e] = r]
  BY <1>1 DEF Send
<1>3. x \in run[e].list /\ run[e].item = None /\ run[e].at = "running" /\ x \in Items
  BY <1>1 DEF Send, MayBeNext, Run
<1>4. n \in Items \cup {None}
  BY <1>3
<1> HIDE DEF n
<1>5. /\ r \in Run /\ r.at = run[e].at /\ r.firms = run[e].firms /\ r.firm = run[e].firm
      /\ r.list = run[e].list \ {x} /\ r.item = n /\ r.marks = run[e].marks
      /\ r.failed = run[e].failed /\ r.knew = run[e].knew
  BY <1>1, <1>4 DEF Run
<1> HIDE DEF r
<1> QED
  BY <1>1, <1>2, <1>3, <1>5, Replaced DEF Tried, n

LEMMA SendFailsEffect ==
  ASSUME TypeOK, NEW e \in Envelopes, NEW x, SendFails(e, x), e[1] = "briefing" => x \in Firms
  PROVE  /\ Tried(e, x) /\ run'[e].item = run[e].item
         /\ e[1] = "briefing" => x \in run'[e].failed
         /\ run'[e].list = run[e].list \ {x}
<1> DEFINE b == IF e[1] = "briefing" THEN {x} ELSE {}
           r == [run[e] EXCEPT !.list = @ \ {x}, !.failed = @ \cup b]
<1>1. run \in [Envelopes -> Run] /\ run[e] \in Run
  BY DEF TypeOK
<1>2. run' = [run EXCEPT ![e] = r]
  BY <1>1 DEF SendFails
<1>3. b \subseteq Firms /\ (e[1] = "briefing" => x \in b)
  OBVIOUS
<1> HIDE DEF b
<1>4. /\ r \in Run /\ r.at = run[e].at /\ r.firms = run[e].firms /\ r.firm = run[e].firm
      /\ r.list = run[e].list \ {x} /\ r.item = run[e].item /\ r.marks = run[e].marks
      /\ r.failed = run[e].failed \cup b /\ r.knew = run[e].knew
  BY <1>1, <1>3 DEF Run
<1> HIDE DEF r
<1> QED
  BY <1>1, <1>2, <1>3, <1>4, Replaced DEF Tried

LEMMA MarkEffect ==
  ASSUME TypeOK, NEW e \in Envelopes, Mark(e)
  PROVE  /\ run' \in [Envelopes -> Run] /\ \A d \in Envelopes \ {e} : run'[d] = run[d]
         /\ run'[e].at = run[e].at /\ run'[e].firms = run[e].firms
         /\ run'[e].firm = run[e].firm /\ run'[e].list = run[e].list /\ run'[e].item = None
         /\ run'[e].marks = run[e].marks \cup {<<run[e].item, now>>}
         /\ run'[e].failed = run[e].failed /\ run'[e].knew = run[e].knew
         /\ run[e].item \in Items /\ run[e].item # None
<1> DEFINE r == [run[e] EXCEPT !.marks = @ \cup {<<run[e].item, now>>}, !.item = None]
<1>1. run \in [Envelopes -> Run] /\ run[e] \in Run /\ now \in Nat
  BY TimesAreNat DEF TypeOK
<1>2. run' = [run EXCEPT ![e] = r]
  BY <1>1 DEF Mark
<1>3. run[e].item \in Items /\ run[e].item # None
  BY <1>1 DEF Mark, Run
<1>4. <<run[e].item, now>> \in Items \X Nat
  BY <1>1, <1>3
<1>5. /\ r \in Run /\ r.at = run[e].at /\ r.firms = run[e].firms /\ r.firm = run[e].firm
      /\ r.list = run[e].list /\ r.item = None
      /\ r.marks = run[e].marks \cup {<<run[e].item, now>>}
      /\ r.failed = run[e].failed /\ r.knew = run[e].knew
  BY <1>1, <1>4 DEF Run
<1> HIDE DEF r
<1> QED
  BY <1>1, <1>2, <1>3, <1>5, Replaced

LEMMA LeaveParts ==
  ASSUME NEW r \in Run
  PROVE  /\ Leave(r) \in Run /\ Leave(r).at = (IF r.firms = {} THEN "done" ELSE "running")
         /\ Leave(r).firms = r.firms /\ Leave(r).firm = None /\ Leave(r).list = {}
         /\ Leave(r).item = None /\ Leave(r).marks = {} /\ Leave(r).failed = r.failed
         /\ Leave(r).knew = r.knew
BY DEF Leave, Run

(* Whoever leaves a firm has nothing left of it.                           *)
Left(e) ==
  /\ run' \in [Envelopes -> Run] /\ run'[e].firms = run[e].firms /\ run'[e].firm = None
  /\ run'[e].list = {} /\ run'[e].item = None /\ run'[e].marks = {}
  /\ run'[e].knew = run[e].knew

LEMMA LeaveEffect ==
  ASSUME TypeOK, NEW e \in Envelopes, LeaveFirm(e)
  PROVE  /\ Left(e) /\ \A d \in Envelopes \ {e} : run'[d] = run[d]
         /\ run'[e].at = (IF run[e].firms = {} THEN "done" ELSE "running")
         /\ run'[e].failed = run[e].failed
<1>1. run \in [Envelopes -> Run] /\ run[e] \in Run
  BY DEF TypeOK
<1>2. run' = [run EXCEPT ![e] = Leave(run[e])]
  BY <1>1 DEF LeaveFirm
<1> QED
  BY <1>1, <1>2, LeaveParts, Replaced DEF Left

LEMMA FirmFailsEffect ==
  ASSUME TypeOK, NEW e \in Envelopes, FirmFails(e)
  PROVE  /\ Left(e) /\ \A d \in Envelopes \ {e} : run'[d] = run[d]
         /\ run'[e].at = (IF run[e].firms = {} THEN "done" ELSE "running")
         /\ run'[e].failed = run[e].failed \cup {run[e].firm}
<1>1. run \in [Envelopes -> Run] /\ run[e] \in Run
  BY DEF TypeOK
<1>2. run' = [run EXCEPT ![e] = GiveUp(run[e])]
  BY <1>1 DEF FirmFails
<1>3. run[e].firm \in Firms
  BY <1>1 DEF FirmFails, Run
<1> DEFINE l == Leave(run[e])
<1>4. /\ l \in Run /\ l.at = (IF run[e].firms = {} THEN "done" ELSE "running")
      /\ l.firms = run[e].firms /\ l.firm = None /\ l.list = {}
      /\ l.item = None /\ l.marks = {} /\ l.failed = run[e].failed /\ l.knew = run[e].knew
  BY <1>1, LeaveParts
<1>5. GiveUp(run[e]) = [l EXCEPT !.failed = @ \cup {run[e].firm}]
  BY DEF GiveUp
<1> HIDE DEF l
<1> DEFINE r == GiveUp(run[e])
<1>6. /\ r \in Run /\ r.at = l.at /\ r.firms = l.firms /\ r.firm = None /\ r.list = {}
      /\ r.item = None /\ r.marks = {} /\ r.failed = l.failed \cup {run[e].firm}
      /\ r.knew = l.knew
  BY <1>3, <1>4, <1>5 DEF Run
<1> QED
  BY <1>1, <1>2, <1>4, <1>6, Replaced DEF Left

LEMMA DiesEffect ==
  ASSUME TypeOK, BackendDies
  PROVE  \A e \in Envelopes : \/ run'[e] = run[e] /\ run[e].at # "running"
                              \/ Left(e) /\ run'[e].at = "lost" /\ run[e].at = "running"
<1>1. run \in [Envelopes -> Run]
  BY DEF TypeOK
<1>2. run' = [e \in Envelopes |-> IF e \in Running THEN [Leave(run[e]) EXCEPT !.at = "lost"]
                                                   ELSE run[e]]
  BY DEF BackendDies
<1>3. ASSUME NEW e \in Envelopes
      PROVE  LET r == [Leave(run[e]) EXCEPT !.at = "lost"]
             IN  /\ r \in Run /\ r.at = "lost" /\ r.firms = run[e].firms /\ r.firm = None
                 /\ r.list = {} /\ r.item = None /\ r.marks = {} /\ r.knew = run[e].knew
  <2> DEFINE l == Leave(run[e])
  <2>1. /\ l \in Run /\ l.firms = run[e].firms /\ l.firm = None /\ l.list = {}
        /\ l.item = None /\ l.marks = {} /\ l.knew = run[e].knew
    BY <1>1, LeaveParts
  <2> HIDE DEF l
  <2>2. LET r == [l EXCEPT !.at = "lost"]
        IN  /\ r \in Run /\ r.at = "lost" /\ r.firms = l.firms /\ r.firm = l.firm
            /\ r.list = l.list /\ r.item = l.item /\ r.marks = l.marks /\ r.knew = l.knew
    BY <2>1 DEF Run
  <2> QED
    BY <2>1, <2>2 DEF l
<1>4. run' \in [Envelopes -> Run]
  BY <1>1, <1>2, <1>3, Zenon
<1>5. ASSUME NEW e \in Envelopes
      PROVE  \/ run'[e] = run[e] /\ e \notin Running
             \/ run'[e] = [Leave(run[e]) EXCEPT !.at = "lost"] /\ e \in Running
  BY <1>2
<1> QED
  BY <1>3, <1>4, <1>5, Zenon DEF Left, Running
-----------------------------------------------------------------------------
LEMMA InitShape == Init => Shape
<1> SUFFICES ASSUME Init PROVE Shape
  OBVIOUS
<1>1. \A e \in Envelopes : run[e] = NoRun
  BY DEF Init
<1>2. TypeOK
  <2>1. run \in [Envelopes -> Run]
    BY NoRunType DEF Init
  <2>2. pings \in [Items -> Seq([by : Envelopes, time : 0..Horizon,
                                knew : SUBSET (Envelopes \X Items)])]
    BY DEF Init
  <2> QED
    BY <2>1, <2>2, TimesAreNat DEF Init, TypeOK
<1>3. \A e \in Envelopes : Local(e)
  BY <1>1, NoRunType DEF Local, Holds, Outside, OneMark, InTime
<1> QED
  BY <1>2, <1>3 DEF Shape

LEMMA LocalKept ==
  ASSUME TypeOK, NEW e \in Envelopes, Local(e), run'[e] = run[e],
         now' = now \/ now' = now + 1
  PROVE  Local(e)'
<1>1. Holds(e)' /\ Outside(e)' /\ OneMark(e)'
  BY DEF Local, Holds, Outside, OneMark, Mine
<1>2. InTime(e)'
  <2>1. now \in Nat /\ \A m \in run[e].marks : m[2] \in Nat
    BY TimesAreNat DEF TypeOK, Run
  <2> QED
    BY <2>1 DEF Local, InTime
<1> QED
  BY <1>1, <1>2 DEF Local

(* The firms to visit, and what a run finds there.                         *)
LEMMA ListIsMine ==
  ASSUME NEW e \in Envelopes, NEW f \in Firms, NEW x, NEW S \in Lists(e[1], f), x \in S
  PROVE  /\ e[1] = "briefing" => x = f
         /\ e[1] # "briefing" => \/ e[1] = "heartbeat" /\ x \in DueForHeartbeat(f)
                                 \/ e[1] = "chase" /\ x \in Clients /\ FirmOf[x] = f
BY EnvelopeParts DEF Lists

LEMMA LocalVisit ==
  ASSUME TypeOK, NEW e \in Envelopes, NEW f \in Firms, VisitFirm(e, f), Local(e)
  PROVE  Local(e)'
<1>1. /\ run'[e].at = run[e].at /\ run'[e].firms = run[e].firms \ {f} /\ run'[e].firm = f
      /\ run'[e].list \in Lists(e[1], f) /\ run'[e].item = run[e].item
      /\ run'[e].marks = run[e].marks
  BY VisitEffect
<1>2. run[e].item = None /\ run[e].marks = {} /\ run[e].at = "running"
  BY DEF VisitFirm, Local, Outside
<1>3. f # None /\ run'[e].item = None /\ run'[e].marks = {} /\ run'[e].at = "running"
  BY <1>1, <1>2, ItemsAreDistinct
<1>4. \A x \in run'[e].list : /\ e[1] = "briefing" => x = f
                              /\ e[1] # "briefing" => Mine(e, x)'
  BY <1>1, ListIsMine DEF DueForHeartbeat, Mine
<1>5. None \notin run'[e].list
  <2>1. \A x \in run'[e].list : x \in Tasks \/ x \in Clients \/ x \in Firms
    BY <1>4 DEF Mine
  <2> QED
    BY <2>1, ItemsAreDistinct
<1> QED
  BY <1>1, <1>3, <1>4, <1>5 DEF Local, Holds, Outside, OneMark, InTime

LEMMA LocalTried ==
  ASSUME TypeOK, NEW e \in Envelopes, NEW x, Tried(e, x), Local(e), now' = now,
         \/ run'[e].item = run[e].item
         \/ /\ run'[e].item = IF e[1] = "briefing" THEN None ELSE x
            /\ x \in run[e].list /\ run[e].item = None /\ run[e].at = "running"
  PROVE  Local(e)'
<1>1. /\ run'[e].at = run[e].at /\ run'[e].firms = run[e].firms /\ run'[e].firm = run[e].firm
      /\ x \notin run'[e].list /\ run'[e].list \subseteq run[e].list
      /\ run'[e].marks = run[e].marks
  BY DEF Tried
<1>2. \A y : Mine(e, y)' <=> Mine(e, y)
  BY <1>1 DEF Mine
<1>3. None \notin run[e].list
  BY ItemsAreDistinct DEF TypeOK, Run, Items
<1>4. \A m \in run[e].marks : m[1] # None
  BY ItemsAreDistinct DEF TypeOK, Run, Items
<1>5. OneMark(e)' /\ InTime(e)'
  BY <1>1 DEF Local, OneMark, InTime
<1>6. Holds(e)'
  BY <1>1, <1>2, <1>3, <1>4 DEF Local, Holds
<1>7. Outside(e)'
  BY <1>1 DEF Local, Outside
<1> QED
  BY <1>5, <1>6, <1>7 DEF Local

LEMMA LocalMark ==
  ASSUME TypeOK, NEW e \in Envelopes, Mark(e), Local(e)
  PROVE  Local(e)'
<1> DEFINE n == <<run[e].item, now>>
<1>1. /\ run'[e].at = run[e].at /\ run'[e].firms = run[e].firms
      /\ run'[e].firm = run[e].firm /\ run'[e].list = run[e].list /\ run'[e].item = None
      /\ run'[e].marks = run[e].marks \cup {n}
      /\ run[e].item \in Items /\ run[e].item # None /\ now' = now
  BY MarkEffect DEF Mark
<1>2. n[1] = run[e].item /\ n[2] = now
  OBVIOUS
<1> HIDE DEF n
<1>3. \A y : Mine(e, y)' <=> Mine(e, y)
  BY <1>1 DEF Mine
<1>4. None \notin run[e].list /\ \A m \in run[e].marks : m[1] # None
  BY ItemsAreDistinct DEF TypeOK, Run, Items
<1>5. now \in Nat
  BY DEF TypeOK
<1>6. OneMark(e)' /\ InTime(e)'
  BY <1>1, <1>2, <1>5 DEF Local, Holds, OneMark, InTime
<1>7. Holds(e)'
  BY <1>1, <1>2, <1>3, <1>4 DEF Local, Holds
<1>8. Outside(e)'
  BY <1>1 DEF Local, Outside
<1> QED
  BY <1>6, <1>7, <1>8 DEF Local

LEMMA LocalLeft ==
  ASSUME NEW e \in Envelopes, Left(e), TypeOK
  PROVE  Local(e)'
<1>1. /\ run'[e].firm = None /\ run'[e].firms = run[e].firms
      /\ run'[e].list = {} /\ run'[e].item = None /\ run'[e].marks = {}
  BY DEF Left
<1>2. None \notin run[e].firms
  BY ItemsAreDistinct DEF TypeOK, Run
<1> QED
  BY <1>1, <1>2 DEF Local, Holds, Outside, OneMark, InTime

(* What a step does to the runs: nothing, or it moves one, or all fall.    *)
LEMMA LocalStep ==
  ASSUME Shape, [Next]_vars
  PROVE  \A e \in Envelopes : Local(e)'
<1>1. TypeOK /\ \A e \in Envelopes : Local(e)
  BY DEF Shape
<1>2. ASSUME run' = run, now' = now \/ now' = now + 1
      PROVE  \A e \in Envelopes : Local(e)'
  BY <1>1, <1>2, LocalKept
<1>3. ASSUME NEW e \in Envelopes, \A d \in Envelopes \ {e} : run'[d] = run[d], Local(e)',
             now' = now
      PROVE  \A d \in Envelopes : Local(d)'
  <2>1. \A d \in Envelopes \ {e} : Local(d)'
    BY <1>1, <1>3, LocalKept
  <2> QED
    BY <1>3, <2>1
<1>4. CASE Tick \/ (\E e \in net : Lose(e)) \/ UNCHANGED vars
  BY <1>2, <1>4 DEF Tick, Lose, vars
<1>5. CASE \E e \in net : Accept(e)
  <2>1. PICK e \in net : Accept(e)
    BY <1>5
  <2>2. e \in Envelopes /\ now' = now
    BY <1>1, <2>1 DEF TypeOK, Accept
  <2>3. CASE UNCHANGED run
    BY <1>2, <2>2, <2>3
  <2>4. CASE /\ \A d \in Envelopes \ {e} : run'[d] = run[d]
             /\ run'[e].at = "running" /\ run'[e].firms = Firms /\ run'[e].firm = None
             /\ run'[e].list = {} /\ run'[e].item = None /\ run'[e].marks = {}
    <3>1. Local(e)'
      BY <2>4, ItemsAreDistinct DEF Local, Holds, Outside, OneMark, InTime
    <3> QED
      BY <1>3, <2>2, <2>4, <3>1
  <2> QED
    BY <1>1, <2>1, <2>3, <2>4, AcceptEffect
<1>6. CASE \E e \in Running : RunStep(e)
  <2>1. PICK e \in Envelopes : RunStep(e)
    BY <1>6 DEF Running
  <2>2. CASE \E f \in Firms : VisitFirm(e, f)
    <3>1. PICK f \in Firms : VisitFirm(e, f)
      BY <2>2
    <3> QED
      BY <1>1, <1>3, <3>1, LocalVisit, VisitEffect DEF VisitFirm
  <2>3. CASE \E x \in run[e].list : Skip(e, x)
    <3>1. PICK x \in run[e].list : Skip(e, x)
      BY <2>3
    <3>2. Tried(e, x) /\ run'[e].item = run[e].item /\ now' = now
      BY <1>1, <3>1, SkipEffect DEF Skip
    <3> QED
      BY <1>1, <1>3, <3>2, LocalTried DEF Tried
  <2>4. CASE \E x \in run[e].list : Send(e, x)
    <3>1. PICK x \in run[e].list : Send(e, x)
      BY <2>4
    <3>2. /\ Tried(e, x) /\ run'[e].item = IF e[1] = "briefing" THEN None ELSE x
          /\ x \in run[e].list /\ run[e].item = None /\ run[e].at = "running" /\ now' = now
      BY <1>1, <3>1, SendEffect DEF Send
    <3> QED
      BY <1>1, <1>3, <3>2, LocalTried DEF Tried
  <2>5. CASE \E x \in run[e].list : SendFails(e, x)
    <3>1. PICK x \in run[e].list : SendFails(e, x)
      BY <2>5
    <3>2. e[1] = "briefing" => x \in Firms
      BY <1>1, <3>1 DEF Local, Holds, Outside, TypeOK, Run
    <3>3. Tried(e, x) /\ run'[e].item = run[e].item /\ now' = now
      BY <1>1, <3>1, <3>2, SendFailsEffect DEF SendFails
    <3> QED
      BY <1>1, <1>3, <3>3, LocalTried DEF Tried
  <2>6. CASE Mark(e)
    BY <1>1, <1>3, <2>6, LocalMark, MarkEffect DEF Mark
  <2>7. CASE LeaveFirm(e)
    BY <1>1, <1>3, <2>7, LocalLeft, LeaveEffect DEF LeaveFirm
  <2>8. CASE FirmFails(e)
    BY <1>1, <1>3, <2>8, LocalLeft, FirmFailsEffect DEF FirmFails
  <2> QED
    BY <2>1, <2>2, <2>3, <2>4, <2>5, <2>6, <2>7, <2>8 DEF RunStep
<1>7. CASE BackendDies
  <2> SUFFICES ASSUME NEW e \in Envelopes PROVE Local(e)'
    OBVIOUS
  <2>1. now' = now
    BY <1>7 DEF BackendDies
  <2> QED
    BY <1>1, <1>7, <2>1, DiesEffect, LocalKept, LocalLeft
<1> QED
  BY <1>4, <1>5, <1>6, <1>7, Zenon DEF Next

LEMMA RunTypeStep ==
  ASSUME Shape, [Next]_vars
  PROVE  run' \in [Envelopes -> Run]
<1>1. TypeOK
  BY DEF Shape
<1>2. run \in [Envelopes -> Run]
  BY <1>1 DEF TypeOK
<1>3. CASE UNCHANGED run
  BY <1>2, <1>3
<1>4. CASE \E e \in net : Accept(e)
  BY <1>1, <1>2, <1>4, AcceptEffect
<1>5. CASE \E e \in Running : RunStep(e)
  <2>1. PICK e \in Envelopes : RunStep(e)
    BY <1>5 DEF Running
  <2>2. CASE \E f \in Firms : VisitFirm(e, f)
    BY <1>1, <2>2, VisitEffect
  <2>3. CASE \E x \in run[e].list : Skip(e, x) \/ Send(e, x)
    BY <1>1, <2>3, SkipEffect, SendEffect DEF Tried
  <2>4. CASE \E x \in run[e].list : SendFails(e, x)
    <3>1. PICK x \in run[e].list : SendFails(e, x)
      BY <2>4
    <3>2. e[1] = "briefing" => x \in Firms
      BY <3>1 DEF Shape, Local, Holds, Outside, TypeOK, Run
    <3> QED
      BY <1>1, <3>1, <3>2, SendFailsEffect DEF Tried
  <2>5. CASE Mark(e)
    BY <1>1, <2>5, MarkEffect
  <2>6. CASE LeaveFirm(e) \/ FirmFails(e)
    BY <1>1, <2>6, LeaveEffect, FirmFailsEffect DEF Left
  <2> QED
    BY <2>1, <2>2, <2>3, <2>4, <2>5, <2>6 DEF RunStep
<1>6. CASE BackendDies
  <2>1. (\E e \in Envelopes : run[e].at = "running") => run' \in [Envelopes -> Run]
    BY <1>1, <1>6, DiesEffect DEF Left
  <2>2. (\A e \in Envelopes : run[e].at # "running") => run' = run
    <3> SUFFICES ASSUME \A e \in Envelopes : run[e].at # "running" PROVE run' = run
      OBVIOUS
    <3>1. \A e \in Envelopes : e \notin Running
      BY DEF Running
    <3>2. run' = [e \in Envelopes |-> run[e]]
      BY <1>6, <3>1 DEF BackendDies
    <3> QED
      BY <1>2, <3>2
  <2> QED
    BY <1>2, <2>1, <2>2
<1> QED
  BY <1>3, <1>4, <1>5, <1>6, Zenon DEF Next, Tick, Lose, vars

(* One commit: each mark becomes the time of its task.                     *)
LEMMA MarkTime ==
  ASSUME Shape, NEW e \in Envelopes, NEW t \in Marked(e)
  PROVE  LET s == CHOOSE s \in 0..Horizon : <<t, s>> \in run[e].marks
         IN  s \in 0..Horizon /\ <<t, s>> \in run[e].marks
<1>1. PICK m \in run[e].marks : m[1] = t
  BY DEF Marked
<1>2. m \in Items \X Nat /\ m[2] <= now /\ now \in 0..Horizon
  BY DEF Shape, TypeOK, Run, Local, InTime
<1>3. m = <<t, m[2]>> /\ m[2] \in 0..Horizon
  BY <1>1, <1>2, TimesAreNat
<1> QED
  BY <1>3

LEMMA CommitEffect ==
  ASSUME Shape, NEW e \in Envelopes, Committed(e)
  PROVE  /\ notified' \in [Tasks -> (0..Horizon) \cup {None}]
         /\ \A t \in Tasks :
              IF t \in Marked(e)
              THEN <<t, notified'[t]>> \in run[e].marks /\ notified'[t] \in 0..Horizon
              ELSE notified'[t] = notified[t]
         /\ chased' = chased \cup (Marked(e) \cap Clients)
         /\ saved' = saved \cup ({e} \X Marked(e))
         /\ Marked(e) \subseteq Items
<1>1. notified \in [Tasks -> (0..Horizon) \cup {None}] /\ Marked(e) \subseteq Items
  BY DEF Shape, TypeOK, Run, Marked
<1> DEFINE S(t) == CHOOSE s \in 0..Horizon : <<t, s>> \in run[e].marks
<1>2. \A t \in Marked(e) : S(t) \in 0..Horizon /\ <<t, S(t)>> \in run[e].marks
  BY MarkTime
<1>3. notified' = [t \in Tasks |-> IF t \in Marked(e) THEN S(t) ELSE notified[t]]
  BY DEF Committed
<1> HIDE DEF S
<1>4. chased' = chased \cup (Marked(e) \cap Clients) /\ saved' = saved \cup ({e} \X Marked(e))
  BY DEF Committed
<1>5. \A t \in Tasks : notified'[t] = IF t \in Marked(e) THEN S(t) ELSE notified[t]
  BY <1>3
<1>6. notified' \in [Tasks -> (0..Horizon) \cup {None}]
  BY <1>1, <1>2, <1>3
<1> QED
  BY <1>1, <1>2, <1>4, <1>5, <1>6

Ping == [by : Envelopes, time : 0..Horizon, knew : SUBSET (Envelopes \X Items)]

Rest == /\ now \in 0..Horizon
        /\ net \subseteq Envelopes /\ log \subseteq 0..Horizon
        /\ swallowed \subseteq Envelopes
        /\ notified \in [Tasks -> (0..Horizon) \cup {None}]
        /\ chased \subseteq Clients
        /\ pings \in [Items -> Seq(Ping)] /\ saved \subseteq Envelopes \X Items
        /\ faults \in 0..MaxFaults

LEMMA RestStep ==
  ASSUME Shape, [Next]_vars
  PROVE  Rest'
<1> USE DEF Rest
<1>2. TypeOK /\ Rest /\ Horizon \in Nat /\ MaxFaults \in Nat
  BY TimesAreNat DEF Shape, TypeOK, Ping
<1>3. faults' \in 0..MaxFaults
  <2>1. UNCHANGED faults \/ Fault
    BY DEF Next, Tick, Accept, Lose, RunStep, VisitFirm, Skip, Send, SendFails, Mark,
           LeaveFirm, FirmFails, BackendDies, vars
  <2> QED
    BY <1>2, <2>1 DEF Fault
<1>4. CASE Tick
  <2>1. now' = now + 1 /\ now' \in 0..Horizon
        /\ UNCHANGED <<log, swallowed, notified, chased, pings, saved>>
    BY <1>2, <1>4 DEF Tick
  <2>2. net' = net \/ net' = net \cup {<<k, now + 1>> : k \in {j \in Kinds : now + 1 \in FiresAt[j]}}
    BY <1>4 DEF Tick
  <2>3. net' \subseteq Envelopes
    BY <1>2, <2>1, <2>2 DEF Envelopes
  <2> QED
    BY <1>2, <1>3, <2>1, <2>3
<1>5. CASE \E e \in net : Accept(e) \/ Lose(e)
  <2>1. PICK e \in net : Accept(e) \/ Lose(e)
    BY <1>5
  <2>2. e[2] \in 0..Horizon /\ e \in Envelopes
    BY <1>2, EnvelopeParts
  <2>3. /\ net' = net \ {e} /\ UNCHANGED <<now, notified, chased, pings, saved>>
        /\ log' = log \/ log' = log \cup {e[2]}
        /\ swallowed' = swallowed \/ swallowed' = swallowed \cup {e}
    BY <2>1 DEF Accept, Lose
  <2> QED
    BY <1>2, <1>3, <2>2, <2>3
<1>6. CASE \E e \in Running : RunStep(e)
  <2>1. PICK e \in Envelopes : RunStep(e)
    BY <1>6 DEF Running
  <2>2. CASE \E x \in run[e].list : Send(e, x)
    <3>1. PICK x \in run[e].list : Send(e, x)
      BY <2>2
    <3> DEFINE k == IF e[1] = "chase" THEN saved ELSE run[e].knew
               n == [by |-> e, time |-> now, knew |-> k]
    <3>2. k \in SUBSET (Envelopes \X Items) /\ x \in Items
      BY <1>2, <3>1, SendEffect DEF TypeOK, Run
    <3>3. n \in Ping
      BY <1>2, <3>2 DEF Ping
    <3>4. pings' = [pings EXCEPT ![x] = Append(@, n)]
      BY <3>1 DEF Send
    <3> HIDE DEF n
    <3>5. pings' \in [Items -> Seq(Ping)]
      <4>1. pings[x] \in Seq(Ping)
        BY <1>2, <3>2
      <4>2. Append(pings[x], n) \in Seq(Ping)
        BY <3>3, <4>1
      <4> QED
        BY <1>2, <3>2, <3>4, <4>2
    <3>6. UNCHANGED <<now, net, log, swallowed, notified, chased, saved>>
      BY <3>1 DEF Send
    <3> QED
      BY <1>2, <1>3, <3>5, <3>6
  <2>3. CASE LeaveFirm(e)
    <3>1. /\ notified' \in [Tasks -> (0..Horizon) \cup {None}]
          /\ chased' = chased \cup (Marked(e) \cap Clients)
          /\ saved' = saved \cup ({e} \X Marked(e)) /\ Marked(e) \subseteq Items
      BY <2>3, CommitEffect DEF LeaveFirm
    <3>2. UNCHANGED <<now, net, log, swallowed, pings>>
      BY <2>3 DEF LeaveFirm
    <3> QED
      BY <1>2, <1>3, <3>1, <3>2
  <2>4. CASE \/ \E f \in Firms : VisitFirm(e, f)
             \/ \E x \in run[e].list : Skip(e, x) \/ SendFails(e, x)
             \/ Mark(e) \/ FirmFails(e)
    BY <1>2, <1>3, <2>4 DEF VisitFirm, Skip, SendFails, Mark, FirmFails
  <2> QED
    BY <2>1, <2>2, <2>3, <2>4 DEF RunStep
<1>7. CASE BackendDies \/ UNCHANGED vars
  BY <1>2, <1>3, <1>7 DEF BackendDies, vars
<1> QED
  BY <1>4, <1>5, <1>6, <1>7, Zenon DEF Next

LEMMA ShapeStep == Shape /\ [Next]_vars => Shape'
BY LocalStep, RunTypeStep, RestStep DEF Shape, TypeOK, Rest, Ping

(* The variables keep their types.                                         *)
THEOREM CronTyping == Spec => []TypeOK
<1>1. Shape => TypeOK
  BY DEF Shape
<1> QED
  BY <1>1, InitShape, ShapeStep, PTL DEF Spec
-----------------------------------------------------------------------------
LEMMA InitPingInv == Init => PingInv
<1> SUFFICES ASSUME Init PROVE PingInv
  OBVIOUS
<1>1. /\ (\A e \in Envelopes : run[e] = NoRun) /\ (\A t \in Tasks : notified[t] = None)
      /\ chased = {} /\ saved = {} /\ net = {} /\ now = 0
      /\ \A x \in Items : pings[x] = <<>>
  BY DEF Init
<1>2. \A e \in Envelopes : MarkTimes(e) /\ Announced(e) /\ Overdue(e)
  BY <1>1, NoRunType DEF MarkTimes, Announced, Overdue
<1>3. Exclusive /\ SavedInv /\ PastInv /\ NetInv
  BY <1>1, NoRunType DEF Exclusive, SavedInv, PastInv, NetInv
<1>4. CooldownUnlessUnsaved /\ SilenceIsEarned
  BY <1>1 DEF CooldownUnlessUnsaved, SilenceIsEarned, Items
<1> QED
  BY <1>2, <1>3, <1>4 DEF PingInv

LEMMA Numbers ==
  ASSUME Shape
  PROVE  /\ now \in Nat /\ Cooldown \in Nat
         /\ \A t \in Tasks : notified[t] # None => notified[t] \in Nat
         /\ \A x \in Items : \A i \in DOMAIN pings[x] : pings[x][i].time \in Nat
         /\ \A e \in Envelopes : \A m \in run[e].marks : m[2] \in Nat /\ m[1] \in Items
         /\ \A e \in Envelopes : run[e].list \subseteq Items
         /\ \A e \in Envelopes : run[e].item # None => run[e].item \in Items
<1>1. TypeOK
  BY DEF Shape
<1>2. /\ now \in Nat /\ Cooldown \in Nat
      /\ \A t \in Tasks : notified[t] # None => notified[t] \in Nat
  BY <1>1, TimesAreNat DEF TypeOK
<1>3. ASSUME NEW x \in Items, NEW i \in DOMAIN pings[x]
      PROVE  pings[x][i].time \in Nat
  <2>1. pings[x] \in Seq(Ping)
    BY <1>1 DEF TypeOK, Ping
  <2>2. pings[x][i] \in Ping
    BY <2>1
  <2> QED
    BY <2>2, TimesAreNat DEF Ping
<1>4. \A e \in Envelopes : /\ \A m \in run[e].marks : m[2] \in Nat /\ m[1] \in Items
                           /\ run[e].list \subseteq Items
                           /\ run[e].item # None => run[e].item \in Items
  BY <1>1 DEF TypeOK, Run
<1> QED
  BY <1>2, <1>3, <1>4

(* A run that only drops things keeps what there is to say about it.       *)
LEMMA Shrinks ==
  ASSUME Shape, NEW e \in Envelopes, MarkTimes(e), Announced(e), Overdue(e),
         UNCHANGED <<notified, pings, saved>>, now' = now \/ now' = now + 1,
         run'[e].marks \subseteq run[e].marks, run'[e].list \subseteq run[e].list,
         run'[e].item \in {None, run[e].item}, run'[e].knew \subseteq run[e].knew
  PROVE  MarkTimes(e)' /\ Announced(e)' /\ Overdue(e)'
<1>1. MarkTimes(e)'
  BY DEF MarkTimes
<1>2. Announced(e)'
  BY DEF Announced
<1>3. \A x \in run[e].list : \A i \in DOMAIN pings[x] :
        pings[x][i].time + Cooldown < now => pings[x][i].time + Cooldown < now'
  BY Numbers
<1>4. Overdue(e)'
  BY <1>3 DEF Overdue
<1> QED
  BY <1>1, <1>2, <1>4

(* While nothing is sent or committed, the tables and the history agree.   *)
LEMMA HistoryRests ==
  ASSUME Shape, PingInv, UNCHANGED <<notified, chased, pings, saved>>,
         now' = now \/ now' = now + 1,
         \A d \in Envelopes : run[d].at # "none" =>
            /\ run'[d].at # "none" /\ run'[d].firms \subseteq run[d].firms
            /\ run'[d].firm \in {None, run[d].firm} \cup run[d].firms
  PROVE  SavedInv' /\ PastInv' /\ CooldownUnlessUnsaved' /\ SilenceIsEarned'
<1>1. PastInv'
  BY Numbers DEF PingInv, PastInv
<1>2. CooldownUnlessUnsaved' /\ SilenceIsEarned'
  BY DEF PingInv, CooldownUnlessUnsaved, SilenceIsEarned
<1>3. \A x \in Tasks \cup Clients : FirmOf[x] # None
  BY FirmOfType, ItemsAreDistinct
<1>4. SavedInv'
  BY <1>3 DEF PingInv, SavedInv
<1> QED
  BY <1>1, <1>2, <1>4

LEMMA NothingSent ==
  ASSUME Shape, PingInv, UNCHANGED <<notified, chased, pings, saved>>,
         now' = now \/ now' = now + 1, NetInv',
         \A d \in Envelopes :
            /\ run[d].at # "none" =>
                  /\ run'[d].at # "none" /\ run'[d].firms \subseteq run[d].firms
                  /\ run'[d].firm \in {None, run[d].firm} \cup run[d].firms
            /\ run'[d].marks \subseteq run[d].marks /\ run'[d].list \subseteq run[d].list
            /\ run'[d].item \in {None, run[d].item} /\ run'[d].knew \subseteq run[d].knew
  PROVE  PingInv'
<1>1. \A e \in Envelopes : MarkTimes(e)' /\ Announced(e)' /\ Overdue(e)'
  BY Shrinks DEF PingInv
<1>2. Exclusive'
  BY DEF PingInv, Exclusive
<1> QED
  BY <1>1, <1>2, HistoryRests DEF PingInv

LEMMA VisitPings ==
  ASSUME Shape, PingInv, NEW e \in Envelopes, NEW f \in Firms, VisitFirm(e, f)
  PROVE  PingInv'
<1>1. /\ \A d \in Envelopes \ {e} : run'[d] = run[d]
      /\ run'[e].at = run[e].at /\ run'[e].firms = run[e].firms \ {f} /\ run'[e].firm = f
      /\ run'[e].list \in Lists(e[1], f) /\ run'[e].item = run[e].item
      /\ run'[e].marks = run[e].marks /\ run'[e].knew = saved
  BY VisitEffect DEF Shape
<1>2. /\ UNCHANGED <<now, net, notified, chased, pings, saved>> /\ f \in run[e].firms
      /\ run[e].at = "running"
  BY DEF VisitFirm
<1>3. NetInv'
  BY <1>1, <1>2 DEF PingInv, NetInv
<1>4. \A d \in Envelopes : MarkTimes(d)' /\ Announced(d)'
  BY <1>1, <1>2 DEF PingInv, MarkTimes, Announced
<1>5. Exclusive'
  BY <1>1 DEF PingInv, Exclusive
<1>6. \A d \in Envelopes \ {e} : Overdue(d)'
  BY <1>1, <1>2 DEF PingInv, Overdue
<1>7. Overdue(e)'
  <2> SUFFICES ASSUME e[1] = "heartbeat", NEW x \in run'[e].list, NEW i \in DOMAIN pings[x],
                      <<pings[x][i].by, x>> \in saved
               PROVE  pings[x][i].time + Cooldown < now
    BY <1>1, <1>2 DEF Overdue
  <2>1. x \in DueForHeartbeat(f)
    BY <1>1, ListIsMine
  <2>2. x \in Tasks /\ x \in Items /\ (notified[x] = None \/ notified[x] + Cooldown < now)
    BY <2>1 DEF DueForHeartbeat, Items
  <2>3. pings[x][i].by \in Envelopes
    BY DEF Shape, TypeOK
  <2>4. notified[x] # None /\ pings[x][i].time <= notified[x]
    BY <2>2, <2>3 DEF PingInv, SavedInv
  <2> QED
    BY <2>2, <2>4, Numbers
<1>8. SavedInv' /\ PastInv' /\ CooldownUnlessUnsaved' /\ SilenceIsEarned'
  BY <1>1, <1>2, HistoryRests
<1> QED
  BY <1>3, <1>4, <1>5, <1>6, <1>7, <1>8 DEF PingInv

LEMMA MarkPings ==
  ASSUME Shape, PingInv, NEW e \in Envelopes, Mark(e)
  PROVE  PingInv'
<1> DEFINE n == <<run[e].item, now>>
<1>1. /\ \A d \in Envelopes \ {e} : run'[d] = run[d]
      /\ run'[e].at = run[e].at /\ run'[e].firms = run[e].firms
      /\ run'[e].firm = run[e].firm /\ run'[e].list = run[e].list /\ run'[e].item = None
      /\ run'[e].marks = run[e].marks \cup {n} /\ run'[e].knew = run[e].knew
      /\ run[e].item \in Items /\ run[e].item # None
  BY MarkEffect DEF Shape
<1>2. n[1] = run[e].item /\ n[2] = now
  OBVIOUS
<1> HIDE DEF n
<1>3. /\ UNCHANGED <<now, net, notified, chased, pings, saved>> /\ run[e].at = "running"
      /\ \A d \in Envelopes : ~WaitsFor(e, d)
  BY DEF Mark
<1>4. NetInv'
  BY <1>1, <1>3 DEF PingInv, NetInv
<1>5. \A d \in Envelopes : Announced(d)' /\ Overdue(d)'
  BY <1>1, <1>3 DEF PingInv, Announced, Overdue
<1>6. \E i \in DOMAIN pings[n[1]] : pings[n[1]][i].time <= n[2]
  <2>1. pings[n[1]] # <<>> /\ pings[n[1]] \in Seq(Ping)
    BY <1>1, <1>2 DEF PingInv, Announced, Shape, TypeOK, Ping
  <2>2. 1 \in DOMAIN pings[n[1]]
    BY <2>1
  <2> QED
    BY <1>1, <1>2, <2>2 DEF PingInv, PastInv
<1>7. \A d \in Envelopes : MarkTimes(d)'
  <2>1. \A d \in Envelopes \ {e} : MarkTimes(d)'
    BY <1>1, <1>3 DEF PingInv, MarkTimes
  <2>2. /\ \A i \in DOMAIN pings[n[1]] : pings[n[1]][i].time <= n[2]
        /\ n[1] \in Tasks /\ notified[n[1]] # None => notified[n[1]] <= n[2]
    BY <1>1, <1>2 DEF PingInv, PastInv
  <2>3. MarkTimes(e)'
    BY <1>1, <1>3, <1>6, <2>2 DEF PingInv, MarkTimes
  <2> QED
    BY <2>1, <2>3
<1>8. \A d \in Envelopes \ {e} : \A m \in run[d].marks : m[1] = n[1] => n[1] \notin Tasks
  BY <1>2, <1>3 DEF WaitsFor, Marked
<1>9. Exclusive'
  BY <1>1, <1>8 DEF PingInv, Exclusive
<1>10. SavedInv' /\ PastInv' /\ CooldownUnlessUnsaved' /\ SilenceIsEarned'
  BY <1>1, <1>3, HistoryRests
<1> QED
  BY <1>4, <1>5, <1>7, <1>9, <1>10 DEF PingInv

(* The pings of x grow by one.                                             *)
LEMMA PingAdded ==
  ASSUME Shape, NEW e \in Envelopes, NEW x, Send(e, x)
  PROVE  /\ x \in Items
         /\ \A y \in Items \ {x} : pings'[y] = pings[y]
         /\ Len(pings[x]) \in Nat /\ DOMAIN pings[x] = 1..Len(pings[x])
         /\ DOMAIN pings'[x] = 1..(Len(pings[x]) + 1)
         /\ \A i \in 1..Len(pings[x]) : pings'[x][i] = pings[x][i]
         /\ pings'[x][Len(pings[x]) + 1].by = e
         /\ pings'[x][Len(pings[x]) + 1].time = now
         /\ pings'[x][Len(pings[x]) + 1].knew = IF e[1] = "chase" THEN saved ELSE run[e].knew
<1> DEFINE n == [by |-> e, time |-> now, knew |-> IF e[1] = "chase" THEN saved ELSE run[e].knew]
<1>1. n.by = e /\ n.time = now /\ n.knew = IF e[1] = "chase" THEN saved ELSE run[e].knew
  OBVIOUS
<1>2. n \in Ping /\ x \in Items
  BY TimesAreNat, SendEffect DEF Ping, Shape, TypeOK, Run
<1>3. pings' = [pings EXCEPT ![x] = Append(@, n)]
  BY DEF Send
<1> HIDE DEF n
<1>4. pings[x] \in Seq(Ping)
  BY <1>2 DEF Shape, TypeOK, Ping
<1>5. pings'[x] = Append(pings[x], n) /\ \A y \in Items \ {x} : pings'[y] = pings[y]
  BY <1>2, <1>3 DEF Shape, TypeOK
<1>6. /\ Len(pings[x]) \in Nat /\ DOMAIN pings[x] = 1..Len(pings[x])
      /\ DOMAIN Append(pings[x], n) = 1..(Len(pings[x]) + 1)
      /\ \A i \in 1..Len(pings[x]) : Append(pings[x], n)[i] = pings[x][i]
      /\ Append(pings[x], n)[Len(pings[x]) + 1] = n
  BY <1>2, <1>4
<1> QED
  BY <1>1, <1>2, <1>5, <1>6

LEMMA SendPings ==
  ASSUME Shape, PingInv, NEW e \in Envelopes, NEW x, Send(e, x)
  PROVE  PingInv'
<1> DEFINE last == Len(pings[x]) + 1
<1>1. /\ Tried(e, x) /\ run'[e].item = IF e[1] = "briefing" THEN None ELSE x
      /\ x \in run[e].list /\ run[e].item = None /\ run[e].at = "running" /\ x \in Items
  BY SendEffect DEF Shape
<1>2. /\ \A d \in Envelopes \ {e} : run'[d] = run[d]
      /\ run'[e].at = run[e].at /\ run'[e].firms = run[e].firms
      /\ run'[e].firm = run[e].firm /\ run'[e].list \subseteq run[e].list
      /\ run'[e].marks = run[e].marks /\ run'[e].knew = run[e].knew
  BY <1>1 DEF Tried
<1>3. UNCHANGED <<now, net, notified, chased, saved>>
  BY DEF Send
<1>4. /\ \A y \in Items \ {x} : pings'[y] = pings[y]
      /\ last \in Nat /\ DOMAIN pings'[x] = DOMAIN pings[x] \cup {last} /\ last \notin DOMAIN pings[x]
      /\ \A i \in DOMAIN pings[x] : i \in Nat /\ i < last /\ pings'[x][i] = pings[x][i]
      /\ pings'[x][last].by = e /\ pings'[x][last].time = now
      /\ pings'[x][last].knew = IF e[1] = "chase" THEN saved ELSE run[e].knew
  BY PingAdded
<1> HIDE DEF last
<1>5. /\ e[1] = "briefing" => x \notin Tasks \cup Clients
      /\ e[1] # "briefing" => Mine(e, x)
      /\ \A m \in run[e].marks : m[1] # x
  <2>1. Holds(e) /\ Outside(e)
    BY DEF Shape, Local
  <2>2. run[e].firm \in Firms
    BY <1>1, <2>1 DEF Outside, Shape, TypeOK, Run
  <2> QED
    BY <1>1, <2>1, <2>2, ItemsAreDistinct DEF Holds
<1>6. <<e, x>> \notin saved
  BY <1>1, <1>5 DEF PingInv, SavedInv, Mine
<1>7. NetInv'
  BY <1>2, <1>3 DEF PingInv, NetInv
<1>8. Exclusive'
  BY <1>2 DEF PingInv, Exclusive
<1>9. \A y \in Items : \A i \in DOMAIN pings[y] : i \in DOMAIN pings'[y] /\ pings'[y][i] = pings[y][i]
  BY <1>4
<1>10. \A y \in Items : \A i \in DOMAIN pings'[y] :
         \/ i \in DOMAIN pings[y] /\ pings'[y][i] = pings[y][i]
         \/ y = x /\ i = last
  BY <1>4
<1>11. ASSUME NEW d \in Envelopes
       PROVE  MarkTimes(d)'
  <2> SUFFICES ASSUME NEW m \in run[d].marks
               PROVE  /\ \E i \in DOMAIN pings'[m[1]] : pings'[m[1]][i].time <= m[2]
                      /\ \A i \in DOMAIN pings'[m[1]] : pings'[m[1]][i].by = d
                            => pings'[m[1]][i].time <= m[2]
                      /\ m[1] \in Tasks /\ notified[m[1]] # None => notified[m[1]] <= m[2]
    BY <1>2, <1>3 DEF MarkTimes
  <2>1. /\ m[1] \in Items /\ \E i \in DOMAIN pings[m[1]] : pings[m[1]][i].time <= m[2]
        /\ \A i \in DOMAIN pings[m[1]] : pings[m[1]][i].by = d => pings[m[1]][i].time <= m[2]
        /\ m[1] \in Tasks /\ notified[m[1]] # None => notified[m[1]] <= m[2]
    BY Numbers DEF PingInv, MarkTimes
  <2>2. \E i \in DOMAIN pings'[m[1]] : pings'[m[1]][i].time <= m[2]
    BY <1>9, <2>1
  <2>3. m[1] = x => d # e
    BY <1>5
  <2> QED
    BY <1>4, <1>10, <2>1, <2>2, <2>3
<1>12. pings'[x] # <<>> /\ \A y \in Items : pings[y] # <<>> => pings'[y] # <<>>
  BY <1>4
<1>13. \A d \in Envelopes : Announced(d)'
  <2>1. \A d \in Envelopes \ {e} : Announced(d)'
    BY <1>2, <1>12, Numbers DEF PingInv, Announced
  <2>2. Announced(e)'
    BY <1>1, <1>12 DEF Announced
  <2> QED
    BY <2>1, <2>2
<1>14. ASSUME NEW d \in Envelopes
       PROVE  Overdue(d)'
  <2> SUFFICES ASSUME d[1] = "heartbeat", NEW y \in run[d].list, NEW i \in DOMAIN pings'[y],
                      <<pings'[y][i].by, y>> \in run[d].knew
               PROVE  pings'[y][i].time + Cooldown < now
    BY <1>2, <1>3 DEF PingInv, Overdue
  <2>1. run[d].knew \subseteq saved /\ y \in Items
    BY Numbers DEF PingInv, Overdue
  <2>2. ~(y = x /\ i = last)
    BY <1>4, <1>6, <2>1
  <2>3. i \in DOMAIN pings[y] /\ pings'[y][i] = pings[y][i]
    BY <1>10, <2>1, <2>2
  <2> QED
    BY <2>3 DEF PingInv, Overdue
<1>15. SavedInv'
  <2> SUFFICES ASSUME NEW d \in Envelopes, NEW y \in Items, <<d, y>> \in saved
               PROVE  /\ y \in Tasks => /\ notified[y] # None
                                         /\ \A i \in DOMAIN pings'[y] : pings'[y][i].by = d
                                               => pings'[y][i].time <= notified[y]
                      /\ y \in Clients => y \in chased
                      /\ y \in Tasks \cup Clients
                      /\ run'[d].at # "none" /\ FirmOf[y] \notin run'[d].firms
                      /\ run'[d].firm # FirmOf[y]
    BY <1>3 DEF SavedInv
  <2>1. /\ y \in Tasks => /\ notified[y] # None
                           /\ \A i \in DOMAIN pings[y] : pings[y][i].by = d
                                 => pings[y][i].time <= notified[y]
        /\ y \in Clients => y \in chased
        /\ y \in Tasks \cup Clients
        /\ run[d].at # "none" /\ FirmOf[y] \notin run[d].firms /\ run[d].firm # FirmOf[y]
    BY DEF PingInv, SavedInv
  <2>2. \A i \in DOMAIN pings'[y] : pings'[y][i].by = d =>
          i \in DOMAIN pings[y] /\ pings'[y][i] = pings[y][i]
    BY <1>4, <1>6, <1>10
  <2> QED
    BY <1>2, <2>1, <2>2
<1>16. PastInv'
  BY <1>3, <1>4, <1>10, Numbers DEF PingInv, PastInv
<1>17. SilenceIsEarned'
  <2>1. \A t \in Tasks : notified[t] # None =>
          \E i \in DOMAIN pings'[t] : pings'[t][i].time <= notified[t]
    BY <1>9 DEF PingInv, SilenceIsEarned, Items
  <2>2. \A c \in chased : pings'[c] # <<>>
    BY <1>12 DEF PingInv, SilenceIsEarned, Items, Shape, TypeOK
  <2> QED
    BY <1>3, <2>1, <2>2 DEF SilenceIsEarned
<1>18. CooldownUnlessUnsaved'
  <2> SUFFICES ASSUME NEW y \in Tasks \cup Clients,
                      NEW i \in DOMAIN pings'[y], NEW j \in DOMAIN pings'[y], i < j,
                      pings'[y][j].time <= pings'[y][i].time + Quiet(y)
               PROVE  <<pings'[y][i].by, y>> \notin pings'[y][j].knew
    BY DEF CooldownUnlessUnsaved, Quiet
  <2>0. y \in Items
    BY DEF Items
  <2>1. CASE y # x \/ j # last
    <3>1. j \in DOMAIN pings[y] /\ pings'[y][j] = pings[y][j]
      BY <1>10, <2>0, <2>1
    <3>2. i \in DOMAIN pings[y] /\ pings'[y][i] = pings[y][i]
      BY <1>4, <1>10, <2>0, <3>1
    <3> QED
      BY <3>1, <3>2 DEF PingInv, CooldownUnlessUnsaved
  <2>2. CASE y = x /\ j = last
    <3>1. /\ i \in DOMAIN pings[x] /\ pings'[x][i] = pings[x][i]
          /\ pings'[x][j].time = now
          /\ pings'[x][j].knew = IF e[1] = "chase" THEN saved ELSE run[e].knew
      BY <1>4, <1>10, <2>0, <2>2
    <3>2. pings[x][i].by \in Envelopes /\ pings[x][i].time \in Nat
      <4>1. pings[x] \in Seq(Ping)
        BY <1>1 DEF Shape, TypeOK, Ping
      <4>2. pings[x][i] \in Ping
        BY <3>1, <4>1
      <4> QED
        BY <4>2, TimesAreNat DEF Ping
    <3>3. CASE e[1] = "heartbeat" /\ x \in Tasks
      <4>1. now <= pings[x][i].time + Cooldown
        BY <2>2, <3>1, <3>3 DEF Quiet
      <4>2. <<pings[x][i].by, x>> \in run[e].knew => pings[x][i].time + Cooldown < now
        BY <1>1, <3>1, <3>3 DEF PingInv, Overdue
      <4> QED
        BY <2>2, <3>1, <3>2, <3>3, <4>1, <4>2, Numbers
    <3>4. CASE e[1] = "chase" /\ x \in Clients
      <4>1. x \notin chased
        BY <3>4 DEF Send, Chaseable
      <4>2. <<pings[x][i].by, x>> \notin saved
        BY <1>1, <3>2, <3>4, <4>1 DEF PingInv, SavedInv
      <4> QED
        BY <2>2, <3>1, <3>4, <4>2
    <3> QED
      BY <1>5, <2>2, <3>3, <3>4 DEF Mine
  <2> QED
    BY <2>1, <2>2
<1> QED
  BY <1>7, <1>8, <1>11, <1>13, <1>14, <1>15, <1>16, <1>17, <1>18 DEF PingInv

LEMMA LeavePings ==
  ASSUME Shape, PingInv, NEW e \in Envelopes, LeaveFirm(e)
  PROVE  PingInv'
<1>1. /\ \A d \in Envelopes \ {e} : run'[d] = run[d]
      /\ run'[e].at \in {"done", "running"} /\ run'[e].firms = run[e].firms
      /\ run'[e].firm = None /\ run'[e].list = {} /\ run'[e].item = None
      /\ run'[e].marks = {} /\ run'[e].knew = run[e].knew
  BY LeaveEffect DEF Left, Shape
<1>2. /\ \A t \in Tasks : IF t \in Marked(e)
                           THEN <<t, notified'[t]>> \in run[e].marks /\ notified'[t] \in 0..Horizon
                           ELSE notified'[t] = notified[t]
      /\ chased' = chased \cup (Marked(e) \cap Clients)
      /\ saved' = saved \cup ({e} \X Marked(e))
      /\ Marked(e) \subseteq Items
  BY CommitEffect DEF LeaveFirm
<1>3. UNCHANGED <<now, net, pings>> /\ run[e].at = "running" /\ run[e].firm # None
  BY DEF LeaveFirm, FirmDone, Committed
<1>4. ASSUME NEW t \in Tasks, t \in Marked(e)
      PROVE  /\ notified'[t] \in Nat /\ notified'[t] <= now
             /\ notified[t] # None => notified[t] <= notified'[t]
             /\ \E i \in DOMAIN pings[t] : pings[t][i].time <= notified'[t]
             /\ \A i \in DOMAIN pings[t] : pings[t][i].by = e => pings[t][i].time <= notified'[t]
  <2>1. <<t, notified'[t]>> \in run[e].marks /\ notified'[t] \in Nat
    BY <1>2, <1>4, TimesAreNat
  <2>2. MarkTimes(e) /\ InTime(e)
    BY DEF PingInv, Shape, Local
  <2> DEFINE m == <<t, notified'[t]>>
  <2>3. m[1] = t /\ m[2] = notified'[t] /\ m \in run[e].marks
    BY <2>1
  <2> HIDE DEF m
  <2> QED
    BY <1>4, <2>1, <2>2, <2>3 DEF MarkTimes, InTime
<1>5. ASSUME NEW x \in Marked(e)
      PROVE  /\ pings[x] # <<>> /\ x \in Tasks \cup Clients
             /\ FirmOf[x] = run[e].firm /\ FirmOf[x] \notin run[e].firms
  <2>1. PICK m \in run[e].marks : m[1] = x
    BY DEF Marked
  <2>2. \E i \in DOMAIN pings[x] : TRUE
    BY <2>1 DEF PingInv, MarkTimes
  <2>3. Holds(e) /\ Outside(e)
    BY DEF Shape, Local
  <2> QED
    BY <2>1, <2>2, <2>3 DEF Holds, Outside, Mine
<1>6. ASSUME NEW d \in Envelopes
      PROVE  MarkTimes(d)'
  <2>1. CASE d = e
    BY <1>1, <2>1 DEF MarkTimes
  <2>2. CASE d # e
    <3>1. \A m \in run[d].marks : m[1] \in Tasks => m[1] \notin Marked(e)
      BY <2>2 DEF PingInv, Exclusive, Marked
    <3>2. MarkTimes(d) /\ run'[d] = run[d]
      BY <1>1, <2>2 DEF PingInv
    <3>3. \A m \in run[d].marks : m[1] \in Tasks => notified'[m[1]] = notified[m[1]]
      BY <1>2, <3>1
    <3> QED
      BY <1>3, <3>2, <3>3 DEF MarkTimes
  <2> QED
    BY <2>1, <2>2
<1>7. \A d \in Envelopes : Announced(d)'
  BY <1>1, <1>3 DEF PingInv, Announced
<1>8. \A d \in Envelopes : Overdue(d)'
  <2>1. saved \subseteq saved'
    BY <1>2
  <2>2. \A d \in Envelopes : run'[d].list \subseteq run[d].list /\ run'[d].knew = run[d].knew
    BY <1>1
  <2> QED
    BY <1>3, <2>1, <2>2 DEF PingInv, Overdue
<1>9. Exclusive'
  BY <1>1 DEF PingInv, Exclusive
<1>10. SavedInv'
  <2> SUFFICES ASSUME NEW d \in Envelopes, NEW x \in Items, <<d, x>> \in saved'
               PROVE  /\ x \in Tasks => /\ notified'[x] # None
                                         /\ \A i \in DOMAIN pings[x] : pings[x][i].by = d
                                               => pings[x][i].time <= notified'[x]
                      /\ x \in Clients => x \in chased'
                      /\ x \in Tasks \cup Clients
                      /\ run'[d].at # "none" /\ FirmOf[x] \notin run'[d].firms
                      /\ run'[d].firm # FirmOf[x]
    BY <1>3 DEF SavedInv
  <2>1. \A n \in Nat : n # None
    BY ItemsAreDistinct
  <2>2. x \in Tasks \cup Clients => FirmOf[x] # None
    BY FirmOfType, ItemsAreDistinct
  <2>3. CASE <<d, x>> \in saved
    <3>1. /\ x \in Tasks => /\ notified[x] # None
                             /\ \A i \in DOMAIN pings[x] : pings[x][i].by = d
                                   => pings[x][i].time <= notified[x]
          /\ x \in Clients => x \in chased
          /\ x \in Tasks \cup Clients
          /\ run[d].at # "none" /\ FirmOf[x] \notin run[d].firms /\ run[d].firm # FirmOf[x]
      BY <2>3 DEF PingInv, SavedInv
    <3>2. ASSUME x \in Tasks
          PROVE  /\ notified'[x] # None
                 /\ \A i \in DOMAIN pings[x] : pings[x][i].by = d
                       => pings[x][i].time <= notified'[x]
      <4>1. CASE x \notin Marked(e)
        BY <1>2, <3>1, <3>2, <4>1
      <4>2. CASE x \in Marked(e)
        BY <1>4, <2>1, <3>1, <3>2, <4>2, Numbers
      <4> QED
        BY <4>1, <4>2
    <3> QED
      BY <1>1, <1>2, <2>2, <3>1, <3>2
  <2>4. CASE d = e /\ x \in Marked(e)
    <3>1. x \in Tasks => /\ notified'[x] # None
                         /\ \A i \in DOMAIN pings[x] : pings[x][i].by = d
                               => pings[x][i].time <= notified'[x]
      BY <1>4, <2>1, <2>4
    <3> QED
      BY <1>1, <1>2, <1>5, <2>2, <2>4, <3>1
  <2> QED
    BY <1>2, <2>3, <2>4
<1>11. PastInv'
  <2>1. \A t \in Tasks : notified'[t] # None => notified'[t] <= now
    BY <1>2, <1>4 DEF PingInv, PastInv
  <2> QED
    BY <1>3, <2>1 DEF PingInv, PastInv
<1>12. NetInv'
  <2>1. \A d \in Envelopes : run[d].at = "none" => run'[d].at = "none"
    BY <1>1, <1>3
  <2> QED
    BY <1>3, <2>1 DEF PingInv, NetInv
<1>13. CooldownUnlessUnsaved'
  BY <1>3 DEF PingInv, CooldownUnlessUnsaved, Quiet
<1>14. SilenceIsEarned'
  <2>1. \A t \in Tasks : notified'[t] # None =>
          \E i \in DOMAIN pings[t] : pings[t][i].time <= notified'[t]
    BY <1>2, <1>4 DEF PingInv, SilenceIsEarned
  <2>2. \A c \in chased' : pings[c] # <<>>
    BY <1>2, <1>5 DEF PingInv, SilenceIsEarned
  <2> QED
    BY <1>3, <2>1, <2>2 DEF SilenceIsEarned
<1> QED
  BY <1>6, <1>7, <1>8, <1>9, <1>10, <1>11, <1>12, <1>13, <1>14 DEF PingInv

(* The steps that neither send nor commit.                                 *)
Quietly(d) ==
  /\ run[d].at # "none" =>
        /\ run'[d].at # "none" /\ run'[d].firms \subseteq run[d].firms
        /\ run'[d].firm \in {None, run[d].firm} \cup run[d].firms
  /\ run'[d].marks \subseteq run[d].marks /\ run'[d].list \subseteq run[d].list
  /\ run'[d].item \in {None, run[d].item} /\ run'[d].knew \subseteq run[d].knew
  /\ run[d].at = "none" => run'[d].at = "none" \/ d \in net

LEMMA QuietStep ==
  ASSUME Shape, PingInv, UNCHANGED <<now, notified, chased, pings, saved>>,
         net' \subseteq net, \A d \in Envelopes : Quietly(d),
         \A d \in Envelopes : d \in net' => run'[d] = run[d]
  PROVE  PingInv'
<1>1. NetInv'
  BY DEF PingInv, NetInv, Quietly
<1> QED
  BY <1>1, NothingSent DEF Quietly

LEMMA PingStep == Shape /\ PingInv /\ [Next]_vars => PingInv'
<1> SUFFICES ASSUME Shape, PingInv, [Next]_vars PROVE PingInv'
  OBVIOUS
<1>1. TypeOK
  BY DEF Shape
<1>2. ASSUME run' = run, UNCHANGED <<now, notified, chased, pings, saved>>, net' \subseteq net
      PROVE  PingInv'
  BY <1>2, QuietStep DEF Quietly
<1>3. ASSUME NEW e \in Envelopes, UNCHANGED <<now, net, notified, chased, pings, saved>>,
             \A d \in Envelopes \ {e} : run'[d] = run[d], Quietly(e), e \notin net
      PROVE  PingInv'
  <2>1. \A d \in Envelopes : Quietly(d)
    BY <1>3 DEF Quietly
  <2>2. \A d \in Envelopes : d \in net' => run'[d] = run[d]
    BY <1>3
  <2> QED
    BY <1>3, <2>1, <2>2, QuietStep
<1>4. CASE Tick
  <2>1. /\ now' = now + 1 /\ UNCHANGED <<run, notified, chased, pings, saved>>
        /\ now \in Nat /\ net \subseteq Envelopes
    BY <1>1, <1>4, Numbers DEF Tick, TypeOK
  <2>2. net' = net \/ net' = net \cup {<<k, now + 1>> : k \in {j \in Kinds : now + 1 \in FiresAt[j]}}
    BY <1>4 DEF Tick
  <2>3. \A d \in net' : d \in net \/ d[2] = now + 1
    BY <2>2
  <2>4. \A d \in Envelopes : d[2] \in Nat
    BY EnvelopeParts, TimesAreNat
  <2>5. NetInv'
    BY <2>1, <2>3, <2>4 DEF PingInv, NetInv
  <2> QED
    BY <2>1, <2>5, NothingSent
<1>5. CASE UNCHANGED vars \/ \E e \in net : Lose(e)
  BY <1>2, <1>5 DEF Lose, vars
<1>6. CASE \E e \in net : Accept(e)
  <2>1. PICK e \in net : Accept(e)
    BY <1>6
  <2>2. /\ e \in Envelopes /\ net' = net \ {e}
        /\ UNCHANGED <<now, notified, chased, pings, saved>>
    BY <1>1, <2>1 DEF TypeOK, Accept
  <2>3. CASE UNCHANGED run
    BY <1>2, <2>2, <2>3
  <2>4. CASE /\ \A d \in Envelopes \ {e} : run'[d] = run[d]
             /\ run'[e].at = "running" /\ run'[e].list = {} /\ run'[e].item = None
             /\ run'[e].marks = {} /\ run'[e].knew = {}
    <3>1. run[e].at = "none"
      BY <2>1, <2>2 DEF PingInv, NetInv
    <3>2. \A d \in Envelopes : Quietly(d)
      BY <2>1, <2>4, <3>1 DEF Quietly
    <3>3. \A d \in Envelopes : d \in net' => run'[d] = run[d]
      BY <2>2, <2>4
    <3> QED
      BY <2>2, <3>2, <3>3, QuietStep
  <2> QED
    BY <1>1, <2>1, <2>3, <2>4, AcceptEffect
<1>7. CASE \E e \in Running : RunStep(e)
  <2>1. PICK e \in Envelopes : run[e].at = "running" /\ RunStep(e)
    BY <1>7 DEF Running
  <2>2. e \notin net
    BY <2>1 DEF PingInv, NetInv
  <2>3. CASE \E f \in Firms : VisitFirm(e, f)
    BY <2>3, VisitPings
  <2>4. CASE \E x \in run[e].list : Skip(e, x) \/ SendFails(e, x)
    <3>1. PICK x \in run[e].list : Skip(e, x) \/ SendFails(e, x)
      BY <2>4
    <3>2. e[1] = "briefing" => x \in Firms
      BY <3>1 DEF Shape, Local, Holds, Outside, TypeOK, Run
    <3>3. Tried(e, x) /\ run'[e].item = run[e].item
      BY <1>1, <3>1, <3>2, SkipEffect, SendFailsEffect
    <3>4. Quietly(e)
      BY <2>1, <3>3 DEF Tried, Quietly
    <3> QED
      BY <1>3, <2>2, <3>1, <3>3, <3>4 DEF Tried, Skip, SendFails
  <2>5. CASE \E x \in run[e].list : Send(e, x)
    BY <2>5, SendPings
  <2>6. CASE Mark(e)
    BY <2>6, MarkPings
  <2>7. CASE LeaveFirm(e)
    BY <2>7, LeavePings
  <2>8. CASE FirmFails(e)
    <3>1. Left(e) /\ (\A d \in Envelopes \ {e} : run'[d] = run[d]) /\ run'[e].at # "none"
      BY <1>1, <2>8, FirmFailsEffect
    <3>2. Quietly(e)
      BY <2>1, <3>1 DEF Left, Quietly
    <3> QED
      BY <1>3, <2>2, <2>8, <3>1, <3>2 DEF FirmFails
  <2> QED
    BY <2>1, <2>3, <2>4, <2>5, <2>6, <2>7, <2>8 DEF RunStep
<1>8. CASE BackendDies
  <2>1. \A d \in Envelopes : Quietly(d)
    BY <1>1, <1>8, DiesEffect DEF Left, Quietly
  <2>2. \A d \in Envelopes : d \in net' => run'[d] = run[d]
    BY <1>1, <1>8, DiesEffect DEF BackendDies, PingInv, NetInv
  <2> QED
    BY <1>8, <2>1, <2>2, QuietStep DEF BackendDies
<1> QED
  BY <1>4, <1>5, <1>6, <1>7, <1>8, Zenon DEF Next

(* Nobody is pinged again within the quiet time by a run that found the    *)
(* first ping committed when it looked.                                    *)
THEOREM QuietIsKept == Spec => []CooldownUnlessUnsaved
<1>1. PingInv => CooldownUnlessUnsaved
  BY DEF PingInv
<1> QED
  BY <1>1, InitShape, ShapeStep, InitPingInv, PingStep, PTL DEF Spec

(* Whoever is left alone as notified was sent a message before.            *)
THEOREM NobodyIsSilenced == Spec => []SilenceIsEarned
<1>1. PingInv => SilenceIsEarned
  BY DEF PingInv
<1> QED
  BY <1>1, InitShape, ShapeStep, InitPingInv, PingStep, PTL DEF Spec
-----------------------------------------------------------------------------
(* A briefing has each firm before it, at hand, or behind it: reached or   *)
(* given up.                                                               *)
Reached(e, f) == f \in run[e].failed \/ \E i \in DOMAIN pings[f] : pings[f][i].by = e

OnItsWay(e) ==
  /\ run[e].at = "running" => \A f \in Firms :
        \/ f \in run[e].firms \/ Reached(e, f)
        \/ f = run[e].firm /\ f \in run[e].list
  /\ run[e].at = "done" => \A f \in Firms : Reached(e, f)

IsoInv == \A e \in Envelopes : e[1] = "briefing" => OnItsWay(e)

LEMMA IsoKept ==
  ASSUME Shape, NEW e \in Envelopes, OnItsWay(e), run'[e] = run[e],
         \A f \in Firms : \A i \in DOMAIN pings[f] :
            i \in DOMAIN pings'[f] /\ pings'[f][i] = pings[f][i]
  PROVE  OnItsWay(e)'
<1>1. \A f \in Firms : Reached(e, f) => Reached(e, f)'
  BY DEF Reached
<1> QED
  BY <1>1 DEF OnItsWay

LEMMA IsoStep == Shape /\ IsoInv /\ [Next]_vars => IsoInv'
<1> SUFFICES ASSUME Shape, IsoInv, [Next]_vars, NEW e \in Envelopes, e[1] = "briefing"
             PROVE  OnItsWay(e)'
  BY DEF IsoInv
<1>1. TypeOK /\ OnItsWay(e) /\ Outside(e) /\ Holds(e)
  BY DEF Shape, IsoInv, Local
<1>2. \A f \in Firms : \A i \in DOMAIN pings[f] :
         i \in DOMAIN pings'[f] /\ pings'[f][i] = pings[f][i]
  <2>1. CASE \E d \in Envelopes : \E x \in run[d].list : Send(d, x)
    BY <2>1, PingAdded DEF Items
  <2>2. CASE UNCHANGED pings
    BY <2>2
  <2> QED
    BY <2>1, <2>2 DEF Next, Tick, Accept, Lose, RunStep, Running, VisitFirm, Skip, SendFails,
           Mark, LeaveFirm, FirmFails, BackendDies, vars
<1>3. \A f \in Firms : Reached(e, f) /\ run[e].failed \subseteq run'[e].failed => Reached(e, f)'
  BY <1>2 DEF Reached
<1>4. CASE run'[e] = run[e]
  BY <1>1, <1>2, <1>4, IsoKept
<1>5. CASE e \in net /\ Accept(e)
  <2>1. run'[e] = run[e] \/ (run'[e].at = "running" /\ run'[e].firms = Firms)
    BY <1>1, <1>5, AcceptEffect
  <2> QED
    BY <1>4, <2>1 DEF OnItsWay
<1>6. CASE run[e].at = "running" /\ RunStep(e)
  <2>1. CASE \E f \in Firms : VisitFirm(e, f)
    <3>1. PICK f \in Firms : VisitFirm(e, f)
      BY <2>1
    <3>2. /\ run'[e].at = "running" /\ run'[e].firms = run[e].firms \ {f} /\ run'[e].firm = f
          /\ run'[e].list = {f} /\ run'[e].failed = run[e].failed
      BY <1>1, <1>6, <3>1, VisitEffect DEF Lists
    <3>3. run[e].list = {}
      BY <1>1, <3>1 DEF VisitFirm, Outside
    <3> QED
      BY <1>1, <1>3, <1>6, <3>2, <3>3 DEF OnItsWay
  <2>2. CASE \E x \in run[e].list : Skip(e, x)
    BY <2>2 DEF Skip
  <2>3. CASE \E x \in run[e].list : Send(e, x)
    <3>1. PICK x \in run[e].list : Send(e, x)
      BY <2>3
    <3>2. x = run[e].firm /\ x \in Firms
      BY <1>1, <3>1 DEF Holds, Outside, TypeOK, Run
    <3>3. Tried(e, x)
      BY <1>1, <3>1, SendEffect
    <3>4. \E i \in DOMAIN pings'[x] : pings'[x][i].by = e
      BY <3>1, PingAdded
    <3>5. Reached(e, x)'
      BY <3>4 DEF Reached
    <3> QED
      BY <1>1, <1>3, <1>6, <3>2, <3>3, <3>5 DEF OnItsWay, Tried
  <2>4. CASE \E x \in run[e].list : SendFails(e, x)
    <3>1. PICK x \in run[e].list : SendFails(e, x)
      BY <2>4
    <3>2. x = run[e].firm /\ x \in Firms
      BY <1>1, <3>1 DEF Holds, Outside, TypeOK, Run
    <3>3. Tried(e, x) /\ x \in run'[e].failed
      BY <1>1, <3>1, <3>2, SendFailsEffect
    <3>4. Reached(e, x)'
      BY <3>3 DEF Reached
    <3> QED
      BY <1>1, <1>3, <1>6, <3>2, <3>3, <3>4 DEF OnItsWay, Tried
  <2>5. CASE Mark(e)
    BY <1>1, <2>5 DEF Mark, Holds
  <2>6. CASE LeaveFirm(e)
    <3>1. /\ Left(e) /\ run'[e].at = (IF run[e].firms = {} THEN "done" ELSE "running")
          /\ run'[e].failed = run[e].failed /\ run[e].list = {}
      BY <1>1, <2>6, LeaveEffect DEF LeaveFirm, FirmDone
    <3> QED
      BY <1>1, <1>3, <1>6, <3>1 DEF OnItsWay, Left
  <2>7. CASE FirmFails(e)
    <3>1. /\ Left(e) /\ run'[e].at = (IF run[e].firms = {} THEN "done" ELSE "running")
          /\ run'[e].failed = run[e].failed \cup {run[e].firm}
      BY <1>1, <2>7, FirmFailsEffect
    <3>2. PICK g \in Firms : g = run[e].firm
      BY <1>1, <2>7 DEF FirmFails, TypeOK, Run
    <3>3. Reached(e, g)'
      BY <3>1, <3>2 DEF Reached
    <3> QED
      BY <1>1, <1>3, <1>6, <3>1, <3>2, <3>3 DEF OnItsWay, Left
  <2> QED
    BY <1>6, <2>1, <2>2, <2>3, <2>4, <2>5, <2>6, <2>7 DEF RunStep
<1>7. CASE BackendDies
  <2>1. run'[e] = run[e] \/ run'[e].at = "lost"
    BY <1>1, <1>7, DiesEffect
  <2> QED
    BY <1>4, <2>1 DEF OnItsWay
<1>8. run'[e] = run[e] \/ (e \in net /\ Accept(e)) \/ (run[e].at = "running" /\ RunStep(e))
        \/ BackendDies
  <2>1. CASE \E d \in net : Accept(d)
    <3>1. PICK d \in net : Accept(d)
      BY <2>1
    <3>2. d \in Envelopes
      BY <1>1, <3>1 DEF TypeOK
    <3> QED
      BY <1>1, <3>1, <3>2, AcceptEffect
  <2>2. CASE \E d \in Running : RunStep(d)
    <3>1. PICK d \in Envelopes : run[d].at = "running" /\ RunStep(d)
      BY <2>2 DEF Running
    <3>2. CASE d = e
      BY <3>1, <3>2
    <3>3. CASE d # e
      <4>1. \A x \in run[d].list : d[1] = "briefing" => x \in Firms
        BY DEF Shape, Local, Holds, Outside, TypeOK, Run
      <4> QED
        BY <1>1, <3>1, <3>3, <4>1, VisitEffect, SkipEffect, SendEffect, SendFailsEffect,
           MarkEffect, LeaveEffect, FirmFailsEffect DEF RunStep, Tried
    <3> QED
      BY <3>2, <3>3
  <2>3. CASE Tick \/ (\E d \in net : Lose(d)) \/ UNCHANGED vars
    BY <2>3 DEF Tick, Lose, vars
  <2> QED
    BY <2>1, <2>2, <2>3 DEF Next
<1> QED
  BY <1>4, <1>5, <1>6, <1>7, <1>8

(* A briefing that is done has reached each firm whose own visit did not   *)
(* fail.                                                                   *)
THEOREM FailureIsLocal == Spec => []FirmsAreIsolated
<1>1. Init => IsoInv
  BY NoRunType DEF Init, IsoInv, OnItsWay
<1>2. IsoInv => FirmsAreIsolated
  BY DEF IsoInv, OnItsWay, Reached, FirmsAreIsolated
<1> QED
  BY <1>1, <1>2, InitShape, ShapeStep, IsoStep, PTL DEF Spec
=============================================================================
