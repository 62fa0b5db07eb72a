------------------------------ MODULE Delivery ------------------------------
(***************************************************************************)
(* From Telegram to a background task: the gateway's long-polling loop,    *)
(* its media-group buffer and its dispatch semaphore                       *)
(* (enma-gateway/src/{polling,routing,buffering,dispatch}), and the        *)
(* backend's /worker routes with the idempotency log                       *)
(* (api/middleware/idempotency.py, api/routes/worker.py).                  *)
(*                                                                         *)
(* What becomes of a pipeline once it is spawned is FilingLedger's matter. *)
(* The gateway forgets everything when it stops and the backend forgets    *)
(* its tasks; only Telegram's queue and the idempotency log survive.       *)
(* Signatures and the envelope schema are left out: what the gateway sends *)
(* verifies, unless it comes too late.                                     *)
(***************************************************************************)
EXTENDS Naturals, FiniteSets, Sequences, SequencesExt

CONSTANTS Updates,     \* update ids, in Telegram's order
          KindOf,      \* KindOf[u]: "document", "command" or "callback"
          KeyOf,       \* KeyOf[u]: its (chat_id, message_id)
          AlbumOf,     \* AlbumOf[u]: its media group, None if it stands alone
          Keys, Albums, None,
          Capacity,    \* DedupCache capacity
          Limit,       \* DISPATCH_CONCURRENCY
          Scenes,      \* bound: sets of updates that may be written together
          MaxFaults    \* bound: crashes, failed polls and stale answers

ASSUME UpdatesAreIds == Updates \subseteq Nat \ {0} /\ IsFiniteSet(Updates)
ASSUME MapsAreTotal == /\ KindOf \in [Updates -> {"document", "command", "callback"}]
                       /\ KeyOf \in [Updates -> Keys]
                       /\ AlbumOf \in [Updates -> Albums \cup {None}]
ASSUME ScenesAreSets == Scenes \subseteq SUBSET Updates
ASSUME NoKeyIsNone == None \notin Keys
ASSUME BoundsArePositive == /\ Capacity \in Nat \ {0}
                            /\ Limit \in Nat \ {0}
                            /\ MaxFaults \in Nat

VARIABLES
  \* Telegram
  sent,       \* updates the users have produced
  confirmed,  \* updates below this id are forgotten
  \* gateway process
  offset,     \* next id to ask for
  poll,       \* "idle", "asked" (getUpdates under way) or "loop"
  batch,      \* updates of the answer still to be routed
  seen,       \* DedupCache, oldest first
  album,      \* MediaGroupBuffer: the items of each open group
  queue,      \* envelopes that wait for a semaphore slot
  count,      \* the semaphore's count
  open,       \* envelopes whose fetch has not settled
  \* between the processes
  nonce,      \* envelopes built so far
  net,        \* requests on their way
  \* backend process
  handlers,   \* requests past the idempotency check, with their progress
  log,        \* committed rows of idempotency_log
  \* history
  runs,       \* pipelines started for each update
  ack,        \* fate of the "Processing ..." message of each update
  dropped,    \* updates of which a failure destroyed a copy
  swallowed,  \* updates answered as duplicates
  stubbed,    \* updates handed to the stub pipeline
  faults      \* faults so far

telegramVars == <<sent, confirmed>>
gatewayVars == <<offset, poll, batch, seen, album, queue, count, open>>
backendVars == <<handlers, log>>
historyVars == <<runs, ack, dropped, swallowed, stubbed>>
vars == <<telegramVars, gatewayVars, nonce, net, backendVars, historyVars, faults>>

(* An envelope: its nonce and the updates in it; an album has no key.      *)
Envelope == [nonce : Nat, items : SUBSET Updates, batch : BOOLEAN]

Key(e) == IF e.batch THEN None ELSE KeyOf[CHOOSE u \in e.items : TRUE]

Kind(e) == IF e.batch THEN "document_batch" ELSE KindOf[CHOOSE u \in e.items : TRUE]

ItemsOf(E) == UNION {e.items : e \in E}

Buffered == UNION {album[g] : g \in Albums}

Least(S) == CHOOSE u \in S : \A v \in S : u <= v

Fault == faults < MaxFaults /\ faults' = faults + 1

TypeOK ==
  /\ sent \subseteq Updates /\ confirmed \in Nat
  /\ offset \in Nat /\ poll \in {"idle", "asked", "loop"}
  /\ batch \subseteq Updates /\ seen \in Seq(Updates)
  /\ album \in [Albums -> SUBSET Updates]
  /\ queue \in Seq(Envelope) /\ count \in Nat /\ open \subseteq Envelope
  /\ nonce \in Nat /\ net \subseteq Envelope
  /\ handlers \subseteq [env : Envelope, at : {"logged", "acking"}]
  /\ log \subseteq Keys
  /\ runs \in [Updates -> Nat]
  /\ ack \in [Updates -> {"none", "ok", "failed", "again"}]
  /\ dropped \subseteq Updates /\ swallowed \subseteq Updates /\ stubbed \subseteq Updates
  /\ faults \in 0..MaxFaults

Init ==
  /\ sent = {} /\ confirmed = 0
  /\ offset = 0 /\ poll = "idle" /\ batch = {} /\ seen = <<>>
  /\ album = [g \in Albums |-> {}]
  /\ queue = <<>> /\ count = 0 /\ open = {}
  /\ nonce = 0 /\ net = {}
  /\ handlers = {} /\ log = {}
  /\ runs = [u \in Updates |-> 0] /\ ack = [u \in Updates |-> "none"]
  /\ dropped = {} /\ swallowed = {} /\ stubbed = {}
  /\ faults = 0

(***************************************************************************)
(* Telegram.                                                               *)
(***************************************************************************)
(* Somebody writes; ids are handed out in order, not all of them to what   *)
(* the gateway asks for.                                                   *)
Write(u) ==
  /\ \E S \in Scenes : sent \cup {u} \subseteq S
  /\ \A v \in sent : v < u
  /\ sent' = sent \cup {u}
  /\ UNCHANGED <<confirmed, gatewayVars, nonce, net, backendVars, historyVars, faults>>

Pending(o) == {u \in sent : u >= o /\ u >= confirmed}

(* getUpdates(offset) reaches Telegram, which forgets what is below the    *)
(* offset and answers with the rest.                                       *)
Answer ==
  /\ poll = "asked"
  /\ confirmed' = IF offset > confirmed THEN offset ELSE confirmed
  /\ batch' = Pending(offset)
  /\ poll' = IF batch' = {} THEN "idle" ELSE "loop"
  /\ UNCHANGED <<sent, offset, seen, album, queue, count, open, nonce, net,
                 backendVars, historyVars, faults>>

(* At-least-once: an answer may repeat what the offset had passed.         *)
StaleAnswer ==
  /\ poll = "asked"
  /\ Fault
  /\ batch' = Pending(0)
  /\ poll' = IF batch' = {} THEN "idle" ELSE "loop"
  /\ UNCHANGED <<telegramVars, offset, seen, album, queue, count, open, nonce, net,
                 backendVars, historyVars>>

(* The request or its answer is lost; the loop backs off and asks again.   *)
PollFails ==
  /\ poll = "asked"
  /\ Fault
  /\ \/ confirmed' = IF offset > confirmed THEN offset ELSE confirmed
     \/ UNCHANGED confirmed
  /\ poll' = "idle"
  /\ UNCHANGED <<sent, offset, batch, seen, album, queue, count, open, nonce, net,
                 backendVars, historyVars>>

(***************************************************************************)
(* Gateway.                                                                *)
(***************************************************************************)
Ask ==
  /\ poll = "idle"
  /\ poll' = "asked"
  /\ UNCHANGED <<telegramVars, offset, batch, seen, album, queue, count, open, nonce,
                 net, backendVars, historyVars, faults>>

(* DedupCache.seen: the id moves, or is added, to the recent end; beyond   *)
(* the capacity the oldest id is evicted.                                  *)
Touch(u) ==
  IF Contains(seen, u)
  THEN Append(RemoveAt(seen, CHOOSE i \in 1..Len(seen) : seen[i] = u), u)
  ELSE Append(IF Len(seen) < Capacity THEN seen ELSE Tail(seen), u)

(* Mutant: a full semaphore turns the envelope away.                       *)
DispatchOrDrop(e) ==
  /\ nonce' = e.nonce
  /\ IF count < Limit
     THEN count' = count + 1 /\ open' = open \cup {e} /\ net' = net \cup {e}
          /\ UNCHANGED queue
     ELSE UNCHANGED <<queue, count, open, net>>

(* Semaphore.acquire: take a slot or wait behind the others.               *)
Dispatch(e) ==
  /\ nonce' = e.nonce
  /\ IF count < Limit
     THEN count' = count + 1 /\ open' = open \cup {e} /\ net' = net \cup {e}
          /\ UNCHANGED queue
     ELSE queue' = Append(queue, e) /\ UNCHANGED <<count, open, net>>

(* One turn of the loop: advance the offset, drop a repeated id, route the *)
(* rest; an album item only opens, or joins, its group's buffer.           *)
Route ==
  /\ poll = "loop"
  /\ LET u == Least(batch) IN
       /\ batch' = batch \ {u}
       /\ poll' = IF batch' = {} THEN "idle" ELSE "loop"
       /\ offset' = IF u >= offset THEN u + 1 ELSE offset
       /\ seen' = Touch(u)
       /\ CASE Contains(seen, u) ->
                 UNCHANGED <<album, queue, count, open, nonce, net>>
            [] ~Contains(seen, u) /\ AlbumOf[u] # None ->
                 /\ album' = [album EXCEPT ![AlbumOf[u]] = @ \cup {u}]
                 /\ UNCHANGED <<queue, count, open, nonce, net>>
            [] OTHER ->
                 /\ Dispatch([nonce |-> nonce + 1, items |-> {u}, batch |-> FALSE])
                 /\ UNCHANGED album
  /\ UNCHANGED <<telegramVars, backendVars, historyVars, faults>>

(* Three seconds after its first item a group is sent as one envelope.     *)
Flush(g) ==
  /\ poll # "loop"
  /\ album[g] # {}
  /\ album' = [album EXCEPT ![g] = {}]
  /\ Dispatch([nonce |-> nonce + 1, items |-> album[g], batch |-> TRUE])
  /\ UNCHANGED <<telegramVars, offset, poll, batch, seen, backendVars, historyVars, faults>>

(* Mutant: a released slot wakes nobody.                                   *)
SettleWakesNobody(e) ==
  /\ e \in open
  /\ open' = open \ {e} /\ count' = count - 1
  /\ UNCHANGED <<telegramVars, offset, poll, batch, seen, album, queue, nonce, net,
                 backendVars, historyVars, faults>>

(* Mutant: the slot is handed on and also freed.                           *)
SettleFreesTwice(e) ==
  /\ e \in open
  /\ count' = count - 1
  /\ IF queue = <<>>
     THEN open' = open \ {e} /\ UNCHANGED <<queue, net>>
     ELSE /\ open' = (open \ {e}) \cup {Head(queue)}
          /\ net' = net \cup {Head(queue)}
          /\ queue' = Tail(queue)
  /\ UNCHANGED <<telegramVars, offset, poll, batch, seen, album, nonce, backendVars,
                 historyVars, faults>>

(* The fetch settles -- any status, an error, or five seconds -- and its   *)
(* slot passes to the first in the queue.  Nobody looks at the result.     *)
Settle(e) ==
  /\ e \in open
  /\ IF queue = <<>>
     THEN open' = open \ {e} /\ count' = count - 1 /\ UNCHANGED <<queue, net>>
     ELSE /\ open' = (open \ {e}) \cup {Head(queue)}
          /\ net' = net \cup {Head(queue)}
          /\ queue' = Tail(queue)
          /\ UNCHANGED count
  /\ UNCHANGED <<telegramVars, offset, poll, batch, seen, album, nonce, backendVars,
                 historyVars, faults>>

(* The process stops or dies.  A new one starts from nothing; Telegram     *)
(* gives it again what was never confirmed.                                *)
GatewayStops ==
  /\ Fault
  /\ offset' = 0 /\ poll' = "idle" /\ batch' = {} /\ seen' = <<>>
  /\ album' = [g \in Albums |-> {}]
  /\ queue' = <<>> /\ count' = 0 /\ open' = {}
  /\ dropped' = dropped \cup {u \in batch \cup Buffered \cup ItemsOf(Range(queue)) :
                            u < confirmed}
  /\ UNCHANGED <<telegramVars, nonce, net, backendVars, runs, ack, swallowed, stubbed>>

(***************************************************************************)
(* Network and backend.                                                    *)
(***************************************************************************)
(* The request is lost, aborted before it was read, too old, or over the   *)
(* rate limit.                                                             *)
Reject(e) ==
  /\ e \in net
  /\ net' = net \ {e}
  /\ dropped' = dropped \cup e.items
  /\ UNCHANGED <<telegramVars, gatewayVars, nonce, backendVars, runs, ack, swallowed,
                 stubbed, faults>>

(* Mutant: the key also holds the nonce, so that nothing is a duplicate.   *)
AcceptAnyNonce(e) ==
  /\ e \in net
  /\ net' = net \ {e}
  /\ log' = log \cup ({Key(e)} \ {None})
  /\ handlers' = handlers \cup {[env |-> e, at |-> "logged"]}
  /\ UNCHANGED <<telegramVars, gatewayVars, nonce, runs, ack, dropped, swallowed,
                 stubbed, faults>>

(* check_idempotency: INSERT ... ON CONFLICT DO NOTHING and COMMIT, before *)
(* the route's body runs.  No key, no check.                               *)
Accept(e) ==
  /\ e \in net
  /\ net' = net \ {e}
  /\ IF Key(e) \in log
     THEN swallowed' = swallowed \cup e.items /\ UNCHANGED <<handlers, log>>
     ELSE /\ log' = log \cup ({Key(e)} \ {None})
          /\ handlers' = handlers \cup {[env |-> e, at |-> "logged"]}
          /\ UNCHANGED swallowed
  /\ UNCHANGED <<telegramVars, gatewayVars, nonce, runs, ack, dropped, stubbed,
                 faults>>

(* _process_envelope spawns the pipeline first; albums and button presses  *)
(* get a stub that only logs.                                              *)
Spawn(e) ==
  /\ [env |-> e, at |-> "logged"] \in handlers
  /\ handlers' = (handlers \ {[env |-> e, at |-> "logged"]})
                   \cup {[env |-> e, at |-> "acking"]}
  /\ IF Kind(e) \in {"document", "command"}
     THEN /\ runs' = [u \in Updates |-> IF u \in e.items THEN runs[u] + 1 ELSE runs[u]]
          /\ UNCHANGED stubbed
     ELSE stubbed' = stubbed \cup e.items /\ UNCHANGED runs
  /\ UNCHANGED <<telegramVars, gatewayVars, nonce, net, log, ack, dropped, swallowed,
                 faults>>

(* ... then acknowledges documents to the user and answers 202; a failing  *)
(* Telegram call makes it 502.                                             *)
Acknowledge(e) ==
  /\ [env |-> e, at |-> "acking"] \in handlers
  /\ handlers' = handlers \ {[env |-> e, at |-> "acking"]}
  /\ IF Kind(e) \in {"document", "document_batch"}
     THEN \E a \in {"ok", "failed"} :
            ack' = [u \in Updates |-> IF u \notin e.items THEN ack[u]
                                      ELSE IF ack[u] = "none" THEN a ELSE "again"]
     ELSE UNCHANGED ack
  /\ UNCHANGED <<telegramVars, gatewayVars, nonce, net, log, runs, dropped,
                 swallowed, stubbed, faults>>

(* Mutant: the row is committed with the answer, and lost before it.       *)
BackendDiesRollsBack ==
  /\ Fault
  /\ handlers' = {}
  /\ log' = log \ {Key(h.env) : h \in handlers}
  /\ dropped' = dropped \cup ItemsOf({h.env : h \in handlers})
  /\ UNCHANGED <<telegramVars, gatewayVars, nonce, net, runs, ack, swallowed, stubbed>>

(* The backend dies with its handlers; the log has been committed.         *)
BackendDies ==
  /\ Fault
  /\ handlers' = {}
  /\ dropped' = dropped \cup ItemsOf({h.env : h \in handlers})
  /\ UNCHANGED <<telegramVars, gatewayVars, nonce, net, log, runs, ack, swallowed, stubbed>>

PollLoop == Ask \/ Answer \/ Route

BackendStep(e) == Accept(e) \/ Spawn(e) \/ Acknowledge(e)

InBackend == net \cup {h.env : h \in handlers}

Next ==
  \/ \E u \in Updates : Write(u)
  \/ PollLoop \/ StaleAnswer \/ PollFails
  \/ (\E g \in Albums : Flush(g))
  \/ (\E e \in open : Settle(e)) \/ GatewayStops
  \/ (\E e \in InBackend : Reject(e) \/ BackendStep(e)) \/ BackendDies

Spec == Init /\ [][Next]_vars

(* Both event loops run what is ready, fetches carry a timeout, and each   *)
(* request is answered, refused or lost in the end.  Users need not write  *)
(* and nothing has to fail.                                                *)
Fairness ==
  /\ WF_vars(PollLoop)
  /\ \A g \in Albums : WF_vars(Flush(g))
  /\ WF_vars(\E e \in open : Settle(e))
  /\ WF_vars(\E e \in InBackend : BackendStep(e))

FairSpec == Spec /\ Fairness
-----------------------------------------------------------------------------
(***************************************************************************)
(* Correctness.                                                            *)
(***************************************************************************)

(* A message is processed at most once, whatever is delivered again: after *)
(* a gateway restart, on a stale answer, from two buttons of one message,  *)
(* and with the backend dying between its steps.                           *)
AtMostOnce ==
  \A k \in Keys : \A u, v \in Updates :
     KeyOf[u] = k /\ KeyOf[v] = k /\ runs[u] > 0 /\ runs[v] > 0 => u = v /\ runs[u] = 1

(* Conservation: what Telegram has forgotten is somewhere on its way, has  *)
(* been handed to a pipeline, or a failure took it; what was answered as a *)
(* duplicate had another envelope of its key taken up by then.  Nothing is *)
(* lost without a failure, and no first copy is called a second one.       *)
InTransit ==
  batch \cup Buffered \cup ItemsOf(Range(queue)) \cup
  ItemsOf(net) \cup ItemsOf({h.env : h \in handlers})

TakenUp(k) == \E v \in Updates : /\ KeyOf[v] = k
                                 /\ \/ runs[v] > 0 \/ v \in stubbed \/ v \in dropped
                                    \/ v \in ItemsOf({h.env : h \in handlers})

NothingVanishes ==
  \A u \in sent : u < confirmed =>
     \/ u \in InTransit
     \/ runs[u] > 0 \/ u \in stubbed
     \/ u \in swallowed /\ TakenUp(KeyOf[u])
     \/ u \in dropped

(* The semaphore neither leaks nor idles: as many slots are taken as       *)
(* fetches are open, and an envelope waits only when all are taken.        *)
SlotsAreUsed ==
  /\ count = Cardinality(open)
  /\ count <= Limit
  /\ queue # <<>> => count = Limit

(* Whatever is written settles: it reaches a pipeline, is a duplicate, or  *)
(* is lost to a failure; no envelope is left in a queue or in a buffer.    *)
EveryMessageSettles ==
  \A u \in Updates : u \in sent ~>
     runs[u] > 0 \/ u \in stubbed \/ u \in swallowed \/ u \in dropped
=============================================================================
