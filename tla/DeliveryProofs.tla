--------------------------- MODULE DeliveryProofs ---------------------------
(***************************************************************************)
(* For any updates, albums and capacities, and any faults: a message is    *)
(* processed at most once and vanishes only into a failure, and the        *)
(* dispatch semaphore neither leaks a slot nor lets one idle while an      *)
(* envelope waits.                                                         *)
(***************************************************************************)
EXTENDS Delivery, FiniteSetTheorems, SequenceTheorems, WellFoundedInduction, TLAPS

(* What is not an album carries one update, and it decides the key.        *)
Single(e) == e.batch = FALSE => \E u \in Updates : e.items = {u}

Built == {e \in Envelope : Single(e)}

Shape == /\ sent \subseteq Updates /\ batch \subseteq Updates
         /\ poll = "loop" => batch # {}
         /\ album \in [Albums -> SUBSET Updates]
         /\ queue \in Seq(Built) /\ open \subseteq Built /\ net \subseteq Built
         /\ nonce \in Nat
         /\ handlers \subseteq [env : Built, at : {"logged", "acking"}]
         /\ log \subseteq Keys /\ runs \in [Updates -> Nat]

(* The log has the key of every handler, and of everything that ran; for   *)
(* one key one handler got through, and none comes after it ran.           *)
HandlersAreLogged == \A h \in handlers : h.env.batch = FALSE => Key(h.env) \in log

OneHandler ==
  \A h, g \in handlers :
     h.env.batch = FALSE /\ g.env.batch = FALSE /\ Key(h.env) = Key(g.env) => h = g

RunsAreLogged ==
  \A u \in Updates : runs[u] > 0 =>
    /\ KeyOf[u] \in log
    /\ \A h \in handlers : h.env.batch = FALSE /\ h.at = "logged" => Key(h.env) # KeyOf[u]

OnceInv == HandlersAreLogged /\ OneHandler /\ RunsAreLogged /\ AtMostOnce

(* Envelopes are numbered in the order in which they were built, take      *)
(* their slots in that order, and so never meet themselves there.          *)
InOrder ==
  /\ \A e \in open : e.nonce <= nonce
  /\ \A i \in DOMAIN queue : /\ queue[i].nonce <= nonce
                             /\ \A e \in open : e.nonce < queue[i].nonce
                             /\ \A j \in 1..(i - 1) : queue[j].nonce < queue[i].nonce

SlotInv == IsFiniteSet(open) /\ count \in Nat /\ InOrder /\ SlotsAreUsed
-----------------------------------------------------------------------------
LEMMA LeastIsOne ==
  ASSUME NEW S, S \subseteq Updates, S # {}
  PROVE  Least(S) \in S /\ \A v \in S : Least(S) <= v
<1>1. S \subseteq Nat
  BY UpdatesAreIds
<1>2. PICK x \in S : \A y \in S : ~(<<y, x>> \in OpToRel(<, Nat))
  BY <1>1, NatLessThanWellFounded, WFMin
<1>3. \A y \in S : ~(y < x)
  BY <1>1, <1>2 DEF OpToRel
<1>4. \A y \in S : x <= y
  BY <1>1, <1>3
<1> QED
  BY <1>4, Zenon DEF Least

LEMMA SingleKey ==
  ASSUME NEW e \in Built, e.batch = FALSE
  PROVE  \E u \in Updates : /\ e.items = {u} /\ Key(e) = KeyOf[u] /\ Key(e) \in Keys
                            /\ Kind(e) = KindOf[u]
<1>1. PICK u \in Updates : e.items = {u}
  BY DEF Built, Single
<1>2. (CHOOSE v \in e.items : TRUE) = u
  BY <1>1
<1>3. Key(e) = KeyOf[u] /\ Kind(e) = KindOf[u]
  BY <1>2, Zenon DEF Key, Kind
<1>4. KeyOf[u] \in Keys
  BY MapsAreTotal
<1> QED
  BY <1>1, <1>3, <1>4

LEMMA AlbumKey ==
  ASSUME NEW e \in Built, e.batch # FALSE
  PROVE  Key(e) = None /\ Kind(e) = "document_batch"
<1>1. e.batch = TRUE
  BY DEF Built, Envelope
<1> QED
  BY <1>1, Zenon DEF Key, Kind

(* What Dispatch may be called with, and what it leaves.                   *)
LEMMA RouteBuilds ==
  ASSUME NEW u \in Updates, nonce \in Nat
  PROVE  [nonce |-> nonce + 1, items |-> {u}, batch |-> FALSE] \in Built
BY DEF Built, Envelope, Single

LEMMA FlushBuilds ==
  ASSUME NEW g \in Albums, nonce \in Nat, album \in [Albums -> SUBSET Updates]
  PROVE  [nonce |-> nonce + 1, items |-> album[g], batch |-> TRUE] \in Built
BY DEF Built, Envelope, Single

LEMMA DispatchShape ==
  ASSUME NEW e \in Built, Dispatch(e), queue \in Seq(Built), open \subseteq Built,
         net \subseteq Built
  PROVE  /\ nonce' \in Nat /\ queue' \in Seq(Built) /\ open' \subseteq Built
         /\ net' \subseteq Built
<1>1. e.nonce \in Nat
  BY DEF Built, Envelope
<1>2. Append(queue, e) \in Seq(Built)
  OBVIOUS
<1> QED
  BY <1>1, <1>2 DEF Dispatch

LEMMA InitShape == Init => Shape
BY DEF Init, Shape

LEMMA ShapeStep == Shape /\ [Next]_vars => Shape'
<1> SUFFICES ASSUME Shape, [Next]_vars PROVE Shape'
  OBVIOUS
<1> USE DEF Shape, telegramVars, gatewayVars, backendVars, historyVars
<1>1. CASE \E u \in Updates : Write(u)
  BY <1>1 DEF Write
<1>2. CASE Ask
  BY <1>2 DEF Ask
<1>3. CASE Answer
  BY <1>3 DEF Answer, Pending
<1>4. CASE Route
  <2>1. Least(batch) \in Updates /\ batch' = batch \ {Least(batch)}
        /\ poll' = IF batch' = {} THEN "idle" ELSE "loop"
    BY <1>4, LeastIsOne DEF Route
  <2>2. /\ album' \in [Albums -> SUBSET Updates] /\ nonce' \in Nat /\ queue' \in Seq(Built)
        /\ open' \subseteq Built /\ net' \subseteq Built
    <3> DEFINE u == Least(batch)
    <3>0. u \in Updates
      BY <2>1
    <3>1. CASE Contains(seen, u)
      BY <1>4, <3>1 DEF Route
    <3>2. CASE ~Contains(seen, u) /\ AlbumOf[u] # None
      <4>1. AlbumOf[u] \in Albums
        BY <3>0, <3>2, MapsAreTotal
      <4>2. album' = [album EXCEPT ![AlbumOf[u]] = @ \cup {u}]
            /\ UNCHANGED <<queue, count, open, nonce, net>>
        BY <1>4, <3>2 DEF Route
      <4> QED
        BY <3>0, <4>1, <4>2
    <3>3. CASE ~Contains(seen, u) /\ AlbumOf[u] = None
      <4>1. /\ Dispatch([nonce |-> nonce + 1, items |-> {u}, batch |-> FALSE])
            /\ UNCHANGED album
        BY <1>4, <3>3 DEF Route
      <4>2. [nonce |-> nonce + 1, items |-> {u}, batch |-> FALSE] \in Built
        BY <3>0, RouteBuilds
      <4> QED
        BY <4>1, <4>2, DispatchShape
    <3> QED
      BY <3>1, <3>2, <3>3
  <2>3. UNCHANGED <<sent, handlers, log, runs>>
    BY <1>4 DEF Route
  <2> QED
    BY <2>1, <2>2, <2>3
<1>5. CASE StaleAnswer
  BY <1>5 DEF StaleAnswer, Pending
<1>6. CASE PollFails
  BY <1>6 DEF PollFails
<1>7. CASE \E g \in Albums : Flush(g)
  <2>1. PICK g \in Albums : Flush(g)
    BY <1>7
  <2>2. /\ nonce' \in Nat /\ queue' \in Seq(Built) /\ open' \subseteq Built
        /\ net' \subseteq Built
    BY <2>1, FlushBuilds, DispatchShape DEF Flush
  <2>3. album' \in [Albums -> SUBSET Updates]
    BY <2>1 DEF Flush
  <2> QED
    BY <2>1, <2>2, <2>3 DEF Flush
<1>8. CASE \E e \in open : Settle(e)
  <2>1. PICK e \in open : Settle(e)
    BY <1>8
  <2>2. CASE queue = <<>>
    BY <2>1, <2>2 DEF Settle
  <2>3. CASE queue # <<>>
    <3>1. Head(queue) \in Built /\ Tail(queue) \in Seq(Built)
      BY <2>3
    <3>2. /\ open' = (open \ {e}) \cup {Head(queue)} /\ net' = net \cup {Head(queue)}
          /\ queue' = Tail(queue)
      BY <2>1, <2>3 DEF Settle
    <3>3. UNCHANGED <<sent, batch, poll, album, nonce, handlers, log, runs>>
      BY <2>1 DEF Settle
    <3> QED
      BY <3>1, <3>2, <3>3
  <2> QED
    BY <2>2, <2>3
<1>9. CASE GatewayStops
  BY <1>9 DEF GatewayStops
<1>10. CASE \E e \in InBackend : Reject(e)
  BY <1>10 DEF Reject
<1>11. CASE \E e \in InBackend : Accept(e)
  <2>1. PICK e \in Built : Accept(e)
    BY <1>11 DEF Accept
  <2>2. [env |-> e, at |-> "logged"] \in [env : Built, at : {"logged", "acking"}]
    OBVIOUS
  <2>3. {Key(e)} \ {None} \subseteq Keys
    BY SingleKey, AlbumKey
  <2> QED
    BY <2>1, <2>2, <2>3 DEF Accept
<1>12. CASE \E e \in InBackend : Spawn(e)
  <2>1. PICK e : Spawn(e)
    BY <1>12
  <2>2. e \in Built
    BY <2>1 DEF Spawn
  <2>3. handlers' \subseteq [env : Built, at : {"logged", "acking"}]
    BY <2>1, <2>2 DEF Spawn
  <2>4. runs' \in [Updates -> Nat]
    BY <2>1 DEF Spawn
  <2> QED
    BY <2>1, <2>3, <2>4 DEF Spawn
<1>13. CASE \E e \in InBackend : Acknowledge(e)
  BY <1>13 DEF Acknowledge
<1>14. CASE BackendDies
  BY <1>14 DEF BackendDies
<1>15. CASE UNCHANGED vars
  BY <1>15 DEF vars
<1> QED
  BY <1>1, <1>2, <1>3, <1>4, <1>5, <1>6, <1>7, <1>8, <1>9, <1>10, <1>11, <1>12, <1>13,
     <1>14, <1>15, Zenon DEF Next, PollLoop, BackendStep

THEOREM DeliveryShape == Spec => []Shape
<1>1. Spec => Init /\ [][Next]_vars
  BY DEF Spec
<1> QED
  BY <1>1, InitShape, ShapeStep, PTL
-----------------------------------------------------------------------------
LEMMA InitOnceInv == Init => OnceInv
<1> SUFFICES ASSUME Init PROVE OnceInv
  OBVIOUS
<1>1. handlers = {} /\ \A u \in Updates : runs[u] = 0
  BY DEF Init
<1> QED
  BY <1>1 DEF OnceInv, HandlersAreLogged, OneHandler, RunsAreLogged, AtMostOnce

(* Handlers that end take nothing with them that this is about.            *)
LEMMA FewerHandlers ==
  ASSUME OnceInv, handlers' \subseteq handlers, UNCHANGED <<log, runs>>
  PROVE  OnceInv'
<1>1. HandlersAreLogged'
  BY DEF OnceInv, HandlersAreLogged
<1>2. OneHandler'
  BY DEF OnceInv, OneHandler
<1>3. RunsAreLogged'
  BY DEF OnceInv, RunsAreLogged
<1>4. AtMostOnce'
  BY DEF OnceInv, AtMostOnce
<1> QED
  BY <1>1, <1>2, <1>3, <1>4 DEF OnceInv

LEMMA AcceptOnce ==
  ASSUME Shape, OnceInv, NEW e \in Built, Accept(e)
  PROVE  OnceInv'
<1>1. CASE Key(e) \in log
  BY <1>1, FewerHandlers DEF Accept
<1>2. CASE Key(e) \notin log
  <2> DEFINE h == [env |-> e, at |-> "logged"]
  <2>1. /\ handlers' = handlers \cup {h} /\ log' = log \cup ({Key(e)} \ {None})
        /\ runs' = runs
    BY <1>2 DEF Accept, historyVars
  <2>2. h.env = e /\ h.at = "logged"
    OBVIOUS
  <2> HIDE DEF h
  <2>3. e.batch = FALSE => Key(e) \in log' /\ Key(e) # None
    BY <2>1, SingleKey, NoKeyIsNone
  <2>4. \A g \in handlers : g.env.batch = FALSE => Key(g.env) # Key(e)
    BY <1>2 DEF OnceInv, HandlersAreLogged
  <2>5. HandlersAreLogged'
    BY <2>1, <2>2, <2>3 DEF OnceInv, HandlersAreLogged
  <2>6. OneHandler'
    BY <2>1, <2>2, <2>4 DEF OnceInv, OneHandler
  <2>7. \A u \in Updates : runs[u] > 0 => KeyOf[u] # Key(e)
    BY <1>2 DEF OnceInv, RunsAreLogged
  <2>8. RunsAreLogged'
    BY <2>1, <2>2, <2>7 DEF OnceInv, RunsAreLogged
  <2>9. AtMostOnce'
    BY <2>1 DEF OnceInv, AtMostOnce
  <2> QED
    BY <2>5, <2>6, <2>8, <2>9 DEF OnceInv
<1> QED
  BY <1>1, <1>2

LEMMA SpawnOnce ==
  ASSUME Shape, OnceInv, NEW e, Spawn(e)
  PROVE  OnceInv'
<1> DEFINE h == [env |-> e, at |-> "logged"]
           n == [env |-> e, at |-> "acking"]
<1>1. h \in handlers /\ handlers' = (handlers \ {h}) \cup {n} /\ log' = log
  BY DEF Spawn
<1>2. h.env = e /\ h.at = "logged" /\ n.env = e /\ n.at = "acking" /\ h # n
  OBVIOUS
<1>3. /\ runs' = [u \in Updates |-> IF u \in e.items THEN runs[u] + 1 ELSE runs[u]]
         /\ Kind(e) \in {"document", "command"}
      \/ runs' = runs
  BY DEF Spawn
<1> HIDE DEF h, n
<1>4. e \in Built
  BY <1>1, <1>2 DEF Shape
<1>5. HandlersAreLogged'
  BY <1>1, <1>2 DEF OnceInv, HandlersAreLogged
<1>6. OneHandler'
  BY <1>1, <1>2 DEF OnceInv, OneHandler
<1>7. CASE runs' = runs
  <2>1. RunsAreLogged'
    BY <1>1, <1>2, <1>7 DEF OnceInv, RunsAreLogged
  <2>2. AtMostOnce'
    BY <1>7 DEF OnceInv, AtMostOnce
  <2> QED
    BY <1>5, <1>6, <2>1, <2>2 DEF OnceInv
<1>8. CASE /\ runs' = [u \in Updates |-> IF u \in e.items THEN runs[u] + 1 ELSE runs[u]]
           /\ Kind(e) \in {"document", "command"}
  <2>1. e.batch = FALSE
    BY <1>4, <1>8, AlbumKey
  <2>2. PICK u \in Updates : e.items = {u} /\ Key(e) = KeyOf[u]
    BY <1>4, <2>1, SingleKey
  <2>3. \A v \in Updates : KeyOf[v] = KeyOf[u] => runs[v] = 0
    BY <1>1, <1>2, <2>1, <2>2 DEF OnceInv, RunsAreLogged, Shape
  <2>4. /\ \A v \in Updates \ {u} : runs'[v] = runs[v]
        /\ runs'[u] = 1
    BY <1>8, <2>2, <2>3 DEF Shape
  <2>5. KeyOf[u] \in log
    BY <1>1, <1>2, <2>1, <2>2 DEF OnceInv, HandlersAreLogged
  <2>6. \A g \in handlers' : g.env.batch = FALSE /\ g.at = "logged"
          => g \in handlers /\ Key(g.env) # KeyOf[u]
    BY <1>1, <1>2, <2>1, <2>2 DEF OnceInv, OneHandler
  <2>7. RunsAreLogged'
    BY <1>1, <2>4, <2>5, <2>6 DEF OnceInv, RunsAreLogged
  <2>8. AtMostOnce'
    BY <2>3, <2>4 DEF OnceInv, AtMostOnce
  <2> QED
    BY <1>5, <1>6, <2>7, <2>8 DEF OnceInv
<1> QED
  BY <1>3, <1>7, <1>8

LEMMA OnceStep == Shape /\ OnceInv /\ [Next]_vars => OnceInv'
<1> SUFFICES ASSUME Shape, OnceInv, [Next]_vars PROVE OnceInv'
  OBVIOUS
<1>1. CASE handlers' \subseteq handlers /\ UNCHANGED <<log, runs>>
  BY <1>1, FewerHandlers
<1>2. CASE \E e \in InBackend : Accept(e)
  <2>1. PICK e \in Built : Accept(e)
    BY <1>2 DEF Accept, Shape
  <2> QED
    BY <2>1, AcceptOnce
<1>3. CASE \E e \in InBackend : Spawn(e)
  BY <1>3, SpawnOnce
<1>4. \/ handlers' \subseteq handlers /\ UNCHANGED <<log, runs>>
      \/ \E e \in InBackend : Accept(e)
      \/ \E e \in InBackend : Spawn(e)
  <2> USE DEF backendVars, historyVars
  <2>1. CASE (\E u \in Updates : Write(u)) \/ PollLoop \/ StaleAnswer \/ PollFails
    BY <2>1 DEF Write, PollLoop, Ask, Answer, Route, StaleAnswer, PollFails
  <2>2. CASE (\E g \in Albums : Flush(g)) \/ (\E e \in open : Settle(e)) \/ GatewayStops
    BY <2>2 DEF Flush, Settle, GatewayStops
  <2>3. CASE (\E e \in InBackend : Reject(e) \/ Acknowledge(e)) \/ BackendDies
    BY <2>3 DEF Reject, Acknowledge, BackendDies
  <2>4. CASE UNCHANGED vars
    BY <2>4 DEF vars
  <2> QED
    BY <2>1, <2>2, <2>3, <2>4, Zenon DEF Next, BackendStep
<1> QED
  BY <1>1, <1>2, <1>3, <1>4

(* A message is processed at most once: deliveries of one key, however     *)
(* often they are repeated, meet the committed row of the first.           *)
THEOREM DeliveredOnce == Spec => []AtMostOnce
<1>1. Spec => Init /\ [][Next]_vars
  BY DEF Spec
<1>2. OnceInv => AtMostOnce
  BY DEF OnceInv
<1> QED
  BY <1>1, <1>2, DeliveryShape, InitOnceInv, OnceStep, PTL
-----------------------------------------------------------------------------
LEMMA InitSlotInv == Init => SlotInv
<1> SUFFICES ASSUME Init PROVE SlotInv
  OBVIOUS
<1>1. open = {} /\ queue = <<>> /\ count = 0
  BY DEF Init
<1>2. IsFiniteSet(open) /\ Cardinality(open) = 0
  BY <1>1, FS_EmptySet
<1>3. SlotsAreUsed
  BY <1>1, <1>2, BoundsArePositive DEF SlotsAreUsed
<1> QED
  BY <1>1, <1>2, <1>3 DEF SlotInv, InOrder

(* A slot is taken, or the envelope is the last to wait.                   *)
LEMMA DispatchSlots ==
  ASSUME Shape, SlotInv, NEW e \in Built, e.nonce = nonce + 1, Dispatch(e)
  PROVE  SlotInv'
<1>1. /\ nonce \in Nat /\ nonce' = nonce + 1 /\ e.nonce = nonce + 1
      /\ \A x \in open : x.nonce \in Nat
      /\ \A i \in DOMAIN queue : queue[i].nonce \in Nat
  BY DEF Shape, Dispatch, Built, Envelope
<1>2. CASE count < Limit
  <2>1. count' = count + 1 /\ open' = open \cup {e} /\ queue' = queue
    BY <1>2 DEF Dispatch
  <2>2. e \notin open
    BY <1>1 DEF SlotInv, InOrder
  <2>3. IsFiniteSet(open') /\ Cardinality(open') = Cardinality(open) + 1
    BY <2>1, <2>2, FS_AddElement DEF SlotInv
  <2>4. queue = <<>>
    BY <1>2, BoundsArePositive DEF SlotInv, SlotsAreUsed
  <2>5. SlotsAreUsed'
    BY <1>2, <2>1, <2>3, <2>4, BoundsArePositive DEF SlotInv, SlotsAreUsed
  <2>6. InOrder'
    BY <1>1, <2>1, <2>4 DEF SlotInv, InOrder
  <2> QED
    BY <2>1, <2>3, <2>5, <2>6 DEF SlotInv
<1>3. CASE ~(count < Limit)
  <2>1. queue' = Append(queue, e) /\ count' = count /\ open' = open
    BY <1>3 DEF Dispatch
  <2>2. /\ queue' \in Seq(Built) /\ Len(queue) \in Nat /\ Len(queue') = Len(queue) + 1
        /\ \A i \in 1..Len(queue) : queue'[i] = queue[i]
        /\ queue'[Len(queue) + 1] = e
    BY <2>1 DEF Shape
  <2>3. DOMAIN queue = 1..Len(queue) /\ DOMAIN queue' = 1..(Len(queue) + 1)
    BY <2>2 DEF Shape
  <2>4. SlotsAreUsed'
    BY <1>3, <2>1, BoundsArePositive DEF SlotInv, SlotsAreUsed
  <2>5. \A i \in DOMAIN queue' :
          /\ queue'[i].nonce <= nonce' /\ \A x \in open : x.nonce < queue'[i].nonce
          /\ \A j \in 1..(i - 1) : queue'[j].nonce < queue'[i].nonce
    <3> SUFFICES ASSUME NEW i \in 1..(Len(queue) + 1)
                 PROVE /\ queue'[i].nonce <= nonce'
                       /\ \A x \in open : x.nonce < queue'[i].nonce
                       /\ \A j \in 1..(i - 1) : queue'[j].nonce < queue'[i].nonce
      BY <2>3
    <3>1. CASE i = Len(queue) + 1
      BY <1>1, <2>2, <2>3, <3>1 DEF SlotInv, InOrder
    <3>2. CASE i \in 1..Len(queue)
      <4>1. \A j \in 1..(i - 1) : queue'[j] = queue[j]
        BY <2>2, <3>2
      <4>2. /\ queue[i].nonce <= nonce /\ queue[i].nonce \in Nat
            /\ \A x \in open : x.nonce < queue[i].nonce
            /\ \A j \in 1..(i - 1) : queue[j].nonce < queue[i].nonce
        BY <1>1, <2>3, <3>2 DEF SlotInv, InOrder
      <4>3. queue'[i] = queue[i] /\ nonce <= nonce'
        BY <1>1, <2>2, <3>2
      <4> QED
        BY <1>1, <4>1, <4>2, <4>3
    <3> QED
      BY <2>2, <3>1, <3>2
  <2>6. InOrder'
    BY <1>1, <2>1, <2>5 DEF SlotInv, InOrder
  <2> QED
    BY <2>1, <2>4, <2>6 DEF SlotInv
<1> QED
  BY <1>2, <1>3

(* The slot goes to the first in the queue, who had none, or is freed.     *)
LEMMA SettleSlots ==
  ASSUME Shape, SlotInv, NEW e \in open, Settle(e)
  PROVE  SlotInv'
<1>1. /\ IsFiniteSet(open \ {e}) /\ Cardinality(open \ {e}) = Cardinality(open) - 1
      /\ Cardinality(open) \in Nat /\ nonce' = nonce
  BY FS_RemoveElement, FS_CardinalityType DEF SlotInv, Settle
<1>2. Cardinality(open) # 0
  BY FS_EmptySet DEF SlotInv
<1>3. CASE queue = <<>>
  <2>1. open' = open \ {e} /\ count' = count - 1 /\ queue' = queue
    BY <1>3 DEF Settle
  <2>2. SlotsAreUsed' /\ count' \in Nat
    BY <1>1, <1>2, <1>3, <2>1, BoundsArePositive DEF SlotInv, SlotsAreUsed
  <2>3. InOrder'
    BY <1>1, <1>3, <2>1 DEF SlotInv, InOrder
  <2> QED
    BY <1>1, <2>1, <2>2, <2>3 DEF SlotInv
<1>4. CASE queue # <<>>
  <2> DEFINE f == Head(queue)
  <2>1. /\ open' = (open \ {e}) \cup {f} /\ queue' = Tail(queue) /\ count' = count
    BY <1>4 DEF Settle
  <2>2. /\ f = queue[1] /\ Len(queue) \in Nat \ {0} /\ DOMAIN queue = 1..Len(queue)
        /\ DOMAIN queue' = 1..(Len(queue) - 1)
        /\ \A i \in 1..(Len(queue) - 1) : queue'[i] = queue[i + 1]
    BY <1>4, <2>1 DEF Shape
  <2> HIDE DEF f
  <2>3. /\ \A x \in open : x.nonce \in Nat
        /\ \A i \in 1..Len(queue) : queue[i] \in Built /\ queue[i].nonce \in Nat
    BY <2>2 DEF Shape, Built, Envelope
  <2>3a. 1 \in DOMAIN queue /\ f.nonce \in Nat /\ nonce \in Nat
    BY <2>2, <2>3 DEF Shape
  <2>3b. (\A x \in open : x.nonce < f.nonce) /\ f.nonce <= nonce
    BY <2>2, <2>3a DEF SlotInv, InOrder
  <2>4. f \notin open \ {e}
    BY <2>3, <2>3a, <2>3b
  <2>5. IsFiniteSet(open') /\ Cardinality(open') = Cardinality(open)
    <3>1. /\ IsFiniteSet((open \ {e}) \cup {f})
          /\ Cardinality((open \ {e}) \cup {f}) = Cardinality(open \ {e}) + 1
      BY <1>1, <2>4, FS_AddElement
    <3> QED
      BY <1>1, <2>1, <3>1
  <2>6. SlotsAreUsed'
    BY <1>4, <2>1, <2>5 DEF SlotInv, SlotsAreUsed
  <2>7. \A i \in 1..(Len(queue) - 1) :
          /\ queue'[i].nonce <= nonce /\ f.nonce < queue'[i].nonce
          /\ \A x \in open : x.nonce < queue'[i].nonce
          /\ \A j \in 1..(i - 1) : queue'[j].nonce < queue'[i].nonce
    <3> SUFFICES ASSUME NEW i \in 1..(Len(queue) - 1)
                 PROVE /\ queue'[i].nonce <= nonce /\ f.nonce < queue'[i].nonce
                       /\ \A x \in open : x.nonce < queue'[i].nonce
                       /\ \A j \in 1..(i - 1) : queue'[j].nonce < queue'[i].nonce
      OBVIOUS
    <3>1. i + 1 \in DOMAIN queue /\ 1 \in 1..((i + 1) - 1) /\ queue'[i] = queue[i + 1]
      BY <2>2
    <3>2. \A j \in 1..(i - 1) : queue'[j] = queue[j + 1] /\ j + 1 \in 1..((i + 1) - 1)
      BY <2>2
    <3> QED
      BY <2>2, <3>1, <3>2 DEF SlotInv, InOrder
  <2>8. InOrder'
    BY <1>1, <2>1, <2>2, <2>3b, <2>7 DEF SlotInv, InOrder
  <2> QED
    BY <2>1, <2>5, <2>6, <2>8 DEF SlotInv
<1> QED
  BY <1>3, <1>4

LEMMA SlotStep == Shape /\ SlotInv /\ [Next]_vars => SlotInv'
<1> SUFFICES ASSUME Shape, SlotInv, [Next]_vars PROVE SlotInv'
  OBVIOUS
<1>1. CASE UNCHANGED <<queue, count, open, nonce>>
  BY <1>1 DEF SlotInv, SlotsAreUsed, InOrder
<1>2. CASE \E e \in Built : e.nonce = nonce + 1 /\ Dispatch(e)
  BY <1>2, DispatchSlots
<1>3. CASE \E e \in open : Settle(e)
  BY <1>3, SettleSlots
<1>4. CASE GatewayStops
  <2>1. queue' = <<>> /\ count' = 0 /\ open' = {}
    BY <1>4 DEF GatewayStops
  <2>2. IsFiniteSet(open') /\ Cardinality(open') = 0
    BY <2>1, FS_EmptySet
  <2>3. SlotsAreUsed'
    BY <2>1, <2>2, BoundsArePositive DEF SlotsAreUsed
  <2> QED
    BY <2>1, <2>2, <2>3 DEF SlotInv, InOrder
<1>5. \/ UNCHANGED <<queue, count, open, nonce>>
      \/ \E e \in Built : e.nonce = nonce + 1 /\ Dispatch(e)
      \/ \E e \in open : Settle(e)
      \/ GatewayStops
  <2> USE DEF gatewayVars
  <2>1. CASE (\E u \in Updates : Write(u)) \/ Ask \/ Answer \/ StaleAnswer \/ PollFails
    BY <2>1 DEF Write, Ask, Answer, StaleAnswer, PollFails
  <2>2. CASE Route
    <3>1. Least(batch) \in Updates
      BY <2>2, LeastIsOne DEF Route, Shape
    <3>2. \/ UNCHANGED <<queue, count, open, nonce>>
          \/ Dispatch([nonce |-> nonce + 1, items |-> {Least(batch)}, batch |-> FALSE])
      BY <2>2 DEF Route
    <3> QED
      BY <3>1, <3>2, RouteBuilds DEF Shape
  <2>3. CASE \E g \in Albums : Flush(g)
    <3>1. PICK g \in Albums : Flush(g)
      BY <2>3
    <3>2. Dispatch([nonce |-> nonce + 1, items |-> album[g], batch |-> TRUE])
      BY <3>1 DEF Flush
    <3> QED
      BY <3>2, FlushBuilds DEF Shape
  <2>4. CASE (\E e \in InBackend : Reject(e) \/ BackendStep(e)) \/ BackendDies
    BY <2>4 DEF Reject, BackendStep, Accept, Spawn, Acknowledge, BackendDies
  <2>5. CASE UNCHANGED vars
    BY <2>5 DEF vars
  <2> QED
    BY <2>1, <2>2, <2>3, <2>4, <2>5, Zenon DEF Next, PollLoop
<1> QED
  BY <1>1, <1>2, <1>3, <1>4, <1>5

(* Whatever fetches settle and in whatever order, the semaphore counts the *)
(* open ones, and nothing waits while a slot is free.                      *)
THEOREM SlotsAccounted == Spec => []SlotsAreUsed
<1>1. Spec => Init /\ [][Next]_vars
  BY DEF Spec
<1>2. SlotInv => SlotsAreUsed
  BY DEF SlotInv
<1> QED
  BY <1>1, <1>2, DeliveryShape, InitSlotInv, SlotStep, PTL
-----------------------------------------------------------------------------
(* What is left of the types.                                              *)
TypeRest ==
  /\ confirmed \in Nat /\ offset \in Nat /\ poll \in {"idle", "asked", "loop"}
  /\ seen \in Seq(Updates)
  /\ ack \in [Updates -> {"none", "ok", "failed", "again"}]
  /\ dropped \subseteq Updates /\ swallowed \subseteq Updates /\ stubbed \subseteq Updates
  /\ faults \in 0..MaxFaults

(* What is left when the element at a position is removed was there.       *)
LEMMA RemovalKeeps ==
  ASSUME NEW s \in Seq(Updates), NEW p \in 1..Len(s)
  PROVE  /\ RemoveAt(s, p) \in Seq(Updates)
         /\ \A i \in DOMAIN RemoveAt(s, p) : \E j \in DOMAIN s : RemoveAt(s, p)[i] = s[j]
<1> DEFINE a == SubSeq(s, 1, p - 1)
           b == SubSeq(s, p + 1, Len(s))
<1>1. Len(s) \in Nat /\ p \in Nat /\ 1 <= p /\ p <= Len(s) /\ DOMAIN s = 1..Len(s)
  OBVIOUS
<1>2. \A i \in 1..Len(s) : s[i] \in Updates
  BY <1>1
<1>3. /\ a \in Seq(Updates) /\ Len(a) = IF 1 <= p - 1 THEN (p - 1) - 1 + 1 ELSE 0
      /\ \A i \in 1..((p - 1) - 1 + 1) : a[i] = s[1 + i - 1]
  <2>1. 1 \in Int /\ p - 1 \in Int /\ \A i \in 1..(p - 1) : s[i] \in Updates
    BY <1>1, <1>2
  <2> QED
    BY <2>1, SubSeqProperties
<1>4. /\ b \in Seq(Updates)
      /\ Len(b) = IF p + 1 <= Len(s) THEN Len(s) - (p + 1) + 1 ELSE 0
      /\ \A i \in 1..(Len(s) - (p + 1) + 1) : b[i] = s[(p + 1) + i - 1]
  <2>1. p + 1 \in Int /\ Len(s) \in Int /\ \A i \in (p + 1)..Len(s) : s[i] \in Updates
    BY <1>1, <1>2
  <2> QED
    BY <2>1, SubSeqProperties
<1> HIDE DEF a, b
<1>5. /\ Len(a) = p - 1 /\ \A i \in 1..Len(a) : i \in DOMAIN s /\ a[i] = s[i]
  BY <1>1, <1>3
<1>6. /\ Len(b) = Len(s) - p
      /\ \A i \in 1..Len(b) : p + i \in DOMAIN s /\ b[i] = s[p + i]
  <2>1. Len(b) = Len(s) - p
    <3>1. Len(b) = IF p + 1 <= Len(s) THEN Len(s) - (p + 1) + 1 ELSE 0
      BY <1>4
    <3> DEFINE l == Len(s)
               m == Len(b)
    <3>2. /\ l \in Nat /\ p \in Nat /\ p <= l
          /\ m = IF p + 1 <= l THEN l - (p + 1) + 1 ELSE 0
      BY <1>1, <3>1
    <3> HIDE DEF l, m
    <3>3. m = l - p
      BY <3>2
    <3> QED
      BY <3>3 DEF l, m
  <2>2. ASSUME NEW i \in 1..(Len(s) - p)
        PROVE  p + i \in DOMAIN s /\ b[i] = s[p + i]
    <3>1. /\ i \in 1..(Len(s) - (p + 1) + 1) /\ (p + 1) + i - 1 = p + i
          /\ p + i \in 1..Len(s)
      BY <1>1
    <3> QED
      BY <1>1, <1>4, <3>1
  <2> QED
    BY <2>1, <2>2
<1>7. a \o b \in Seq(Updates) /\ DOMAIN (a \o b) = 1..(Len(a) + Len(b))
  <2>1. a \o b \in Seq(Updates) /\ Len(a \o b) = Len(a) + Len(b)
    BY <1>3, <1>4, ConcatProperties
  <2> QED
    BY <2>1, LenProperties
<1>8. \A i \in 1..(Len(a) + Len(b)) :
        (a \o b)[i] = IF i <= Len(a) THEN a[i] ELSE b[i - Len(a)]
  BY <1>3, <1>4, ConcatProperties
<1>9. \A i \in 1..(Len(a) + Len(b)) : \E j \in DOMAIN s : (a \o b)[i] = s[j]
  <2> SUFFICES ASSUME NEW i \in 1..(Len(a) + Len(b))
               PROVE  \E j \in DOMAIN s : (a \o b)[i] = s[j]
    OBVIOUS
  <2>1. CASE i <= Len(a)
    <3>1. i \in 1..Len(a)
      BY <1>1, <1>5, <1>6, <2>1
    <3> QED
      BY <1>5, <1>8, <2>1, <3>1
  <2>2. CASE ~(i <= Len(a))
    <3>1. i - Len(a) \in 1..Len(b)
      BY <1>1, <1>5, <1>6, <2>2
    <3>2. (a \o b)[i] = b[i - Len(a)]
      BY <1>8, <2>2
    <3> QED
      BY <1>6, <3>1, <3>2
  <2> QED
    BY <2>1, <2>2
<1>10. RemoveAt(s, p) = a \o b
  BY DEF RemoveAt, a, b
<1> QED
  BY <1>7, <1>9, <1>10

(* Reordering or evicting, the cache holds what it held, and the new id.   *)
LEMMA TouchKeeps ==
  ASSUME NEW u \in Updates, seen \in Seq(Updates)
  PROVE  /\ Touch(u) \in Seq(Updates)
         /\ \A i \in DOMAIN Touch(u) :
              Touch(u)[i] = u \/ \E j \in DOMAIN seen : Touch(u)[i] = seen[j]
<1> DEFINE Sub(s) == /\ s \in Seq(Updates)
                     /\ \A i \in DOMAIN s : \E j \in DOMAIN seen : s[i] = seen[j]
<1>1. ASSUME NEW s, Sub(s)
      PROVE  /\ Append(s, u) \in Seq(Updates)
             /\ \A i \in DOMAIN Append(s, u) :
                  \/ Append(s, u)[i] = u
                  \/ \E j \in DOMAIN seen : Append(s, u)[i] = seen[j]
  <2>1. s \in Seq(Updates) /\ \A i \in DOMAIN s : \E j \in DOMAIN seen : s[i] = seen[j]
    BY <1>1
  <2>2. DOMAIN s = 1..Len(s) /\ Len(s) \in Nat
    BY <2>1
  <2>3. /\ Append(s, u) \in Seq(Updates) /\ DOMAIN Append(s, u) = 1..(Len(s) + 1)
        /\ \A i \in 1..Len(s) : Append(s, u)[i] = s[i]
        /\ Append(s, u)[Len(s) + 1] = u
    BY <2>1, <2>2
  <2>4. \A i \in 1..(Len(s) + 1) : i = Len(s) + 1 \/ i \in 1..Len(s)
    BY <2>2
  <2> QED
    BY <2>1, <2>2, <2>3, <2>4
<1>2. Sub(seen)
  OBVIOUS
<1>3. seen # <<>> => Sub(Tail(seen))
  OBVIOUS
<1>4. CASE Contains(seen, u)
  <2> DEFINE p == CHOOSE i \in 1..Len(seen) : seen[i] = u
  <2>1. p \in 1..Len(seen)
    BY <1>4 DEF Contains
  <2> HIDE DEF p
  <2>2. Sub(RemoveAt(seen, p))
    BY <2>1, RemovalKeeps
  <2>3. Touch(u) = Append(RemoveAt(seen, p), u)
    BY <1>4 DEF Touch, p
  <2> QED
    BY <1>1, <2>2, <2>3
<1>5. CASE ~Contains(seen, u)
  <2>1. Touch(u) = Append(IF Len(seen) < Capacity THEN seen ELSE Tail(seen), u)
    BY <1>5 DEF Touch
  <2>2. seen = <<>> => Len(seen) < Capacity
    BY BoundsArePositive
  <2>3. Sub(IF Len(seen) < Capacity THEN seen ELSE Tail(seen))
    BY <1>2, <1>3, <2>2
  <2> QED
    BY <1>1, <2>1, <2>3
<1> QED
  BY <1>4, <1>5

LEMMA ItemsAreUpdates ==
  ASSUME NEW E, E \subseteq Built
  PROVE  ItemsOf(E) \subseteq Updates
BY DEF ItemsOf, Built, Envelope

LEMMA InitTypeRest == Init => TypeRest
BY BoundsArePositive DEF Init, TypeRest

LEMMA TypeRestStep == Shape /\ TypeRest /\ [Next]_vars => TypeRest'
<1> SUFFICES ASSUME Shape, TypeRest, [Next]_vars PROVE TypeRest'
  OBVIOUS
<1> USE DEF TypeRest, telegramVars, gatewayVars, backendVars, historyVars
<1>0. Fault => faults' \in 0..MaxFaults
  BY BoundsArePositive DEF Fault
<1>1. CASE (\E u \in Updates : Write(u)) \/ Ask \/ Answer
  BY <1>1 DEF Write, Ask, Answer
<1>2. CASE StaleAnswer \/ PollFails
  BY <1>0, <1>2 DEF StaleAnswer, PollFails
<1>3. CASE Route
  <2>1. Least(batch) \in Updates /\ Least(batch) \in Nat
    BY <1>3, LeastIsOne, UpdatesAreIds DEF Route, Shape
  <2>2. seen' = Touch(Least(batch))
    BY <1>3 DEF Route
  <2>3. seen' \in Seq(Updates)
    BY <2>1, <2>2, TouchKeeps
  <2>4. offset' \in Nat /\ poll' \in {"idle", "asked", "loop"}
    BY <1>3, <2>1 DEF Route
  <2>5. UNCHANGED <<confirmed, ack, dropped, swallowed, stubbed, faults>>
    BY <1>3 DEF Route
  <2> QED
    BY <2>3, <2>4, <2>5
<1>4. CASE (\E g \in Albums : Flush(g)) \/ (\E e \in open : Settle(e))
  BY <1>4 DEF Flush, Settle
<1>5. CASE GatewayStops
  <2>1. ItemsOf(Range(queue)) \subseteq Updates
    <3>1. Range(queue) \subseteq Built
      BY DEF Range, Shape
    <3> QED
      BY <3>1, ItemsAreUpdates
  <2>2. Buffered \subseteq Updates
    BY DEF Shape, Buffered
  <2>3. dropped' \subseteq Updates
    <3> SUFFICES ASSUME NEW u \in dropped' PROVE u \in Updates
      OBVIOUS
    <3>1. \/ u \in dropped \/ u \in batch
          \/ u \in Buffered \/ u \in ItemsOf(Range(queue))
      BY <1>5, Zenon DEF GatewayStops
    <3>2. dropped \subseteq Updates /\ batch \subseteq Updates
      BY DEF Shape
    <3>3. CASE u \in Buffered
      BY <2>2, <3>3, Zenon
    <3>4. CASE u \in ItemsOf(Range(queue))
      BY <2>1, <3>4, Zenon
    <3> QED
      BY <3>1, <3>2, <3>3, <3>4, Zenon
  <2> QED
    BY <1>0, <1>5, <2>3 DEF GatewayStops
<1>6. CASE \E e \in InBackend : Reject(e)
  <2>1. PICK e \in Built : Reject(e)
    BY <1>6 DEF Reject, Shape
  <2> QED
    BY <2>1 DEF Reject, Built, Envelope
<1>7. CASE \E e \in InBackend : BackendStep(e)
  <2>1. PICK e \in Built : BackendStep(e)
    BY <1>7 DEF InBackend, Shape
  <2>2. e.items \subseteq Updates
    BY DEF Built, Envelope
  <2>3. CASE Accept(e) \/ Spawn(e)
    BY <2>2, <2>3 DEF Accept, Spawn
  <2>4. CASE Acknowledge(e)
    BY <2>4 DEF Acknowledge
  <2> QED
    BY <2>1, <2>3, <2>4 DEF BackendStep
<1>8. CASE BackendDies
  <2>1. ItemsOf({h.env : h \in handlers}) \subseteq Updates
    <3>1. {h.env : h \in handlers} \subseteq Built
      BY DEF Shape
    <3> QED
      BY <3>1, ItemsAreUpdates
  <2> QED
    BY <1>0, <1>8, <2>1 DEF BackendDies
<1>9. CASE UNCHANGED vars
  BY <1>9 DEF vars
<1> QED
  BY <1>1, <1>2, <1>3, <1>4, <1>5, <1>6, <1>7, <1>8, <1>9, Zenon DEF Next, PollLoop

(* The variables keep their types.                                         *)
THEOREM DeliveryTyping == Spec => []TypeOK
<1>1. Spec => Init /\ [][Next]_vars
  BY DEF Spec
<1>2. Shape /\ SlotInv /\ TypeRest => TypeOK
  <2> SUFFICES ASSUME Shape, SlotInv, TypeRest PROVE TypeOK
    OBVIOUS
  <2>1. Built \subseteq Envelope
    BY DEF Built
  <2>2. queue \in Seq(Envelope)
    BY <2>1, SeqMonotonic DEF Shape
  <2>3. handlers \subseteq [env : Envelope, at : {"logged", "acking"}]
    BY <2>1 DEF Shape
  <2> QED
    BY <2>1, <2>2, <2>3 DEF TypeOK, Shape, SlotInv, TypeRest
<1> QED
  BY <1>1, <1>2, DeliveryShape, InitSlotInv, SlotStep, InitTypeRest, TypeRestStep, PTL
-----------------------------------------------------------------------------
(* Where an update can be.                                                 *)
InAlbum(u) == \E g \in Albums : u \in album[g]

Waiting(u) == \E i \in DOMAIN queue : u \in queue[i].items

OnNet(u) == \E e \in net : u \in e.items

InHand(u) == \E h \in handlers : u \in h.env.items

Done(u) == runs[u] > 0 \/ u \in stubbed \/ u \in dropped

Taken(k) == \E v \in Updates : KeyOf[v] = k /\ (Done(v) \/ InHand(v))

Safe(u) == \/ InAlbum(u) \/ Waiting(u) \/ OnNet(u) \/ InHand(u) \/ Done(u)
           \/ u \in swallowed /\ Taken(KeyOf[u])

(* What has been confirmed, or will be, is safe already: the gateway moves *)
(* its offset past an update only once it has it in hand, and takes an     *)
(* answer in order, skipping nothing that was sent.                        *)
Kept == \A u \in sent : u < confirmed \/ u < offset => Safe(u)

BatchIsWhole ==
  /\ batch \subseteq sent /\ (poll # "loop" => batch = {})
  /\ \A u \in batch : \A v \in sent : v < u => v \in batch \/ v < offset \/ v < confirmed

SeenBelow == \A i \in DOMAIN seen : seen[i] < offset

SentInOrder ==
  \A u \in Updates : (\A v \in sent : v < u) => offset <= u /\ confirmed <= u

(* A row of the log has been taken up, and an acknowledgement comes after  *)
(* the pipeline.                                                           *)
LogIsTaken == \A k \in log : Taken(k)

AckedRan == \A h \in handlers : h.at = "acking" =>
              \A u \in h.env.items : runs[u] > 0 \/ u \in stubbed

GatewayInv == BatchIsWhole /\ SeenBelow /\ SentInOrder

BackendInv == LogIsTaken /\ AckedRan

LEMMA SafeIsEnough == Shape /\ Kept => NothingVanishes
<1> SUFFICES ASSUME Shape, Kept, NEW u \in sent, u < confirmed
             PROVE  \/ u \in InTransit
                    \/ runs[u] > 0 \/ u \in stubbed
                    \/ u \in swallowed /\ TakenUp(KeyOf[u])
                    \/ u \in dropped
  BY DEF NothingVanishes
<1>1. Safe(u)
  BY DEF Kept
<1>2. \A v : InHand(v) <=> v \in ItemsOf({h.env : h \in handlers})
  BY DEF InHand, ItemsOf
<1>3. InAlbum(u) => u \in Buffered
  BY DEF InAlbum, Buffered
<1>4. Waiting(u) => u \in ItemsOf(Range(queue))
  BY DEF Waiting, ItemsOf, Range
<1>5. OnNet(u) => u \in ItemsOf(net)
  BY DEF OnNet, ItemsOf
<1>6. InAlbum(u) \/ Waiting(u) \/ OnNet(u) \/ InHand(u) => u \in InTransit
  BY <1>2, <1>3, <1>4, <1>5, Zenon DEF InTransit
<1>7. Taken(KeyOf[u]) => TakenUp(KeyOf[u])
  BY <1>2, Zenon DEF Taken, TakenUp, Done
<1> QED
  BY <1>1, <1>6, <1>7, Zenon DEF Safe, Done

LEMMA InitKept == Init => Kept /\ GatewayInv /\ BackendInv
<1> SUFFICES ASSUME Init PROVE Kept /\ GatewayInv /\ BackendInv
  OBVIOUS
<1>1. /\ sent = {} /\ batch = {} /\ seen = <<>> /\ log = {} /\ handlers = {}
      /\ offset = 0 /\ confirmed = 0
  BY DEF Init
<1>2. \A u \in Updates : u \in Nat
  BY UpdatesAreIds
<1> QED
  BY <1>1, <1>2 DEF Kept, GatewayInv, BackendInv, BatchIsWhole, SeenBelow, SentInOrder,
                    LogIsTaken, AckedRan

(* A step that loses no update on its way keeps the safe ones safe.        *)
LEMMA SafeStays ==
  ASSUME \A u \in Updates : InAlbum(u) \/ Waiting(u) \/ OnNet(u) => Safe(u)',
         \A u \in Updates : InHand(u) => InHand(u)' \/ Done(u)',
         \A u \in Updates : Done(u) => Done(u)',
         swallowed \subseteq swallowed'
  PROVE  /\ \A k : Taken(k) => Taken(k)'
         /\ \A u \in Updates : Safe(u) => Safe(u)'
<1>1. \A k : Taken(k) => Taken(k)'
  BY DEF Taken
<1> QED
  BY <1>1 DEF Safe

LEMMA BackendHandles ==
  ASSUME Shape, BackendInv, NEW e \in Built, Reject(e) \/ BackendStep(e)
  PROVE  (\A u \in Updates : Safe(u) => Safe(u)') /\ BackendInv'
<1> USE DEF telegramVars, gatewayVars, historyVars
<1>1. CASE Reject(e)
  <2>1. /\ net' = net \ {e} /\ dropped' = dropped \cup e.items
        /\ UNCHANGED <<album, queue, handlers, log, runs, swallowed, stubbed>>
    BY <1>1 DEF Reject, backendVars
  <2>2. \A u \in Updates : (Done(u) => Done(u)') /\ (InHand(u) => InHand(u)')
    BY <2>1 DEF Done, InHand
  <2>3. \A u \in Updates : InAlbum(u) \/ Waiting(u) \/ OnNet(u) => Safe(u)'
    BY <2>1 DEF InAlbum, Waiting, OnNet, Safe, Done
  <2>4. (\A k : Taken(k) => Taken(k)') /\ \A u \in Updates : Safe(u) => Safe(u)'
    BY <2>1, <2>2, <2>3, SafeStays
  <2>5. BackendInv'
    BY <2>1, <2>4 DEF BackendInv, LogIsTaken, AckedRan
  <2> QED
    BY <2>4, <2>5
<1>2. CASE Accept(e) /\ Key(e) \in log
  <2>1. /\ net' = net \ {e} /\ swallowed' = swallowed \cup e.items
        /\ UNCHANGED <<album, queue, handlers, log, runs, dropped, stubbed>>
    BY <1>2 DEF Accept
  <2>2. \A u \in Updates : (Done(u) => Done(u)') /\ (InHand(u) => InHand(u)')
    BY <2>1 DEF Done, InHand
  <2>3. e.batch = FALSE
    BY <1>2, AlbumKey, NoKeyIsNone DEF Shape
  <2>4. PICK w \in Updates : e.items = {w} /\ Key(e) = KeyOf[w]
    BY <2>3, SingleKey
  <2>5. Taken(KeyOf[w])'
    <3>1. Taken(KeyOf[w])
      BY <1>2, <2>4 DEF BackendInv, LogIsTaken
    <3> QED
      BY <2>2, <3>1 DEF Taken
  <2>6. \A u \in Updates : InAlbum(u) \/ Waiting(u) \/ OnNet(u) => Safe(u)'
    BY <2>1, <2>4, <2>5 DEF InAlbum, Waiting, OnNet, Safe
  <2>7. (\A k : Taken(k) => Taken(k)') /\ \A u \in Updates : Safe(u) => Safe(u)'
    BY <2>1, <2>2, <2>6, SafeStays
  <2>8. BackendInv'
    BY <2>1, <2>7 DEF BackendInv, LogIsTaken, AckedRan
  <2> QED
    BY <2>7, <2>8
<1>3. CASE Accept(e) /\ Key(e) \notin log
  <2> DEFINE h == [env |-> e, at |-> "logged"]
  <2>1. /\ net' = net \ {e} /\ handlers' = handlers \cup {h}
        /\ log' = log \cup ({Key(e)} \ {None})
        /\ UNCHANGED <<album, queue, runs, dropped, swallowed, stubbed>>
    BY <1>3 DEF Accept
  <2>2. h.env = e /\ h.at = "logged"
    OBVIOUS
  <2> HIDE DEF h
  <2>3. \A u \in Updates : (Done(u) => Done(u)') /\ (InHand(u) => InHand(u)')
    BY <2>1 DEF Done, InHand
  <2>4. \A u \in e.items : InHand(u)'
    BY <2>1, <2>2 DEF InHand
  <2>5. \A u \in Updates : InAlbum(u) \/ Waiting(u) \/ OnNet(u) => Safe(u)'
    BY <2>1, <2>4 DEF InAlbum, Waiting, OnNet, Safe
  <2>6. (\A k : Taken(k) => Taken(k)') /\ \A u \in Updates : Safe(u) => Safe(u)'
    BY <2>1, <2>3, <2>5, SafeStays
  <2>7. Key(e) # None => Taken(Key(e))'
    <3> SUFFICES ASSUME Key(e) # None PROVE Taken(Key(e))'
      OBVIOUS
    <3>1. PICK w \in Updates : e.items = {w} /\ Key(e) = KeyOf[w]
      BY SingleKey, AlbumKey
    <3>2. InHand(w)'
      BY <2>4, <3>1
    <3> QED
      BY <3>1, <3>2 DEF Taken
  <2>8. LogIsTaken'
    BY <2>1, <2>6, <2>7 DEF BackendInv, LogIsTaken
  <2>9. AckedRan'
    BY <2>1, <2>2 DEF BackendInv, AckedRan
  <2> QED
    BY <2>6, <2>8, <2>9 DEF BackendInv
<1>4. CASE Spawn(e)
  <2> DEFINE h == [env |-> e, at |-> "logged"]
             n == [env |-> e, at |-> "acking"]
  <2>1. /\ h \in handlers /\ handlers' = (handlers \ {h}) \cup {n}
        /\ UNCHANGED <<album, queue, net, log, dropped, swallowed>>
    BY <1>4 DEF Spawn
  <2>2. h.env = e /\ h.at = "logged" /\ n.env = e /\ n.at = "acking"
    OBVIOUS
  <2>3. \/ /\ runs' = [u \in Updates |-> IF u \in e.items THEN runs[u] + 1 ELSE runs[u]]
           /\ stubbed' = stubbed
        \/ stubbed' = stubbed \cup e.items /\ runs' = runs
    BY <1>4 DEF Spawn
  <2> HIDE DEF h, n
  <2>4. e.items \subseteq Updates
    BY DEF Built, Envelope
  <2>5. /\ \A u \in Updates : runs[u] > 0 \/ u \in stubbed => runs'[u] > 0 \/ u \in stubbed'
        /\ \A u \in e.items : runs'[u] > 0 \/ u \in stubbed'
    BY <2>3, <2>4 DEF Shape
  <2>6. \A u \in Updates : (Done(u) => Done(u)') /\ (InHand(u) => InHand(u)')
    BY <2>1, <2>2, <2>5 DEF Done, InHand
  <2>7. \A u \in Updates : InAlbum(u) \/ Waiting(u) \/ OnNet(u) => Safe(u)'
    BY <2>1 DEF InAlbum, Waiting, OnNet, Safe
  <2>8. (\A k : Taken(k) => Taken(k)') /\ \A u \in Updates : Safe(u) => Safe(u)'
    BY <2>1, <2>6, <2>7, SafeStays
  <2>9. LogIsTaken'
    BY <2>1, <2>8 DEF BackendInv, LogIsTaken
  <2>10. \A g \in handlers : g.env.items \subseteq Updates
    BY DEF Shape, Built, Envelope
  <2>11. AckedRan'
    BY <2>1, <2>2, <2>5, <2>10 DEF BackendInv, AckedRan
  <2> QED
    BY <2>8, <2>9, <2>11 DEF BackendInv
<1>5. CASE Acknowledge(e)
  <2> DEFINE n == [env |-> e, at |-> "acking"]
  <2>1. /\ n \in handlers /\ handlers' = handlers \ {n}
        /\ UNCHANGED <<album, queue, net, log, runs, dropped, swallowed, stubbed>>
    BY <1>5 DEF Acknowledge
  <2>2. n.env = e /\ n.at = "acking"
    OBVIOUS
  <2> HIDE DEF n
  <2>3. \A u \in Updates : (Done(u) => Done(u)') /\ (InHand(u) => InHand(u)' \/ Done(u)')
    BY <2>1, <2>2 DEF Done, InHand, BackendInv, AckedRan
  <2>4. \A u \in Updates : InAlbum(u) \/ Waiting(u) \/ OnNet(u) => Safe(u)'
    BY <2>1 DEF InAlbum, Waiting, OnNet, Safe
  <2>5. (\A k : Taken(k) => Taken(k)') /\ \A u \in Updates : Safe(u) => Safe(u)'
    BY <2>1, <2>3, <2>4, SafeStays
  <2>6. BackendInv'
    BY <2>1, <2>5 DEF BackendInv, LogIsTaken, AckedRan
  <2> QED
    BY <2>5, <2>6
<1> QED
  BY <1>1, <1>2, <1>3, <1>4, <1>5 DEF BackendStep

LEMMA BackendFalls ==
  ASSUME Shape, BackendInv, BackendDies
  PROVE  (\A u \in Updates : Safe(u) => Safe(u)') /\ BackendInv'
<1>1. /\ handlers' = {} /\ dropped' = dropped \cup ItemsOf({h.env : h \in handlers})
      /\ UNCHANGED <<album, queue, net, log, runs, swallowed, stubbed>>
  BY DEF BackendDies, gatewayVars
<1>2. \A u \in Updates : (Done(u) => Done(u)') /\ (InHand(u) => Done(u)')
  BY <1>1 DEF Done, InHand, ItemsOf
<1>3. \A u \in Updates : InAlbum(u) \/ Waiting(u) \/ OnNet(u) => Safe(u)'
  BY <1>1 DEF InAlbum, Waiting, OnNet, Safe
<1>4. (\A k : Taken(k) => Taken(k)') /\ \A u \in Updates : Safe(u) => Safe(u)'
  BY <1>1, <1>2, <1>3, SafeStays
<1> QED
  BY <1>1, <1>4 DEF BackendInv, LogIsTaken, AckedRan

(* What the gateway does leaves the backend alone.                         *)
LEMMA BackendRests ==
  ASSUME UNCHANGED <<handlers, log, runs, stubbed>>, dropped \subseteq dropped'
  PROVE  /\ \A u \in Updates : (Done(u) => Done(u)') /\ (InHand(u) => InHand(u)')
         /\ BackendInv => BackendInv'
<1>1. \A u \in Updates : (Done(u) => Done(u)') /\ (InHand(u) => InHand(u)')
  BY DEF Done, InHand
<1>2. \A k : Taken(k) => Taken(k)'
  BY <1>1 DEF Taken
<1> QED
  BY <1>1, <1>2 DEF BackendInv, LogIsTaken, AckedRan

(* A dispatched envelope waits or is on the net, and so is what was.       *)
LEMMA DispatchKeeps ==
  ASSUME NEW e \in Built, Dispatch(e), queue \in Seq(Built)
  PROVE  /\ \A u : Waiting(u) \/ OnNet(u) => Waiting(u)' \/ OnNet(u)'
         /\ \A u \in e.items : Waiting(u)' \/ OnNet(u)'
<1>1. CASE net' = net \cup {e} /\ queue' = queue
  BY <1>1 DEF Waiting, OnNet
<1>2. CASE queue' = Append(queue, e) /\ net' = net
  <2>1. /\ Len(queue) \in Nat /\ DOMAIN queue = 1..Len(queue)
        /\ DOMAIN queue' = 1..(Len(queue) + 1)
        /\ \A i \in 1..Len(queue) : queue'[i] = queue[i]
        /\ queue'[Len(queue) + 1] = e
    BY <1>2
  <2>2. \A i \in DOMAIN queue : i \in DOMAIN queue' /\ queue'[i] = queue[i]
    BY <2>1
  <2>3. Len(queue) + 1 \in DOMAIN queue'
    BY <2>1
  <2>4. \A u : OnNet(u) => OnNet(u)'
    BY <1>2 DEF OnNet
  <2> QED
    BY <2>1, <2>2, <2>3, <2>4 DEF Waiting
<1> QED
  BY <1>1, <1>2 DEF Dispatch

LEMMA RouteKeeps ==
  ASSUME Shape, TypeRest, Kept, GatewayInv, BackendInv, Route
  PROVE  Kept' /\ GatewayInv' /\ BackendInv'
<1>0. PICK u \in Updates : u = Least(batch)
  BY LeastIsOne DEF Route, Shape
<1>1. /\ u \in batch /\ u \in Updates /\ u \in Nat /\ \A v \in batch : u <= v
      /\ \A v \in Updates : v \in Nat
  <2>1. batch # {} /\ batch \subseteq Updates
    BY DEF Route, Shape
  <2>2. u \in batch
    BY <1>0, <2>1, LeastIsOne
  <2>3. \A v \in batch : u <= v
    BY <1>0, <2>1, LeastIsOne
  <2> QED
    BY <2>1, <2>2, <2>3, UpdatesAreIds
<1>2. /\ batch' = batch \ {u} /\ (poll' # "loop" => batch' = {})
      /\ offset' = IF u >= offset THEN u + 1 ELSE offset
      /\ seen' = Touch(u)
      /\ UNCHANGED <<sent, confirmed, handlers, log, runs, ack, dropped, swallowed, stubbed>>
  BY <1>0 DEF Route, telegramVars, backendVars, historyVars
<1>3. /\ \A v \in Updates : InAlbum(v) \/ Waiting(v) \/ OnNet(v) => Safe(v)'
      /\ u >= offset => Safe(u)'
  <2>1. CASE Contains(seen, u)
    <3>1. UNCHANGED <<album, queue, net>>
      BY <1>0, <2>1 DEF Route
    <3>2. u < offset
      BY <2>1 DEF Contains, GatewayInv, SeenBelow, TypeRest
    <3>3. ~(u >= offset)
      BY <1>1, <3>2 DEF TypeRest
    <3> QED
      BY <3>1, <3>3 DEF InAlbum, Waiting, OnNet, Safe
  <2>2. CASE ~Contains(seen, u) /\ AlbumOf[u] # None
    <3>1. /\ album' = [album EXCEPT ![AlbumOf[u]] = @ \cup {u}]
          /\ UNCHANGED <<queue, net>>
      BY <1>0, <2>2 DEF Route
    <3>2. AlbumOf[u] \in Albums
      BY <1>1, <2>2, MapsAreTotal
    <3>3. /\ \A g \in Albums : album[g] \subseteq album'[g]
          /\ u \in album'[AlbumOf[u]]
      BY <3>1, <3>2 DEF Shape
    <3>4. InAlbum(u)' /\ \A v : InAlbum(v) => InAlbum(v)'
      BY <3>2, <3>3 DEF InAlbum
    <3>5. \A v : (Waiting(v) => Waiting(v)') /\ (OnNet(v) => OnNet(v)')
      BY <3>1 DEF Waiting, OnNet
    <3> QED
      BY <3>4, <3>5 DEF Safe
  <2>3. CASE ~Contains(seen, u) /\ AlbumOf[u] = None
    <3> DEFINE e == [nonce |-> nonce + 1, items |-> {u}, batch |-> FALSE]
    <3>1. Dispatch(e) /\ album' = album
      BY <1>0, <2>3 DEF Route
    <3>2. e \in Built /\ u \in e.items
      BY <1>1, RouteBuilds DEF Shape
    <3> HIDE DEF e
    <3>3. /\ \A v : Waiting(v) \/ OnNet(v) => Waiting(v)' \/ OnNet(v)'
          /\ Waiting(u)' \/ OnNet(u)'
      BY <3>1, <3>2, DispatchKeeps DEF Shape
    <3>4. \A v : InAlbum(v) => InAlbum(v)'
      BY <3>1 DEF InAlbum
    <3> QED
      BY <3>3, <3>4 DEF Safe
  <2> QED
    BY <2>1, <2>2, <2>3
<1>4. \A v \in Updates : Safe(v) => Safe(v)'
  BY <1>2, <1>3, BackendRests, SafeStays
<1>5. BackendInv'
  BY <1>2, BackendRests
<1>6. offset \in Nat /\ confirmed \in Nat /\ sent \subseteq Updates /\ offset <= offset'
      /\ u < offset' /\ offset' \in Nat
  BY <1>1, <1>2 DEF TypeRest, Shape
<1>7. Kept'
  <2> SUFFICES ASSUME NEW v \in sent, v < confirmed \/ v < offset' PROVE Safe(v)'
    BY <1>2 DEF Kept
  <2>1. CASE v < confirmed \/ v < offset
    BY <1>4, <1>6, <2>1 DEF Kept
  <2>2. CASE ~(v < confirmed) /\ ~(v < offset) /\ v = u
    BY <1>1, <1>3, <1>6, <2>2
  <2>3. CASE ~(v < confirmed) /\ ~(v < offset) /\ v # u
    <3>1. v \in Nat /\ v < u
      BY <1>1, <1>2, <1>6, <2>3
    <3>2. v \in batch
      BY <1>1, <2>3, <3>1 DEF GatewayInv, BatchIsWhole
    <3> QED
      BY <1>1, <3>1, <3>2
  <2> QED
    BY <2>1, <2>2, <2>3
<1>8. BatchIsWhole'
  <2>1. batch' \subseteq sent'
    BY <1>2 DEF GatewayInv, BatchIsWhole
  <2>2. ASSUME NEW w \in batch', NEW v \in sent, v < w
        PROVE  v \in batch' \/ v < offset' \/ v < confirmed
    <3>1. v \in batch \/ v < offset \/ v < confirmed
      BY <1>2, <2>2 DEF GatewayInv, BatchIsWhole
    <3>2. v \in Nat
      BY <1>1, <1>6
    <3> QED
      BY <1>2, <1>6, <3>1, <3>2
  <2> QED
    BY <1>2, <2>1, <2>2 DEF BatchIsWhole
<1>9. SeenBelow'
  <2>1. \A i \in DOMAIN seen' : seen'[i] = u \/ \E j \in DOMAIN seen : seen'[i] = seen[j]
    BY <1>1, <1>2, TouchKeeps DEF TypeRest
  <2>2. \A j \in DOMAIN seen : seen[j] \in Nat /\ seen[j] < offset
    <3>1. \A j \in DOMAIN seen : seen[j] \in Updates
      BY DEF TypeRest
    <3> QED
      BY <1>1, <3>1 DEF GatewayInv, SeenBelow
  <2>3. \A j \in DOMAIN seen : seen[j] < offset'
    BY <1>6, <2>2
  <2> QED
    BY <1>6, <2>1, <2>3 DEF SeenBelow
<1>10. SentInOrder'
  <2> SUFFICES ASSUME NEW w \in Updates, \A v \in sent : v < w
               PROVE  offset' <= w /\ confirmed <= w
    BY <1>2 DEF SentInOrder
  <2>1. offset <= w /\ confirmed <= w
    BY DEF GatewayInv, SentInOrder
  <2>2. u < w /\ w \in Nat
    BY <1>1, <2>1 DEF GatewayInv, BatchIsWhole
  <2> QED
    BY <1>1, <1>2, <2>1, <2>2
<1> QED
  BY <1>5, <1>7, <1>8, <1>9, <1>10 DEF GatewayInv

LEMMA FlushKeeps ==
  ASSUME Shape, Kept, NEW g \in Albums, Flush(g)
  PROVE  \A u \in Updates : Safe(u) => Safe(u)'
<1> DEFINE e == [nonce |-> nonce + 1, items |-> album[g], batch |-> TRUE]
<1>1. /\ Dispatch(e) /\ album' = [album EXCEPT ![g] = {}]
      /\ UNCHANGED <<handlers, log, runs, stubbed, dropped, swallowed>>
  BY DEF Flush, backendVars, historyVars
<1>2. e \in Built /\ e.items = album[g]
  BY FlushBuilds DEF Shape
<1> HIDE DEF e
<1>3. /\ \A u : Waiting(u) \/ OnNet(u) => Waiting(u)' \/ OnNet(u)'
      /\ \A u \in album[g] : Waiting(u)' \/ OnNet(u)'
  BY <1>1, <1>2, DispatchKeeps DEF Shape
<1>4. \A h \in Albums \ {g} : album'[h] = album[h]
  BY <1>1 DEF Shape
<1>5. \A u : InAlbum(u) => InAlbum(u)' \/ u \in album[g]
  BY <1>4 DEF InAlbum
<1>6. \A u \in Updates : InAlbum(u) \/ Waiting(u) \/ OnNet(u) => Safe(u)'
  BY <1>3, <1>5 DEF Safe
<1> QED
  BY <1>1, <1>6, BackendRests, SafeStays

LEMMA SettleKeeps ==
  ASSUME Shape, NEW e \in open, Settle(e)
  PROVE  \A u \in Updates : Safe(u) => Safe(u)'
<1>1. UNCHANGED <<album, handlers, log, runs, stubbed, dropped, swallowed>>
  BY DEF Settle, backendVars, historyVars
<1>2. \A u : Waiting(u) \/ OnNet(u) => Waiting(u)' \/ OnNet(u)'
  <2>1. CASE queue = <<>>
    BY <2>1 DEF Settle, Waiting, OnNet
  <2>2. CASE queue # <<>>
    <3>1. /\ net' = net \cup {Head(queue)} /\ queue' = Tail(queue)
      BY <2>2 DEF Settle
    <3>2. /\ Len(queue) \in Nat \ {0} /\ DOMAIN queue = 1..Len(queue)
          /\ DOMAIN queue' = 1..(Len(queue) - 1)
          /\ \A i \in 1..(Len(queue) - 1) : queue'[i] = queue[i + 1]
          /\ Head(queue) = queue[1]
      BY <2>2, <3>1 DEF Shape
    <3>3. \A i \in DOMAIN queue : \/ queue[i] = Head(queue)
                                  \/ \E j \in DOMAIN queue' : queue[i] = queue'[j]
      <4> SUFFICES ASSUME NEW i \in 1..Len(queue), i # 1
                   PROVE  \E j \in DOMAIN queue' : queue[i] = queue'[j]
        BY <3>2
      <4>1. i - 1 \in 1..(Len(queue) - 1) /\ (i - 1) + 1 = i
        BY <3>2
      <4> QED
        BY <3>2, <4>1
    <3> QED
      BY <3>1, <3>3 DEF Waiting, OnNet
  <2> QED
    BY <2>1, <2>2
<1>3. \A u \in Updates : InAlbum(u) \/ Waiting(u) \/ OnNet(u) => Safe(u)'
  BY <1>1, <1>2 DEF InAlbum, Safe
<1> QED
  BY <1>1, <1>3, BackendRests, SafeStays

(* What a stopping gateway held goes to Telegram's next answer, unless it  *)
(* had been confirmed.                                                     *)
LEMMA StopKeeps ==
  ASSUME Shape, TypeRest, Kept, GatewayInv, BackendInv, GatewayStops
  PROVE  Kept' /\ GatewayInv' /\ BackendInv'
<1>1. /\ offset' = 0 /\ poll' = "idle" /\ batch' = {} /\ seen' = <<>>
      /\ UNCHANGED <<sent, confirmed, net, handlers, log, runs, swallowed, stubbed>>
  BY DEF GatewayStops, telegramVars, backendVars
<1>2. dropped' = dropped \cup {u \in batch \cup Buffered \cup ItemsOf(Range(queue)) :
                               u < confirmed}
  BY DEF GatewayStops
<1>3. BackendInv' /\ \A u \in Updates : (Done(u) => Done(u)') /\ (InHand(u) => InHand(u)')
  BY <1>1, <1>2, BackendRests
<1>4. ASSUME NEW u \in sent, u < confirmed
      PROVE  Safe(u)'
  <2>1. u \in Updates /\ Safe(u)
    BY <1>4 DEF Kept, Shape
  <2>2. CASE InAlbum(u) \/ Waiting(u)
    <3>1. u \in Buffered \/ u \in ItemsOf(Range(queue))
      BY <2>2 DEF InAlbum, Waiting, Buffered, ItemsOf, Range
    <3>2. u \in dropped'
      BY <1>2, <1>4, <3>1
    <3> QED
      BY <3>2 DEF Safe, Done
  <2>3. CASE OnNet(u) \/ InHand(u) \/ Done(u)
    BY <1>1, <1>3, <2>1, <2>3 DEF OnNet, Safe
  <2>4. CASE u \in swallowed /\ Taken(KeyOf[u])
    <3>1. Taken(KeyOf[u])'
      BY <1>3, <2>4 DEF Taken
    <3> QED
      BY <1>1, <2>4, <3>1 DEF Safe
  <2> QED
    BY <2>1, <2>2, <2>3, <2>4 DEF Safe
<1>5. \A u \in Updates : u \in Nat
  BY UpdatesAreIds
<1>6. Kept'
  BY <1>1, <1>4, <1>5 DEF Kept, Shape
<1>7. GatewayInv'
  BY <1>1, <1>5 DEF GatewayInv, BatchIsWhole, SeenBelow, SentInOrder
<1> QED
  BY <1>3, <1>6, <1>7

(* Telegram and the polling loop between two answers.                      *)
LEMMA PollKeeps ==
  ASSUME Shape, TypeRest, Kept, GatewayInv, BackendInv,
         (\E u \in Updates : Write(u)) \/ Ask \/ Answer \/ StaleAnswer \/ PollFails
  PROVE  Kept' /\ GatewayInv' /\ BackendInv'
<1> USE DEF telegramVars, gatewayVars, backendVars, historyVars
<1>1. /\ UNCHANGED <<offset, seen, album, queue, net, handlers, log, runs, stubbed, dropped,
                     swallowed>>
  BY DEF Write, Ask, Answer, StaleAnswer, PollFails
<1>2. BackendInv' /\ \A u \in Updates : Safe(u) => Safe(u)'
  <2>1. \A u \in Updates : InAlbum(u) \/ Waiting(u) \/ OnNet(u) => Safe(u)'
    BY <1>1 DEF InAlbum, Waiting, OnNet, Safe
  <2> QED
    BY <1>1, <2>1, BackendRests, SafeStays
<1>3. SeenBelow'
  BY <1>1 DEF GatewayInv, SeenBelow
<1>4. \A u \in Updates : u \in Nat
  BY UpdatesAreIds
<1>5. sent \subseteq Updates /\ offset \in Nat /\ confirmed \in Nat
  BY DEF Shape, TypeRest
<1>6. CASE \E u \in Updates : Write(u)
  <2>1. PICK u \in Updates : Write(u)
    BY <1>6
  <2>2. /\ sent' = sent \cup {u} /\ UNCHANGED <<confirmed, poll, batch>>
        /\ \A v \in sent : v < u
    BY <2>1 DEF Write
  <2>3. offset <= u /\ confirmed <= u
    BY <2>2 DEF GatewayInv, SentInOrder
  <2>4. Kept'
    BY <1>1, <1>2, <1>4, <1>5, <2>2, <2>3 DEF Kept
  <2>5. BatchIsWhole'
    <3> SUFFICES ASSUME NEW w \in batch, NEW v \in sent', v < w
                 PROVE  v \in batch \/ v < offset \/ v < confirmed
      BY <1>1, <2>2 DEF GatewayInv, BatchIsWhole
    <3>1. w \in sent
      BY DEF GatewayInv, BatchIsWhole
    <3>2. v # u
      BY <1>4, <1>5, <2>2, <3>1
    <3> QED
      BY <2>2, <3>2 DEF GatewayInv, BatchIsWhole
  <2>6. SentInOrder'
    BY <1>1, <2>2 DEF GatewayInv, SentInOrder
  <2> QED
    BY <1>2, <1>3, <2>4, <2>5, <2>6 DEF GatewayInv
<1>7. CASE ~(\E u \in Updates : Write(u))
  <2>1. /\ sent' = sent
        /\ confirmed' = confirmed \/ confirmed' = IF offset > confirmed THEN offset ELSE confirmed
    BY <1>7 DEF Ask, Answer, StaleAnswer, PollFails
  <2>2. /\ confirmed' \in Nat /\ confirmed <= confirmed'
        /\ \A u \in Nat : u < confirmed' => u < confirmed \/ u < offset
        /\ \A u \in Nat : offset <= u /\ confirmed <= u => confirmed' <= u
    BY <1>5, <2>1
  <2>3. Kept'
    BY <1>1, <1>2, <1>4, <1>5, <2>1, <2>2 DEF Kept
  <2>4. SentInOrder'
    BY <1>1, <1>4, <2>1, <2>2 DEF GatewayInv, SentInOrder
  <2>5. \/ batch' = {}
        \/ batch' = Pending(offset) /\ poll' = IF batch' = {} THEN "idle" ELSE "loop"
        \/ batch' = Pending(0) /\ poll' = IF batch' = {} THEN "idle" ELSE "loop"
    BY <1>7 DEF Ask, Answer, StaleAnswer, PollFails, GatewayInv, BatchIsWhole
  <2>6. BatchIsWhole'
    <3>1. CASE batch' = {}
      BY <3>1 DEF BatchIsWhole
    <3>2. CASE batch' = Pending(offset) /\ poll' = IF batch' = {} THEN "idle" ELSE "loop"
      <4>1. \A v \in sent : v \in batch' \/ v < offset \/ v < confirmed
        BY <1>4, <1>5, <3>2 DEF Pending
      <4> QED
        BY <1>1, <1>4, <1>5, <2>1, <2>2, <3>2, <4>1 DEF BatchIsWhole, Pending
    <3>3. CASE batch' = Pending(0) /\ poll' = IF batch' = {} THEN "idle" ELSE "loop"
      <4>1. \A v \in sent : v \in batch' \/ v < confirmed
        BY <1>4, <1>5, <3>3 DEF Pending
      <4> QED
        BY <1>1, <1>4, <1>5, <2>1, <2>2, <3>3, <4>1 DEF BatchIsWhole, Pending
    <3> QED
      BY <2>5, <3>1, <3>2, <3>3
  <2> QED
    BY <1>2, <1>3, <2>3, <2>4, <2>6 DEF GatewayInv
<1> QED
  BY <1>6, <1>7

(* Steps that keep the polling loop where it is.                           *)
LEMMA ElsewhereKeeps ==
  ASSUME Shape, Kept, GatewayInv, UNCHANGED <<sent, confirmed, offset, poll, batch, seen>>,
         \A u \in Updates : Safe(u) => Safe(u)'
  PROVE  Kept' /\ GatewayInv'
<1>1. Kept'
  BY DEF Kept, Shape
<1>2. GatewayInv'
  BY DEF GatewayInv, BatchIsWhole, SeenBelow, SentInOrder
<1> QED
  BY <1>1, <1>2

LEMMA KeptStep ==
  Shape /\ TypeRest /\ Kept /\ GatewayInv /\ BackendInv /\ [Next]_vars
    => Kept' /\ GatewayInv' /\ BackendInv'
<1> SUFFICES ASSUME Shape, TypeRest, Kept, GatewayInv, BackendInv, [Next]_vars
             PROVE  Kept' /\ GatewayInv' /\ BackendInv'
  OBVIOUS
<1> USE DEF telegramVars, gatewayVars, backendVars, historyVars
<1>1. CASE (\E u \in Updates : Write(u)) \/ Ask \/ Answer \/ StaleAnswer \/ PollFails
  BY <1>1, PollKeeps
<1>2. CASE Route
  BY <1>2, RouteKeeps
<1>3. CASE \E g \in Albums : Flush(g)
  <2>1. PICK g \in Albums : Flush(g)
    BY <1>3
  <2>2. UNCHANGED <<sent, confirmed, offset, poll, batch, seen, handlers, log, runs, stubbed,
                    dropped>>
    BY <2>1 DEF Flush
  <2> QED
    BY <2>1, <2>2, FlushKeeps, BackendRests, ElsewhereKeeps
<1>4. CASE \E e \in open : Settle(e)
  <2>1. PICK e \in open : Settle(e)
    BY <1>4
  <2>2. UNCHANGED <<sent, confirmed, offset, poll, batch, seen, handlers, log, runs, stubbed,
                    dropped>>
    BY <2>1 DEF Settle
  <2> QED
    BY <2>1, <2>2, SettleKeeps, BackendRests, ElsewhereKeeps
<1>5. CASE GatewayStops
  BY <1>5, StopKeeps
<1>6. CASE \E e \in InBackend : Reject(e) \/ BackendStep(e)
  <2>1. PICK e \in Built : Reject(e) \/ BackendStep(e)
    BY <1>6 DEF InBackend, Shape
  <2>2. UNCHANGED <<sent, confirmed, offset, poll, batch, seen>>
    BY <2>1 DEF Reject, BackendStep, Accept, Spawn, Acknowledge
  <2> QED
    BY <2>1, <2>2, BackendHandles, ElsewhereKeeps
<1>7. CASE BackendDies
  <2>1. UNCHANGED <<sent, confirmed, offset, poll, batch, seen>>
    BY <1>7 DEF BackendDies
  <2> QED
    BY <1>7, <2>1, BackendFalls, ElsewhereKeeps
<1>8. CASE UNCHANGED vars
  <2>1. UNCHANGED <<sent, confirmed, offset, poll, batch, seen, album, queue, net, handlers,
                    log, runs, stubbed, dropped, swallowed>>
    BY <1>8 DEF vars
  <2>2. \A u \in Updates : InAlbum(u) \/ Waiting(u) \/ OnNet(u) => Safe(u)'
    BY <2>1 DEF InAlbum, Waiting, OnNet, Safe
  <2>3. BackendInv' /\ \A u \in Updates : Safe(u) => Safe(u)'
    BY <2>1, <2>2, BackendRests, SafeStays
  <2> QED
    BY <2>1, <2>3, ElsewhereKeeps
<1> QED
  BY <1>1, <1>2, <1>3, <1>4, <1>5, <1>6, <1>7, <1>8, Zenon DEF Next, PollLoop

(* Nothing is lost but by a failure, and no first copy is taken for a      *)
(* second one, with any number of updates, albums and slots, and whatever  *)
(* is repeated, reordered, cut off or restarted.                           *)
THEOREM DeliveryLosesNothing == Spec => []NothingVanishes
<1>1. Spec => Init /\ [][Next]_vars
  BY DEF Spec
<1> QED
  BY <1>1, DeliveryShape, InitTypeRest, TypeRestStep, InitKept, KeptStep, SafeIsEnough, PTL
=============================================================================
