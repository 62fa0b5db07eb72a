----------------------------- MODULE ChatProofs -----------------------------
(***************************************************************************)
(* For any documents, messages and clients: however many replies and       *)
(* commands race for a waiting document, it goes to the ledger at most     *)
(* once, is lost only to a fault, and its client is decided once. And a    *)
(* chat that was told it is linked stays known to some firm.               *)
(*                                                                         *)
(* Tally imports: for any exports, sent any number of times at the same    *)
(* time, a voucher has one row, and what the CA is told of a file is true  *)
(* of the rows.                                                            *)
(*                                                                         *)
(* Then all the parts of a chat side by side: each behaves as it does by   *)
(* itself, so what is proved of each part holds of them together.          *)
(***************************************************************************)
EXTENDS ChatParts, ConversationProofs, FunctionTheorems, FiniteSetTheorems, TLAPS

(* What a task knows of the document it carries. One that is past the      *)
(* commit of its row owns that row, and the document is not in the ledger  *)
(* yet.                                                                    *)
Owns(t) == /\ rows[task[t].doc] # None /\ rows[task[t].doc].by = t
           /\ finalised[task[t].doc] = 0

Deciders == {"matched", "assigning"}
Holding == Deciders \cup {"matching"}

TaskOK(t) ==
  /\ task[t].at \in Holding \cup {"resuming"} => task[t].doc \in Docs
  /\ task[t].at \in {"replying", "resuming"} /\ task[t].doc \in Docs => Owns(t)
  /\ task[t].at \in Deciders => task[t].client \in clients
  /\ task[t].at \in Holding => rows[task[t].doc] # None

UndecidedAreOutside == \A d \in Docs : rows[d] \in {None, Open} => finalised[d] = 0

FiledHaveRows == \A i \in DOMAIN filed : rows[filed[i]] # None

ChatInv == /\ ChatTypeOK /\ RoutedOnce /\ LossNeedsFault
           /\ UndecidedAreOutside /\ FiledHaveRows
           /\ \A t \in Texts : TaskOK(t)
-----------------------------------------------------------------------------
(* The places of a task, and what the constants are.                       *)
LEMMA OpenIsUndecided == Open \in Row /\ Open.by = None /\ None \notin Texts /\ None \notin Row
BY ChatNone DEF Open, Row

(* The task of t is at a place, with a document and a client; no other     *)
(* task has moved.                                                         *)
Advances(t, at, d, c) ==
  /\ task' \in [Texts -> Task]
  /\ task'[t].at = at /\ task'[t].doc = d /\ task'[t].client = c
  /\ \A u \in Texts \ {t} : task'[u] = task[u]

LEMMA ContinueMoves ==
  ASSUME task \in [Texts -> Task], NEW t \in Texts, NEW at \in Places,
         NEW d \in Docs \cup {None}, NEW c \in Clients \cup {None}, Continue(t, at, d, c)
  PROVE  Advances(t, at, d, c)
<1> DEFINE new == [at |-> at, doc |-> d, client |-> c]
<1>1. new \in Task /\ new.at = at /\ new.doc = d /\ new.client = c
  BY DEF Task
<1>2. task' = [task EXCEPT ![t] = new]
  BY Zenon DEF Continue
<1> HIDE DEF new
<1>3. task' \in [Texts -> Task] /\ task'[t] = new /\ \A u \in Texts \ {t} : task'[u] = task[u]
  BY <1>1, <1>2
<1> QED
  BY <1>1, <1>3, Zenon DEF Advances

LEMMA EndMoves ==
  ASSUME task \in [Texts -> Task], NEW t \in Texts, NEW at \in Places, End(t, at)
  PROVE  Advances(t, at, None, None)
<1> DEFINE new == [Idle EXCEPT !.at = at]
<1>1. new = [at |-> at, doc |-> None, client |-> None]
  BY DEF Idle
<1>2. new \in Task /\ new.at = at /\ new.doc = None /\ new.client = None
  BY <1>1 DEF Task
<1>3. task' = [task EXCEPT ![t] = new]
  BY Zenon DEF End
<1> HIDE DEF new
<1>4. task' \in [Texts -> Task] /\ task'[t] = new /\ \A u \in Texts \ {t} : task'[u] = task[u]
  BY <1>2, <1>3
<1> QED
  BY <1>2, <1>4, Zenon DEF Advances

LEMMA AtMoves ==
  ASSUME task \in [Texts -> Task], NEW t \in Texts, NEW at \in Places,
         task' = [task EXCEPT ![t].at = at]
  PROVE  Advances(t, at, task[t].doc, task[t].client)
<1> DEFINE new == [at |-> at, doc |-> task[t].doc, client |-> task[t].client]
<1>1. task[t] \in Task
  OBVIOUS
<1>2. new \in Task /\ new.at = at /\ new.doc = task[t].doc /\ new.client = task[t].client
  BY <1>1 DEF Task
<1>3. [task[t] EXCEPT !.at = at] = new
  BY <1>1 DEF Task
<1>4. task' = [task EXCEPT ![t] = new]
  BY <1>3, Zenon
<1> HIDE DEF new
<1>5. task' \in [Texts -> Task] /\ task'[t] = new /\ \A u \in Texts \ {t} : task'[u] = task[u]
  BY <1>2, <1>4
<1> QED
  BY <1>2, <1>5, Zenon DEF Advances
-----------------------------------------------------------------------------
LEMMA InitChatInv == ChatInit => ChatInv
<1> SUFFICES ASSUME ChatInit PROVE ChatInv
  OBVIOUS
<1>1. Idle \in Task /\ Idle.at = "unsent"
  BY DEF Idle, Task, Places
<1>2. \A t \in Texts : task[t] = Idle
  BY DEF ChatInit
<1>3. ChatTypeOK
  <2>1. task \in [Texts -> Task]
    BY <1>1, Zenon DEF ChatInit
  <2>2. rows \in [Docs -> Row \cup {None}] /\ finalised \in [Docs -> Nat]
    BY DEF ChatInit
  <2>3. filed \in Seq(Docs) /\ expired \subseteq Docs /\ prompting \subseteq Docs
        /\ clients \subseteq Clients /\ spoilt \subseteq Docs
    BY ChatSubsets DEF ChatInit
  <2>4. chatFaults \in 0..MaxFaults
    BY ChatFaultBound DEF ChatInit
  <2> QED
    BY <2>1, <2>2, <2>3, <2>4 DEF ChatTypeOK
<1>4. \A t \in Texts : TaskOK(t)
  BY <1>1, <1>2 DEF TaskOK, Holding, Deciders
<1>5. RoutedOnce /\ LossNeedsFault /\ UndecidedAreOutside
  BY DEF ChatInit, RoutedOnce, LossNeedsFault, UndecidedAreOutside
<1>6. FiledHaveRows
  BY DEF ChatInit, FiledHaveRows
<1> QED
  BY <1>3, <1>4, <1>5, <1>6 DEF ChatInv

(* A step that decides nothing: one task moves, from before its decision,  *)
(* and what it now is is in order.                                         *)
LEMMA QuietStep ==
  ASSUME ChatInv, NEW t \in Texts, NEW at, NEW d, NEW c, Advances(t, at, d, c),
         task[t].at \notin {"replying", "resuming"},
         UNCHANGED <<rowVars, finalised, spoilt, chatFaults>>,
         clients \subseteq clients', clients' \subseteq Clients,
         at \in Holding => d \in Docs /\ rows[d] # None,
         at \notin {"resuming"},
         at = "replying" => d = None,
         at \in Deciders => c \in clients
  PROVE  ChatInv'
<1>1. ChatTypeOK'
  BY DEF ChatInv, ChatTypeOK, Advances, rowVars
<1>2. \A u \in Texts : TaskOK(u)'
  <2> SUFFICES ASSUME NEW u \in Texts PROVE TaskOK(u)'
    OBVIOUS
  <2>1. CASE u = t
    BY <2>1, ChatNone DEF ChatInv, TaskOK, Holding, Deciders, Advances, rowVars
  <2>2. CASE u # t
    BY <2>2 DEF ChatInv, TaskOK, Holding, Deciders, Owns, Advances, rowVars
  <2> QED
    BY <2>1, <2>2
<1>3. \A e \in Docs : Resuming(e) => Resuming(e)'
  BY DEF Resuming, Advances, rowVars
<1>4. LossNeedsFault'
  BY <1>3 DEF ChatInv, LossNeedsFault, rowVars
<1>5. (RoutedOnce /\ UndecidedAreOutside /\ FiledHaveRows)'
  BY DEF ChatInv, RoutedOnce, UndecidedAreOutside, FiledHaveRows, rowVars
<1> QED
  BY <1>1, <1>2, <1>4, <1>5 DEF ChatInv

(* The decision: an open row goes to the task that found it open.          *)
LEMMA Deciding ==
  ASSUME ChatInv, NEW t \in Texts, NEW d \in Docs, NEW c \in Clients, IsOpen(d),
         task[t].at \notin {"replying", "resuming"},
         rows' = [rows EXCEPT ![d] = [by |-> t, client |-> c]],
         Advances(t, "replying", d, c),
         UNCHANGED <<filed, expired, prompting, clients, finalised, spoilt, chatFaults>>
  PROVE  ChatInv'
<1> DEFINE row == [by |-> t, client |-> c]
<1>1. row \in Row /\ row.by = t /\ row # None /\ row # Open
  BY ChatNone DEF Row, Open
<1>2. rows[d] # None /\ rows[d] = Open /\ finalised[d] = 0 /\ ~(rows[d].by \in Texts)
  BY OpenIsUndecided DEF IsOpen, ChatInv, UndecidedAreOutside
<1>3. /\ rows' \in [Docs -> Row \cup {None}] /\ rows'[d] = row
      /\ \A e \in Docs \ {d} : rows'[e] = rows[e]
  BY <1>1 DEF ChatInv, ChatTypeOK
<1> HIDE DEF row
<1>4. ChatTypeOK'
  BY <1>3 DEF ChatInv, ChatTypeOK, Advances
<1>5. \A u \in Texts : TaskOK(u)'
  <2> SUFFICES ASSUME NEW u \in Texts PROVE TaskOK(u)'
    OBVIOUS
  <2>1. CASE u = t
    <3>1. Owns(t)'
      BY <1>1, <1>2, <1>3 DEF Owns, Advances
    <3> QED
      BY <2>1, <3>1 DEF TaskOK, Holding, Deciders, Advances
  <2>2. CASE u # t
    <3>1. task'[u] = task[u] /\ TaskOK(u)
      BY <2>2 DEF Advances, ChatInv
    <3>2. \A e \in Docs : rows[e] # None => rows'[e] # None
      BY <1>1, <1>3
    <3>3. CASE task[u].at \in {"replying", "resuming"} /\ task[u].doc \in Docs
      <4>1. Owns(u)
        BY <3>1, <3>3 DEF TaskOK
      <4>2. task[u].doc # d
        BY <1>2, <4>1 DEF Owns
      <4>3. Owns(u)'
        BY <1>3, <3>1, <3>3, <4>1, <4>2 DEF Owns
      <4> QED
        BY <3>1, <3>3, <4>3 DEF TaskOK, Holding, Deciders
    <3>4. CASE ~(task[u].at \in {"replying", "resuming"} /\ task[u].doc \in Docs)
      BY <3>1, <3>2, <3>4 DEF TaskOK
    <3> QED
      BY <3>3, <3>4
  <2> QED
    BY <2>1, <2>2
<1>6. LossNeedsFault'
  <2>1. Resuming(d)'
    BY <1>1, <1>3 DEF Resuming, Advances
  <2>2. \A e \in Docs \ {d} : Resuming(e) => Resuming(e)'
    BY <1>3 DEF Resuming, Advances
  <2> QED
    BY <1>3, <2>1, <2>2 DEF ChatInv, LossNeedsFault
<1>7. (RoutedOnce /\ UndecidedAreOutside)'
  BY <1>1, <1>3 DEF ChatInv, RoutedOnce, UndecidedAreOutside
<1>8. FiledHaveRows'
  BY <1>1, <1>3 DEF ChatInv, ChatTypeOK, FiledHaveRows
<1> QED
  BY <1>4, <1>5, <1>6, <1>7, <1>8 DEF ChatInv
-----------------------------------------------------------------------------
(* Documents: none of these steps moves a task.                            *)
LEMMA DocumentSteps ==
  ASSUME ChatInv, NEW d \in Docs, Park(d) \/ Prompt(d) \/ Expire(d)
  PROVE  ChatInv'
<1>1. CASE Park(d)
  <2>1. /\ rows[d] = None /\ rows' = [rows EXCEPT ![d] = Open] /\ filed' = Append(filed, d)
        /\ prompting' = prompting \cup {d}
        /\ UNCHANGED <<expired, clients, task, finalised, spoilt, chatFaults>>
    BY <1>1, Zenon DEF Park
  <2>2. /\ rows' \in [Docs -> Row \cup {None}] /\ rows'[d] = Open /\ Open # None
        /\ \A e \in Docs \ {d} : rows'[e] = rows[e]
    BY <2>1, OpenIsUndecided DEF ChatInv, ChatTypeOK
  <2>3. ChatTypeOK'
    BY <2>1, <2>2 DEF ChatInv, ChatTypeOK
  <2>4. \A t \in Texts : TaskOK(t)'
    <3> SUFFICES ASSUME NEW t \in Texts PROVE TaskOK(t)'
      OBVIOUS
    <3>1. task' = task /\ TaskOK(t) /\ finalised' = finalised /\ clients' = clients
      BY <2>1 DEF ChatInv
    <3>2. task[t].doc \in Docs /\ rows[task[t].doc] # None => rows'[task[t].doc] = rows[task[t].doc]
      BY <2>1, <2>2
    <3> QED
      BY <3>1, <3>2, ChatNone DEF TaskOK, Owns
  <2>5. (RoutedOnce /\ UndecidedAreOutside)'
    BY <2>1, <2>2 DEF ChatInv, RoutedOnce, UndecidedAreOutside
  <2>6. \A e \in Docs \ {d} : Resuming(e) => Resuming(e)'
    BY <2>1, <2>2 DEF Resuming
  <2>7. LossNeedsFault'
    BY <2>1, <2>2, <2>6 DEF ChatInv, LossNeedsFault
  <2>8. FiledHaveRows'
    BY <2>1, <2>2 DEF ChatInv, ChatTypeOK, FiledHaveRows
  <2> QED
    BY <2>3, <2>4, <2>5, <2>7, <2>8 DEF ChatInv
<1>2. CASE Prompt(d) \/ Expire(d)
  <2>1. UNCHANGED <<rows, filed, clients, task, finalised, spoilt, chatFaults>>
    BY <1>2, Zenon DEF Prompt, Expire
  <2>2. ChatTypeOK'
    BY <1>2, <2>1 DEF ChatInv, ChatTypeOK, Prompt, Expire
  <2> QED
    BY <2>1, <2>2 DEF ChatInv, TaskOK, Owns, RoutedOnce, UndecidedAreOutside, FiledHaveRows,
                      LossNeedsFault, Resuming
<1> QED
  BY <1>1, <1>2

(* The documents list_open_for_chat may return.                            *)
LEMMA NewestIsOpen ==
  ASSUME ChatTypeOK, NEW d \in NewestOpen
  PROVE  d \in Docs /\ IsOpen(d)
BY DEF NewestOpen, ChatTypeOK

LEMMA ResolveRowInv ==
  ASSUME ChatInv, NEW t \in Texts, NEW d \in Docs, NEW c \in Clients, NEW else,
         else \in {"supervisor", "answered"},
         task[t].at \notin {"replying", "resuming"}, ResolveRow(t, d, c, else),
         UNCHANGED <<filed, expired, prompting, clients, finalised, spoilt, chatFaults>>
  PROVE  ChatInv'
<1>t. task \in [Texts -> Task]
  BY DEF ChatInv, ChatTypeOK
<1>p. "replying" \in Places /\ else \in Places
  BY DEF Places
<1>1. CASE IsOpen(d)
  <2>1. /\ rows' = [rows EXCEPT ![d] = [by |-> t, client |-> c]]
        /\ Continue(t, "replying", d, c)
    BY <1>1, Zenon DEF ResolveRow
  <2>2. Advances(t, "replying", d, c)
    BY <1>t, <1>p, <2>1, ContinueMoves
  <2> QED
    BY <1>1, <2>1, <2>2, Deciding, Zenon
<1>2. CASE ~IsOpen(d)
  <2>1. rows' = rows /\ End(t, else)
    BY <1>2, Zenon DEF ResolveRow
  <2>2. Advances(t, else, None, None)
    BY <1>t, <1>p, <2>1, EndMoves
  <2>3. else \notin Holding \cup Deciders \cup {"resuming", "replying"}
    BY DEF Holding, Deciders
  <2>4. UNCHANGED <<rowVars, finalised, spoilt, chatFaults>> /\ clients' = clients
    BY <2>1 DEF rowVars
  <2>5. clients \subseteq clients' /\ clients' \subseteq Clients
    BY <2>4 DEF ChatInv, ChatTypeOK
  <2> QED
    BY <2>2, <2>3, <2>4, <2>5, QuietStep
<1> QED
  BY <1>1, <1>2

(* A message arrives, is transcribed, classified, obeyed or matched.       *)
LEMMA UndecidedSteps ==
  ASSUME ChatInv, NEW t \in Texts,
         Say(t) \/ Transcribe(t) \/ Classify(t) \/ Command(t) \/ ChooseRow(t)
  PROVE  ChatInv'
<1>t. task \in [Texts -> Task]
  BY DEF ChatInv, ChatTypeOK
<1>n. None \in Docs \cup {None} /\ None \in Clients \cup {None}
  OBVIOUS
<1>1. UNCHANGED <<rowVars, finalised, spoilt, chatFaults>>
  BY DEF Say, Transcribe, Classify, Command, ChooseRow
<1>2. task[t].at \notin {"replying", "resuming"}
  BY DEF Say, Transcribe, Classify, Command, ChooseRow
<1>3. clients \subseteq clients' /\ clients' \subseteq Clients
  <2>1. Found[t] \subseteq Clients
    BY ChatMaps
  <2> QED
    BY <2>1 DEF Say, Transcribe, Classify, Command, ChooseRow, ChatInv, ChatTypeOK
<1>4. ASSUME NEW at \in Places, at \notin {"matching", "matched", "assigning", "replying",
                                              "resuming"},
             Continue(t, at, None, None) \/ End(t, at)
      PROVE  ChatInv'
  <2>1. Advances(t, at, None, None)
    BY <1>t, <1>n, <1>4, ContinueMoves, EndMoves
  <2> QED
    BY <1>1, <1>2, <1>3, <1>4, <2>1, QuietStep DEF Holding, Deciders
<1>5. ASSUME NEW d \in NewestOpen, Continue(t, "matching", d, None) PROVE ChatInv'
  <2>1. d \in Docs /\ rows[d] # None /\ "matching" \in Places
    BY NewestIsOpen DEF ChatInv, IsOpen, Places
  <2>2. Advances(t, "matching", d, None)
    BY <1>t, <1>n, <1>5, <2>1, ContinueMoves
  <2>3. "matching" \notin Deciders \cup {"resuming", "replying"}
    BY DEF Deciders
  <2> QED
    BY <1>1, <1>2, <1>3, <2>1, <2>2, <2>3, QuietStep
<1>6. ASSUME Continue(t, "replying", None, None) PROVE ChatInv'
  <2>1. Advances(t, "replying", None, None)
    BY <1>t, <1>n, <1>6, ContinueMoves DEF Places
  <2> QED
    BY <1>1, <1>2, <1>3, <2>1, QuietStep DEF Holding, Deciders
<1>7. ASSUME NEW c \in clients, NEW d \in NewestOpen, Found[t] \cap clients = {c},
             Continue(t, "assigning", d, c)
      PROVE  ChatInv'
  <2>1. d \in Docs /\ rows[d] # None /\ "assigning" \in Places /\ c \in Clients
    BY NewestIsOpen DEF ChatInv, ChatTypeOK, IsOpen, Places
  <2>2. Advances(t, "assigning", d, c)
    BY <1>t, <1>7, <2>1, ContinueMoves
  <2> QED
    BY <1>1, <1>2, <1>3, <1>7, <2>1, <2>2, QuietStep
<1>8. CASE Say(t)
  BY <1>8, <1>4 DEF Say, Places
<1>9. CASE Transcribe(t)
  BY <1>9, <1>4 DEF Transcribe, Places
<1>10. CASE Classify(t)
  <2>1. \/ End(t, "answered") \/ End(t, "filing") \/ End(t, "supervisor")
        \/ \E d \in NewestOpen : Continue(t, "matching", d, None)
    BY <1>10 DEF Classify
  <2> QED
    BY <2>1, <1>4, <1>5 DEF Places
<1>11. CASE Command(t)
  BY <1>11, <1>6 DEF Command
<1>12. CASE ChooseRow(t)
  <2>1. \/ \E c \in clients, d \in NewestOpen :
             Found[t] \cap clients = {c} /\ Continue(t, "assigning", d, c)
        \/ Continue(t, "replying", None, None)
    BY <1>12, Zenon DEF ChooseRow
  <2> QED
    BY <2>1, <1>6, <1>7, Zenon
<1> QED
  BY <1>8, <1>9, <1>10, <1>11, <1>12

(* A reply chooses its client, or ends there.                              *)
LEMMA MatchStep ==
  ASSUME ChatInv, NEW t \in Texts, MatchReply(t)
  PROVE  ChatInv'
<1>t. task \in [Texts -> Task] /\ TaskOK(t)
  BY DEF ChatInv, ChatTypeOK
<1>1. UNCHANGED <<rowVars, clients, finalised, spoilt, chatFaults>> /\ task[t].at = "matching"
  BY Zenon DEF MatchReply
<1>2. task[t].doc \in Docs /\ rows[task[t].doc] # None /\ task[t].at \notin {"replying", "resuming"}
  BY <1>t, <1>1 DEF TaskOK, Holding
<1>3. clients \subseteq clients' /\ clients' \subseteq Clients
  BY <1>1 DEF ChatInv, ChatTypeOK
<1>4. CASE \E c \in clients : Continue(t, "matched", task[t].doc, c)
  <2>1. PICK c \in clients : Continue(t, "matched", task[t].doc, c)
    BY <1>4
  <2>2. Advances(t, "matched", task[t].doc, c)
    BY <1>t, <1>2, <1>3, <2>1, ContinueMoves DEF Places
  <2> QED
    BY <1>1, <1>2, <1>3, <2>2, QuietStep
<1>5. CASE End(t, IF Candidates(t) = {} THEN "supervisor" ELSE "answered")
  <2>1. PICK at \in {"supervisor", "answered"} : End(t, at)
    BY <1>5
  <2>2. Advances(t, at, None, None)
    BY <1>t, <2>1, EndMoves DEF Places
  <2> QED
    BY <1>1, <1>2, <1>3, <2>2, QuietStep DEF Holding, Deciders
<1> QED
  BY <1>4, <1>5, Zenon DEF MatchReply

LEMMA DecidingSteps ==
  ASSUME ChatInv, NEW t \in Texts, ResolveReply(t) \/ AssignRow(t)
  PROVE  ChatInv'
<1>1. UNCHANGED <<filed, expired, prompting, clients, finalised, spoilt, chatFaults>>
  BY Zenon DEF ResolveReply, AssignRow
<1>2. task[t].at \in Deciders
  BY DEF ResolveReply, AssignRow, Deciders
<1>3. task[t].doc \in Docs /\ task[t].at \notin {"replying", "resuming"}
  BY <1>2 DEF ChatInv, TaskOK, Holding, Deciders
<1>4. task[t].client \in Clients
  BY <1>2 DEF ChatInv, ChatTypeOK, TaskOK
<1>5. PICK else \in {"supervisor", "answered"} : ResolveRow(t, task[t].doc, task[t].client, else)
  BY Zenon DEF ResolveReply, AssignRow
<1> QED
  BY <1>1, <1>3, <1>4, <1>5, ResolveRowInv

(* A task past its decision goes on or ends. Of its document, if any, one  *)
(* thing is true after it has ended: it is in the ledger, or spoilt.       *)
LEMMA Finishing ==
  ASSUME ChatInv, NEW t \in Texts, NEW at, NEW c,
         task[t].at \in {"replying", "resuming"}, at \in Ended, Advances(t, at, None, c),
         UNCHANGED <<rowVars, clients>>, chatFaults' \in 0..MaxFaults,
         \/ finalised' = finalised /\ spoilt' = spoilt \cup ({task[t].doc} \ {None})
         \/ /\ finalised' = [finalised EXCEPT ![task[t].doc] = @ + 1]
            /\ spoilt' = spoilt /\ task[t].doc \in Docs
  PROVE  ChatInv'
<1> DEFINE d == task[t].doc
<1>1. d \in Docs \cup {None} /\ (d \in Docs => Owns(t))
  BY DEF ChatInv, ChatTypeOK, TaskOK, Task
<1>2. /\ finalised' \in [Docs -> Nat] /\ spoilt' \subseteq Docs
      /\ \A e \in Docs \ {d} : finalised'[e] = finalised[e]
      /\ spoilt \subseteq spoilt' /\ finalised'[d] \in {finalised[d], finalised[d] + 1}
      /\ d \in Docs => finalised[d] = 0 /\ finalised'[d] \in {0, 1}
      /\ d \in Docs => finalised'[d] > 0 \/ d \in spoilt'
  <2>1. d \in Docs => finalised[d] = 0
    BY <1>1 DEF Owns
  <2>2. CASE finalised' = finalised /\ spoilt' = spoilt \cup ({d} \ {None})
    BY <1>1, <2>1, <2>2, ChatNone DEF ChatInv, ChatTypeOK
  <2>3. CASE /\ finalised' = [finalised EXCEPT ![d] = @ + 1]
             /\ spoilt' = spoilt /\ d \in Docs
    BY <1>1, <2>1, <2>3 DEF ChatInv, ChatTypeOK
  <2> QED
    BY <2>2, <2>3
<1>3. rows' = rows /\ filed' = filed /\ expired' = expired /\ prompting' = prompting
      /\ clients' = clients
  BY DEF rowVars
<1>4. ChatTypeOK'
  BY <1>2, <1>3 DEF ChatInv, ChatTypeOK, Advances
<1>5. \A u \in Texts : TaskOK(u)'
  <2> SUFFICES ASSUME NEW u \in Texts PROVE TaskOK(u)'
    OBVIOUS
  <2>1. CASE u = t
    <3>1. task'[t].at \notin Holding \cup Deciders \cup {"replying", "resuming"}
      BY DEF Advances, Ended, Holding, Deciders
    <3> QED
      BY <2>1, <3>1 DEF TaskOK, Holding
  <2>2. CASE u # t
    <3>1. task'[u] = task[u] /\ TaskOK(u)
      BY <2>2 DEF Advances, ChatInv
    <3>2. ASSUME task[u].at \in {"replying", "resuming"}, task[u].doc \in Docs PROVE Owns(u)'
      <4>1. Owns(u)
        BY <3>1, <3>2 DEF TaskOK
      <4>2. task[u].doc # d
        BY <1>1, <2>2, <3>2, <4>1 DEF Owns
      <4> QED
        BY <1>2, <1>3, <3>1, <3>2, <4>1, <4>2 DEF Owns
    <3> QED
      BY <1>3, <3>1, <3>2 DEF TaskOK
  <2> QED
    BY <2>1, <2>2
<1>6. RoutedOnce'
  BY <1>2 DEF ChatInv, RoutedOnce
<1>7. UndecidedAreOutside'
  <2>1. d \in Docs => rows[d] \notin {None, Open}
    BY <1>1, OpenIsUndecided DEF Owns
  <2> QED
    BY <1>2, <1>3, <2>1 DEF ChatInv, UndecidedAreOutside
<1>8. FiledHaveRows'
  BY <1>3 DEF ChatInv, FiledHaveRows
<1>9. LossNeedsFault'
  <2>1. \A e \in Docs \ {d} : Resuming(e) => Resuming(e)'
    BY <1>3 DEF Resuming, Advances
  <2> QED
    BY <1>2, <1>3, <2>1 DEF ChatInv, LossNeedsFault
<1> QED
  BY <1>4, <1>5, <1>6, <1>7, <1>8, <1>9 DEF ChatInv

LEMMA FinishingSteps ==
  ASSUME ChatInv, NEW t \in Texts, Reply(t) \/ Resume(t)
  PROVE  ChatInv'
<1>t. task \in [Texts -> Task] /\ TaskOK(t) /\ chatFaults \in 0..MaxFaults
  BY DEF ChatInv, ChatTypeOK
<1>1. UNCHANGED <<rowVars, clients>> /\ task[t].at \in {"replying", "resuming"}
  BY DEF Reply, Resume
<1>2. ASSUME NEW at \in Ended, End(t, at) PROVE Advances(t, at, None, None)
  BY <1>t, <1>2, EndMoves DEF Ended, Places
<1>3. ChatFault => chatFaults' \in 0..MaxFaults
  BY <1>t, ChatFaultBound DEF ChatFault
<1>4. {"answered", "dead"} \subseteq Ended
  BY DEF Ended
<1>5. CASE Reply(t)
  <2>1. CASE /\ task[t].doc # None /\ task' = [task EXCEPT ![t].at = "resuming"]
             /\ UNCHANGED <<spoilt, chatFaults>>
    <3>1. Advances(t, "resuming", task[t].doc, task[t].client)
      BY <1>t, <2>1, AtMoves DEF Places
    <3>2. task[t].doc \in Docs /\ task[t].at = "replying" /\ Owns(t)
      BY <1>t, <1>5, <2>1 DEF Reply, Task, TaskOK
    <3>3. UNCHANGED <<rowVars, clients, finalised, spoilt, chatFaults>>
      BY <1>1, <1>5, <2>1 DEF Reply
    <3>4. ChatTypeOK'
      BY <3>1, <3>3 DEF ChatInv, ChatTypeOK, Advances, rowVars
    <3>5. \A u \in Texts : TaskOK(u)'
      BY <3>1, <3>2, <3>3 DEF ChatInv, TaskOK, Holding, Deciders, Owns, Advances, rowVars
    <3>6. \A e \in Docs : Resuming(e) => Resuming(e)'
      BY <3>1, <3>3 DEF Resuming, Advances, rowVars
    <3>7. (LossNeedsFault /\ RoutedOnce /\ UndecidedAreOutside /\ FiledHaveRows)'
      BY <3>3, <3>6 DEF ChatInv, LossNeedsFault, RoutedOnce, UndecidedAreOutside, FiledHaveRows,
                        rowVars
    <3> QED
      BY <3>4, <3>5, <3>7 DEF ChatInv
  <2>2. CASE task[t].doc = None /\ End(t, "answered") /\ UNCHANGED <<spoilt, chatFaults>>
    <3>1. Advances(t, "answered", None, None) /\ finalised' = finalised
          /\ spoilt' = spoilt \cup ({task[t].doc} \ {None}) /\ chatFaults' \in 0..MaxFaults
      BY <1>2, <1>4, <1>5, <1>t, <2>2 DEF Reply
    <3> QED
      BY <1>1, <1>4, <3>1, Finishing
  <2>3. CASE ChatFault /\ End(t, "dead") /\ spoilt' = spoilt \cup ({task[t].doc} \ {None})
    <3>1. Advances(t, "dead", None, None) /\ finalised' = finalised /\ chatFaults' \in 0..MaxFaults
      BY <1>2, <1>3, <1>4, <1>5, <2>3 DEF Reply
    <3> QED
      BY <1>1, <1>4, <2>3, <3>1, Finishing
  <2> QED
    BY <1>5, <2>1, <2>2, <2>3, Zenon DEF Reply
<1>6. CASE Resume(t)
  <2>1. task[t].doc \in Docs /\ End(t, "answered")
    BY <1>6, <1>t DEF Resume, TaskOK
  <2>2. Advances(t, "answered", None, None)
    BY <1>2, <1>4, <2>1
  <2>3. \/ finalised' = finalised /\ spoilt' = spoilt \cup {task[t].doc} /\ ChatFault
        \/ /\ finalised' = [finalised EXCEPT ![task[t].doc] = @ + 1]
           /\ spoilt' = spoilt /\ chatFaults' = chatFaults
    BY <1>6, Zenon DEF Resume
  <2>4. {task[t].doc} \ {None} = {task[t].doc}
    BY <2>1, ChatNone
  <2>5. chatFaults' \in 0..MaxFaults
    BY <1>3, <1>t, <2>3
  <2>6. \/ finalised' = finalised /\ spoilt' = spoilt \cup ({task[t].doc} \ {None})
        \/ /\ finalised' = [finalised EXCEPT ![task[t].doc] = @ + 1]
           /\ spoilt' = spoilt /\ task[t].doc \in Docs
    BY <2>1, <2>3, <2>4, Zenon
  <2>7. "answered" \in Ended
    BY <1>4
  <2> QED
    BY <1>1, <2>2, <2>5, <2>6, <2>7, Finishing
<1> QED
  BY <1>5, <1>6

LEMMA CrashStep == ChatInv /\ TasksDie => ChatInv'
<1> SUFFICES ASSUME ChatInv, TasksDie PROVE ChatInv'
  OBVIOUS
<1> DEFINE gone == [Idle EXCEPT !.at = "dead"]
<1> DEFINE Lost == {task[t].doc : t \in {u \in Texts : task[u].at \in {"replying", "resuming"}}}
<1>1. gone = [at |-> "dead", doc |-> None, client |-> None]
  BY DEF Idle
<1>2. gone \in Task /\ gone.at = "dead"
  BY <1>1 DEF Task, Places
<1>3. task' = [t \in Texts |-> IF task[t].at \in {"unsent"} \cup Ended THEN task[t] ELSE gone]
  BY Zenon DEF TasksDie
<1>4. UNCHANGED <<rows, filed, expired, clients, finalised>> /\ prompting' = {}
      /\ spoilt' = spoilt \cup (Lost \ {None}) /\ chatFaults' \in 0..MaxFaults
  BY ChatFaultBound DEF TasksDie, ChatFault, ChatInv, ChatTypeOK
<1> HIDE DEF gone
<1>5. /\ task' \in [Texts -> Task]
      /\ \A t \in Texts : \/ task[t].at \in {"unsent"} \cup Ended /\ task'[t] = task[t]
                          \/ task[t].at \notin {"unsent"} \cup Ended /\ task'[t] = gone
  BY <1>2, <1>3 DEF ChatInv, ChatTypeOK
<1>6. \A t \in Texts : task[t].doc \in Docs \cup {None}
  BY DEF ChatInv, ChatTypeOK, Task
<1>7. Lost \ {None} \subseteq Docs
  BY <1>6
<1>8. ChatTypeOK'
  BY <1>4, <1>5, <1>7 DEF ChatInv, ChatTypeOK
<1>9. \A t \in Texts : TaskOK(t)'
  <2> SUFFICES ASSUME NEW t \in Texts PROVE TaskOK(t)'
    OBVIOUS
  <2>1. task'[t].at \in {"unsent", "dead"} \cup Ended
    BY <1>2, <1>5
  <2>2. task'[t].at \notin Holding \cup {"replying", "resuming"}
    BY <2>1 DEF Ended, Holding, Deciders
  <2> QED
    BY <2>2 DEF TaskOK, Holding
<1>10. ASSUME NEW d \in Docs, Resuming(d) PROVE d \in spoilt'
  <2>1. d \in Lost /\ d # None
    BY <1>10, ChatNone DEF Resuming
  <2> QED
    BY <1>4, <2>1
<1>11. LossNeedsFault'
  BY <1>4, <1>10 DEF ChatInv, LossNeedsFault
<1>12. (RoutedOnce /\ UndecidedAreOutside /\ FiledHaveRows)'
  BY <1>4 DEF ChatInv, RoutedOnce, UndecidedAreOutside, FiledHaveRows
<1> QED
  BY <1>8, <1>9, <1>11, <1>12 DEF ChatInv

LEMMA NextChatInv == ChatInv /\ [ChatNext]_chatVars => ChatInv'
<1> SUFFICES ASSUME ChatInv, [ChatNext]_chatVars PROVE ChatInv'
  OBVIOUS
<1>1. ASSUME NEW d \in Docs, Park(d) \/ Prompt(d) \/ Expire(d) PROVE ChatInv'
  BY <1>1, DocumentSteps
<1>2. ASSUME NEW t \in Texts, Say(t) \/ ChatStep(t) PROVE ChatInv'
  BY <1>2, UndecidedSteps, MatchStep, DecidingSteps, FinishingSteps DEF ChatStep
<1>3. CASE TasksDie
  BY <1>3, CrashStep
<1>4. CASE UNCHANGED chatVars
  BY <1>4 DEF chatVars, rowVars, ChatInv, ChatTypeOK, RoutedOnce, LossNeedsFault, Resuming,
              UndecidedAreOutside, FiledHaveRows, TaskOK, Owns
<1> QED
  BY <1>1, <1>2, <1>3, <1>4, Zenon DEF ChatNext

THEOREM ChatInvariant == ChatSpec => []ChatInv
<1>1. ChatInit => ChatInv
  BY InitChatInv
<1>2. ChatInv /\ [ChatNext]_chatVars => ChatInv'
  BY NextChatInv
<1> QED
  BY <1>1, <1>2, PTL DEF ChatSpec
-----------------------------------------------------------------------------
(* What the chat keeps has its types, whoever writes what and when.        *)
THEOREM ChatTyping == ChatSpec => []ChatTypeOK
<1>1. ChatInv => ChatTypeOK
  BY DEF ChatInv
<1> QED
  BY <1>1, ChatInvariant, PTL

(* No document that waited for its client is finalised twice               *)
(* (resolve of db/queries/pending_assignments.py: the row goes to one).    *)
THEOREM ChatRoutedOnce == ChatSpec => []RoutedOnce
<1>1. ChatInv => RoutedOnce
  BY DEF ChatInv
<1> QED
  BY <1>1, ChatInvariant, PTL

(* A resolved document is on its way or in the ledger, or a fault came     *)
(* between its commit and its pipeline (api/routes/worker.py).             *)
THEOREM ChatLossNeedsFault == ChatSpec => []LossNeedsFault
<1>1. ChatInv => LossNeedsFault
  BY DEF ChatInv
<1> QED
  BY <1>1, ChatInvariant, PTL

(* The step that gives a document to a client finds its row open, and obeys*)
(* a message that has it in hand, for the client the message has chosen.   *)
Decided(d) ==
  /\ IsOpen(d)
  /\ LET t == rows'[d].by
     IN  /\ task[t].doc = d
         /\ task[t].client \in clients /\ task[t].client = rows'[d].client

LEMMA ResolveRowDecides ==
  ASSUME ChatInv, NEW t \in Texts, NEW else, task[t].at \in Deciders,
         ResolveRow(t, task[t].doc, task[t].client, else),
         NEW e \in Docs, rows'[e] # rows[e]
  PROVE  Decided(e)
<1> DEFINE row == [by |-> t, client |-> task[t].client]
<1>1. row.by = t /\ row.client = task[t].client
  OBVIOUS
<1>2. IsOpen(task[t].doc) /\ rows' = [rows EXCEPT ![task[t].doc] = row]
  BY DEF ResolveRow
<1> HIDE DEF row
<1>3. e = task[t].doc /\ rows'[e] = row
  BY <1>2 DEF ChatInv, ChatTypeOK
<1>4. task[t].client \in clients
  BY DEF ChatInv, TaskOK
<1> QED
  BY <1>1, <1>2, <1>3, <1>4 DEF Decided

LEMMA StepDecides ==
  ASSUME ChatInv, [ChatNext]_chatVars
  PROVE  \A d \in Docs : rows[d] # None /\ rows'[d] # rows[d] => Decided(d)
<1> SUFFICES ASSUME NEW e \in Docs, rows[e] # None, rows'[e] # rows[e] PROVE Decided(e)
  OBVIOUS
<1>1. ASSUME NEW d \in Docs, Park(d) PROVE FALSE
  BY <1>1 DEF Park, ChatInv, ChatTypeOK
<1>2. ASSUME NEW t \in Texts, ResolveReply(t) \/ AssignRow(t) PROVE Decided(e)
  <2>1. PICK else : ResolveRow(t, task[t].doc, task[t].client, else)
    BY <1>2, Zenon DEF ResolveReply, AssignRow
  <2>2. task[t].at \in Deciders
    BY <1>2 DEF ResolveReply, AssignRow, Deciders
  <2> QED
    BY <2>1, <2>2, ResolveRowDecides
<1>3. CASE rows' = rows
  BY <1>3
<1>4. \/ \E d \in Docs : Park(d)
      \/ \E t \in Texts : ResolveReply(t) \/ AssignRow(t)
      \/ rows' = rows
  <2>1. ASSUME NEW d \in Docs, Prompt(d) \/ Expire(d) PROVE rows' = rows
    BY <2>1 DEF Prompt, Expire
  <2>2. ASSUME NEW t \in Texts, \/ Say(t) \/ Transcribe(t) \/ Classify(t) \/ MatchReply(t)
                                \/ Command(t) \/ ChooseRow(t) \/ Reply(t) \/ Resume(t)
        PROVE  rows' = rows
    BY <2>2, Zenon DEF Say, Transcribe, Classify, MatchReply, Command, ChooseRow, Reply, Resume,
                       rowVars
  <2>3. TasksDie \/ UNCHANGED chatVars => rows' = rows
    BY DEF TasksDie, chatVars, rowVars
  <2> QED
    BY <2>1, <2>2, <2>3, Zenon DEF ChatNext, ChatStep
<1> QED
  BY <1>1, <1>2, <1>3, <1>4

(* A task that takes up a client names him alone; every other step leaves  *)
(* a task the client it had, or none.                                      *)
LEMMA StepChooses ==
  ASSUME ChatInv, [ChatNext]_chatVars, NEW t \in Texts,
         task'[t].client \notin {None, task[t].client}
  PROVE  Chosen(t, task'[t].client)
<1>t. task \in [Texts -> Task]
  BY DEF ChatInv, ChatTypeOK
<1>n. None \in Docs \cup {None} /\ None \in Clients \cup {None}
  OBVIOUS
<1>1. ASSUME NEW u \in Texts, NEW at, NEW d, NEW c, Advances(u, at, d, c) PROVE u = t /\ task'[t].client = c
  BY <1>1 DEF Advances
<1>2. ASSUME NEW u \in Texts, NEW at \in Places, End(u, at) PROVE FALSE
  BY <1>t, <1>1, <1>2, EndMoves
<1>3. ASSUME NEW u \in Texts, NEW at \in Places, NEW d \in Docs \cup {None},
             NEW c \in Clients \cup {None}, Continue(u, at, d, c)
      PROVE  u = t /\ task'[t].client = c /\ c # None
  BY <1>t, <1>1, <1>3, ContinueMoves
<1>4. ASSUME NEW u \in Texts, ResolveReply(u) \/ AssignRow(u) PROVE FALSE
  <2>1. task[u] \in Task /\ u \in Texts
    BY <1>t
  <2>2. task[u].doc \in Docs \cup {None} /\ task[u].client \in Clients \cup {None}
    BY <2>1 DEF Task
  <2>3. \/ Continue(u, "replying", task[u].doc, task[u].client)
        \/ End(u, "supervisor") \/ End(u, "answered")
    BY <1>4 DEF ResolveReply, AssignRow, ResolveRow
  <2> QED
    BY <1>2, <1>3, <2>2, <2>3 DEF Places
<1>5. ASSUME NEW u \in Texts, Reply(u) PROVE FALSE
  <2>1. task' = [task EXCEPT ![u].at = "resuming"] \/ End(u, "answered") \/ End(u, "dead")
    BY <1>5, Zenon DEF Reply
  <2>2. CASE task' = [task EXCEPT ![u].at = "resuming"]
    <3>1. Advances(u, "resuming", task[u].doc, task[u].client)
      BY <1>t, <2>2, AtMoves DEF Places
    <3> QED
      BY <1>1, <3>1
  <2> QED
    BY <1>2, <2>1, <2>2 DEF Places
<1>6. ASSUME NEW u \in Texts, MatchReply(u) PROVE Chosen(t, task'[t].client)
  <2>1. task[u].doc \in Docs
    BY <1>6 DEF MatchReply, ChatInv, TaskOK, Holding
  <2>2. CASE \E c \in clients : StandsOut(u, c) /\ Continue(u, "matched", task[u].doc, c)
    <3>1. PICK c \in clients : StandsOut(u, c) /\ Continue(u, "matched", task[u].doc, c)
      BY <2>2
    <3>2. c \in Clients
      BY DEF ChatInv, ChatTypeOK
    <3>3. u = t /\ task'[t].client = c
      BY <1>3, <2>1, <3>1, <3>2 DEF Places
    <3> QED
      BY <3>1, <3>3 DEF Chosen
  <2>3. CASE End(u, IF Candidates(u) = {} THEN "supervisor" ELSE "answered")
    BY <1>2, <2>3 DEF Places
  <2> QED
    BY <1>6, <2>2, <2>3, Zenon DEF MatchReply
<1>7. ASSUME NEW u \in Texts, ChooseRow(u) PROVE Chosen(t, task'[t].client)
  <2>1. CASE \E c \in clients, d \in NewestOpen :
               Found[u] \cap clients = {c} /\ Continue(u, "assigning", d, c)
    <3>1. PICK c \in clients, d \in NewestOpen :
               Found[u] \cap clients = {c} /\ Continue(u, "assigning", d, c)
      BY <2>1
    <3>2. c \in Clients /\ d \in Docs
      BY NewestIsOpen DEF ChatInv, ChatTypeOK
    <3>3. u = t /\ task'[t].client = c
      BY <1>3, <3>1, <3>2 DEF Places
    <3> QED
      BY <3>1, <3>3 DEF Chosen
  <2>2. CASE Continue(u, "replying", None, None)
    BY <1>3, <1>n, <2>2 DEF Places
  <2> QED
    BY <1>7, <2>1, <2>2, Zenon DEF ChooseRow
<1>8. ASSUME NEW u \in Texts, Say(u) \/ Transcribe(u) \/ Classify(u) \/ Command(u) \/ Resume(u)
      PROVE  FALSE
  <2>1. \A d \in NewestOpen : d \in Docs
    BY NewestIsOpen DEF ChatInv
  <2>2. \/ \E at \in {"voice", "text", "replying"} : Continue(u, at, None, None)
        \/ \E d \in NewestOpen : Continue(u, "matching", d, None)
        \/ \E at \in {"answered", "filing", "supervisor"} : End(u, at)
    BY <1>8 DEF Say, Transcribe, Classify, Command, Resume
  <2> QED
    BY <1>2, <1>3, <1>n, <2>1, <2>2 DEF Places
<1>9. CASE TasksDie
  <2>1. task'[t] = task[t] \/ task'[t] = [Idle EXCEPT !.at = "dead"]
    BY <1>9 DEF TasksDie
  <2> QED
    BY <2>1 DEF Idle
<1>10. CASE task' = task
  BY <1>10
<1>11. (\E d \in Docs : Park(d) \/ Prompt(d) \/ Expire(d)) \/ UNCHANGED chatVars => task' = task
  BY DEF Park, Prompt, Expire, chatVars
<1> QED
  BY <1>4, <1>5, <1>6, <1>7, <1>8, <1>9, <1>10, <1>11, Zenon DEF ChatNext, ChatStep

(* A row that is decided stays as it is, and is decided by a message that  *)
(* has it in hand, for the client its words named alone when it was read   *)
(* (_try_resolve_pending_from_text, _cmd_assign).                          *)
THEOREM ChatDecidedOnce == ChatSpec => DecidedOnce
<1>1. ChatInv /\ [ChatNext]_chatVars =>
        [/\ \A d \in Docs : rows[d] # None /\ rows'[d] # rows[d] =>
              /\ IsOpen(d)
              /\ LET t == rows'[d].by
                 IN  /\ task[t].doc = d
                     /\ task[t].client \in clients /\ task[t].client = rows'[d].client
         /\ \A t \in Texts : LET c == task'[t].client
                             IN  c \notin {None, task[t].client} => Chosen(t, c)]_chatVars
  BY StepDecides, StepChooses DEF Decided
<1> QED
  BY <1>1, ChatInvariant, PTL DEF ChatSpec, DecidedOnce
-----------------------------------------------------------------------------
(***************************************************************************)
(* Linking a chat to its firm: for any firms, chats and /start messages, and*)
(* any firm_users rows made elsewhere.                                     *)
(***************************************************************************)
(* The admin chat of a firm has a firm_users row; a tap that knew its row  *)
(* still has it, for rows are never removed; a linked chat has a row.      *)
AdminsHaveRows == \A f \in Firms : admin[f] # Nobody => <<f, admin[f]>> \in users

KnownRowsStay == \A p \in Taps : tap[p].known => <<LinkOf[p], ChatOf[p]>> \in users

LinkedHaveRows ==
  \A p \in Taps : tap[p].at \in {"linked", "welcome back"} =>
    \E f \in Firms : <<f, ChatOf[p]>> \in users

(* What has a link names a firm.                                           *)
LinksNameFirms == \A p \in Taps : tap[p].at \in {"free", "linking"} => LinkOf[p] \in Firms

OnboardingInv ==
  OnboardingTypeOK /\ AdminsHaveRows /\ KnownRowsStay /\ LinkedHaveRows /\ LinksNameFirms
-----------------------------------------------------------------------------
LEMMA InitOnboardingInv == OnboardingInit => OnboardingInv
<1> SUFFICES ASSUME OnboardingInit PROVE OnboardingInv
  OBVIOUS
<1>1. OnboardingTypeOK
  BY OnboardingMaps DEF OnboardingInit, OnboardingTypeOK
<1>2. AdminsHaveRows
  BY DEF OnboardingInit, AdminsHaveRows
<1>3. \A p \in Taps : tap[p].at = "unsent" /\ ~tap[p].known
  BY DEF OnboardingInit
<1> QED
  BY <1>1, <1>2, <1>3 DEF OnboardingInv, KnownRowsStay, LinkedHaveRows, LinksNameFirms

(* A task goes on: only where it is changes.                               *)
LEMMA TapGoes ==
  ASSUME OnboardingTypeOK, NEW p \in Taps,
         NEW at \in {"unsent", "bare", "free", "linking"} \cup Replies, Goes(p, at)
  PROVE  /\ tap' \in [Taps -> [at : {"unsent", "bare", "free", "linking"} \cup Replies,
                               known : BOOLEAN]]
         /\ \A q \in Taps : /\ tap'[q].at = IF q = p THEN at ELSE tap[q].at
                            /\ tap'[q].known = tap[q].known
<1> DEFINE Ats == {"unsent", "bare", "free", "linking"} \cup Replies
<1> HIDE DEF Ats
<1>1. tap \in [Taps -> [at : Ats, known : BOOLEAN]] /\ at \in Ats
  BY Zenon DEF OnboardingTypeOK, Ats
<1>2. tap' = [tap EXCEPT ![p].at = at]
  BY Zenon DEF Goes
<1>3. tap[p].known \in BOOLEAN
  BY <1>1
<1>4. tap' \in [Taps -> [at : Ats, known : BOOLEAN]]
  BY <1>1, <1>2
<1>5. \A q \in Taps : /\ tap'[q].at = IF q = p THEN at ELSE tap[q].at
                     /\ tap'[q].known = tap[q].known
  BY <1>1, <1>2
<1> QED
  BY <1>4, <1>5, Zenon DEF Ats

LEMMA NextOnboardingInv ==
  OnboardingInv /\ [OnboardingNext]_onboardingVars => OnboardingInv'
<1> SUFFICES ASSUME OnboardingInv, [OnboardingNext]_onboardingVars PROVE OnboardingInv'
  OBVIOUS
<1> USE OnboardingMaps
<1>t. OnboardingTypeOK
  BY Zenon DEF OnboardingInv
<1>1. ASSUME NEW p \in Taps, ReadFirm(p) PROVE OnboardingInv'
  <2>1. PICK at \in {"bare", "free", "welcome back", "refused"} :
          /\ Goes(p, at)
          /\ at = "free" => LinkOf[p] \in Firms
          /\ at = "welcome back" => LinkOf[p] \in Firms /\ admin[LinkOf[p]] = ChatOf[p]
    BY <1>1 DEF ReadFirm
  <2>2. UNCHANGED <<admin, users>>
    BY <1>1, Zenon DEF ReadFirm
  <2>3. at = "welcome back" => <<LinkOf[p], ChatOf[p]>> \in users
    BY <2>1, Nobody \notin Chats DEF OnboardingInv, AdminsHaveRows
  <2>4. at \in {"unsent", "bare", "free", "linking"} \cup Replies
    BY DEF Replies
  <2>5. /\ OnboardingTypeOK'
        /\ \A q \in Taps : /\ tap'[q].at = IF q = p THEN at ELSE tap[q].at
                           /\ tap'[q].known = tap[q].known
    BY <1>t, <2>1, <2>2, <2>4, TapGoes, Zenon DEF OnboardingTypeOK
  <2> QED
    BY <2>1, <2>2, <2>3, <2>5
       DEF OnboardingInv, AdminsHaveRows, KnownRowsStay, LinkedHaveRows, LinksNameFirms
<1>2. ASSUME NEW p \in Taps, BareStart(p) PROVE OnboardingInv'
  <2>1. PICK at \in {"welcome back", "go to the web"} :
          /\ Goes(p, at)
          /\ at = "welcome back" => FirmsOf(ChatOf[p]) # {}
    BY <1>2, Zenon DEF BareStart
  <2>2. UNCHANGED <<admin, users>>
    BY <1>2, Zenon DEF BareStart
  <2>3. at = "welcome back" => \E f \in Firms : <<f, ChatOf[p]>> \in users
    BY <2>1, ChatOf[p] # Nobody DEF OnboardingInv, AdminsHaveRows, FirmsOf
  <2>4. at \in {"unsent", "bare", "free", "linking"} \cup Replies
    BY DEF Replies
  <2>5. /\ OnboardingTypeOK'
        /\ \A q \in Taps : /\ tap'[q].at = IF q = p THEN at ELSE tap[q].at
                           /\ tap'[q].known = tap[q].known
    BY <1>t, <2>1, <2>2, <2>4, TapGoes, Zenon DEF OnboardingTypeOK
  <2> QED
    BY <2>1, <2>2, <2>3, <2>5
       DEF OnboardingInv, AdminsHaveRows, KnownRowsStay, LinkedHaveRows, LinksNameFirms
<1>3. ASSUME NEW p \in Taps, FindUser(p) PROVE OnboardingInv'
  <2> DEFINE known == <<LinkOf[p], ChatOf[p]>> \in users
  <2>1. tap' = [tap EXCEPT ![p] = [at |-> "linking", known |-> known]]
        /\ UNCHANGED <<admin, users>> /\ tap[p].at = "free"
    BY <1>3, Zenon DEF FindUser
  <2>2. known \in BOOLEAN
    OBVIOUS
  <2>3. OnboardingTypeOK'
    BY <1>t, <2>1, <2>2 DEF OnboardingTypeOK
  <2>4. tap'[p].at = "linking" /\ (tap'[p].known = known)
    BY <1>t, <2>1 DEF OnboardingTypeOK
  <2>5. \A q \in Taps : q # p => tap'[q] = tap[q]
    BY <1>t, <2>1 DEF OnboardingTypeOK
  <2> QED
    BY <2>1, <2>3, <2>4, <2>5
       DEF OnboardingInv, AdminsHaveRows, KnownRowsStay, LinkedHaveRows, LinksNameFirms
<1>4. ASSUME NEW p \in Taps, CommitLink(p) PROVE OnboardingInv'
  <2> DEFINE row == <<LinkOf[p], ChatOf[p]>>
  <2>1. tap[p].at = "linking" /\ LinkOf[p] \in Firms /\ row \in Firms \X Chats
    BY <1>4 DEF CommitLink, OnboardingInv, LinksNameFirms
  <2>2. CASE /\ admin' = [admin EXCEPT ![LinkOf[p]] = ChatOf[p]]
             /\ users' = users \cup {row} /\ Goes(p, "linked")
    <3>4. "linked" \in {"unsent", "bare", "free", "linking"} \cup Replies
      BY DEF Replies
    <3>5. /\ tap' \in [Taps -> [at : {"unsent", "bare", "free", "linking"} \cup Replies,
                                known : BOOLEAN]]
          /\ \A q \in Taps : /\ tap'[q].at = IF q = p THEN "linked" ELSE tap[q].at
                             /\ tap'[q].known = tap[q].known
      BY <1>t, <2>2, <3>4, TapGoes, Zenon
    <3>1. /\ admin' \in [Firms -> Chats \cup {Nobody}] /\ users' \subseteq Firms \X Chats
      BY <2>1, <2>2, <1>t DEF OnboardingTypeOK
    <3>2. OnboardingTypeOK'
      BY <3>1, <3>5, Zenon DEF OnboardingTypeOK
    <3>3. AdminsHaveRows'
      BY <2>1, <2>2, <1>t DEF OnboardingTypeOK, AdminsHaveRows, OnboardingInv
    <3> QED
      BY <2>1, <2>2, <3>2, <3>3, <3>5
         DEF OnboardingInv, KnownRowsStay, LinkedHaveRows, LinksNameFirms
  <2>3. CASE UNCHANGED <<admin, users>> /\ Goes(p, "no reply")
    <3>4. "no reply" \in {"unsent", "bare", "free", "linking"} \cup Replies
      BY DEF Replies
    <3>5. /\ OnboardingTypeOK'
          /\ \A q \in Taps : /\ tap'[q].at = IF q = p THEN "no reply" ELSE tap[q].at
                             /\ tap'[q].known = tap[q].known
      BY <1>t, <2>3, <3>4, TapGoes, Zenon DEF OnboardingTypeOK
    <3> QED
      BY <2>3, <3>5
         DEF OnboardingInv, AdminsHaveRows, KnownRowsStay, LinkedHaveRows, LinksNameFirms
  <2> QED
    BY <1>4, <2>2, <2>3, Zenon DEF CommitLink
<1>5. CASE UNCHANGED onboardingVars
  BY <1>5 DEF onboardingVars, OnboardingInv, OnboardingTypeOK, AdminsHaveRows, KnownRowsStay,
              LinkedHaveRows, LinksNameFirms
<1> QED
  BY <1>1, <1>2, <1>3, <1>4, <1>5, Zenon DEF OnboardingNext

THEOREM OnboardingInvariant == OnboardingSpec => []OnboardingInv
<1>1. OnboardingInit => OnboardingInv
  BY InitOnboardingInv
<1>2. OnboardingInv /\ [OnboardingNext]_onboardingVars => OnboardingInv'
  BY NextOnboardingInv
<1> QED
  BY <1>1, <1>2, PTL DEF OnboardingSpec
-----------------------------------------------------------------------------
(* A chat with a row is somebody's, be it as admin or as a user.           *)
LEMMA RowsAreFound ==
  ASSUME NEW c, NEW f \in Firms, <<f, c>> \in users
  PROVE  FirmsOf(c) # {}
BY DEF FirmsOf

(* Firms, their users and the taps of the link keep their types.           *)
THEOREM OnboardingTyping == OnboardingSpec => []OnboardingTypeOK
<1>1. OnboardingInv => OnboardingTypeOK
  BY Zenon DEF OnboardingInv
<1> QED
  BY <1>1, OnboardingInvariant, PTL

(* Whoever was told "linked" or "welcome back" (agents/onboarding.py) can  *)
(* be looked up from then on, even after another chat stole the link.      *)
THEOREM LinkedChatsStayKnownAlways == OnboardingSpec => []LinkedChatsStayKnown
<1>1. OnboardingInv => LinkedChatsStayKnown
  BY RowsAreFound DEF OnboardingInv, LinkedHaveRows, LinkedChatsStayKnown
<1> QED
  BY <1>1, OnboardingInvariant, PTL

-----------------------------------------------------------------------------
(* Tally imports.                                                          *)

OneRowEach == \A e, g \in pending \cup events : e.voucher = g.voucher => e = g

(* Rows of x are in R, and they are those it counted.                      *)
Counted(x, R) ==
  /\ Keys(x) \subseteq {e.voucher : e \in events \cup R}
  /\ IsFiniteSet({e \in R : e.by = x})
  /\ import[x].inserted = Cardinality({e \in R : e.by = x})
  /\ import[x].inserted + import[x].skipped = Cardinality(Parsed(x))
  /\ \A e \in R : e.by = x => e.client = import[x].client

(* What a task has written, by where it is.                                *)
Written(x) ==
  /\ import[x].at \in {"new", "parsed", "inserting", "inserted"} =>
       \A e \in events : e.by # x
  /\ import[x].at \in {"new", "parsed", "inserting", "reported", "done"} =>
       \A e \in pending : e.by # x
  /\ import[x].at = "inserted" => Counted(x, {e \in pending : e.by = x})
  /\ import[x].at \in {"reported", "done"} => Counted(x, events)

Readable(x) ==
  /\ import[x].at \in {"parsed", "inserting", "inserted", "reported"} => Content[x] # Missing
  /\ import[x].at = "inserting" => import[x].client \in Parties

ImportInv == /\ ImportTypeOK /\ OneRowEach
             /\ \A x \in Exports : Written(x) /\ Readable(x)
-----------------------------------------------------------------------------
(* The keys of a file, and any of them, are as many as its vouchers or     *)
(* fewer.                                                                  *)
LEMMA KeysAreFinite ==
  ASSUME NEW x \in Exports, Content[x] # Missing
  PROVE  /\ IsFiniteSet(Parsed(x)) /\ IsFiniteSet(Keys(x))
         /\ Cardinality(Parsed(x)) \in Nat /\ Cardinality(Keys(x)) <= Cardinality(Parsed(x))
         /\ Keys(x) \subseteq Vouchers
<1>1. Content[x] \in Seq(Vouchers)
  BY ImportMaps
<1>2. DOMAIN Content[x] = 1..Len(Content[x]) /\ Len(Content[x]) \in Nat
      /\ \A i \in DOMAIN Content[x] : Content[x][i] \in Vouchers
  BY <1>1
<1>3. IsFiniteSet(DOMAIN Content[x])
  BY <1>2, FS_Interval
<1>4. Parsed(x) \in SUBSET (DOMAIN Content[x])
  BY DEF Parsed
<1>5. IsFiniteSet(Parsed(x))
  BY <1>3, <1>4, FS_Subset, Zenon
<1>6. Cardinality(Parsed(x)) \in Nat
  BY <1>5, FS_CardinalityType, Zenon
<1> DEFINE f == [i \in Parsed(x) |-> Content[x][i]]
<1>7. f \in Surjection(Parsed(x), Keys(x))
  BY DEF Surjection, Keys
<1>8. IsFiniteSet(Keys(x)) /\ Cardinality(Keys(x)) <= Cardinality(Parsed(x))
  BY <1>5, <1>7, FS_Surjection, Zenon
<1> QED
  BY <1>2, <1>4, <1>5, <1>6, <1>8 DEF Keys

(* The rows of x for a set of keys: one each.                              *)
RowsFor(x, c, K) == {[client |-> c, voucher |-> v, by |-> x] : v \in K}

LEMMA RowsForKeys ==
  ASSUME NEW x, NEW c, NEW K, IsFiniteSet(K)
  PROVE  IsFiniteSet(RowsFor(x, c, K)) /\ Cardinality(RowsFor(x, c, K)) = Cardinality(K)
<1> DEFINE f == [v \in K |-> [client |-> c, voucher |-> v, by |-> x]]
<1>1. f \in [K -> RowsFor(x, c, K)]
  BY DEF RowsFor
<1>2. \A v, w \in K : f[v] = f[w] => v = w
  OBVIOUS
<1>3. \A e \in RowsFor(x, c, K) : \E v \in K : f[v] = e
  BY DEF RowsFor
<1> HIDE DEF f
<1>4. f \in Bijection(K, RowsFor(x, c, K))
  BY <1>1, <1>2, <1>3 DEF Bijection, Injection, IsInjective, Surjection
<1>5. ExistsBijection(K, RowsFor(x, c, K))
  BY <1>4 DEF ExistsBijection
<1> QED
  BY <1>5, FS_Bijection, Zenon
-----------------------------------------------------------------------------
(* The task of x is at a place with what it was told; no other has moved.  *)
Proceeded(x, at, c, n, k) ==
  /\ import' \in [Exports -> ImportTask]
  /\ import'[x].at = at /\ import'[x].client = c
  /\ import'[x].inserted = n /\ import'[x].skipped = k
  /\ \A y \in Exports \ {x} : import'[y] = import[y]

ImportPlaces == {"new", "parsed", "inserting", "inserted", "reported", "done", "refused", "dead"}

LEMMA Replaced ==
  ASSUME import \in [Exports -> ImportTask], NEW x \in Exports, NEW at \in ImportPlaces,
         NEW c \in Parties \cup {Missing}, NEW n \in Nat, NEW k \in Nat,
         import' = [import EXCEPT ![x] = [at |-> at, client |-> c, inserted |-> n, skipped |-> k]]
  PROVE  Proceeded(x, at, c, n, k)
<1> DEFINE new == [at |-> at, client |-> c, inserted |-> n, skipped |-> k]
<1>1. new \in ImportTask /\ new.at = at /\ new.client = c /\ new.inserted = n /\ new.skipped = k
  BY DEF ImportTask, ImportPlaces
<1>2. import' = [import EXCEPT ![x] = new]
  OBVIOUS
<1> HIDE DEF new
<1>3. /\ import' \in [Exports -> ImportTask] /\ import'[x] = new
      /\ \A y \in Exports \ {x} : import'[y] = import[y]
  BY <1>1, <1>2
<1> QED
  BY <1>1, <1>3, Zenon DEF Proceeded

LEMMA ProceedsTo ==
  ASSUME import \in [Exports -> ImportTask], NEW x \in Exports, NEW at \in ImportPlaces,
         Proceeds(x, at)
  PROVE  Proceeded(x, at, import[x].client, import[x].inserted, import[x].skipped)
<1>1. import[x] \in ImportTask
  OBVIOUS
<1>2. /\ import[x].client \in Parties \cup {Missing}
      /\ import[x].inserted \in Nat /\ import[x].skipped \in Nat
  BY <1>1 DEF ImportTask
<1>3. [import[x] EXCEPT !.at = at] =
        [at |-> at, client |-> import[x].client,
         inserted |-> import[x].inserted, skipped |-> import[x].skipped]
  BY <1>1 DEF ImportTask
<1>4. import' = [import EXCEPT ![x] = [at |-> at, client |-> import[x].client,
                   inserted |-> import[x].inserted, skipped |-> import[x].skipped]]
  BY <1>3, Zenon DEF Proceeds
<1> QED
  BY <1>2, <1>4, Replaced

(* Other tasks do not notice rows of x come and go.                        *)
LEMMA OthersKeep ==
  ASSUME ImportInv, NEW x \in Exports, NEW y \in Exports \ {x},
         import'[y] = import[y], events \subseteq events',
         \A e \in events' \ events : e.by = x,
         \A e \in pending \cup pending' : e.by # x => (e \in pending <=> e \in pending')
  PROVE  Written(y)' /\ Readable(y)'
<1>1. Written(y) /\ Readable(y)
  BY DEF ImportInv
<1>2. {e \in pending : e.by = y}' = {e \in pending : e.by = y}
  OBVIOUS
<1>3. {e \in events : e.by = y}' = {e \in events : e.by = y}
  OBVIOUS
<1> DEFINE own == {e \in pending : e.by = y}
<1>4. {e \in own : e.by = y} = own
  OBVIOUS
<1>5. Counted(y, own) => Counted(y, own)'
  <2>1. own' = own
    BY <1>2
  <2> HIDE DEF own
  <2> QED
    BY <2>1 DEF Counted, Keys, Parsed
<1>6. Counted(y, events) => Counted(y, events)'
  <2>1. \A e \in events' : e.by = y => e \in events
    OBVIOUS
  <2>2. Keys(y)' = Keys(y) /\ Parsed(y)' = Parsed(y)
    BY DEF Keys, Parsed
  <2> QED
    BY <1>3, <2>1, <2>2 DEF Counted
<1>7. Readable(y)'
  BY <1>1 DEF Readable
<1> QED
  BY <1>1, <1>2, <1>5, <1>6, <1>7 DEF Written

LEMMA InitImportInv == ImportInit => ImportInv
<1> SUFFICES ASSUME ImportInit PROVE ImportInv
  OBVIOUS
<1>1. Idling \in ImportTask /\ Idling.at = "new"
  BY DEF Idling, ImportTask
<1>2. \A x \in Exports : import[x] = Idling
  BY DEF ImportInit
<1>3. ImportTypeOK
  <2>1. import \in [Exports -> ImportTask]
    BY <1>1, Zenon DEF ImportInit
  <2> QED
    BY <2>1, ImportMaps DEF ImportInit, ImportTypeOK
<1>4. \A x \in Exports : Written(x) /\ Readable(x)
  BY <1>1, <1>2 DEF Written, Readable, ImportInit
<1> QED
  BY <1>3, <1>4 DEF ImportInv, OneRowEach, ImportInit

LEMMA BeforeRows ==
  ASSUME ImportInv, NEW x \in Exports, Parse(x) \/ RouteImport(x)
  PROVE  ImportInv'
<1>t. import \in [Exports -> ImportTask]
  BY DEF ImportInv, ImportTypeOK
<1>1. UNCHANGED <<pending, events, breaks>> /\ import[x].at \in {"new", "parsed"}
  BY DEF Parse, RouteImport
<1>2. ASSUME NEW at \in {"parsed", "inserting", "refused"}, NEW c, NEW n, NEW k,
             Proceeded(x, at, c, n, k), at # "refused" => Content[x] # Missing,
             at = "inserting" => c \in Parties
      PROVE  ImportInv'
  <2>1. ImportTypeOK'
    BY <1>1, <1>2 DEF ImportInv, ImportTypeOK, Proceeded
  <2>2. OneRowEach'
    BY <1>1 DEF ImportInv, OneRowEach
  <2>3. \A y \in Exports \ {x} : Written(y)' /\ Readable(y)'
    BY <1>1, <1>2, OthersKeep DEF Proceeded
  <2>4. Written(x)' /\ Readable(x)'
    BY <1>1, <1>2 DEF ImportInv, Written, Readable, Proceeded
  <2> QED
    BY <2>1, <2>2, <2>3, <2>4 DEF ImportInv
<1>3. CASE Parse(x)
  <2>1. CASE Content[x] # Missing /\ Proceeds(x, "parsed")
    <3>1. Proceeded(x, "parsed", import[x].client, import[x].inserted, import[x].skipped)
      BY <1>t, <2>1, ProceedsTo DEF ImportPlaces
    <3> QED
      BY <1>2, <2>1, <3>1
  <2>2. CASE Proceeds(x, "refused")
    <3>1. Proceeded(x, "refused", import[x].client, import[x].inserted, import[x].skipped)
      BY <1>t, <2>2, ProceedsTo DEF ImportPlaces
    <3> QED
      BY <1>2, <3>1
  <2> QED
    BY <1>3, <2>1, <2>2 DEF Parse
<1>4. CASE RouteImport(x)
  <2>1. Content[x] # Missing
    BY <1>4 DEF RouteImport, ImportInv, Readable
  <2>2. CASE Proceeds(x, "refused")
    <3>1. Proceeded(x, "refused", import[x].client, import[x].inserted, import[x].skipped)
      BY <1>t, <2>2, ProceedsTo DEF ImportPlaces
    <3> QED
      BY <1>2, <3>1
  <2>3. CASE \E c \in ImportClient(x) :
              import' = [import EXCEPT ![x] = [at |-> "inserting", client |-> c,
                                               inserted |-> 0, skipped |-> 0]]
    <3>1. PICK c \in ImportClient(x) :
            import' = [import EXCEPT ![x] = [at |-> "inserting", client |-> c,
                                             inserted |-> 0, skipped |-> 0]]
      BY <2>3, Zenon
    <3>2. c \in Parties
      BY DEF ImportClient, Named
    <3>5. Proceeded(x, "inserting", c, 0, 0)
      BY <1>t, <3>1, <3>2, Replaced DEF ImportPlaces
    <3> QED
      BY <1>2, <2>1, <3>2, <3>5
  <2> QED
    BY <1>4, <2>2, <2>3, Zenon DEF RouteImport
<1> QED
  BY <1>3, <1>4

(* The insert: rows for the keys nobody has, and as many as are counted.   *)
LEMMA InsertStep ==
  ASSUME ImportInv, NEW x \in Exports, Insert(x)
  PROVE  ImportInv'
<1> DEFINE news == RowsFor(x, import[x].client, New(x))
           n == Cardinality(New(x))
           k == Cardinality(Parsed(x)) - Cardinality(New(x))
<1>t. import \in [Exports -> ImportTask]
  BY DEF ImportInv, ImportTypeOK
<1>1. /\ import[x].at = "inserting" /\ pending' = pending \cup news
      /\ \A e \in pending : e.voucher \notin Keys(x)
      /\ UNCHANGED <<events, breaks>>
  BY DEF Insert, RowsFor
<1>2. Content[x] # Missing /\ import[x].client \in Parties
  BY <1>1 DEF ImportInv, Readable
<1>3. New(x) \in SUBSET Keys(x)
  BY DEF New
<1>4. IsFiniteSet(New(x)) /\ Cardinality(New(x)) <= Cardinality(Keys(x))
  BY <1>2, <1>3, KeysAreFinite, FS_Subset, Zenon
<1>5. n \in Nat /\ k \in Nat /\ n + k = Cardinality(Parsed(x))
  <2>1. n \in Nat /\ Cardinality(Keys(x)) \in Nat
    BY <1>2, <1>4, KeysAreFinite, FS_CardinalityType, Zenon
  <2> QED
    BY <1>2, <1>4, <2>1, KeysAreFinite
<1>6. IsFiniteSet(news) /\ Cardinality(news) = n
  BY <1>4, RowsForKeys, Zenon
<1>7. Proceeded(x, "inserted", import[x].client, n, k)
  <2>1. import' = [import EXCEPT ![x] = [at |-> "inserted", client |-> import[x].client,
                                         inserted |-> n, skipped |-> k]]
    BY <1>t, Zenon DEF Insert
  <2> HIDE DEF n, k
  <2> QED
    BY <1>t, <1>2, <1>5, <2>1, Replaced DEF ImportPlaces
<1>8. \A e \in news : /\ e \in Event /\ e.by = x /\ e.client = import[x].client
                      /\ e.voucher \in New(x)
  <2>1. New(x) \subseteq Vouchers
    BY <1>2, <1>3, KeysAreFinite
  <2>2. \A v \in New(x) : [client |-> import[x].client, voucher |-> v, by |-> x] \in Event
    BY <1>2, <2>1 DEF Event
  <2> QED
    BY <2>2 DEF RowsFor
<1>9. \A v \in New(x) : \E e \in news : e.voucher = v
  <2> TAKE v \in New(x)
  <2> DEFINE e == [client |-> import[x].client, voucher |-> v, by |-> x]
  <2>1. e.voucher = v
    OBVIOUS
  <2>2. e \in news
    BY Zenon DEF RowsFor
  <2> QED
    BY <2>1, <2>2, Zenon
<1>10. \A e, g \in news : e.voucher = g.voucher => e = g
  BY DEF RowsFor
<1> HIDE DEF news, n, k
<1>11. ImportTypeOK'
  BY <1>1, <1>7, <1>8 DEF ImportInv, ImportTypeOK, Proceeded
<1>12. OneRowEach'
  <2>1. \A e \in pending \cup events, g \in news : e.voucher # g.voucher
    BY <1>1, <1>3, <1>8 DEF New
  <2> QED
    BY <1>1, <1>10, <2>1 DEF ImportInv, OneRowEach
<1>13. \A y \in Exports \ {x} : Written(y)' /\ Readable(y)'
  <2>1. events' = events /\ \A e \in pending \cup pending' : e.by # x => (e \in pending <=> e \in pending')
    BY <1>1, <1>8
  <2> QED
    BY <1>7, <2>1, OthersKeep DEF Proceeded
<1>14. Written(x)' /\ Readable(x)'
  <2>1. /\ \A e \in events : e.by # x
        /\ \A e \in pending : e.by # x
    BY <1>1 DEF ImportInv, Written
  <2>2. {e \in pending' : e.by = x} = news /\ {e \in news : e.by = x} = news
    BY <1>1, <1>8, <2>1
  <2>3. Keys(x) \subseteq {e.voucher : e \in events' \cup news}
    BY <1>1, <1>9 DEF New
  <2>4. Counted(x, {e \in pending : e.by = x})'
    BY <1>5, <1>6, <1>7, <1>8, <2>2, <2>3 DEF Counted, Proceeded, Keys, Parsed
  <2> QED
    BY <1>1, <1>2, <1>7, <2>1, <2>4 DEF Written, Readable, Proceeded
<1> QED
  BY <1>11, <1>12, <1>13, <1>14 DEF ImportInv

LEMMA CommitStep ==
  ASSUME ImportInv, NEW x \in Exports, CommitImport(x)
  PROVE  ImportInv'
<1> DEFINE own == {e \in pending : e.by = x}
<1>t. import \in [Exports -> ImportTask]
  BY DEF ImportInv, ImportTypeOK
<1>1. /\ import[x].at = "inserted" /\ events' = events \cup own
      /\ pending' = {e \in pending : e.by # x} /\ breaks' = breaks
  BY DEF CommitImport
<1>2. Proceeded(x, "reported", import[x].client, import[x].inserted, import[x].skipped)
  BY <1>t, ProceedsTo DEF CommitImport, ImportPlaces
<1>3. ImportTypeOK'
  BY <1>1, <1>2 DEF ImportInv, ImportTypeOK, Proceeded
<1>4. OneRowEach'
  BY <1>1 DEF ImportInv, OneRowEach
<1>5. \A y \in Exports \ {x} : Written(y)' /\ Readable(y)'
  BY <1>1, <1>2, OthersKeep DEF Proceeded
<1>6. Written(x)' /\ Readable(x)'
  <2>1. Counted(x, own) /\ (\A e \in events : e.by # x) /\ Content[x] # Missing
    BY <1>1 DEF ImportInv, Written, Readable
  <2>2. {e \in events' : e.by = x} = own /\ {e \in own : e.by = x} = own
    BY <1>1, <2>1
  <2>3. events' \cup events' = events \cup own
    BY <1>1
  <2>4. \A e \in events' : e.by = x => e \in own
    BY <1>1, <2>1
  <2> HIDE DEF own
  <2>5. Counted(x, events)'
    BY <1>2, <2>1, <2>2, <2>3, <2>4 DEF Counted, Proceeded, Keys, Parsed
  <2>6. \A e \in pending' : e.by # x
    BY <1>1
  <2> QED
    BY <1>2, <2>1, <2>5, <2>6 DEF Written, Readable, Proceeded
<1> QED
  BY <1>3, <1>4, <1>5, <1>6 DEF ImportInv

(* A task that ends, or dies and loses what it had not committed.          *)
LEMMA EndSteps ==
  ASSUME ImportInv, NEW x \in Exports, Report(x) \/ ImportDies(x)
  PROVE  ImportInv'
<1>t. import \in [Exports -> ImportTask]
  BY DEF ImportInv, ImportTypeOK
<1>1. events' = events /\ pending' \subseteq pending /\ breaks' \in 0..MaxBreaks
      /\ \A e \in pending : e.by # x => e \in pending'
  BY ImportMaps DEF Report, ImportDies, Break, ImportInv, ImportTypeOK
<1>2. ASSUME NEW at \in {"done", "dead"}, Proceeds(x, at),
             at = "done" => import[x].at = "reported"
      PROVE  ImportInv'
  <2>1. Proceeded(x, at, import[x].client, import[x].inserted, import[x].skipped)
    BY <1>t, <1>2, ProceedsTo DEF ImportPlaces
  <2>2. ImportTypeOK'
    BY <1>1, <2>1 DEF ImportInv, ImportTypeOK, Proceeded
  <2>3. OneRowEach'
    BY <1>1 DEF ImportInv, OneRowEach
  <2>4. \A y \in Exports \ {x} : Written(y)' /\ Readable(y)'
    BY <1>1, <2>1, OthersKeep DEF Proceeded
  <2>5. Written(x)' /\ Readable(x)'
    BY <1>1, <1>2, <2>1
       DEF ImportInv, Written, Readable, Proceeded, Counted, Keys, Parsed
  <2> QED
    BY <2>2, <2>3, <2>4, <2>5 DEF ImportInv
<1> QED
  BY <1>2 DEF Report, ImportDies

THEOREM ImportInvariant == ImportSpec => []ImportInv
<1>1. ImportInit => ImportInv
  BY InitImportInv
<1>2. ImportInv /\ [ImportNext]_importVars => ImportInv'
  <2> SUFFICES ASSUME ImportInv, [ImportNext]_importVars PROVE ImportInv'
    OBVIOUS
  <2>1. CASE ImportNext
    BY <2>1, BeforeRows, InsertStep, CommitStep, EndSteps DEF ImportNext
  <2>2. CASE UNCHANGED importVars
    BY <2>2 DEF importVars, ImportInv, ImportTypeOK, OneRowEach, Written, Readable, Counted,
                Keys, Parsed
  <2> QED
    BY <2>1, <2>2
<1> QED
  BY <1>1, <1>2, PTL DEF ImportSpec
-----------------------------------------------------------------------------
(* The import keeps its types.                                             *)
THEOREM ImportTyping == ImportSpec => []ImportTypeOK
<1>1. ImportInv => ImportTypeOK
  BY DEF ImportInv
<1> QED
  BY <1>1, ImportInvariant, PTL

(* "Only new vouchers are added" (_run_tally_ingestion), and the counts in *)
(* the answer are those of the rows (record_dedup_bulk).                   *)
THEOREM ImportLandsOnce == ImportSpec => []VouchersLandOnce
<1>1. ImportInv => VouchersLandOnce
  <2> SUFFICES ASSUME ImportInv PROVE VouchersLandOnce
    OBVIOUS
  <2>1. \A e, g \in events : e.voucher = g.voucher => e = g
    BY DEF ImportInv, OneRowEach
  <2>2. ASSUME NEW x \in Exports, import[x].at \in {"reported", "done"}
        PROVE  Counted(x, events) /\ events \cup events = events
    BY <2>2 DEF ImportInv, Written
  <2> QED
    BY <2>1, <2>2 DEF VouchersLandOnce, Counted
<1> QED
  BY <1>1, ImportInvariant, PTL
-----------------------------------------------------------------------------
(* A step of the parts is a step of each one of them, or leaves it alone.  *)
LEMMA StepOfAPart ==
  ASSUME [PartsNext]_partsVars
  PROVE  /\ [ChatNext]_chatVars /\ [OnboardingNext]_onboardingVars
         /\ [ConversationNext]_conversationVars /\ [SupervisorNext]_supervisorVars
         /\ [RouterNext]_routerVars /\ [ImportNext]_importVars
<1>1. CASE ChatMoves
  BY <1>1 DEF ChatMoves
<1>2. CASE OnboardingMoves
  BY <1>2 DEF OnboardingMoves
<1>3. CASE ConversationMoves
  BY <1>3 DEF ConversationMoves
<1>4. CASE SupervisorMoves
  BY <1>4 DEF SupervisorMoves
<1>5. CASE RouterMoves
  BY <1>5 DEF RouterMoves
<1>6. CASE ImportMoves
  BY <1>6 DEF ImportMoves
<1>7. CASE UNCHANGED partsVars
  BY <1>7 DEF partsVars
<1> QED
  BY <1>1, <1>2, <1>3, <1>4, <1>5, <1>6, <1>7 DEF PartsNext

(* The tasks of a chat share no state with those of its other parts: each  *)
(* part, whatever the others do between two of its steps, behaves as its   *)
(* own specification says.                                                 *)
THEOREM PartsImplementEach ==
  PartsSpec => /\ ChatSpec /\ OnboardingSpec /\ ConversationSpec
               /\ SupervisorSpec /\ RouterSpec /\ ImportSpec
<1>1. PartsInit => /\ ChatInit /\ OnboardingInit /\ ConversationInit /\ SupervisorInit
                   /\ RouterInit /\ ImportInit
  BY DEF PartsInit
<1>2. [PartsNext]_partsVars =>
        /\ [ChatNext]_chatVars /\ [OnboardingNext]_onboardingVars
        /\ [ConversationNext]_conversationVars /\ [SupervisorNext]_supervisorVars
        /\ [RouterNext]_routerVars /\ [ImportNext]_importVars
  BY StepOfAPart
<1> QED
  BY <1>1, <1>2, PTL DEF PartsSpec, ChatSpec, OnboardingSpec, ConversationSpec,
                         SupervisorSpec, RouterSpec, ImportSpec

(* All the parts of a chat together keep their types.                      *)
THEOREM PartsTyping == PartsSpec => []TypesOK
<1>1. /\ ChatTypeOK /\ OnboardingTypeOK /\ ConversationTypeOK /\ SupervisorTypeOK
      /\ RouterTypeOK /\ ImportTypeOK
      => TypesOK
  BY DEF TypesOK
<1> QED
  BY <1>1, PartsImplementEach, ChatTyping, OnboardingTyping, ConversationTyping,
     SupervisorTyping, RouterTyping, ImportTyping, PTL

(* Together they keep what each promises: documents are routed once and    *)
(* for a reason, links and turns are not lost, what the supervisor told is *)
(* saved and its books are whole, exports are of the approved snapshot,    *)
(* and vouchers land once.                                                 *)
THEOREM PartsKeepTheirPromises ==
  PartsSpec => [](/\ RoutedOnce /\ LossNeedsFault /\ LinkedChatsStayKnown
                  /\ NothingForgotten /\ ToldOnceUnlessRaced
                  /\ ToldTasksSurvive /\ BooksAreWhole /\ ExportsTheSnapshot
                  /\ RoutesAreExplained /\ VouchersLandOnce)
BY PartsImplementEach, ChatRoutedOnce, ChatLossNeedsFault, LinkedChatsStayKnownAlways,
   ConversationForgetsNothing, ConversationTellsOnce, ToldTasksAreSaved, BooksStayWhole,
   ExportsMatchTheLock, EveryRouteIsExplained, ImportLandsOnce, PTL
=============================================================================
