------------------------- MODULE ConversationProofs -------------------------
(***************************************************************************)
(* For any messages and notes, any windows and triggers, and any failures: *)
(* no committed turn is forgotten, and none is told twice unless two       *)
(* compactions worked on the same rows at once. And a document goes to a   *)
(* client of its firm, by the chat's memory only to one the chat had       *)
(* spoken of, and not from its memory alone.                               *)
(*                                                                         *)
(* And of the supervisor, for any messages, tools the LLM may call, papers *)
(* and bounds: what it told is committed, what belongs together is written *)
(* together, and an export is of the approved snapshot.                    *)
(***************************************************************************)
EXTENDS Conversation, Router, Supervisor, TLAPS

(* Only a summary stands for turns other than itself, all of them on file. *)
UniqueIds == \A x, y \in turns : x.id = y.id => x = y

PlainTurns == \A t \in turns : t.id[2] # "system" => t.says = {t.id}

SaidIsOnFile == \A t \in turns : \A i \in t.says : \E u \in turns : u.id = i

TurnsInv == /\ UniqueIds /\ PlainTurns /\ SaidIsOnFile
            /\ NothingForgotten /\ ToldOnceUnlessRaced

(* What the summariser was given is on file, unless it is the answer that  *)
(* will be committed with its summary; and what a task has committed tells *)
(* how far it is.                                                          *)
Given(m) == \A o \in talk[m].oldest :
  \/ \E t \in turns : t.id = o.id /\ t.says = o.says
  \/ o.id = <<m, "assistant">> /\ o.says = {o.id}

Progress(m) == \A t \in turns :
  /\ t.id = <<m, "user">> => talk[m].at \notin {"new", "begun", "recalled"}
  /\ t.id = <<m, "assistant">> => talk[m].at = "done"
  /\ t.id = <<m, "system">> => talk[m].at = "done"

TalkInv(m) == Given(m) /\ Progress(m) /\ (talk[m].at # "summarising" => talk[m].oldest = {})

ConversationInv == ConversationTypeOK /\ TurnsInv /\ \A m \in Messages : TalkInv(m)
-----------------------------------------------------------------------------
LEMMA TalkAtType ==
  ASSUME NEW at \in {"new", "begun", "recalled", "thinking", "summarising", "done", "failed"},
         NEW s \in Nat
  PROVE  /\ TalkAt(at, s) \in Talk /\ TalkAt(at, s).at = at /\ TalkAt(at, s).stamp = s
         /\ TalkAt(at, s).oldest = {}
BY DEF TalkAt, Talk

LEMMA NewTurnType ==
  ASSUME NEW i \in Ids, NEW s \in Nat
  PROVE  /\ NewTurn(i, s) \in Turn /\ NewTurn(i, s).id = i /\ NewTurn(i, s).says = {i}
         /\ NewTurn(i, s).into = Nil
BY DEF NewTurn, Turn

(* A task is replaced.                                                     *)
LEMMA TalkReplaced ==
  ASSUME talk \in [Messages -> Talk], NEW m \in Messages, NEW r \in Talk,
         talk' = [talk EXCEPT ![m] = r]
  PROVE  /\ talk' \in [Messages -> Talk] /\ talk'[m] = r
         /\ \A u \in Messages \ {m} : talk'[u] = talk[u]
OBVIOUS

LEMMA InitConversationInv == ConversationInit => ConversationInv
<1> SUFFICES ASSUME ConversationInit PROVE ConversationInv
  OBVIOUS
<1>1. /\ TalkAt("new", 0) \in Talk /\ TalkAt("new", 0).at = "new"
      /\ TalkAt("new", 0).oldest = {}
  BY TalkAtType
<1>2. talk \in [Messages -> Talk] /\ \A m \in Messages : talk[m] = TalkAt("new", 0)
  BY <1>1, Zenon DEF ConversationInit
<1>3. ConversationTypeOK
  <2>1. turns = {} /\ now = 0 /\ quiet = FALSE /\ raced = FALSE /\ lapses = 0
    BY Zenon DEF ConversationInit
  <2>2. turns \subseteq Turn /\ quiet \in BOOLEAN /\ raced \in BOOLEAN
    BY <2>1, Zenon
  <2>3. now \in Nat /\ lapses \in 0..MaxLapses
    BY <2>1, ConversationBounds
  <2> QED
    BY <1>2, <2>2, <2>3, Zenon DEF ConversationTypeOK
<1>4. TurnsInv
  BY DEF ConversationInit, TurnsInv, UniqueIds, PlainTurns, SaidIsOnFile, NothingForgotten,
         ToldOnceUnlessRaced, Live
<1>5. \A m \in Messages : TalkInv(m)
  BY <1>1, <1>2 DEF ConversationInit, TalkInv, Given, Progress
<1> QED
  BY <1>3, <1>4, <1>5 DEF ConversationInv

(* Steps that write no turn leave what there is to say about turns.        *)
LEMMA TurnsUntouched ==
  ASSUME TurnsInv, UNCHANGED <<turns, raced>>
  PROVE  TurnsInv'
BY DEF TurnsInv, UniqueIds, PlainTurns, SaidIsOnFile, NothingForgotten, ToldOnceUnlessRaced, Live

(* A task keeps its place while rows are kept and others get theirs.       *)
LEMMA OtherTalk ==
  ASSUME NEW u \in Messages, TalkInv(u), talk'[u] = talk[u],
         \A t \in turns : \E n \in turns' : n.id = t.id /\ n.says = t.says,
         \A n \in turns' : (\E t \in turns : t.id = n.id) \/ n.id[1] # u
  PROVE  TalkInv(u)'
<1>1. Given(u)'
  BY DEF TalkInv, Given
<1>2. Progress(u)'
  <2> SUFFICES ASSUME NEW n \in turns',
                      n.id \in {<<u, "user">>, <<u, "assistant">>, <<u, "system">>}
               PROVE  \E t \in turns : t.id = n.id
    BY Zenon DEF TalkInv, Progress
  <2>1. n.id[1] = u
    OBVIOUS
  <2> QED
    BY <2>1
<1> QED
  BY <1>1, <1>2 DEF TalkInv

(* A turn with a new id is appended.                                       *)
LEMMA Appended ==
  ASSUME TurnsInv, NEW i \in Ids, i[2] # "system", NEW s \in Nat,
         \A t \in turns : t.id # i,
         turns' = turns \cup {NewTurn(i, s)}, raced' = raced
  PROVE  TurnsInv'
<1> DEFINE n == NewTurn(i, s)
<1>1. n.id = i /\ n.says = {i} /\ n.into = Nil
  BY NewTurnType
<1> HIDE DEF n
<1>2. turns' = turns \cup {n}
  BY DEF n
<1>3. UniqueIds' /\ PlainTurns'
  BY <1>1, <1>2 DEF TurnsInv, UniqueIds, PlainTurns
<1>3a. SaidIsOnFile'
  BY <1>1, <1>2 DEF TurnsInv, SaidIsOnFile
<1>4. Live(turns)' = Live(turns) \cup {n}
  BY <1>1, <1>2 DEF Live
<1>5. NothingForgotten'
  BY <1>1, <1>2, <1>4 DEF TurnsInv, NothingForgotten
<1>6. \A x \in Live(turns) : i \notin x.says
  BY DEF TurnsInv, SaidIsOnFile, Live
<1> DEFINE Once(T) == \A x, y \in Live(T) : x # y => x.says \cap y.says = {}
<1>7. Once(turns) => Once(turns)'
  BY <1>1, <1>4, <1>6
<1>8. ToldOnceUnlessRaced'
  BY <1>7, Zenon DEF TurnsInv, ToldOnceUnlessRaced
<1> QED
  BY <1>3, <1>3a, <1>5, <1>8 DEF TurnsInv
-----------------------------------------------------------------------------
(* Steps that only move the task of m.                                     *)
LEMMA TalkStep ==
  ASSUME ConversationInv, NEW m \in Messages, NEW r \in Talk,
         talk' = [talk EXCEPT ![m] = r], UNCHANGED <<turns, raced>>,
         now' \in Nat, quiet' \in BOOLEAN, lapses' \in 0..MaxLapses,
         r.oldest = {}, r.at # "new",
         r.at \in {"begun", "recalled"} => talk[m].at \in {"new", "begun"},
         talk[m].at # "done"
  PROVE  ConversationInv'
<1>1. /\ talk' \in [Messages -> Talk] /\ talk'[m] = r
      /\ \A u \in Messages \ {m} : talk'[u] = talk[u]
  BY TalkReplaced, Zenon DEF ConversationInv, ConversationTypeOK
<1>2. turns' = turns /\ raced' = raced
  OBVIOUS
<1>3. ConversationTypeOK'
  BY <1>1, <1>2, Zenon DEF ConversationInv, ConversationTypeOK
<1>4. TurnsInv'
  BY TurnsUntouched, Zenon DEF ConversationInv
<1>5. \A u \in Messages \ {m} : TalkInv(u)'
  BY <1>1, <1>2, OtherTalk DEF ConversationInv
<1>6. TalkInv(m)'
  BY <1>1, <1>2 DEF ConversationInv, TalkInv, Given, Progress
<1> QED
  BY <1>3, <1>4, <1>5, <1>6 DEF ConversationInv

(* Steps that append a turn of m, and move its task on.                    *)
LEMMA AppendStep ==
  ASSUME ConversationInv, NEW m \in Messages, NEW r \in Talk, NEW i, NEW s \in Nat,
         talk' = [talk EXCEPT ![m] = r], turns' = turns \cup {NewTurn(i, s)}, raced' = raced,
         now' \in Nat, quiet' \in BOOLEAN, lapses' \in 0..MaxLapses,
         r.oldest = {},
         \/ i = <<m, "user">> /\ r.at = "thinking" /\ talk[m].at = "recalled"
         \/ i = <<m, "assistant">> /\ r.at = "done" /\ talk[m].at # "done"
  PROVE  ConversationInv'
<1>1. /\ talk' \in [Messages -> Talk] /\ talk'[m] = r
      /\ \A u \in Messages \ {m} : talk'[u] = talk[u]
  BY TalkReplaced, Zenon DEF ConversationInv, ConversationTypeOK
<1>2. i \in Ids /\ i[2] # "system" /\ i[1] = m
  BY DEF Ids
<1>3. NewTurn(i, s) \in Turn /\ NewTurn(i, s).id = i
  BY <1>2, NewTurnType
<1>4. turns' \subseteq Turn
  BY <1>3 DEF ConversationInv, ConversationTypeOK
<1>5. ConversationTypeOK'
  BY <1>1, <1>4, Zenon DEF ConversationInv, ConversationTypeOK
<1>6. \A t \in turns : t.id # i
  BY DEF ConversationInv, TalkInv, Progress
<1>7. TurnsInv'
  BY <1>2, <1>6, Appended, Zenon DEF ConversationInv
<1>8. \A u \in Messages \ {m} : TalkInv(u)'
  <2> SUFFICES ASSUME NEW u \in Messages \ {m} PROVE TalkInv(u)'
    OBVIOUS
  <2>1. \A t \in turns : \E n \in turns' : n.id = t.id /\ n.says = t.says
    OBVIOUS
  <2>2. \A n \in turns' : (\E t \in turns : t.id = n.id) \/ n.id[1] # u
    BY <1>2, <1>3
  <2> QED
    BY <1>1, <2>1, <2>2, OtherTalk DEF ConversationInv
<1>9. TalkInv(m)'
  BY <1>1, <1>3 DEF ConversationInv, TalkInv, Given, Progress
<1> QED
  BY <1>5, <1>7, <1>8, <1>9 DEF ConversationInv

(* The older half goes to the summariser, the answer perhaps among it.     *)
LEMMA SummariseStep ==
  ASSUME ConversationInv, NEW m \in Messages, NEW s \in Nat, talk[m].at = "thinking",
         NEW O \in SUBSET (Live(turns) \cup {AnswerIn(m, s)}),
         talk' = [talk EXCEPT ![m] = [TalkAt("summarising", s) EXCEPT !.oldest = O]],
         UNCHANGED <<turns, raced, quiet, lapses>>, now' \in Nat
  PROVE  ConversationInv'
<1> DEFINE r == [at |-> "summarising", stamp |-> s, sees |-> {}, oldest |-> O]
<1>1. <<m, "assistant">> \in Ids
  BY DEF Ids
<1>2. /\ AnswerIn(m, s) \in Turn /\ AnswerIn(m, s).id = <<m, "assistant">>
      /\ AnswerIn(m, s).says = {<<m, "assistant">>}
  BY <1>1, NewTurnType DEF AnswerIn
<1>3. O \subseteq Turn
  BY <1>2 DEF Live, ConversationInv, ConversationTypeOK
<1>4. r \in Talk /\ r.at = "summarising" /\ r.oldest = O
  BY <1>3 DEF Talk
<1>5. [TalkAt("summarising", s) EXCEPT !.oldest = O] = r
  BY DEF TalkAt
<1> HIDE DEF r
<1>6. /\ talk' \in [Messages -> Talk] /\ talk'[m] = r
      /\ \A u \in Messages \ {m} : talk'[u] = talk[u]
  BY <1>4, <1>5, TalkReplaced, Zenon DEF ConversationInv, ConversationTypeOK
<1>7. ConversationTypeOK'
  BY <1>6, Zenon DEF ConversationInv, ConversationTypeOK
<1>8. TurnsInv'
  BY TurnsUntouched, Zenon DEF ConversationInv
<1>9. \A u \in Messages \ {m} : TalkInv(u)'
  BY <1>6, OtherTalk DEF ConversationInv
<1>10. Given(m)'
  BY <1>2, <1>4, <1>6 DEF Given, Live
<1>11. Progress(m)'
  BY <1>4, <1>6 DEF ConversationInv, TalkInv, Progress
<1> QED
  BY <1>4, <1>6, <1>7, <1>8, <1>9, <1>10, <1>11 DEF ConversationInv, TalkInv

(* A row marked with a summary is the same row otherwise.                  *)
LEMMA Marking ==
  ASSUME NEW t \in Turn, NEW i \in Ids
  PROVE  /\ [t EXCEPT !.into = i] \in Turn /\ [t EXCEPT !.into = i].id = t.id
         /\ [t EXCEPT !.into = i].says = t.says /\ [t EXCEPT !.into = i].into = i
<1>1. [t EXCEPT !.into = i] = [id |-> t.id, stamp |-> t.stamp, says |-> t.says, into |-> i]
  BY DEF Turn
<1> QED
  BY <1>1 DEF Turn

Mark(m, t) == IF t.id \in {o.id : o \in talk[m].oldest}
              THEN [t EXCEPT !.into = Summary(m).id] ELSE t

(* What a compaction makes of the rows, one by one.                        *)
LEMMA Compacted ==
  ASSUME ConversationInv, NEW m \in Messages, Compact(m)
  PROVE  LET s == Summary(m)
             ids == {o.id : o \in talk[m].oldest}
         IN  /\ turns' = {Mark(m, t) : t \in With(m)} \cup {s}
             /\ s \in Turn /\ s.into = Nil /\ s.id = <<m, "system">>
             /\ s.says = UNION {o.says : o \in talk[m].oldest}
             /\ With(m) \subseteq Turn
             /\ \A t \in With(m) :
                  /\ Mark(m, t) \in Turn /\ Mark(m, t).id = t.id /\ Mark(m, t).says = t.says
                  /\ t.id \in ids => Mark(m, t).into # Nil
                  /\ t.id \notin ids => Mark(m, t) = t
             /\ \A t \in With(m) : t.id # s.id
             /\ \A t \in With(m) : t \notin turns =>
                  t.id = <<m, "assistant">> /\ t.says = {t.id} /\ t.into = Nil
             /\ \A t \in turns : t.id # <<m, "assistant">>
             /\ turns \subseteq With(m)
             /\ \A t, u \in With(m) : t.id = u.id => t = u
             /\ \E t \in With(m) : t.id = <<m, "assistant">> /\ t.says = {t.id}
<1>1. talk[m] \in Talk /\ talk[m].at = "summarising"
  BY DEF ConversationInv, ConversationTypeOK, Compact
<1>2. talk[m].stamp \in Nat /\ talk[m].oldest \subseteq Turn
  BY <1>1 DEF Talk
<1>3. <<m, "system">> \in Ids /\ <<m, "assistant">> \in Ids
  BY DEF Ids
<1> DEFINE says == UNION {o.says : o \in talk[m].oldest}
<1>4. says \subseteq Ids
  BY <1>2 DEF Turn
<1>5. /\ Summary(m) \in Turn /\ Summary(m).into = Nil /\ Summary(m).id = <<m, "system">>
      /\ Summary(m).says = says
  <2> HIDE DEF says
  <2>1. Summary(m) = [id |-> <<m, "system">>, stamp |-> talk[m].stamp, says |-> says, into |-> Nil]
    BY Zenon DEF Summary, says
  <2> QED
    BY <1>2, <1>3, <1>4, <2>1 DEF Turn
<1>6. /\ AnswerIn(m, talk[m].stamp) \in Turn /\ AnswerIn(m, talk[m].stamp).id = <<m, "assistant">>
      /\ AnswerIn(m, talk[m].stamp).says = {<<m, "assistant">>}
      /\ AnswerIn(m, talk[m].stamp).into = Nil
  BY <1>2, <1>3, NewTurnType DEF AnswerIn
<1>7. With(m) \subseteq Turn
  BY <1>6 DEF With, ConversationInv, ConversationTypeOK
<1>8. \A t \in With(m) :
        /\ Mark(m, t) \in Turn /\ Mark(m, t).id = t.id /\ Mark(m, t).says = t.says
        /\ t.id \in {o.id : o \in talk[m].oldest} => Mark(m, t).into # Nil
        /\ t.id \notin {o.id : o \in talk[m].oldest} => Mark(m, t) = t
  <2> SUFFICES ASSUME NEW t \in With(m)
      PROVE  /\ Mark(m, t) \in Turn /\ Mark(m, t).id = t.id /\ Mark(m, t).says = t.says
             /\ t.id \in {o.id : o \in talk[m].oldest} => Mark(m, t).into # Nil
             /\ t.id \notin {o.id : o \in talk[m].oldest} => Mark(m, t) = t
    OBVIOUS
  <2>1. Summary(m).id \in Ids /\ Summary(m).id # Nil
    BY <1>3, <1>5, NilIsNoTurn
  <2>2. CASE t.id \in {o.id : o \in talk[m].oldest}
    BY <1>7, <2>1, <2>2, Marking, Zenon DEF Mark
  <2>3. CASE t.id \notin {o.id : o \in talk[m].oldest}
    BY <1>7, <2>3, Zenon DEF Mark
  <2> QED
    BY <2>2, <2>3, Zenon
<1>9. turns' = {Mark(m, t) : t \in With(m)} \cup {Summary(m)}
  BY Zenon DEF Compact, Mark
<1>10. \A t \in turns : t.id # <<m, "assistant">> /\ t.id # <<m, "system">>
  BY <1>1 DEF ConversationInv, TalkInv, Progress
<1>11. \A t \in With(m) : t \in turns \/ t = AnswerIn(m, talk[m].stamp)
  BY DEF With
<1>12. turns \subseteq With(m) /\ AnswerIn(m, talk[m].stamp) \in With(m)
  BY DEF With
<1>13. \A t \in With(m) : t.id # Summary(m).id
  BY <1>5, <1>6, <1>10, <1>11
<1>14. \A t \in With(m) : t \notin turns =>
         t.id = <<m, "assistant">> /\ t.says = {t.id} /\ t.into = Nil
  BY <1>6, <1>11
<1>15. \E t \in With(m) : t.id = <<m, "assistant">> /\ t.says = {t.id}
  BY <1>6, <1>12
<1>16. \A t, u \in With(m) : t.id = u.id => t = u
  BY <1>6, <1>10, <1>11 DEF ConversationInv, TurnsInv, UniqueIds
<1> QED
  BY <1>5, <1>7, <1>8, <1>9, <1>10, <1>12, <1>13, <1>14, <1>15, <1>16, Zenon

LEMMA CompactStep ==
  ASSUME ConversationInv, NEW m \in Messages, Compact(m)
  PROVE  ConversationInv'
<1> DEFINE s == Summary(m)
           W == With(m)
           old == talk[m].oldest
           ids == {o.id : o \in old}
           answer == <<m, "assistant">>
<1>1. /\ turns' = {Mark(m, t) : t \in W} \cup {s}
      /\ s \in Turn /\ s.into = Nil /\ s.id = <<m, "system">>
      /\ s.says = UNION {o.says : o \in old}
      /\ W \subseteq Turn
      /\ turns \subseteq W
  BY Compacted, Zenon
<1>2. \A t \in W : /\ Mark(m, t) \in Turn /\ Mark(m, t).id = t.id /\ Mark(m, t).says = t.says
                   /\ t.id \in ids => Mark(m, t).into # Nil
                   /\ t.id \notin ids => Mark(m, t) = t
  BY Compacted, Zenon
<1>3. /\ \A t \in W : t.id # s.id
      /\ \A t \in W : t \notin turns => t.id = answer /\ t.says = {t.id} /\ t.into = Nil
      /\ \A t \in turns : t.id # answer
      /\ \A t, u \in W : t.id = u.id => t = u
  BY Compacted, Zenon
<1>3a. \E t \in W : t.id = answer /\ t.says = {t.id}
  BY Compacted, Zenon
<1>4. \A o \in old : \E w \in W : w.id = o.id /\ w.says = o.says
  <2> SUFFICES ASSUME NEW o \in old PROVE \E w \in W : w.id = o.id /\ w.says = o.says
    OBVIOUS
  <2>1. \/ \E t \in turns : t.id = o.id /\ t.says = o.says
        \/ o.id = answer /\ o.says = {o.id}
    BY Zenon DEF ConversationInv, TalkInv, Given
  <2> QED
    BY <1>1, <1>3a, <2>1, Zenon
<1>5. talk' = [talk EXCEPT ![m] = TalkAt("done", 0)] /\ quiet' = FALSE
      /\ UNCHANGED <<now, lapses>> /\ talk[m].at = "summarising"
  BY Zenon DEF Compact
<1>6. raced' = (raced \/ \E t \in turns : t.id \in ids /\ t.into # Nil)
  BY Zenon DEF Compact
<1> HIDE DEF s, W, old, ids, answer
<1>7. TalkAt("done", 0) \in Talk /\ TalkAt("done", 0).at = "done" /\ TalkAt("done", 0).oldest = {}
  BY TalkAtType
<1>8. /\ talk' \in [Messages -> Talk] /\ talk'[m] = TalkAt("done", 0)
      /\ \A u \in Messages \ {m} : talk'[u] = talk[u]
  BY <1>5, <1>7, TalkReplaced, Zenon DEF ConversationInv, ConversationTypeOK
<1>9. ConversationTypeOK'
  <2>1. turns' \subseteq Turn
    BY <1>1, <1>2
  <2>2. quiet' \in BOOLEAN /\ raced' \in BOOLEAN
    BY <1>5, <1>6, Zenon
  <2>3. now' \in Nat /\ lapses' \in 0..MaxLapses
    BY <1>5, Zenon DEF ConversationInv, ConversationTypeOK
  <2> QED
    BY <1>8, <2>1, <2>2, <2>3, Zenon DEF ConversationTypeOK
<1>10. UniqueIds'
  BY <1>1, <1>2, <1>3 DEF UniqueIds
<1>11. PlainTurns'
  <2>1. \A t \in W : t.id[2] # "system" => t.says = {t.id}
    BY <1>3 DEF ConversationInv, TurnsInv, PlainTurns
  <2> QED
    BY <1>1, <1>2, <2>1 DEF PlainTurns
<1>12. SaidIsOnFile'
  <2>1. \A t \in W : \A i \in t.says : \E u \in W : u.id = i
    BY <1>1, <1>3 DEF ConversationInv, TurnsInv, SaidIsOnFile
  <2>2. \A u \in W : \E n \in turns' : n.id = u.id
    BY <1>1, <1>2
  <2>3. \A i \in s.says : \E t \in W : i \in t.says
    BY <1>1, <1>4
  <2>4. \A n \in turns' : n = s \/ \E t \in W : n.says = t.says
    BY <1>1, <1>2
  <2> QED
    BY <2>1, <2>2, <2>3, <2>4, Zenon DEF SaidIsOnFile
<1>13. NothingForgotten'
  <2>1. s \in Live(turns)'
    BY <1>1 DEF Live
  <2>2. ASSUME NEW l \in W, l.into = Nil, NEW i \in l.says
        PROVE  \E k \in Live(turns)' : i \in k.says
    <3>1. CASE l.id \in ids
      <4>1. PICK o \in old : o.id = l.id
        BY <3>1 DEF ids
      <4>2. o.says = l.says
        BY <1>3, <1>4, <4>1
      <4>3. i \in s.says
        BY <1>1, <2>2, <4>2
      <4> QED
        BY <2>1, <4>3
    <3>2. CASE l.id \notin ids
      <4>1. l \in turns'
        BY <1>1, <1>2, <3>2
      <4> QED
        BY <2>2, <4>1 DEF Live
    <3> QED
      BY <3>1, <3>2
  <2>3. \A t \in W : \A i \in t.says : \E l \in W : l.into = Nil /\ i \in l.says
    BY <1>1, <1>3 DEF ConversationInv, TurnsInv, NothingForgotten, Live
  <2>4. \A n \in turns' : n = s \/ \E t \in W : n.says = t.says
    BY <1>1, <1>2
  <2> QED
    BY <2>1, <2>2, <2>3, <2>4, Zenon DEF NothingForgotten
<1>14. ToldOnceUnlessRaced'
  <2> SUFFICES ASSUME ~raced, \A t \in turns : t.id \in ids => t.into = Nil
               PROVE  \A x, y \in Live(turns)' : x # y => x.says \cap y.says = {}
    BY <1>6, Zenon DEF ToldOnceUnlessRaced
  <2>1. \A t, u \in W : t # u /\ t.into = Nil /\ u.into = Nil => t.says \cap u.says = {}
    <3>1. \A x, y \in Live(turns) : x # y => x.says \cap y.says = {}
      BY Zenon DEF ConversationInv, TurnsInv, ToldOnceUnlessRaced
    <3>2. \A t \in turns : answer \notin t.says
      BY <1>3 DEF ConversationInv, TurnsInv, SaidIsOnFile
    <3> QED
      BY <1>3, <3>1, <3>2 DEF Live
  <2>2. \A x \in Live(turns)' : x = s \/ (x \in W /\ x.into = Nil /\ x.id \notin ids)
    BY <1>1, <1>2 DEF Live
  <2>3. ASSUME NEW t \in W, t.into = Nil, t.id \notin ids PROVE t.says \cap s.says = {}
    <3>1. ASSUME NEW o \in old PROVE t.says \cap o.says = {}
      <4>1. PICK w \in W : w.id = o.id /\ w.says = o.says
        BY <1>4
      <4>2. w.id \in ids
        BY <4>1 DEF ids
      <4>3. w.into = Nil
        BY <1>3, <4>2
      <4> QED
        BY <2>1, <2>3, <4>1, <4>2, <4>3
    <3> QED
      BY <1>1, <3>1
  <2> QED
    BY <2>1, <2>2, <2>3
<1>15. \A u \in Messages \ {m} : TalkInv(u)'
  <2>1. \A t \in turns : \E n \in turns' : n.id = t.id /\ n.says = t.says
    BY <1>1, <1>2
  <2>2. ASSUME NEW u \in Messages \ {m}
        PROVE  \A n \in turns' : (\E t \in turns : t.id = n.id) \/ n.id[1] # u
    BY <1>1, <1>2, <1>3 DEF answer
  <2> QED
    BY <1>8, <2>1, <2>2, OtherTalk DEF ConversationInv
<1>16. TalkInv(m)'
  BY <1>7, <1>8 DEF TalkInv, Given, Progress
<1> QED
  BY <1>9, <1>10, <1>11, <1>12, <1>13, <1>14, <1>15, <1>16 DEF ConversationInv, TurnsInv
-----------------------------------------------------------------------------
LEMMA TalkingSteps ==
  ASSUME ConversationInv, NEW m \in Messages,
         Begin(m) \/ Recall(m) \/ ToolQuery(m) \/ AnswerFails(m)
  PROVE  ConversationInv'
<1>1. /\ talk[m] \in Talk /\ now \in Nat /\ quiet \in BOOLEAN /\ lapses \in 0..MaxLapses
      /\ now + 1 \in Nat
  BY DEF ConversationInv, ConversationTypeOK
<1>2. Lapse => lapses' \in 0..MaxLapses
  BY <1>1, ConversationBounds DEF Lapse
<1>3. CASE Begin(m)
  <2>1. TalkAt("begun", now') \in Talk /\ TalkAt("begun", now').at = "begun"
        /\ TalkAt("begun", now').oldest = {} /\ now' \in Nat
    BY <1>1, <1>3, TalkAtType DEF Begin
  <2>2. talk[m].at = "new" /\ talk' = [talk EXCEPT ![m] = TalkAt("begun", now')]
        /\ UNCHANGED <<turns, quiet, raced, lapses>>
    BY <1>3, Zenon DEF Begin
  <2> QED
    BY <1>1, <2>1, <2>2, TalkStep
<1>4. CASE Recall(m)
  <2>1. PICK W \in Newest(Live(turns), Recent) :
          talk' = [talk EXCEPT ![m] = [TalkAt("recalled", @.stamp) EXCEPT
                                         !.sees = IF quiet THEN {} ELSE {t.id : t \in W}]]
    BY <1>4, Zenon DEF Recall
  <2> DEFINE seen == IF quiet THEN {} ELSE {t.id : t \in W}
             r == [at |-> "recalled", stamp |-> talk[m].stamp, sees |-> seen, oldest |-> {}]
  <2>2. seen \subseteq Ids
    <3>1. W \subseteq Turn
      BY DEF Newest, Live, ConversationInv, ConversationTypeOK
    <3>2. {t.id : t \in W} \subseteq Ids
      BY <3>1 DEF Turn
    <3> QED
      BY <3>2, Zenon
  <2> HIDE DEF seen
  <2>3. r \in Talk /\ r.at = "recalled" /\ r.oldest = {}
    BY <1>1, <2>2 DEF Talk
  <2>4. [TalkAt("recalled", talk[m].stamp) EXCEPT !.sees = seen] = r
    BY DEF TalkAt
  <2>5. talk' = [talk EXCEPT ![m] = r]
    BY <2>1, <2>4, Zenon DEF seen, ConversationInv, ConversationTypeOK
  <2>6. talk[m].at = "begun" /\ UNCHANGED <<turns, now, quiet, raced, lapses>>
    BY <1>4, Zenon DEF Recall
  <2> HIDE DEF r
  <2> QED
    BY <1>1, <2>3, <2>5, <2>6, TalkStep
<1>5. CASE ToolQuery(m)
  <2>1. TalkAt("thinking", now') \in Talk /\ TalkAt("thinking", now').at = "thinking"
        /\ TalkAt("thinking", now').oldest = {} /\ now' \in Nat
    BY <1>1, <1>5, TalkAtType DEF ToolQuery
  <2>2. talk[m].at = "thinking" /\ talk' = [talk EXCEPT ![m] = TalkAt("thinking", now')]
        /\ UNCHANGED <<turns, quiet, raced, lapses>>
    BY <1>5, Zenon DEF ToolQuery
  <2> QED
    BY <1>1, <2>1, <2>2, TalkStep
<1>6. CASE AnswerFails(m)
  <2>1. TalkAt("failed", 0) \in Talk /\ TalkAt("failed", 0).at = "failed"
        /\ TalkAt("failed", 0).oldest = {}
    BY TalkAtType
  <2>2. talk[m].at = "thinking" /\ talk' = [talk EXCEPT ![m] = TalkAt("failed", 0)]
        /\ UNCHANGED <<turns, now, quiet, raced>> /\ Lapse
    BY <1>6, Zenon DEF AnswerFails
  <2> QED
    BY <1>1, <1>2, <2>1, <2>2, TalkStep
<1> QED
  BY <1>3, <1>4, <1>5, <1>6

LEMMA WritingSteps ==
  ASSUME ConversationInv, NEW m \in Messages,
         LogUser(m) \/ AppendAnswer(m) \/ SummaryFails(m)
  PROVE  ConversationInv'
<1>1. /\ talk[m] \in Talk /\ talk[m].stamp \in Nat /\ now \in Nat /\ now + 1 \in Nat
      /\ lapses \in 0..MaxLapses
  BY DEF ConversationInv, ConversationTypeOK, Talk
<1>2. Lapse => lapses' \in 0..MaxLapses
  BY <1>1, ConversationBounds DEF Lapse
<1>3. /\ TalkAt("done", 0) \in Talk /\ TalkAt("done", 0).at = "done"
      /\ TalkAt("done", 0).oldest = {}
      /\ TalkAt("thinking", 0) \in Talk /\ TalkAt("thinking", 0).at = "thinking"
      /\ TalkAt("thinking", 0).oldest = {}
  BY TalkAtType
<1>4. CASE LogUser(m)
  <2>1. /\ talk[m].at = "recalled" /\ talk' = [talk EXCEPT ![m] = TalkAt("thinking", 0)]
        /\ turns' = turns \cup {NewTurn(<<m, "user">>, talk[m].stamp)}
        /\ raced' = raced /\ now' = now /\ lapses' = lapses
    BY <1>4, Zenon DEF LogUser
  <2>2. quiet' \in BOOLEAN
    BY <1>4, Zenon DEF LogUser
  <2> QED
    BY <1>1, <1>3, <2>1, <2>2, AppendStep
<1>5. CASE SummaryFails(m)
  <2>1. /\ talk[m].at = "summarising" /\ talk' = [talk EXCEPT ![m] = TalkAt("done", 0)]
        /\ turns' = turns \cup {NewTurn(<<m, "assistant">>, talk[m].stamp)}
        /\ raced' = raced /\ now' = now /\ Lapse
    BY <1>5, Zenon DEF SummaryFails, With, AnswerIn
  <2>2. quiet' \in BOOLEAN
    BY <1>5, Zenon DEF SummaryFails
  <2> QED
    BY <1>1, <1>2, <1>3, <2>1, <2>2, AppendStep
<1>6. CASE AppendAnswer(m)
  <2> DEFINE s == IF talk[m].stamp = 0 THEN now + 1 ELSE talk[m].stamp
             answer == AnswerIn(m, s)
  <2>1. s \in Nat /\ now' \in Nat /\ raced' = raced /\ lapses' = lapses /\ talk[m].at = "thinking"
    BY <1>1, <1>6 DEF AppendAnswer
  <2>2. PICK W \in Newest(Live(turns) \cup {answer}, Window) :
          \/ /\ turns' = turns \cup {answer} /\ quiet' = FALSE
             /\ talk' = [talk EXCEPT ![m] = TalkAt("done", 0)]
          \/ /\ \E O \in Oldest(W, IF Cardinality(W) < 2 THEN 1 ELSE Cardinality(W) \div 2) :
                  talk' = [talk EXCEPT ![m] = [TalkAt("summarising", s) EXCEPT !.oldest = O]]
             /\ UNCHANGED <<turns, quiet>>
    BY <1>6, Zenon DEF AppendAnswer
  <2> HIDE DEF s
  <2>3. CASE /\ turns' = turns \cup {answer} /\ quiet' = FALSE
             /\ talk' = [talk EXCEPT ![m] = TalkAt("done", 0)]
    <3>1. turns' = turns \cup {NewTurn(<<m, "assistant">>, s)}
      BY <2>3, Zenon DEF AnswerIn
    <3>2. quiet' \in BOOLEAN
      BY <2>3, Zenon
    <3> QED
      BY <1>1, <1>3, <2>1, <2>3, <3>1, <3>2, AppendStep
  <2>4. CASE /\ \E O \in Oldest(W, IF Cardinality(W) < 2 THEN 1 ELSE Cardinality(W) \div 2) :
                  talk' = [talk EXCEPT ![m] = [TalkAt("summarising", s) EXCEPT !.oldest = O]]
             /\ UNCHANGED <<turns, quiet>>
    <3>1. PICK O \in SUBSET W :
            talk' = [talk EXCEPT ![m] = [TalkAt("summarising", s) EXCEPT !.oldest = O]]
      BY <2>4, Zenon DEF Oldest
    <3>2. O \in SUBSET (Live(turns) \cup {answer})
      BY DEF Newest
    <3>3. UNCHANGED <<turns, raced, quiet, lapses>>
      BY <2>1, <2>4
    <3> QED
      BY <2>1, <3>1, <3>2, <3>3, SummariseStep, Zenon
  <2> QED
    BY <2>2, <2>3, <2>4, Zenon
<1> QED
  BY <1>4, <1>5, <1>6

(* The document pipelines' turns, and the steps of nobody's.               *)
LEMMA NoteStep ==
  ASSUME ConversationInv, NEW n \in Notes, Note(n)
  PROVE  ConversationInv'
<1> DEFINE i == <<n, "assistant">>
<1>1. /\ \A t \in turns : t.id # i
      /\ now' = now + 1 /\ turns' = turns \cup {NewTurn(i, now')}
      /\ UNCHANGED <<talk, raced, lapses>>
  BY Zenon DEF Note
<1>2. i \in Ids /\ i[2] # "system" /\ now' \in Nat
  <2>1. now' \in Nat
    BY <1>1 DEF ConversationInv, ConversationTypeOK
  <2>2. i \in Ids /\ i[2] # "system"
    BY DEF Ids
  <2> QED
    BY <2>1, <2>2
<1>3. NewTurn(i, now') \in Turn /\ NewTurn(i, now').id = i
  BY <1>2, NewTurnType
<1>4. ConversationTypeOK'
  <2>1. turns' \subseteq Turn
    BY <1>1, <1>3 DEF ConversationInv, ConversationTypeOK
  <2>2. quiet' \in BOOLEAN
    BY Zenon DEF Note
  <2> QED
    BY <1>1, <1>2, <2>1, <2>2, Zenon DEF ConversationInv, ConversationTypeOK
<1>5. TurnsInv'
  BY <1>1, <1>2, Appended, Zenon DEF ConversationInv
<1>6. \A u \in Messages : TalkInv(u)'
  <2> SUFFICES ASSUME NEW u \in Messages PROVE TalkInv(u)'
    OBVIOUS
  <2>1. n # u
    BY ConversationBounds
  <2>2. \A x \in turns' : (\E t \in turns : t.id = x.id) \/ x.id[1] # u
    BY <1>1, <1>3, <2>1
  <2>3. \A t \in turns : \E x \in turns' : x.id = t.id /\ x.says = t.says
    BY <1>1
  <2> QED
    BY <1>1, <2>2, <2>3, OtherTalk DEF ConversationInv
<1> QED
  BY <1>4, <1>5, <1>6 DEF ConversationInv

LEMMA QuietSteps ==
  ASSUME ConversationInv, Silence \/ ConversationStops \/ UNCHANGED conversationVars
  PROVE  ConversationInv'
<1>1. UNCHANGED <<turns, now, raced>>
  BY Zenon DEF Silence, ConversationStops, conversationVars
<1>2. lapses' \in 0..MaxLapses
  BY ConversationBounds
     DEF Silence, ConversationStops, conversationVars, Lapse, ConversationInv, ConversationTypeOK
<1>3. quiet' \in BOOLEAN
  BY Zenon DEF Silence, ConversationStops, conversationVars, ConversationInv, ConversationTypeOK
<1>4. /\ TalkAt("failed", 0) \in Talk /\ TalkAt("failed", 0).at = "failed"
      /\ TalkAt("failed", 0).oldest = {}
  BY TalkAtType
<1>5. /\ talk' \in [Messages -> Talk]
      /\ \A m \in Messages : \/ talk'[m] = talk[m]
                             \/ /\ talk'[m] = TalkAt("failed", 0)
                                /\ talk[m].at \notin {"new", "done"}
  <2>1. CASE talk' = talk
    BY <2>1 DEF ConversationInv, ConversationTypeOK
  <2>2. CASE talk' = [m \in Messages |-> IF talk[m].at \in {"new", "done"} THEN talk[m]
                                         ELSE TalkAt("failed", 0)]
    BY <1>4, <2>2 DEF ConversationInv, ConversationTypeOK
  <2> QED
    BY <2>1, <2>2, Zenon DEF Silence, ConversationStops, conversationVars
<1>6. ConversationTypeOK'
  BY <1>1, <1>2, <1>3, <1>5, Zenon DEF ConversationInv, ConversationTypeOK
<1>7. TurnsInv'
  BY <1>1, TurnsUntouched, Zenon DEF ConversationInv
<1>8. \A m \in Messages : TalkInv(m)'
  BY <1>1, <1>4, <1>5 DEF ConversationInv, TalkInv, Given, Progress
<1> QED
  BY <1>6, <1>7, <1>8 DEF ConversationInv

THEOREM ConversationInvariant == ConversationSpec => []ConversationInv
<1>1. ConversationInit => ConversationInv
  BY InitConversationInv
<1>2. ConversationInv /\ [ConversationNext]_conversationVars => ConversationInv'
  BY TalkingSteps, WritingSteps, CompactStep, NoteStep, QuietSteps, Zenon DEF ConversationNext
<1> QED
  BY <1>1, <1>2, PTL DEF ConversationSpec
-----------------------------------------------------------------------------
(* The memory keeps its types.                                             *)
THEOREM ConversationTyping == ConversationSpec => []ConversationTypeOK
<1>1. ConversationInv => ConversationTypeOK
  BY Zenon DEF ConversationInv
<1> QED
  BY <1>1, ConversationInvariant, PTL

(* What was said stays in the memory or in a live summary of it            *)
(* (maybe_compact, _tombstone of db/queries/conversations.py).             *)
THEOREM ConversationForgetsNothing == ConversationSpec => []NothingForgotten
<1>1. ConversationInv => NothingForgotten
  BY Zenon DEF ConversationInv, TurnsInv
<1> QED
  BY <1>1, ConversationInvariant, PTL

(* Two live rows tell the same turn only after two compactions of the same *)
(* rows.                                                                   *)
THEOREM ConversationTellsOnce == ConversationSpec => []ToldOnceUnlessRaced
<1>1. ConversationInv => ToldOnceUnlessRaced
  BY Zenon DEF ConversationInv, TurnsInv
<1> QED
  BY <1>1, ConversationInvariant, PTL
-----------------------------------------------------------------------------
(***************************************************************************)
(* The client a document goes to, and what the turns of the chat have to do*)
(* with it: for any uploads, messages, exports, firms and clients.         *)
(***************************************************************************)
(* Nothing is stamped later than now.                                      *)
Passed ==
  /\ \A t \in mentions : t.at <= clock
  /\ \A u \in Uploads : fate[u].time <= clock
  /\ \A w \in Wires : wire[w].time <= clock /\ wire[w].end <= clock

(* A turn with client c that no message left.                              *)
SpokenOf(o, c, time) ==
  \E x \in mentions : x.by \notin Wires /\ x.office = o /\ x.client = c /\ x.at <= time

(* Somebody has named client c who did not have it from the memory.        *)
WasNamed(c) ==
  \/ \E v \in Uploads : fate[v].client = c /\ fate[v].stage # "SESSION"
  \/ \E t \in mentions : t.by \in DayBooks /\ t.client = c

(* A turn names a client of the firm whom somebody has named; an upload    *)
(* leaves it last; and a message passes on what was spoken of before, and  *)
(* has not ended, or not before the turn.                                  *)
MentionFits(t) ==
  /\ OfficeOf[t.client] = t.office /\ WasNamed(t.client)
  /\ t.by \in Uploads => fate[t.by].at \in {"known", "done"}
  /\ t.by \in Wires => /\ SpokenOf(t.office, t.client, t.at)
                       /\ wire[t.by].at # "new" /\ wire[t.by].client = t.client
                       /\ wire[t.by].at = "thinking" \/ t.at <= wire[t.by].end

(* What a message has in hand is such a client.                            *)
WireFits(w) ==
  wire[w].client # Noone =>
    /\ wire[w].at # "new"
    /\ OfficeOf[wire[w].client] = DeskOf[w] /\ WasNamed(wire[w].client)
    /\ SpokenOf(DeskOf[w], wire[w].client, wire[w].time)

(* An upload has a client once it is routed, and then an explanation.      *)
FateFits(u) ==
  /\ fate[u].at \in {"new", "known", "read", "unnamed", "asked"} => fate[u].client = Noone
  /\ fate[u].at \in {"routed", "filed", "refused", "lost"} => fate[u].client # Noone
  /\ fate[u].at = "asked" => fate[u].stage = "EXPLICIT_ASK"
  /\ fate[u].client # Noone =>
       /\ OfficeOf[fate[u].client] = Paper[u].office /\ fate[u].stage \in Stages
       /\ Rooted(fate[u].client, fate[u].time)
       /\ fate[u].stage = "SESSION" => Remembered(u)

(* What is on file was routed there, and logged.                           *)
FileFits(d) == /\ fate[d.doc].at \in {"filed", "done"} /\ fate[d.doc].client = d.client
               /\ <<d.doc, fate[d.doc].stage>> \in log

RouterInv ==
  /\ RouterTypeOK /\ Passed
  /\ \A t \in mentions : MentionFits(t)
  /\ \A w \in Wires : WireFits(w)
  /\ \A u \in Uploads : FateFits(u)
  /\ \A d \in onFile : FileFits(d)

LEMMA ExplainedByInv == RouterInv => RoutesAreExplained
BY DEF RouterInv, RoutesAreExplained, FateFits, FileFits
-----------------------------------------------------------------------------
LEMMA InitRouterInv == RouterInit => RouterInv
<1> SUFFICES ASSUME RouterInit PROVE RouterInv
  OBVIOUS
<1>1. 0 \in 0..LastTick
  BY RouterMaps
<1>2. RouterTypeOK
  BY <1>1 DEF RouterInit, RouterTypeOK, Unrouted
<1>3. /\ clock = 0 /\ onFile = {} /\ mentions = {}
      /\ \A u \in Uploads : fate[u].at = "new" /\ fate[u].client = Noone /\ fate[u].time = 0
      /\ \A w \in Wires : wire[w].client = Noone /\ wire[w].time = 0 /\ wire[w].end = 0
  BY DEF RouterInit, Unrouted
<1>4. (\A w \in Wires : WireFits(w)) /\ (\A u \in Uploads : FateFits(u)) /\ Passed
  BY <1>3 DEF WireFits, FateFits, Passed
<1> QED
  BY <1>2, <1>3, <1>4 DEF RouterInv

(* What no step takes back: turns, documents, the log, the client and the  *)
(* stage an upload was given, and what a message has begun; if a message   *)
(* ends, it ends now.                                                      *)
Onward ==
  /\ mentions \subseteq mentions' /\ onFile \subseteq onFile' /\ log \subseteq log'
  /\ clock' \in Nat /\ clock <= clock'
  /\ \A u \in Uploads :
       /\ fate[u].client # Noone => /\ fate'[u].client = fate[u].client
                                    /\ fate'[u].stage = fate[u].stage
                                    /\ fate'[u].time = fate[u].time
       /\ fate[u].at \in {"known", "done"} => fate'[u].at = fate[u].at
       /\ fate[u].at = "filed" => fate'[u].at \in {"filed", "done"}
  /\ \A w \in Wires : wire[w].at # "new" =>
       /\ wire'[w].at # "new" /\ wire'[w].client = wire[w].client
       /\ wire'[w].time = wire[w].time
       /\ \/ wire'[w].at = wire[w].at /\ wire'[w].end = wire[w].end
          \/ wire'[w].end = clock

LEMMA Numbers ==
  ASSUME RouterTypeOK
  PROVE  /\ clock \in Nat /\ LookBack \in Nat /\ Noone \notin Customers
         /\ \A t \in mentions : t.at \in Nat /\ t.client \in Customers /\ t.office \in Offices
         /\ \A u \in Uploads : fate[u].time \in Nat /\ Paper[u].office \in Offices
         /\ \A w \in Wires : wire[w].time \in Nat /\ wire[w].end \in Nat
         /\ \A d \in onFile : d.doc \in Uploads /\ d.client \in Customers
         /\ \A c : c \in Customers \cup {Noone} /\ c # Noone => c \in Customers
BY RouterMaps DEF RouterTypeOK, Mention

LEMMA NamedStays ==
  ASSUME RouterTypeOK, Onward, NEW c \in Customers, WasNamed(c)
  PROVE  WasNamed(c)'
<1>1. c # Noone
  BY Numbers
<1> QED
  BY <1>1 DEF Onward, WasNamed

LEMMA RootedStays ==
  ASSUME RouterTypeOK, Onward, NEW u \in Uploads, fate[u].client # Noone,
         Rooted(fate[u].client, fate[u].time)
  PROVE  Rooted(fate[u].client, fate[u].time)'
<1>1. fate'[u].client = fate[u].client /\ fate'[u].time = fate[u].time
  BY DEF Onward
<1>2. CASE \E t \in mentions : t.by \in DayBooks /\ t.client = fate[u].client /\ t.at <= fate[u].time
  BY <1>1, <1>2 DEF Onward, Rooted
<1>3. CASE \E v \in Uploads : /\ fate[v].client = fate[u].client /\ fate[v].stage # "SESSION"
                             /\ fate[v].time <= fate[u].time
  BY <1>1, <1>3 DEF Onward, Rooted
<1> QED
  BY <1>2, <1>3, Zenon DEF Rooted

(* Whom somebody has named was named by now.                               *)
LEMMA NamedByNow ==
  ASSUME RouterTypeOK, Passed, NEW c, WasNamed(c)
  PROVE  Rooted(c, clock)
BY DEF Passed, WasNamed, Rooted

LEMMA RememberedStays ==
  ASSUME RouterTypeOK, Passed, Onward, NEW u \in Uploads, fate[u].client # Noone, Remembered(u)
  PROVE  Remembered(u)'
<1>1. fate'[u].client = fate[u].client /\ fate'[u].time = fate[u].time
  BY DEF Onward
<1>2. PICK t \in mentions : /\ t.by \notin Wires \cup {u} /\ t.office = Paper[u].office
                           /\ t.client = fate[u].client /\ t.at <= fate[u].time
  BY DEF Remembered
<1>3. CASE \E x \in mentions : /\ x.by \notin Wires \cup {u} /\ x.office = Paper[u].office
                              /\ x.client = fate[u].client /\ x.at <= fate[u].time
                              /\ Lately(u, x.at)
  BY <1>1, <1>3 DEF Onward, Remembered, Lately
<1>4. ASSUME NEW w \in Wires, wire[w].at # "new", wire[w].client = fate[u].client,
             wire[w].time <= fate[u].time, wire[w].at = "thinking" \/ Lately(u, wire[w].end)
      PROVE  Remembered(u)'
  <2>1. /\ wire'[w].at # "new" /\ wire'[w].client = fate'[u].client
        /\ wire'[w].time <= fate'[u].time
        /\ \/ wire'[w].at = wire[w].at /\ wire'[w].end = wire[w].end
           \/ wire'[w].end = clock
    BY <1>1, <1>4 DEF Onward
  <2>2. clock + LookBack >= fate[u].time
    BY Numbers DEF Passed
  <2>3. wire'[w].at = "thinking" \/ Lately(u, wire[w].end)'
    BY <1>1, <1>4, <2>1, <2>2 DEF Lately
  <2>4. t \in mentions'
    BY DEF Onward
  <2> QED
    BY <1>1, <1>2, <2>1, <2>3, <2>4 DEF Remembered
<1> QED
  BY <1>3, <1>4 DEF Remembered

LEMMA SpokenStays ==
  ASSUME Onward, NEW o, NEW c, NEW T, SpokenOf(o, c, T)
  PROVE  SpokenOf(o, c, T)'
BY DEF Onward, SpokenOf

(* A step has to account for what it changes, and for nothing else.        *)
LEMMA Accounted ==
  ASSUME RouterInv, RouterTypeOK', Passed', Onward,
         \A t \in mentions' : t \notin mentions => MentionFits(t)',
         \A w \in Wires : wire'[w].client # wire[w].client => WireFits(w)',
         \A u \in Uploads : fate'[u] # fate[u] => FateFits(u)',
         \A d \in onFile' : d \notin onFile => FileFits(d)'
  PROVE  RouterInv'
<1>t. RouterTypeOK /\ Passed
  BY DEF RouterInv
<1>1. ASSUME NEW t \in mentions PROVE MentionFits(t)'
  <2>1. MentionFits(t) /\ t.client \in Customers
    BY <1>t, Numbers DEF RouterInv
  <2>2. WasNamed(t.client)'
    BY <1>t, <2>1, NamedStays DEF MentionFits
  <2>3. t.by \in Uploads => fate'[t.by].at \in {"known", "done"}
    BY <2>1 DEF MentionFits, Onward
  <2>4. ASSUME t.by \in Wires
        PROVE  /\ SpokenOf(t.office, t.client, t.at)'
               /\ wire'[t.by].at # "new" /\ wire'[t.by].client = t.client
               /\ wire'[t.by].at = "thinking" \/ t.at <= wire'[t.by].end
    <3>1. /\ SpokenOf(t.office, t.client, t.at)
          /\ wire[t.by].at # "new" /\ wire[t.by].client = t.client
          /\ wire[t.by].at = "thinking" \/ t.at <= wire[t.by].end
      BY <2>1, <2>4 DEF MentionFits
    <3>2. SpokenOf(t.office, t.client, t.at)'
      BY <3>1, SpokenStays
    <3>3. t.at <= clock
      BY <1>t DEF Passed
    <3> QED
      BY <2>4, <3>1, <3>2, <3>3 DEF Onward
  <2> QED
    BY <2>1, <2>2, <2>3, <2>4 DEF MentionFits
<1>2. ASSUME NEW w \in Wires PROVE WireFits(w)'
  <2>1. CASE wire'[w].client # wire[w].client
    BY <2>1
  <2>2. ASSUME wire'[w].client = wire[w].client, wire[w].client # Noone PROVE WireFits(w)'
    <3>1. WireFits(w) /\ wire[w].client \in Customers /\ wire[w].at # "new"
      BY <1>t, <2>2 DEF RouterInv, RouterTypeOK, WireFits
    <3>2. wire'[w].at # "new" /\ wire'[w].time = wire[w].time
      BY <3>1 DEF Onward
    <3>3. WasNamed(wire[w].client)'
      BY <1>t, <2>2, <3>1, NamedStays DEF WireFits, WasNamed
    <3>4. SpokenOf(DeskOf[w], wire[w].client, wire[w].time)'
      BY <2>2, <3>1, <3>2 DEF WireFits, SpokenOf, Onward
    <3> QED
      BY <2>2, <3>1, <3>2, <3>3, <3>4 DEF WireFits
  <2>3. CASE wire'[w].client = wire[w].client /\ wire[w].client = Noone
    BY <2>3 DEF WireFits
  <2> QED
    BY <2>1, <2>2, <2>3
<1>3. ASSUME NEW u \in Uploads PROVE FateFits(u)'
  <2>1. CASE fate'[u] # fate[u]
    BY <2>1
  <2>2. ASSUME fate'[u] = fate[u] PROVE FateFits(u)'
    <3>1. FateFits(u)
      BY DEF RouterInv
    <3>2. fate[u].client # Noone => Rooted(fate[u].client, fate[u].time)'
      BY <1>t, <3>1, RootedStays DEF FateFits
    <3>3. fate[u].client # Noone /\ fate[u].stage = "SESSION" => Remembered(u)'
      BY <1>t, <3>1, RememberedStays DEF FateFits
    <3> QED
      BY <2>2, <3>1, <3>2, <3>3 DEF FateFits
  <2> QED
    BY <2>1, <2>2
<1>4. ASSUME NEW d \in onFile PROVE FileFits(d)'
  <2>1. FileFits(d) /\ d.doc \in Uploads /\ d.client \in Customers /\ d.client # Noone
    BY <1>t, Numbers DEF RouterInv
  <2> QED
    BY <2>1 DEF FileFits, Onward
<1> QED
  BY <1>1, <1>2, <1>3, <1>4 DEF RouterInv
(* Whatever stage names a client, it is one of the firm, or the session's. *)
LEMMA StagesNameClients ==
  ASSUME RouterTypeOK, NEW u \in Uploads, NEW stages \in {PaperStages, RestStages},
         NEW stage \in Knows(u, stages), NEW c \in Finds(u, stage)
  PROVE  /\ stage \in Stages
         /\ stage # "SESSION" => c \in ClientsOf(Paper[u].office)
         /\ stage = "SESSION" => c \in BySession(u)
<1>1. \A i \in DOMAIN PaperStages :
        PaperStages[i] \in {"BUYER_GSTIN", "VENDOR_GSTIN", "BUYER_NAME", "VENDOR_NAME", "SESSION"}
  BY DEF PaperStages
<1>2. \A i \in DOMAIN RestStages : RestStages[i] \in {"CAPTION", "GSTIN", "VENDOR"}
  BY DEF RestStages
<1>3. stage \in {"BUYER_GSTIN", "VENDOR_GSTIN", "BUYER_NAME", "VENDOR_NAME", "SESSION",
                "CAPTION", "GSTIN", "VENDOR"}
  BY <1>1, <1>2 DEF Knows
<1>4. CASE stage = "BUYER_GSTIN"
  BY <1>4 DEF Finds, Holders, Stages
<1>5. CASE stage = "VENDOR_GSTIN"
  BY <1>5 DEF Finds, Holders, Stages
<1>6. CASE stage = "BUYER_NAME"
  BY <1>6 DEF Finds, NameHolders, Best, Stages
<1>7. CASE stage = "VENDOR_NAME"
  BY <1>7 DEF Finds, NameHolders, Best, Stages
<1>8. CASE stage = "SESSION"
  BY <1>8 DEF Finds, Stages
<1>9. CASE stage = "CAPTION"
  BY <1>9 DEF Finds, Best, Stages
<1>10. CASE stage = "GSTIN"
  <2>1. c \in ByScan(u)
    BY <1>10 DEF Finds
  <2> QED
    BY <1>10, <2>1 DEF ByScan, Holders, Stages
<1>11. CASE stage = "VENDOR"
  <2>1. c \in ByHistory(u)
    BY <1>11 DEF Finds
  <2> QED
    BY <1>11, <2>1 DEF ByHistory, Stages
<1> QED
  BY <1>3, <1>4, <1>5, <1>6, <1>7, <1>8, <1>9, <1>10, <1>11

Fates == [at : {"new", "known", "read", "unnamed", "routed", "asked", "filed", "refused",
                "lost", "done"},
          client : Customers \cup {Noone}, stage : Stages \cup {Noone}, time : 0..LastTick]

(* An upload only moves on.                                                *)
LEMMA FateMoves ==
  ASSUME RouterTypeOK, NEW u \in Uploads,
         NEW at \in {"known", "read", "unnamed", "filed", "refused", "lost", "done"},
         fate' = [fate EXCEPT ![u].at = at]
  PROVE  /\ fate' \in [Uploads -> Fates]
         /\ fate'[u].at = at /\ fate'[u].client = fate[u].client
         /\ fate'[u].stage = fate[u].stage /\ fate'[u].time = fate[u].time
         /\ \A x \in Uploads \ {u} : fate'[x] = fate[x]
BY DEF RouterTypeOK, Fates

(* Then its explanation stays, if it has one.                              *)
LEMMA MovedFateFits ==
  ASSUME RouterInv, Onward, NEW u \in Uploads,
         NEW at \in {"known", "read", "unnamed", "filed", "refused", "lost", "done"},
         fate' = [fate EXCEPT ![u].at = at],
         at \in {"known", "read", "unnamed"} => fate[u].client = Noone,
         at \in {"filed", "refused", "lost"} => fate[u].client # Noone
  PROVE  \A x \in Uploads : fate'[x] # fate[x] => FateFits(x)'
<1>1. RouterTypeOK /\ Passed /\ FateFits(u)
  BY DEF RouterInv
<1>2. /\ fate'[u].at = at /\ fate'[u].client = fate[u].client
      /\ fate'[u].stage = fate[u].stage /\ fate'[u].time = fate[u].time
      /\ \A x \in Uploads \ {u} : fate'[x] = fate[x]
  BY <1>1, FateMoves
<1>3. fate[u].client # Noone => Rooted(fate[u].client, fate[u].time)'
  BY <1>1, RootedStays DEF FateFits
<1>4. fate[u].client # Noone /\ fate[u].stage = "SESSION" => Remembered(u)'
  BY <1>1, RememberedStays DEF FateFits
<1>5. FateFits(u)'
  BY <1>1, <1>2, <1>3, <1>4 DEF FateFits
<1> QED
  BY <1>2, <1>5

(* The bytes of a filed document: its client was named when it was filed.  *)
LEMMA RecogniseKeeps ==
  ASSUME RouterInv, NEW u \in Uploads, Recognise(u)
  PROVE  RouterInv'
<1>t. RouterTypeOK /\ Passed
  BY DEF RouterInv
<1>1. PICK at \in {"known", "read"} :
        /\ fate[u].at = "new" /\ fate' = [fate EXCEPT ![u].at = at]
        /\ at = "read" => UNCHANGED mentions
  BY DEF Recognise
<1>2. UNCHANGED <<clock, onFile, wire, log>>
  BY DEF Recognise
<1>3. \/ UNCHANGED mentions
      \/ \E d \in onFile, time \in 0..clock :
           /\ Paper[d.doc].office = Paper[u].office
           /\ mentions' = mentions \cup {[by |-> u, office |-> Paper[u].office,
                                          client |-> d.client, at |-> time]}
  BY DEF Recognise
<1>4. /\ fate' \in [Uploads -> Fates]
      /\ fate'[u].at = at /\ fate'[u].client = fate[u].client
      /\ fate'[u].stage = fate[u].stage /\ fate'[u].time = fate[u].time
      /\ \A x \in Uploads \ {u} : fate'[x] = fate[x]
  BY <1>t, <1>1, FateMoves
<1>5. Onward
  BY <1>t, <1>1, <1>2, <1>3, <1>4, Numbers DEF Onward
<1>6. /\ mentions' \subseteq Mention /\ \A t \in mentions' : t.at <= clock
      /\ \A t \in mentions' : t \notin mentions => MentionFits(t)'
  <2>1. CASE UNCHANGED mentions
    BY <1>t, <2>1 DEF RouterTypeOK, Passed
  <2>2. ASSUME NEW d \in onFile, NEW time \in 0..clock, at = "known",
               Paper[d.doc].office = Paper[u].office,
               mentions' = mentions \cup {[by |-> u, office |-> Paper[u].office,
                                           client |-> d.client, at |-> time]}
        PROVE  /\ mentions' \subseteq Mention /\ \A t \in mentions' : t.at <= clock
               /\ \A t \in mentions' : t \notin mentions => MentionFits(t)'
    <3> DEFINE t == [by |-> u, office |-> Paper[u].office, client |-> d.client, at |-> time]
    <3>1. /\ t.by = u /\ t.office = Paper[u].office /\ t.client = d.client /\ t.at = time
          /\ mentions' = mentions \cup {t}
      BY <2>2
    <3>2. t \in Mention /\ time <= clock
      BY <1>t, RouterMaps, Numbers DEF RouterTypeOK, Mention
    <3> HIDE DEF t
    <3>3. /\ d.doc \in Uploads /\ d.client \in Customers /\ d.client # Noone
          /\ FileFits(d) /\ FateFits(d.doc)
      BY <1>t, Numbers DEF RouterInv
    <3>4. OfficeOf[d.client] = Paper[u].office /\ Rooted(d.client, fate[d.doc].time)
      BY <2>2, <3>3 DEF FileFits, FateFits
    <3>5. WasNamed(d.client)'
      BY <1>t, <1>5, <3>3, <3>4, NamedStays DEF Rooted, WasNamed
    <3>6. u \notin Wires
      BY RouterMaps
    <3>7. MentionFits(t)'
      BY <1>4, <2>2, <3>1, <3>4, <3>5, <3>6 DEF MentionFits
    <3> QED
      BY <1>t, <3>1, <3>2, <3>7 DEF RouterTypeOK, Passed
  <2> QED
    BY <1>1, <1>3, <2>1, <2>2
<1>7. RouterTypeOK' /\ Passed'
  BY <1>t, <1>2, <1>4, <1>6 DEF RouterTypeOK, Passed, Fates
<1>8. fate[u].client = Noone
  BY <1>1 DEF RouterInv, FateFits
<1>9. \A x \in Uploads : fate'[x] # fate[x] => FateFits(x)'
  BY <1>1, <1>5, <1>8, MovedFateFits
<1> QED
  BY <1>2, <1>5, <1>6, <1>7, <1>9, Accounted

(* A stage names the client: the session's has been spoken of.             *)
LEMMA EmitKeeps ==
  ASSUME RouterInv, NEW u \in Uploads, fate[u].at \in {"read", "unnamed"},
         NEW stages \in {PaperStages, RestStages},
         NEW stage \in Knows(u, stages), NEW c \in Finds(u, stage),
         Emit(u, stage, "routed", c), UNCHANGED <<clock, mentions, onFile, wire, log>>
  PROVE  RouterInv'
<1> DEFINE o == Paper[u].office
           r == [at |-> "routed", client |-> c, stage |-> stage, time |-> clock]
<1>t. RouterTypeOK /\ Passed /\ FateFits(u)
  BY DEF RouterInv
<1>1. fate' = [fate EXCEPT ![u] = r]
  BY Zenon DEF Emit
<1>2. /\ stage \in Stages /\ o \in Offices
      /\ stage # "SESSION" => c \in ClientsOf(o)
      /\ stage = "SESSION" => c \in BySession(u)
  BY <1>t, StagesNameClients, RouterMaps
<1>3. ASSUME stage = "SESSION"
      PROVE  \E t \in mentions : t.office = o /\ t.client = c /\ t.at + LookBack >= clock
  BY <1>2, <1>3 DEF BySession, LastMentions
<1>4. c \in Customers /\ OfficeOf[c] = o
  <2>1. CASE stage # "SESSION"
    BY <1>2, <2>1 DEF ClientsOf
  <2>2. CASE stage = "SESSION"
    BY <1>t, <1>3, <2>2, Numbers DEF RouterInv, MentionFits
  <2> QED
    BY <2>1, <2>2
<1>5. r \in Fates
  BY <1>t, <1>2, <1>4 DEF RouterTypeOK, Fates
<1>6. r.at = "routed" /\ r.client = c /\ r.stage = stage /\ r.time = clock
  OBVIOUS
<1> HIDE DEF r, o
<1>7. /\ fate' \in [Uploads -> Fates] /\ fate'[u] = r
      /\ \A x \in Uploads \ {u} : fate'[x] = fate[x]
  BY <1>t, <1>1, <1>5 DEF RouterTypeOK, Fates
<1>8. RouterTypeOK' /\ Passed'
  BY <1>t, <1>6, <1>7 DEF RouterTypeOK, Passed, Fates
<1>9. fate[u].client = Noone /\ c # Noone
  BY <1>t, <1>4, Numbers DEF FateFits
<1>10. Onward
  BY <1>t, <1>6, <1>7, <1>9, Numbers DEF Onward
<1>11. Rooted(c, clock)'
  <2>1. CASE stage # "SESSION"
    <3>1. fate'[u].client = c /\ fate'[u].stage # "SESSION" /\ fate'[u].time <= clock'
      BY <1>t, <1>6, <1>7, <2>1, Numbers
    <3> QED
      BY <3>1 DEF Rooted
  <2>2. CASE stage = "SESSION"
    <3>1. WasNamed(c)
      BY <1>3, <2>2 DEF RouterInv, MentionFits
    <3>2. WasNamed(c)'
      BY <1>t, <1>4, <1>10, <3>1, NamedStays
    <3> QED
      BY <1>8, <3>2, NamedByNow DEF WasNamed, Passed, Rooted
  <2> QED
    BY <2>1, <2>2
<1>12. ASSUME stage = "SESSION" PROVE Remembered(u)'
  <2>1. PICK t \in mentions : t.office = o /\ t.client = c /\ t.at + LookBack >= clock
    BY <1>3, <1>12
  <2>2. \A x \in mentions : x.by # u
    BY RouterMaps DEF RouterInv, MentionFits
  <2>3. MentionFits(t) /\ t.at <= clock
    BY <1>t DEF RouterInv, Passed
  <2>4. /\ fate'[u].client = c /\ fate'[u].time = clock /\ Paper[u].office = o
        /\ mentions' = mentions /\ wire' = wire
    BY <1>6, <1>7 DEF o
  <2>5. CASE t.by \notin Wires
    <3>1. Lately(u, t.at)'
      BY <2>1, <2>4 DEF Lately
    <3> QED
      BY <2>1, <2>2, <2>3, <2>4, <2>5, <3>1 DEF Remembered
  <2>6. CASE t.by \in Wires
    <3>1. PICK x \in mentions : /\ x.by \notin Wires /\ x.office = o /\ x.client = c
                                /\ x.at <= t.at
      BY <2>1, <2>3, <2>6 DEF MentionFits, SpokenOf
    <3>2. x.at <= clock
      BY <1>t DEF Passed
    <3>3. /\ wire[t.by].at # "new" /\ wire[t.by].client = c /\ wire[t.by].time <= clock
          /\ wire[t.by].at = "thinking" \/ t.at <= wire[t.by].end
      BY <1>t, <2>1, <2>3, <2>6 DEF MentionFits, Passed
    <3>4. wire[t.by].at = "thinking" \/ Lately(u, wire[t.by].end)'
      BY <1>t, <2>1, <2>4, <2>6, <3>3, Numbers DEF Lately
    <3> QED
      BY <2>2, <2>4, <2>6, <3>1, <3>2, <3>3, <3>4 DEF Remembered
  <2> QED
    BY <2>5, <2>6
<1>13. /\ fate'[u].client = c /\ fate'[u].time = clock' /\ fate'[u].at = "routed"
       /\ fate'[u].stage = stage
  BY <1>6, <1>7
<1>14. Rooted(fate[u].client, fate[u].time)'
  BY <1>11, <1>13 DEF Rooted
<1>15. OfficeOf[fate'[u].client] = Paper[u].office /\ fate'[u].client # Noone
  BY <1>4, <1>9, <1>13 DEF o
<1>16. FateFits(u)'
  BY <1>2, <1>12, <1>13, <1>14, <1>15 DEF FateFits
<1> QED
  BY <1>7, <1>8, <1>10, <1>16, Accounted

LEMMA ResolveByPaperKeeps ==
  ASSUME RouterInv, NEW u \in Uploads, ResolveByPaper(u)
  PROVE  RouterInv'
<1>1. fate[u].at = "read" /\ UNCHANGED <<clock, mentions, onFile, wire, log>>
  BY Zenon DEF ResolveByPaper
<1>2. ASSUME NEW stage \in Knows(u, PaperStages), NEW c \in Finds(u, stage),
             Emit(u, stage, "routed", c)
      PROVE  RouterInv'
  BY <1>1, <1>2, EmitKeeps
<1>3. ASSUME fate' = [fate EXCEPT ![u].at = "unnamed"] PROVE RouterInv'
  <2>t. RouterTypeOK /\ Passed /\ fate[u].client = Noone
    BY <1>1 DEF RouterInv, FateFits
  <2>1. /\ fate' \in [Uploads -> Fates]
        /\ fate'[u].at = "unnamed" /\ fate'[u].client = fate[u].client
        /\ fate'[u].stage = fate[u].stage /\ fate'[u].time = fate[u].time
        /\ \A x \in Uploads \ {u} : fate'[x] = fate[x]
    BY <1>3, <2>t, FateMoves
  <2>2. RouterTypeOK' /\ Passed'
    BY <1>1, <2>t, <2>1 DEF RouterTypeOK, Passed, Fates
  <2>3. Onward
    BY <1>1, <2>t, <2>1, Numbers DEF Onward
  <2>4. \A x \in Uploads : fate'[x] # fate[x] => FateFits(x)'
    BY <1>3, <2>t, <2>3, MovedFateFits
  <2> QED
    BY <1>1, <2>2, <2>3, <2>4, Accounted
<1> QED
  BY <1>2, <1>3, Zenon DEF ResolveByPaper

LEMMA ResolveByRestKeeps ==
  ASSUME RouterInv, NEW u \in Uploads, ResolveByRest(u)
  PROVE  RouterInv'
<1>1. fate[u].at = "unnamed" /\ UNCHANGED <<clock, mentions, onFile, wire>>
  BY Zenon DEF ResolveByRest
<1>2. ASSUME NEW stage \in Knows(u, RestStages), NEW c \in Finds(u, stage),
             Emit(u, stage, "routed", c), UNCHANGED log
      PROVE  RouterInv'
  BY <1>1, <1>2, EmitKeeps
<1>3. ASSUME Emit(u, "EXPLICIT_ASK", "asked", Noone), log' = log \cup {<<u, "EXPLICIT_ASK">>}
      PROVE  RouterInv'
  <2> DEFINE r == [at |-> "asked", client |-> Noone, stage |-> "EXPLICIT_ASK", time |-> clock]
  <2>t. RouterTypeOK /\ Passed /\ fate[u].client = Noone
    BY <1>1 DEF RouterInv, FateFits
  <2>1. fate' = [fate EXCEPT ![u] = r] /\ r \in Fates
    BY <1>3, <2>t DEF Emit, RouterTypeOK, Fates, Stages
  <2>2. r.at = "asked" /\ r.client = Noone /\ r.stage = "EXPLICIT_ASK" /\ r.time = clock
    OBVIOUS
  <2> HIDE DEF r
  <2>3. /\ fate' \in [Uploads -> Fates] /\ fate'[u] = r
        /\ \A x \in Uploads \ {u} : fate'[x] = fate[x]
    BY <2>t, <2>1 DEF RouterTypeOK, Fates
  <2>4. RouterTypeOK' /\ Passed'
    BY <1>1, <1>3, <2>t, <2>2, <2>3 DEF RouterTypeOK, Passed, Fates, Stages
  <2>5. Onward
    BY <1>1, <1>3, <2>t, <2>2, <2>3, Numbers DEF Onward
  <2>6. FateFits(u)'
    BY <2>2, <2>3 DEF FateFits
  <2> QED
    BY <1>1, <2>3, <2>4, <2>5, <2>6, Accounted
<1> QED
  BY <1>2, <1>3, Zenon DEF ResolveByRest

(* The CA names the client.                                                *)
LEMMA SettledKeeps ==
  ASSUME RouterInv, NEW u \in Uploads, Settled(u)
  PROVE  RouterInv'
<1>t. RouterTypeOK /\ Passed /\ FateFits(u) /\ fate[u].at = "asked"
  BY DEF RouterInv, Settled
<1>1. UNCHANGED <<clock, mentions, onFile, wire, log>>
  BY DEF Settled
<1>2. PICK c \in ClientsOf(Paper[u].office) :
        fate' = [fate EXCEPT ![u].at = "routed", ![u].client = c]
  BY DEF Settled
<1>3. c \in Customers /\ c # Noone /\ OfficeOf[c] = Paper[u].office
  BY <1>t, Numbers DEF ClientsOf
<1>4. /\ fate' \in [Uploads -> Fates]
      /\ fate'[u].at = "routed" /\ fate'[u].client = c
      /\ fate'[u].stage = "EXPLICIT_ASK" /\ fate'[u].time = fate[u].time
      /\ \A x \in Uploads \ {u} : fate'[x] = fate[x]
  BY <1>t, <1>2, <1>3 DEF RouterTypeOK, Fates, FateFits
<1>5. RouterTypeOK' /\ Passed'
  BY <1>t, <1>1, <1>4 DEF RouterTypeOK, Passed, Fates
<1>6. Onward
  BY <1>t, <1>1, <1>4, Numbers DEF Onward, FateFits
<1>7. Rooted(fate[u].client, fate[u].time)'
  <2>1. fate'[u].time \in Nat
    BY <1>t, <1>4, Numbers
  <2>2. fate'[u].time <= fate'[u].time /\ fate'[u].stage # "SESSION"
    BY <1>4, <2>1
  <2> QED
    BY <2>2 DEF Rooted
<1>8. FateFits(u)'
  BY <1>3, <1>4, <1>7 DEF FateFits, Stages
<1> QED
  BY <1>1, <1>4, <1>5, <1>6, <1>8, Accounted

LEMMA FileUploadKeeps ==
  ASSUME RouterInv, NEW u \in Uploads, FileUpload(u)
  PROVE  RouterInv'
<1> DEFINE e == [doc |-> u, client |-> fate[u].client]
<1>t. RouterTypeOK /\ Passed /\ FateFits(u) /\ fate[u].at = "routed"
  BY DEF RouterInv, FileUpload
<1>1. UNCHANGED <<clock, mentions, wire>>
  BY DEF FileUpload
<1>2. PICK at \in {"filed", "refused", "lost"} : fate' = [fate EXCEPT ![u].at = at]
  BY DEF FileUpload
<1>3. /\ fate' \in [Uploads -> Fates]
      /\ fate'[u].at = at /\ fate'[u].client = fate[u].client
      /\ fate'[u].stage = fate[u].stage /\ fate'[u].time = fate[u].time
      /\ \A x \in Uploads \ {u} : fate'[x] = fate[x]
  BY <1>t, <1>2, FateMoves
<1>4. \/ UNCHANGED <<onFile, log>>
      \/ /\ fate'[u].at = "filed" /\ onFile' = onFile \cup {e}
         /\ log' = log \cup {<<u, fate[u].stage>>}
  BY <1>t, <1>3 DEF FileUpload, Logged, RouterTypeOK
<1>5. /\ fate[u].client \in Customers /\ fate[u].stage \in Stages /\ fate[u].client # Noone
  BY <1>t DEF FateFits, RouterTypeOK
<1>6. e.doc = u /\ e.client = fate[u].client /\ e \in [doc : Uploads, client : Customers]
  BY <1>5
<1> HIDE DEF e
<1>7. RouterTypeOK' /\ Passed'
  BY <1>t, <1>1, <1>3, <1>4, <1>5, <1>6 DEF RouterTypeOK, Passed, Fates
<1>8. Onward
  BY <1>t, <1>1, <1>3, <1>4, Numbers DEF Onward
<1>9. \A x \in Uploads : fate'[x] # fate[x] => FateFits(x)'
  BY <1>2, <1>5, <1>8, MovedFateFits
<1>10. \A d \in onFile' : d \notin onFile => FileFits(d)'
  BY <1>3, <1>4, <1>6 DEF FileFits
<1> QED
  BY <1>1, <1>7, <1>8, <1>9, <1>10, Accounted

LEMMA SummariseKeeps ==
  ASSUME RouterInv, NEW u \in Uploads, Summarise(u)
  PROVE  RouterInv'
<1> DEFINE New(time) == [by |-> u, office |-> Paper[u].office, client |-> fate[u].client,
                         at |-> time]
<1>t. /\ RouterTypeOK /\ Passed /\ FateFits(u) /\ fate[u].at \in {"filed", "refused", "lost"}
  BY DEF RouterInv, Summarise
<1>1. UNCHANGED <<clock, onFile, wire>> /\ fate' = [fate EXCEPT ![u].at = "done"]
  BY DEF Summarise
<1>2. /\ fate' \in [Uploads -> Fates]
      /\ fate'[u].at = "done" /\ fate'[u].client = fate[u].client
      /\ fate'[u].stage = fate[u].stage /\ fate'[u].time = fate[u].time
      /\ \A x \in Uploads \ {u} : fate'[x] = fate[x]
  BY <1>t, <1>1, FateMoves
<1>3. /\ fate[u].client \in Customers /\ fate[u].stage \in Stages /\ fate[u].client # Noone
      /\ OfficeOf[fate[u].client] = Paper[u].office /\ Rooted(fate[u].client, fate[u].time)
  BY <1>t DEF FateFits, RouterTypeOK
<1>4. log' = log \/ log' = log \cup {<<u, fate[u].stage>>}
  BY DEF Summarise, Logged
<1>5. \/ UNCHANGED mentions
      \/ \E time \in 0..clock : mentions' = mentions \cup {New(time)}
  <2>1. Begun(u) \in Nat /\ clock \in Nat
    BY <1>t, Numbers DEF Begun
  <2>2. \A time \in Begun(u)..clock : time \in 0..clock
    BY <2>1
  <2> QED
    BY <2>2 DEF Summarise
<1>6. /\ mentions' \subseteq Mention /\ mentions \subseteq mentions'
      /\ \A t \in mentions' : t.at <= clock
      /\ \A t \in mentions' : t \notin mentions =>
           t.by = u /\ t.office = Paper[u].office /\ t.client = fate[u].client
  <2>1. CASE UNCHANGED mentions
    BY <1>t, <2>1 DEF RouterTypeOK, Passed
  <2>2. ASSUME NEW time \in 0..clock, mentions' = mentions \cup {New(time)}
        PROVE  /\ mentions' \subseteq Mention /\ mentions \subseteq mentions'
               /\ \A t \in mentions' : t.at <= clock
               /\ \A t \in mentions' : t \notin mentions =>
                    t.by = u /\ t.office = Paper[u].office /\ t.client = fate[u].client
    <3>1. New(time) \in Mention /\ time <= clock
      BY <1>t, <1>3, RouterMaps, Numbers DEF RouterTypeOK, Mention
    <3> QED
      BY <1>t, <2>2, <3>1 DEF RouterTypeOK, Passed
  <2> QED
    BY <1>5, <2>1, <2>2
<1>7. RouterTypeOK' /\ Passed'
  BY <1>t, <1>1, <1>2, <1>3, <1>4, <1>6 DEF RouterTypeOK, Passed, Fates
<1>8. Onward
  BY <1>t, <1>1, <1>2, <1>4, <1>6, Numbers DEF Onward
<1>9. \A x \in Uploads : fate'[x] # fate[x] => FateFits(x)'
  BY <1>1, <1>8, MovedFateFits
<1>10. WasNamed(fate[u].client)'
  <2>1. WasNamed(fate[u].client)
    BY <1>3 DEF Rooted, WasNamed
  <2> QED
    BY <1>2, <1>3, <1>t, <1>8, <2>1, NamedStays DEF WasNamed
<1>11. \A t \in mentions' : t \notin mentions => MentionFits(t)'
  BY <1>2, <1>3, <1>6, <1>10, RouterMaps DEF MentionFits, WasNamed
<1> QED
  BY <1>1, <1>7, <1>8, <1>9, <1>11, Accounted

(* A turn is left in the chat x was sent to.                               *)
LEMMA Left ==
  ASSUME RouterTypeOK, Passed, NEW x \in Wires \cup DayBooks, NEW c \in Customers,
         NEW time \in 0..clock, Leave(x, c, time)
  PROVE  /\ mentions' \subseteq Mention /\ mentions \subseteq mentions'
         /\ \A t \in mentions' : t.at <= clock
         /\ \A t \in mentions' : t \notin mentions =>
              t.by = x /\ t.office = DeskOf[x] /\ t.client = c /\ t.at = time
         /\ \E t \in mentions' : t.by = x /\ t.office = DeskOf[x] /\ t.client = c /\ t.at = time
<1> DEFINE t == [by |-> x, office |-> DeskOf[x], client |-> c, at |-> time]
<1>1. t \in Mention /\ t.by = x /\ t.office = DeskOf[x] /\ t.client = c /\ t.at = time
      /\ time <= clock
  BY RouterMaps, Numbers DEF RouterTypeOK, Mention
<1>2. mentions' = mentions \cup {t}
  BY Zenon DEF Leave
<1> HIDE DEF t
<1> QED
  BY <1>1, <1>2 DEF RouterTypeOK, Passed

LEMMA ImportBookKeeps ==
  ASSUME RouterInv, NEW x \in DayBooks, ImportBook(x)
  PROVE  RouterInv'
<1>t. RouterTypeOK /\ Passed
  BY DEF RouterInv
<1>1. UNCHANGED <<clock, fate, onFile, wire, log>>
  BY DEF ImportBook
<1>2. PICK c \in ClientsOf(DeskOf[x]) : Leave(x, c, clock)
  BY DEF ImportBook
<1>3. c \in Customers /\ OfficeOf[c] = DeskOf[x] /\ clock \in 0..clock
  BY <1>t, Numbers DEF ClientsOf
<1>4. /\ mentions' \subseteq Mention /\ mentions \subseteq mentions'
      /\ \A t \in mentions' : t.at <= clock
      /\ \A t \in mentions' : t \notin mentions =>
           t.by = x /\ t.office = DeskOf[x] /\ t.client = c
      /\ \E t \in mentions' : t.by = x /\ t.client = c
  BY <1>t, <1>2, <1>3, Left
<1>5. RouterTypeOK' /\ Passed'
  BY <1>t, <1>1, <1>4 DEF RouterTypeOK, Passed
<1>6. Onward
  BY <1>t, <1>1, <1>4, Numbers DEF Onward
<1>7. WasNamed(c)'
  BY <1>4 DEF WasNamed
<1>8. \A t \in mentions' : t \notin mentions => MentionFits(t)'
  BY <1>3, <1>4, <1>7, RouterMaps DEF MentionFits
<1> QED
  BY <1>1, <1>5, <1>6, <1>8, Accounted

LEMMA HearKeeps ==
  ASSUME RouterInv, NEW w \in Wires, Hear(w)
  PROVE  RouterInv'
<1> DEFINE o == DeskOf[w]
<1>t. RouterTypeOK /\ Passed /\ wire[w].at = "new"
  BY DEF RouterInv, Hear
<1>1. UNCHANGED <<clock, fate, onFile, log>> /\ o \in Offices
  BY RouterMaps DEF Hear
<1>2. PICK c \in Customers \cup {Noone} :
        /\ wire' = [wire EXCEPT ![w] = [@ EXCEPT !.at = "thinking", !.client = c, !.time = clock]]
        /\ IF c = Noone THEN UNCHANGED mentions
           ELSE Leave(w, c, clock) /\ \E t \in mentions : t.office = o /\ t.client = c
  <2>1. \A t \in LastMentions(o) : t \in mentions /\ t.office = o /\ t.client \in Customers
                                   /\ t.client # Noone
    BY <1>t, Numbers DEF LastMentions
  <2> QED
    BY <2>1 DEF Hear
<1>3. /\ wire' \in [Wires -> [at : {"new", "thinking", "done"},
                             client : Customers \cup {Noone},
                             time : 0..LastTick, end : 0..LastTick]]
      /\ wire'[w].at = "thinking" /\ wire'[w].client = c /\ wire'[w].time = clock
      /\ wire'[w].end = wire[w].end
      /\ \A x \in Wires \ {w} : wire'[x] = wire[x]
  BY <1>t, <1>2 DEF RouterTypeOK
<1>4. CASE c = Noone
  <2>1. mentions' = mentions
    BY <1>2, <1>4
  <2>2. RouterTypeOK' /\ Passed'
    BY <1>t, <1>1, <1>3, <2>1 DEF RouterTypeOK, Passed
  <2>3. Onward
    BY <1>t, <1>1, <1>3, <2>1, Numbers DEF Onward
  <2>4. \A x \in Wires : wire'[x].client # wire[x].client => WireFits(x)'
    BY <1>3, <1>4 DEF WireFits
  <2> QED
    BY <1>1, <2>1, <2>2, <2>3, <2>4, Accounted
<1>5. CASE c # Noone
  <2>1. PICK t \in mentions : t.office = o /\ t.client = c
    BY <1>2, <1>5
  <2>2. /\ MentionFits(t) /\ c \in Customers /\ clock \in 0..clock /\ t.at <= clock
        /\ t.at \in Nat /\ clock \in Nat
    BY <1>t, <1>5, Numbers DEF RouterInv, Passed
  <2>3. /\ mentions' \subseteq Mention /\ mentions \subseteq mentions'
        /\ \A x \in mentions' : x.at <= clock
        /\ \A x \in mentions' : x \notin mentions =>
             x.by = w /\ x.office = o /\ x.client = c /\ x.at = clock
    BY <1>t, <1>2, <1>5, <2>2, Left
  <2>4. RouterTypeOK' /\ Passed'
    BY <1>t, <1>1, <1>3, <2>3, Numbers DEF RouterTypeOK, Passed
  <2>5. Onward
    BY <1>t, <1>1, <1>3, <2>3, Numbers DEF Onward
  <2>6. OfficeOf[c] = o /\ WasNamed(c)'
    BY <1>t, <2>1, <2>2, <2>5, NamedStays DEF MentionFits
  <2>7. SpokenOf(o, c, clock)
    <3>1. CASE t.by \notin Wires
      BY <2>1, <2>2, <3>1 DEF SpokenOf
    <3>2. CASE t.by \in Wires
      <4>1. PICK x \in mentions : x.by \notin Wires /\ x.office = o /\ x.client = c /\ x.at <= t.at
        BY <2>1, <2>2, <3>2 DEF MentionFits, SpokenOf
      <4>2. x.at <= clock
        BY <1>t DEF Passed
      <4> QED
        BY <4>1, <4>2 DEF SpokenOf
    <3> QED
      BY <3>1, <3>2
  <2>8. \E x \in mentions' : x.by \notin Wires /\ x.office = o /\ x.client = c /\ x.at <= clock
    BY <2>3, <2>7 DEF SpokenOf
  <2>9. \A x \in Wires : wire'[x].client # wire[x].client => WireFits(x)'
    BY <1>3, <2>6, <2>8 DEF WireFits, SpokenOf
  <2>10. \A x \in mentions' : x \notin mentions => MentionFits(x)'
    <3>1. w \notin Uploads
      BY RouterMaps
    <3> QED
      BY <1>3, <2>3, <2>6, <2>8, <3>1 DEF MentionFits, SpokenOf
  <2> QED
    BY <1>1, <2>4, <2>5, <2>9, <2>10, Accounted
<1> QED
  BY <1>4, <1>5

LEMMA AnsweredKeeps ==
  ASSUME RouterInv, NEW w \in Wires, Answered(w)
  PROVE  RouterInv'
<1> DEFINE o == DeskOf[w]
           c == wire[w].client
<1>t. RouterTypeOK /\ Passed /\ wire[w].at = "thinking" /\ WireFits(w)
  BY DEF RouterInv, Answered
<1>1. /\ UNCHANGED <<clock, fate, onFile, log>> /\ o \in Offices
      /\ wire' = [wire EXCEPT ![w].at = "done", ![w].end = clock]
      /\ \/ c # Noone /\ \E time \in wire[w].time..clock : Leave(w, c, time)
         \/ UNCHANGED mentions
  BY RouterMaps DEF Answered
<1>2. /\ wire' \in [Wires -> [at : {"new", "thinking", "done"},
                             client : Customers \cup {Noone},
                             time : 0..LastTick, end : 0..LastTick]]
      /\ wire'[w].at = "done" /\ wire'[w].client = wire[w].client
      /\ wire'[w].time = wire[w].time /\ wire'[w].end = clock
      /\ \A x \in Wires \ {w} : wire'[x] = wire[x]
  BY <1>t, <1>1 DEF RouterTypeOK
<1>3. \A x \in Wires : wire'[x].client = wire[x].client
  BY <1>2
<1>4. CASE UNCHANGED mentions
  <2>1. RouterTypeOK' /\ Passed'
    BY <1>t, <1>1, <1>2, <1>4, Numbers DEF RouterTypeOK, Passed
  <2>2. Onward
    BY <1>t, <1>1, <1>2, <1>4, Numbers DEF Onward
  <2> QED
    BY <1>1, <1>3, <1>4, <2>1, <2>2, Accounted
<1>5. ASSUME c # Noone, NEW time \in wire[w].time..clock, Leave(w, c, time) PROVE RouterInv'
  <2>1. /\ c \in Customers /\ wire[w].time \in Nat /\ clock \in Nat
        /\ time \in 0..clock /\ wire[w].time <= time /\ time <= clock
    BY <1>t, <1>5, Numbers DEF RouterTypeOK
  <2>2. /\ mentions' \subseteq Mention /\ mentions \subseteq mentions'
        /\ \A x \in mentions' : x.at <= clock
        /\ \A x \in mentions' : x \notin mentions =>
             x.by = w /\ x.office = o /\ x.client = c /\ x.at = time
    BY <1>t, <1>5, <2>1, Left
  <2>3. RouterTypeOK' /\ Passed'
    BY <1>t, <1>1, <1>2, <2>2, Numbers DEF RouterTypeOK, Passed
  <2>4. Onward
    BY <1>t, <1>1, <1>2, <2>2, Numbers DEF Onward
  <2>5. OfficeOf[c] = o /\ WasNamed(c) /\ SpokenOf(o, c, wire[w].time)
    BY <1>t, <1>5 DEF WireFits
  <2>6. PICK x \in mentions : /\ x.by \notin Wires /\ x.office = o /\ x.client = c
                              /\ x.at <= wire[w].time
    BY <2>5 DEF SpokenOf
  <2>7. x.at <= time /\ x \in mentions'
    BY <1>t, <2>1, <2>2, <2>6, Numbers
  <2>8. /\ WasNamed(wire[w].client)' /\ w \notin Uploads
    BY <1>3, <1>t, <2>1, <2>4, <2>5, NamedStays, RouterMaps DEF WasNamed
  <2>9. \A y \in mentions' : y \notin mentions => MentionFits(y)'
    BY <1>2, <2>1, <2>2, <2>5, <2>6, <2>7, <2>8 DEF MentionFits, SpokenOf, WasNamed
  <2> QED
    BY <1>1, <1>3, <2>3, <2>4, <2>9, Accounted
<1> QED
  BY <1>1, <1>4, <1>5

LEMMA TickKeeps == RouterInv /\ Tick => RouterInv'
<1> SUFFICES ASSUME RouterInv, Tick PROVE RouterInv'
  OBVIOUS
<1>t. RouterTypeOK /\ Passed
  BY DEF RouterInv
<1>1. clock < LastTick /\ clock' = clock + 1 /\ UNCHANGED <<mentions, fate, onFile, wire, log>>
  BY Zenon DEF Tick
<1>2. RouterTypeOK' /\ Passed'
  BY <1>t, <1>1, RouterMaps, Numbers DEF RouterTypeOK, Passed
<1>3. Onward
  BY <1>t, <1>1, Numbers DEF Onward
<1> QED
  BY <1>1, <1>2, <1>3, Accounted

LEMMA NextRouterInv == RouterInv /\ [RouterNext]_routerVars => RouterInv'
<1> SUFFICES ASSUME RouterInv, [RouterNext]_routerVars PROVE RouterInv'
  OBVIOUS
<1>1. CASE UNCHANGED routerVars
  <2>1. UNCHANGED <<clock, mentions, fate, onFile, wire, log>>
    BY <1>1 DEF routerVars
  <2>2. RouterTypeOK /\ Passed
    BY DEF RouterInv
  <2>3. RouterTypeOK' /\ Passed'
    BY <2>1, <2>2 DEF RouterTypeOK, Passed
  <2>4. Onward
    BY <2>1, <2>2, Numbers DEF Onward
  <2> QED
    BY <2>1, <2>3, <2>4, Accounted
<1> QED
  BY <1>1, RecogniseKeeps, ResolveByPaperKeeps, ResolveByRestKeeps, SettledKeeps,
     FileUploadKeeps, SummariseKeeps, ImportBookKeeps, HearKeeps, AnsweredKeeps, TickKeeps,
     Zenon DEF RouterNext

THEOREM RouterInvariant == RouterSpec => []RouterInv
<1>1. RouterInit => RouterInv
  BY InitRouterInv
<1>2. RouterInv /\ [RouterNext]_routerVars => RouterInv'
  BY NextRouterInv
<1> QED
  BY <1>1, <1>2, PTL DEF RouterSpec
-----------------------------------------------------------------------------
(* The state of the cascade (identity/resolver.py) has its types.          *)
THEOREM RouterTyping == RouterSpec => []RouterTypeOK
<1>1. RouterInv => RouterTypeOK
  BY Zenon DEF RouterInv
<1> QED
  BY <1>1, RouterInvariant, PTL

(* resolve_identity never hands a document to a client of another firm,    *)
(* and by the session only to one the chat has spoken of lately, or ever   *)
(* since, and whom something else than the session had named before.       *)
THEOREM EveryRouteIsExplained == RouterSpec => []RoutesAreExplained
<1>1. RouterInv => RoutesAreExplained
  BY ExplainedByInv
<1> QED
  BY <1>1, RouterInvariant, PTL

-----------------------------------------------------------------------------
(* The supervisor.                                                         *)

TurnPlaces == Stops \cup {"asking", "running", "embedding", "gathering", "sending",
                          "auditing", "last", "rewriting", "saving", "replying"}

Turns == [at : TurnPlaces, round : 0..Rounds, tries : 0..Retries, forced : BOOLEAN,
          left : 0..MaxTools,
          work : SUBSET {"task", "correction"}, told : SUBSET {"task"},
          undone : BOOLEAN, file : SUBSET Papers]

(* A task that was told of is flushed in the session, or committed; after  *)
(* the commit of the turn the session holds nothing.                       *)
ToldIsKept ==
  \A s \in Requests :
    /\ turn[s].at \in {"replying", "answered"} => turn[s].work = {}
    /\ turn[s].at \notin {"apologised", "dead"} /\ ~turn[s].undone =>
         \A k \in turn[s].told : k \in turn[s].work \/ <<s, k>> \in book

(* A correction is only ever flushed while its rule is being embedded.     *)
CorrectionsWait ==
  \A s \in Requests :
    /\ "correction" \in turn[s].work => turn[s].at = "embedding"
    /\ <<s, "correction">> \in book => <<s, "rule">> \in book

(* A file sent and not audited is the one its task is about to audit.      *)
FilesAreAudited ==
  \A e \in delivered :
    \/ e \in audited
    \/ turn[e.by].at = "dead"
    \/ turn[e.by].at = "auditing" /\ turn[e.by].file = e.papers

(* What is on its way into a locked period, or came in behind the back of  *)
(* its snapshot, is straddling.                                            *)
LockKnows ==
  frozen # Unlocked => judged \subseteq straddling /\ Filed \subseteq frozen \cup straddling

Moved == straddling \cup marked

OfSnapshot(file) == file \ Moved = {d \in frozen \ Moved : status[d] = "exportable"}

(* An export has seen the lock, and holds the exportable part of it.       *)
ExportsKnow ==
  /\ \A s \in Requests :
       /\ turn[s].at \in {"gathering", "sending", "auditing"} => frozen # Unlocked
       /\ turn[s].at \in {"sending", "auditing"} => OfSnapshot(turn[s].file)
  /\ \A e \in delivered : frozen # Unlocked /\ OfSnapshot(e.papers)

SupervisorInv ==
  /\ SupervisorTypeOK /\ ToldIsKept /\ CorrectionsWait /\ FilesAreAudited
  /\ LockKnows /\ ExportsKnow
-----------------------------------------------------------------------------
LEMMA InitSupervisorInv == SupervisorInit => SupervisorInv
<1> SUFFICES ASSUME SupervisorInit PROVE SupervisorInv
  OBVIOUS
<1>1. Unasked \in Turns
  BY SupervisorBounds DEF Unasked, Turns, TurnPlaces, Stops
<1>2. \A s \in Requests : turn[s] = Unasked
  BY DEF SupervisorInit
<1>3. SupervisorTypeOK
  <2>1. turn \in [Requests -> Turns] /\ outages \in 0..MaxOutages
    BY <1>1, SupervisorBounds DEF SupervisorInit
  <2> QED
    BY <2>1 DEF SupervisorInit, SupervisorTypeOK, Turns, TurnPlaces
<1>4. ToldIsKept /\ CorrectionsWait
  BY <1>2 DEF SupervisorInit, Unasked, ToldIsKept, CorrectionsWait
<1>5. FilesAreAudited /\ LockKnows /\ ExportsKnow
  BY <1>2 DEF SupervisorInit, Unasked, FilesAreAudited, LockKnows, ExportsKnow
<1> QED
  BY <1>3, <1>4, <1>5 DEF SupervisorInv

LEMMA TurnTypes == SupervisorTypeOK => turn \in [Requests -> Turns]
BY DEF SupervisorTypeOK, Turns, TurnPlaces

(* Where a task goes on after a tool, and what it takes along.             *)
LEMMA AfterToolGoes ==
  ASSUME NEW r \in Turns, NEW err \in BOOLEAN
  PROVE  /\ AfterTool(r, err) \in Turns
         /\ AfterTool(r, err).at \in {"running", "asking", "last"}
         /\ AfterTool(r, err).work = r.work
         /\ AfterTool(r, err).told = r.told
         /\ AfterTool(r, err).undone = r.undone
<1> DEFINE f == r.forced \/ err
<1>0. /\ f \in BOOLEAN /\ Rounds \in Nat /\ MaxTools \in Nat
      /\ r.left \in 0..MaxTools /\ r.round \in 0..Rounds
  BY SupervisorBounds DEF Turns
<1>p. {"running", "asking", "last"} \subseteq TurnPlaces
  BY DEF TurnPlaces
<1> HIDE DEF f
<1>1. CASE r.left > 1
  <2>1. AfterTool(r, err) = [r EXCEPT !.at = "running", !.left = @ - 1, !.forced = f]
    BY <1>1 DEF AfterTool, f
  <2>2. r.left - 1 \in 0..MaxTools
    BY <1>0, <1>1
  <2> QED
    BY <1>0, <1>p, <2>1, <2>2 DEF Turns
<1>2. CASE r.left = 1 /\ r.round < Rounds
  <2>1. AfterTool(r, err) = [r EXCEPT !.at = "asking", !.left = 0, !.round = @ + 1, !.forced = f]
    BY <1>0, <1>2 DEF AfterTool, f
  <2>2. r.round + 1 \in 0..Rounds /\ 0 \in 0..MaxTools
    BY <1>0, <1>2
  <2> QED
    BY <1>0, <1>p, <2>1, <2>2 DEF Turns
<1>3. CASE ~(r.left > 1) /\ ~(r.left = 1 /\ r.round < Rounds)
  <2>1. AfterTool(r, err) = [r EXCEPT !.at = "last", !.left = 0, !.forced = FALSE]
    BY <1>0, <1>3 DEF AfterTool, f
  <2>2. 0 \in 0..MaxTools
    BY <1>0
  <2> QED
    BY <1>0, <1>p, <2>1, <2>2 DEF Turns
<1> QED
  BY <1>1, <1>2, <1>3

(* A turn goes on as r, and the rows of s are all that is written.         *)
LEMMA TurnGoes ==
  ASSUME SupervisorTypeOK, ToldIsKept, CorrectionsWait,
         NEW s \in Requests, NEW r \in Turns, Becomes(s, r),
         book' \subseteq Requests \X {"task", "correction", "rule"}, book \subseteq book',
         \A row \in book' : row \in book \/ row[1] = s,
         r.at \in {"replying", "answered"} => r.work = {},
         r.at \notin {"apologised", "dead"} /\ ~r.undone =>
           \A k \in r.told : k \in r.work \/ <<s, k>> \in book',
         "correction" \in r.work => r.at = "embedding",
         <<s, "correction">> \in book' => <<s, "rule">> \in book'
  PROVE  /\ turn' \in [Requests -> Turns]
         /\ turn'[s] = r /\ \A q \in Requests \ {s} : turn'[q] = turn[q]
         /\ ToldIsKept' /\ CorrectionsWait'
<1>1. /\ turn' \in [Requests -> Turns]
      /\ turn'[s] = r /\ \A q \in Requests \ {s} : turn'[q] = turn[q]
  BY TurnTypes DEF Becomes
<1>2. \A q \in Requests \ {s} : \A k : <<q, k>> \in book' => <<q, k>> \in book
  OBVIOUS
<1>3. ToldIsKept'
  BY <1>1 DEF ToldIsKept
<1>4. CorrectionsWait'
  BY <1>1, <1>2 DEF CorrectionsWait
<1> QED
  BY <1>1, <1>3, <1>4

(* Neither the ledger nor the exports move, and the task holds no file     *)
(* that it did not hold or that is not the exportable part.                *)
LEMMA OnlyTurns ==
  ASSUME SupervisorInv, NEW s \in Requests, NEW r \in Turns, Becomes(s, r),
         UNCHANGED <<periodVars, marked, exportVars>>,
         gstins' \subseteq Gstins, outages' \in 0..MaxOutages,
         book' \subseteq Requests \X {"task", "correction", "rule"}, book \subseteq book',
         \A row \in book' : row \in book \/ row[1] = s,
         r.at \in {"replying", "answered"} => r.work = {},
         r.at \notin {"apologised", "dead"} /\ ~r.undone =>
           \A k \in r.told : k \in r.work \/ <<s, k>> \in book',
         "correction" \in r.work => r.at = "embedding",
         <<s, "correction">> \in book' => <<s, "rule">> \in book',
         turn[s].at \notin {"dead", "auditing"} \/ r.at = "dead",
         r.at \in {"gathering", "sending", "auditing"} => frozen # Unlocked,
         r.at \in {"sending", "auditing"} => OfSnapshot(r.file)
  PROVE  SupervisorInv'
<1>1. /\ turn' \in [Requests -> Turns]
      /\ turn'[s] = r /\ \A q \in Requests \ {s} : turn'[q] = turn[q]
      /\ ToldIsKept' /\ CorrectionsWait'
  BY TurnGoes DEF SupervisorInv
<1>2. UNCHANGED <<status, judged, snap, frozen, straddling, marked, delivered, audited>>
  BY DEF periodVars, exportVars
<1>3. SupervisorTypeOK'
  BY <1>1, <1>2 DEF SupervisorInv, SupervisorTypeOK, Turns, TurnPlaces
<1>4. FilesAreAudited'
  BY <1>1, <1>2 DEF SupervisorInv, SupervisorTypeOK, FilesAreAudited
<1>5. LockKnows'
  BY <1>2 DEF SupervisorInv, LockKnows, Filed
<1>6. \A file : OfSnapshot(file)' <=> OfSnapshot(file)
  BY <1>2 DEF OfSnapshot, Moved
<1>7. ExportsKnow'
  BY <1>1, <1>2 DEF SupervisorInv, ExportsKnow, OfSnapshot, Moved
<1> QED
  BY <1>1, <1>3, <1>4, <1>5, <1>7 DEF SupervisorInv
LEMMA MovingIsBecoming ==
  ASSUME SupervisorTypeOK, NEW s \in Requests, NEW at \in TurnPlaces, Moves(s, at)
  PROVE  /\ Becomes(s, [turn[s] EXCEPT !.at = at])
         /\ turn[s] \in Turns /\ [turn[s] EXCEPT !.at = at] \in Turns
<1>1. turn[s] \in Turns
  BY TurnTypes
<1>2. [turn[s] EXCEPT !.at = at] \in Turns
  BY <1>1 DEF Turns
<1> QED
  BY <1>1, <1>2 DEF Moves, Becomes

LEMMA AbandonedTurn ==
  ASSUME SupervisorTypeOK, NEW s \in Requests, NEW at \in {"apologised", "dead"},
         Abandoned(s, at)
  PROVE  \E r \in Turns : Becomes(s, r) /\ r.at = at /\ r.work = {}
<1> DEFINE r == [turn[s] EXCEPT !.at = at, !.work = {}, !.file = {}]
<1>1. turn[s] \in Turns /\ at \in TurnPlaces
  BY TurnTypes DEF TurnPlaces, Stops
<1>2. r \in Turns /\ r.at = at /\ r.work = {}
  BY <1>1 DEF Turns
<1>3. Becomes(s, r)
  BY Zenon DEF Abandoned
<1> QED
  BY <1>2, <1>3

LEMMA CommitWrites ==
  ASSUME SupervisorTypeOK, NEW s \in Requests, NEW rows \in SUBSET {"rule"}, Commit(s, rows)
  PROVE  /\ book \subseteq book' /\ \A row \in book' : row \in book \/ row[1] = s
         /\ book' \subseteq Requests \X {"task", "correction", "rule"}
         /\ \A k : <<s, k>> \in book' <=> <<s, k>> \in book \/ k \in turn[s].work \cup rows
<1>1. turn[s].work \in SUBSET {"task", "correction"}
  BY TurnTypes DEF Turns
<1> QED
  BY <1>1 DEF Commit, SupervisorTypeOK

(* A task that ends by an exception or an apology disturbs nothing.        *)
LEMMA AbandonedKeeps ==
  ASSUME SupervisorInv, NEW s \in Requests, NEW at \in {"apologised", "dead"},
         Abandoned(s, at), at = "dead" \/ turn[s].at \notin {"dead", "auditing"},
         UNCHANGED <<book, gstins, periodVars, marked, exportVars>>,
         outages' \in 0..MaxOutages
  PROVE  SupervisorInv'
<1>1. SupervisorTypeOK /\ CorrectionsWait
  BY DEF SupervisorInv
<1>2. PICK r \in Turns : Becomes(s, r) /\ r.at = at /\ r.work = {}
  BY <1>1, AbandonedTurn
<1>3. /\ book' \subseteq Requests \X {"task", "correction", "rule"} /\ book' = book
      /\ gstins' \subseteq Gstins
  BY <1>1 DEF SupervisorTypeOK
<1>4. <<s, "correction">> \in book' => <<s, "rule">> \in book'
  BY <1>1, <1>3 DEF CorrectionsWait
<1> QED
  BY <1>2, <1>3, <1>4, OnlyTurns

(* A task that only goes elsewhere, with all it holds.                     *)
LEMMA MovingKeeps ==
  ASSUME SupervisorInv, NEW s \in Requests,
         NEW at \in {"embedding", "gathering", "rewriting", "saving", "answered"}, Moves(s, at),
         turn[s].at \in {"asking", "running", "last", "rewriting", "replying"},
         at = "answered" => turn[s].at = "replying",
         at = "gathering" => frozen # Unlocked,
         UNCHANGED <<book, gstins, periodVars, marked, exportVars, outages>>
  PROVE  SupervisorInv'
<1> DEFINE r == [turn[s] EXCEPT !.at = at]
<1>0. at \in TurnPlaces
  BY DEF TurnPlaces, Stops
<1>1. SupervisorTypeOK /\ CorrectionsWait /\ ToldIsKept
  BY DEF SupervisorInv
<1>2. Becomes(s, r) /\ turn[s] \in Turns /\ r \in Turns
  BY <1>0, <1>1, MovingIsBecoming
<1>3. /\ r.at = at /\ r.work = turn[s].work /\ r.told = turn[s].told
      /\ r.undone = turn[s].undone /\ r.file = turn[s].file
  BY <1>2 DEF Turns
<1>4. /\ book' \subseteq Requests \X {"task", "correction", "rule"} /\ book' = book
      /\ gstins' \subseteq Gstins /\ outages' \in 0..MaxOutages
  BY <1>1 DEF SupervisorTypeOK
<1>5. "correction" \notin r.work
  BY <1>1, <1>3 DEF CorrectionsWait
<1>6. <<s, "correction">> \in book' => <<s, "rule">> \in book'
  BY <1>1, <1>4 DEF CorrectionsWait
<1>7. /\ r.at \in {"replying", "answered"} => r.work = {}
      /\ r.at \notin {"apologised", "dead"} /\ ~r.undone =>
           \A k \in r.told : k \in r.work \/ <<s, k>> \in book'
  BY <1>1, <1>3, <1>4 DEF ToldIsKept
<1> HIDE DEF r
<1> QED
  BY <1>2, <1>3, <1>4, <1>5, <1>6, <1>7, OnlyTurns

(* A tool that writes nothing, or flushes what the LLM is told of, or      *)
(* commits all its session holds, or rolls it back.                        *)
LEMMA ToolKeeps ==
  ASSUME SupervisorInv, NEW s \in Requests, NEW r \in Turns, NEW err \in BOOLEAN,
         ToolDone(s, r, err), turn[s].at \notin {"dead", "auditing"},
         UNCHANGED <<periodVars, marked, exportVars>>,
         gstins' \subseteq Gstins, outages' \in 0..MaxOutages,
         book' \subseteq Requests \X {"task", "correction", "rule"}, book \subseteq book',
         \A row \in book' : row \in book \/ row[1] = s,
         "correction" \notin r.work,
         <<s, "correction">> \in book' => <<s, "rule">> \in book',
         ~r.undone => \A k \in r.told : k \in r.work \/ <<s, k>> \in book'
  PROVE  SupervisorInv'
<1> DEFINE q == AfterTool(r, err)
<1>1. /\ q \in Turns /\ q.at \in {"running", "asking", "last"}
      /\ q.work = r.work /\ q.told = r.told /\ q.undone = r.undone
  BY AfterToolGoes
<1>2. Becomes(s, q)
  BY Zenon DEF ToolDone
<1> HIDE DEF q
<1> QED
  BY <1>1, <1>2, OnlyTurns
(* One step of the loop or of a tool. Most of them touch neither the       *)
(* ledger nor the exports.                                                 *)
LEMMA LoopKeeps ==
  ASSUME SupervisorInv, NEW s \in Requests,
         \/ Start(s) \/ Ask(s) \/ Throttled(s) \/ DropTools(s) \/ AskFails(s) \/ AskLast(s)
         \/ Humanize(s) \/ Save(s) \/ Answer(s) \/ Dies(s)
  PROVE  SupervisorInv'
<1>t. /\ SupervisorTypeOK /\ ToldIsKept /\ CorrectionsWait /\ turn[s] \in Turns
      /\ book \subseteq Requests \X {"task", "correction", "rule"}
      /\ gstins \subseteq Gstins /\ outages \in 0..MaxOutages
  BY TurnTypes DEF SupervisorInv, SupervisorTypeOK
<1>o. Outage => outages' \in 0..MaxOutages
  BY <1>t, SupervisorBounds DEF Outage
<1>1. ASSUME Start(s) PROVE SupervisorInv'
  <2> DEFINE r == [Unasked EXCEPT !.at = "asking", !.round = 1]
  <2>1. r \in Turns
    <3>1. "asking" \in TurnPlaces /\ 0 \in 0..MaxTools /\ 1 \in 0..Rounds /\ 0 \in 0..Retries
      BY SupervisorBounds DEF TurnPlaces
    <3> QED
      BY <3>1 DEF Unasked, Turns
  <2>2. r.at = "asking" /\ r.work = {} /\ r.told = {}
    BY DEF Unasked
  <2>3. /\ turn[s].at = "new" /\ Becomes(s, r)
        /\ UNCHANGED <<book, gstins, periodVars, marked, exportVars, outages>>
    BY <1>1, Zenon DEF Start
  <2>4. <<s, "correction">> \in book => <<s, "rule">> \in book
    BY <1>t DEF CorrectionsWait
  <2> HIDE DEF r
  <2> QED
    BY <1>t, <2>1, <2>2, <2>3, <2>4, OnlyTurns
(* A task that goes on asking or after an answer, with all it holds.       *)
<1>a. ASSUME NEW r \in Turns, turn[s].at = "asking", Becomes(s, r),
             r.at \in {"asking", "running", "saving", "rewriting"},
             r.work = turn[s].work, r.told = turn[s].told, r.undone = turn[s].undone,
             UNCHANGED <<book, gstins, periodVars, marked, exportVars, outages>>
      PROVE  SupervisorInv'
  <2>1. "correction" \notin r.work /\ (<<s, "correction">> \in book => <<s, "rule">> \in book)
    BY <1>t, <1>a DEF CorrectionsWait
  <2>2. ~r.undone => \A k \in r.told : k \in r.work \/ <<s, k>> \in book
    BY <1>t, <1>a DEF ToldIsKept
  <2> QED
    BY <1>t, <1>a, <2>1, <2>2, OnlyTurns
<1>2. ASSUME Ask(s) PROVE SupervisorInv'
  <2>0. /\ turn[s].at = "asking"
        /\ UNCHANGED <<book, gstins, periodVars, marked, exportVars, outages>>
    BY <1>2, Zenon DEF Ask
  <2>1. ASSUME NEW n \in 1..Batch[s],
               Becomes(s, [turn[s] EXCEPT !.at = "running", !.left = n, !.tries = 0])
        PROVE  SupervisorInv'
    <3> DEFINE r == [turn[s] EXCEPT !.at = "running", !.left = n, !.tries = 0]
    <3>1. "running" \in TurnPlaces /\ n \in 0..MaxTools /\ 0 \in 0..Retries
      <4>1. Batch[s] \in 1..MaxTools /\ MaxTools \in Nat /\ Retries \in Nat
        BY SupervisorBounds
      <4> QED
        BY <4>1 DEF TurnPlaces
    <3>2. /\ r \in Turns /\ r.at = "running" /\ r.work = turn[s].work /\ r.told = turn[s].told
          /\ r.undone = turn[s].undone
      BY <1>t, <3>1 DEF Turns
    <3>3. Becomes(s, r)
      BY <2>1
    <3> HIDE DEF r
    <3> QED
      BY <2>0, <3>2, <3>3, <1>a
  <2>2. ASSUME NEW at \in {"saving", "rewriting"},
               Becomes(s, [turn[s] EXCEPT !.at = at, !.forced = FALSE, !.tries = 0])
        PROVE  SupervisorInv'
    <3> DEFINE r == [turn[s] EXCEPT !.at = at, !.forced = FALSE, !.tries = 0]
    <3>1. at \in TurnPlaces /\ 0 \in 0..Retries
      BY SupervisorBounds DEF TurnPlaces
    <3>2. /\ r \in Turns /\ r.at = at /\ r.work = turn[s].work /\ r.told = turn[s].told
          /\ r.undone = turn[s].undone
      BY <1>t, <3>1 DEF Turns
    <3>3. Becomes(s, r)
      BY <2>2
    <3> HIDE DEF r
    <3> QED
      BY <2>0, <3>2, <3>3, <1>a
  <2> QED
    BY <1>2, <2>1, <2>2, Zenon DEF Ask
<1>8. ASSUME Throttled(s) PROVE SupervisorInv'
  <2> DEFINE r == [turn[s] EXCEPT !.tries = @ + 1]
  <2>1. /\ turn[s].at = "asking" /\ turn[s].tries < Retries /\ Becomes(s, r)
        /\ UNCHANGED <<book, gstins, periodVars, marked, exportVars, outages>>
    BY <1>8, Zenon DEF Throttled
  <2>2. turn[s].tries + 1 \in 0..Retries
    BY <1>t, <2>1, SupervisorBounds DEF Turns
  <2>3. /\ r \in Turns /\ r.at = "asking" /\ r.work = turn[s].work /\ r.told = turn[s].told
        /\ r.undone = turn[s].undone
    BY <1>t, <2>1, <2>2 DEF Turns
  <2> HIDE DEF r
  <2> QED
    BY <2>1, <2>3, <1>a
<1>9. ASSUME DropTools(s) PROVE SupervisorInv'
  <2> DEFINE r == [turn[s] EXCEPT !.forced = TRUE, !.tries = Retries]
  <2>1. /\ turn[s].at = "asking" /\ Becomes(s, r)
        /\ UNCHANGED <<book, gstins, periodVars, marked, exportVars, outages>>
    BY <1>9, Zenon DEF DropTools
  <2>2. Retries \in 0..Retries
    BY SupervisorBounds
  <2>3. /\ r \in Turns /\ r.at = "asking" /\ r.work = turn[s].work /\ r.told = turn[s].told
        /\ r.undone = turn[s].undone
    BY <1>t, <2>1, <2>2 DEF Turns
  <2> HIDE DEF r
  <2> QED
    BY <2>1, <2>3, <1>a
<1>10. ASSUME AskFails(s) PROVE SupervisorInv'
  <2>1. /\ turn[s].at = "asking" /\ Outage /\ Abandoned(s, "apologised")
        /\ UNCHANGED <<book, gstins, periodVars, marked, exportVars>>
    BY <1>10, Zenon DEF AskFails
  <2> QED
    BY <1>o, <2>1, AbandonedKeeps
<1>3. ASSUME AskLast(s) PROVE SupervisorInv'
  <2>1. PICK at \in {"saving", "rewriting"} : Moves(s, at)
    BY <1>3, Zenon DEF AskLast
  <2>2. /\ turn[s].at = "last"
        /\ UNCHANGED <<book, gstins, periodVars, marked, exportVars, outages>>
    BY <1>3, Zenon DEF AskLast
  <2> QED
    BY <2>1, <2>2, MovingKeeps
<1>4. ASSUME Humanize(s) PROVE SupervisorInv'
  <2>1. /\ turn[s].at = "rewriting" /\ Moves(s, "saving")
        /\ UNCHANGED <<book, gstins, periodVars, marked, exportVars, outages>>
    BY <1>4 DEF Humanize
  <2> QED
    BY <2>1, MovingKeeps
<1>5. ASSUME Save(s) PROVE SupervisorInv'
  <2> DEFINE r == [turn[s] EXCEPT !.at = "replying", !.work = {}]
  <2>1. /\ turn[s].at = "saving" /\ Commit(s, {}) /\ Becomes(s, r)
        /\ UNCHANGED <<gstins, periodVars, marked, exportVars, outages>>
    BY <1>5, Zenon DEF Save
  <2>2. /\ r \in Turns /\ r.at = "replying" /\ r.work = {} /\ r.told = turn[s].told
        /\ r.undone = turn[s].undone
    BY <1>t DEF Turns, TurnPlaces
  <2>3. /\ book \subseteq book' /\ \A row \in book' : row \in book \/ row[1] = s
        /\ book' \subseteq Requests \X {"task", "correction", "rule"}
        /\ \A k : <<s, k>> \in book' <=> <<s, k>> \in book \/ k \in turn[s].work
    BY <1>t, <2>1, CommitWrites, {} \in SUBSET {"rule"}
  <2>4. <<s, "correction">> \in book' => <<s, "rule">> \in book'
    BY <1>t, <2>1, <2>3 DEF CorrectionsWait
  <2>5. ~r.undone => \A k \in r.told : <<s, k>> \in book'
    BY <1>t, <2>1, <2>2, <2>3 DEF ToldIsKept
  <2> HIDE DEF r
  <2> QED
    BY <1>t, <2>1, <2>2, <2>3, <2>4, <2>5, OnlyTurns
<1>6. ASSUME Answer(s) PROVE SupervisorInv'
  <2>1. /\ turn[s].at = "replying" /\ Moves(s, "answered")
        /\ UNCHANGED <<book, gstins, periodVars, marked, exportVars, outages>>
    BY <1>6 DEF Answer
  <2> QED
    BY <2>1, MovingKeeps
<1>7. ASSUME Dies(s) PROVE SupervisorInv'
  <2>1. /\ Outage /\ Abandoned(s, "dead")
        /\ UNCHANGED <<book, gstins, periodVars, marked, exportVars>>
    BY <1>7, Zenon DEF Dies
  <2> QED
    BY <1>o, <2>1, AbandonedKeeps
<1> QED
  BY <1>1, <1>2, <1>3, <1>4, <1>5, <1>6, <1>7, <1>8, <1>9, <1>10

(* The tools that leave the ledger and the exports alone.                  *)
LEMMA ToolsKeep ==
  ASSUME SupervisorInv, NEW s \in Requests,
         \/ Refuse(s) \/ Misread(s) \/ NoSuchClient(s) \/ NoSuchDocument(s)
         \/ GetFirmInfo(s) \/ Look(s) \/ QueryDocumentByRef(s) \/ GetFilingSummary(s)
         \/ ApproveFiling(s) \/ ExportClientLedger(s) \/ CreateTask(s)
         \/ AddFirmRule(s) \/ CorrectVerdict(s) \/ Embed(s) \/ BeginExport(s)
         \/ \E g \in Gstins : AddClient(s, g) \/ UpdateClient(s, g)
  PROVE  SupervisorInv'
<1>t. /\ SupervisorTypeOK /\ ToldIsKept /\ CorrectionsWait /\ turn[s] \in Turns
      /\ book \subseteq Requests \X {"task", "correction", "rule"}
      /\ gstins \subseteq Gstins /\ outages \in 0..MaxOutages
  BY TurnTypes DEF SupervisorInv, SupervisorTypeOK
<1>o. Outage => outages' \in 0..MaxOutages
  BY <1>t, SupervisorBounds DEF Outage
<1>c. <<s, "correction">> \in book => <<s, "rule">> \in book
  BY <1>t DEF CorrectionsWait
<1>r. turn[s].at = "running" =>
        /\ "correction" \notin turn[s].work
        /\ ~turn[s].undone => \A k \in turn[s].told : k \in turn[s].work \/ <<s, k>> \in book
  BY <1>t DEF CorrectionsWait, ToldIsKept
(* A call that changes nothing but what comes next.                        *)
<1>n. ASSUME NEW err \in BOOLEAN, turn[s].at = "running", ToolDone(s, turn[s], err),
             UNCHANGED <<book, gstins, periodVars, marked, exportVars, outages>>
      PROVE  SupervisorInv'
  BY <1>t, <1>c, <1>r, <1>n, ToolKeeps
(* A call that commits all its session holds.                              *)
<1>w. ASSUME turn[s].at \in {"running", "embedding"}, NEW rows \in SUBSET {"rule"},
             Commit(s, rows), turn[s].at = "embedding" => rows = {"rule"},
             ToolDone(s, [turn[s] EXCEPT !.work = {}], FALSE),
             gstins' \subseteq Gstins,
             UNCHANGED <<periodVars, marked, exportVars, outages>>
      PROVE  SupervisorInv'
  <2> DEFINE r == [turn[s] EXCEPT !.work = {}]
  <2>1. r \in Turns /\ r.work = {} /\ r.told = turn[s].told /\ r.undone = turn[s].undone
    BY <1>t DEF Turns
  <2>2. /\ book \subseteq book' /\ \A row \in book' : row \in book \/ row[1] = s
        /\ book' \subseteq Requests \X {"task", "correction", "rule"}
        /\ \A k : <<s, k>> \in book' <=> <<s, k>> \in book \/ k \in turn[s].work \cup rows
    BY <1>t, <1>w, CommitWrites
  <2>3. <<s, "correction">> \in book' => <<s, "rule">> \in book'
    BY <1>c, <1>r, <1>w, <2>2
  <2>4. ~r.undone => \A k \in r.told : <<s, k>> \in book'
    BY <1>t, <1>w, <2>1, <2>2 DEF ToldIsKept
  <2>5. ToolDone(s, r, FALSE) /\ FALSE \in BOOLEAN
    BY <1>w
  <2> HIDE DEF r
  <2> QED
    BY <1>t, <1>w, <2>1, <2>2, <2>3, <2>4, <2>5, ToolKeeps
<1>1. ASSUME Refuse(s) \/ Misread(s) \/ NoSuchClient(s) PROVE SupervisorInv'
  <2>1. turn[s].at = "running" /\ Tells(s, TRUE)
    BY <1>1 DEF Refuse, Misread, NoSuchClient, Calls
  <2> QED
    BY <1>n, <2>1, TRUE \in BOOLEAN, Zenon DEF Tells
<1>2. ASSUME \/ NoSuchDocument(s) \/ GetFirmInfo(s) \/ Look(s) \/ QueryDocumentByRef(s)
             \/ GetFilingSummary(s) \/ ApproveFiling(s)
      PROVE  SupervisorInv'
  <2>1. turn[s].at = "running" /\ Tells(s, FALSE)
    BY <1>2 DEF NoSuchDocument, GetFirmInfo, Look, QueryDocumentByRef, GetFilingSummary,
                ApproveFiling, Calls
  <2> QED
    BY <1>n, <2>1, FALSE \in BOOLEAN, Zenon DEF Tells
<1>3. ASSUME ExportClientLedger(s) PROVE SupervisorInv'
  <2>1. /\ turn[s].at = "running"
        /\ UNCHANGED <<book, gstins, periodVars, marked, exportVars>>
    BY <1>3, Zenon DEF ExportClientLedger, Calls
  <2>2. CASE ToolDone(s, turn[s], FALSE) /\ UNCHANGED outages
    BY <1>n, <2>1, <2>2, FALSE \in BOOLEAN
  <2>3. CASE Outage /\ Abandoned(s, "dead")
    BY <1>o, <2>1, <2>3, AbandonedKeeps
  <2> QED
    BY <1>3, <2>2, <2>3, Zenon DEF ExportClientLedger
<1>4. ASSUME CreateTask(s) PROVE SupervisorInv'
  <2> DEFINE r == [turn[s] EXCEPT !.work = @ \cup {"task"}, !.told = @ \cup {"task"}]
  <2>1. /\ turn[s].at = "running" /\ ToolDone(s, r, FALSE) /\ FALSE \in BOOLEAN
        /\ UNCHANGED <<book, gstins, periodVars, marked, exportVars, outages>>
    BY <1>4 DEF CreateTask, Calls
  <2>2. /\ r \in Turns /\ r.work = turn[s].work \cup {"task"}
        /\ r.told = turn[s].told \cup {"task"} /\ r.undone = turn[s].undone
    BY <1>t DEF Turns
  <2> HIDE DEF r
  <2>3. /\ "correction" \notin r.work
        /\ ~r.undone => \A k \in r.told : k \in r.work \/ <<s, k>> \in book
    BY <1>r, <2>1, <2>2
  <2> QED
    BY <1>t, <1>c, <2>1, <2>2, <2>3, ToolKeeps
<1>5. ASSUME AddFirmRule(s) PROVE SupervisorInv'
  <2>1. /\ turn[s].at = "running" /\ Moves(s, "embedding")
        /\ UNCHANGED <<book, gstins, periodVars, marked, exportVars, outages>>
    BY <1>5 DEF AddFirmRule, Calls
  <2> QED
    BY <2>1, MovingKeeps
<1>6. ASSUME CorrectVerdict(s) PROVE SupervisorInv'
  <2> DEFINE r == [turn[s] EXCEPT !.at = "embedding", !.work = @ \cup {"correction"}]
  <2>1. /\ turn[s].at = "running" /\ Becomes(s, r)
        /\ UNCHANGED <<book, gstins, periodVars, marked, exportVars, outages>>
    BY <1>6 DEF CorrectVerdict, Calls
  <2>2. /\ r \in Turns /\ r.at = "embedding" /\ turn[s].work \subseteq r.work
        /\ r.told = turn[s].told /\ r.undone = turn[s].undone
    BY <1>t DEF Turns, TurnPlaces
  <2> HIDE DEF r
  <2>3. ~r.undone => \A k \in r.told : k \in r.work \/ <<s, k>> \in book
    BY <1>r, <2>1, <2>2
  <2> QED
    BY <1>t, <1>c, <2>1, <2>2, <2>3, OnlyTurns
<1>7. ASSUME Embed(s) PROVE SupervisorInv'
  <2>1. /\ turn[s].at = "embedding" /\ Commit(s, {"rule"})
        /\ ToolDone(s, [turn[s] EXCEPT !.work = {}], FALSE)
        /\ UNCHANGED <<gstins, periodVars, marked, exportVars, outages>>
    BY <1>7, Zenon DEF Embed
  <2> QED
    BY <1>t, <1>w, <2>1, {"rule"} \in SUBSET {"rule"}
<1>8. ASSUME BeginExport(s) PROVE SupervisorInv'
  <2>1. /\ turn[s].at = "running"
        /\ UNCHANGED <<book, gstins, periodVars, marked, exportVars, outages>>
    BY <1>8 DEF BeginExport, Calls
  <2>2. CASE frozen = Unlocked
    <3>1. ToolDone(s, turn[s], TRUE)
      BY <1>8, <2>2, Zenon DEF BeginExport
    <3> QED
      BY <1>n, <2>1, <3>1, TRUE \in BOOLEAN
  <2>3. CASE frozen # Unlocked
    <3>1. Moves(s, "gathering")
      BY <1>8, <2>3, Zenon DEF BeginExport
    <3> QED
      BY <2>1, <2>3, <3>1, MovingKeeps
  <2> QED
    BY <2>2, <2>3
<1>9. ASSUME NEW g \in Gstins, AddClient(s, g) PROVE SupervisorInv'
  <2>1. turn[s].at = "running" /\ UNCHANGED <<periodVars, marked, exportVars, outages>>
    BY <1>9, Zenon DEF AddClient, Calls
  <2>2. CASE g \in gstins
    <3> DEFINE r == [turn[s] EXCEPT !.work = {}, !.undone = TRUE]
    <3>1. ToolDone(s, r, TRUE) /\ UNCHANGED <<book, gstins>>
      BY <1>9, <2>2, Zenon DEF AddClient
    <3>2. r \in Turns /\ r.work = {} /\ r.undone
      BY <1>t DEF Turns
    <3> HIDE DEF r
    <3> QED
      BY <1>t, <1>c, <2>1, <3>1, <3>2, TRUE \in BOOLEAN, ToolKeeps
  <2>3. CASE g \notin gstins
    <3>1. /\ gstins' = gstins \cup {g} /\ Commit(s, {})
          /\ ToolDone(s, [turn[s] EXCEPT !.work = {}], FALSE)
      BY <1>9, <2>3, Zenon DEF AddClient
    <3> QED
      BY <1>t, <1>w, <2>1, <3>1, {} \in SUBSET {"rule"}
  <2> QED
    BY <2>2, <2>3
<1>10. ASSUME NEW g \in Gstins, UpdateClient(s, g) PROVE SupervisorInv'
  <2>1. turn[s].at = "running" /\ UNCHANGED <<periodVars, marked, exportVars, outages>>
    BY <1>10, Zenon DEF UpdateClient, Calls
  <2>2. CASE g \in gstins
    <3>1. Abandoned(s, "dead") /\ UNCHANGED <<book, gstins>>
      BY <1>10, <2>2, Zenon DEF UpdateClient
    <3> QED
      BY <1>t, <2>1, <3>1, AbandonedKeeps
  <2>3. CASE g \notin gstins
    <3>1. PICK old \in SUBSET gstins : gstins' = (gstins \ old) \cup {g}
      BY <1>10, <2>3, Zenon DEF UpdateClient
    <3>2. Commit(s, {}) /\ ToolDone(s, [turn[s] EXCEPT !.work = {}], FALSE)
      BY <1>10, <2>3, Zenon DEF UpdateClient
    <3> QED
      BY <1>t, <1>w, <2>1, <3>1, <3>2, {} \in SUBSET {"rule"}
  <2> QED
    BY <2>2, <2>3
<1> QED
  BY <1>1, <1>2, <1>3, <1>4, <1>5, <1>6, <1>7, <1>8, <1>9, <1>10
(* Exports and the ledger: what moves the period or what is sent.          *)
LEMMA GatherKeeps ==
  ASSUME SupervisorInv, NEW s \in Requests, Gather(s)
  PROVE  SupervisorInv'
<1> DEFINE file == {d \in Papers : status[d] = "exportable"}
           r == [turn[s] EXCEPT !.at = "sending", !.file = file]
<1>t. /\ SupervisorTypeOK /\ ToldIsKept /\ CorrectionsWait /\ turn[s] \in Turns
      /\ book \subseteq Requests \X {"task", "correction", "rule"}
      /\ gstins \subseteq Gstins /\ outages \in 0..MaxOutages
  BY TurnTypes DEF SupervisorInv, SupervisorTypeOK
<1>1. /\ turn[s].at = "gathering"
      /\ UNCHANGED <<book, gstins, periodVars, marked, exportVars, outages>>
      /\ \/ ToolDone(s, turn[s], FALSE) \/ Becomes(s, r)
  BY Zenon DEF Gather
<1>2. /\ <<s, "correction">> \in book => <<s, "rule">> \in book
      /\ "correction" \notin turn[s].work
      /\ ~turn[s].undone => \A k \in turn[s].told : k \in turn[s].work \/ <<s, k>> \in book
  BY <1>t, <1>1 DEF CorrectionsWait, ToldIsKept
<1>3. frozen # Unlocked /\ LockKnows
  BY <1>1 DEF SupervisorInv, ExportsKnow
<1>4. CASE ToolDone(s, turn[s], FALSE)
  BY <1>t, <1>1, <1>2, <1>4, FALSE \in BOOLEAN, ToolKeeps
<1>5. CASE Becomes(s, r)
  <2>1. frozen \subseteq Papers /\ file \subseteq Filed
    BY <1>t, <1>3 DEF SupervisorTypeOK, Filed
  <2>2. OfSnapshot(file)
    BY <1>3, <2>1 DEF OfSnapshot, Moved, LockKnows
  <2>3. file \in SUBSET Papers
    OBVIOUS
  <2> HIDE DEF file
  <2>4. /\ r \in Turns /\ r.at = "sending" /\ r.work = turn[s].work /\ r.told = turn[s].told
        /\ r.undone = turn[s].undone /\ r.file = file
    BY <1>t, <2>3 DEF Turns, TurnPlaces
  <2> HIDE DEF r
  <2> QED
    BY <1>t, <1>1, <1>2, <1>3, <1>5, <2>2, <2>4, OnlyTurns
<1> QED
  BY <1>1, <1>4, <1>5

LEMMA SendKeeps ==
  ASSUME SupervisorInv, NEW s \in Requests, Send(s)
  PROVE  SupervisorInv'
<1> DEFINE e == [by |-> s, papers |-> turn[s].file]
<1>t. /\ SupervisorTypeOK /\ ToldIsKept /\ CorrectionsWait /\ turn[s] \in Turns
      /\ book \subseteq Requests \X {"task", "correction", "rule"} /\ outages \in 0..MaxOutages
  BY TurnTypes DEF SupervisorInv, SupervisorTypeOK
<1>1. /\ turn[s].at = "sending" /\ delivered' = delivered \cup {e}
      /\ UNCHANGED <<book, gstins, periodVars, marked, audited>>
      /\ \/ Moves(s, "auditing") /\ UNCHANGED outages
         \/ Outage /\ Abandoned(s, "dead")
  BY Zenon DEF Send
<1>2. PICK r \in Turns :
        /\ Becomes(s, r)
        /\ \/ r.at = "auditing" /\ r.work = turn[s].work /\ r.told = turn[s].told
              /\ r.undone = turn[s].undone /\ r.file = turn[s].file
           \/ r.at = "dead" /\ r.work = {}
  <2>1. CASE Moves(s, "auditing")
    <3>1. "auditing" \in TurnPlaces
      BY DEF TurnPlaces
    <3> DEFINE r == [turn[s] EXCEPT !.at = "auditing"]
    <3>2. Becomes(s, r) /\ r \in Turns
      BY <1>t, <2>1, <3>1, MovingIsBecoming
    <3>3. /\ r.at = "auditing" /\ r.work = turn[s].work /\ r.told = turn[s].told
          /\ r.undone = turn[s].undone /\ r.file = turn[s].file
      BY <1>t DEF Turns
    <3> HIDE DEF r
    <3> QED
      BY <3>2, <3>3
  <2>2. CASE Abandoned(s, "dead")
    BY <1>t, <2>2, AbandonedTurn
  <2> QED
    BY <1>1, <2>1, <2>2
<1>3. /\ <<s, "correction">> \in book => <<s, "rule">> \in book
      /\ "correction" \notin turn[s].work
      /\ ~turn[s].undone => \A k \in turn[s].told : k \in turn[s].work \/ <<s, k>> \in book
  BY <1>t, <1>1 DEF CorrectionsWait, ToldIsKept
<1>4. /\ turn' \in [Requests -> Turns]
      /\ turn'[s] = r /\ \A q \in Requests \ {s} : turn'[q] = turn[q]
      /\ ToldIsKept' /\ CorrectionsWait'
  <2>1. r.work \subseteq turn[s].work
    BY <1>2
  <2>2. r.at \notin {"apologised", "dead"} /\ ~r.undone =>
          \A k \in r.told : k \in r.work \/ <<s, k>> \in book'
    BY <1>1, <1>2, <1>3
  <2>3. r.at \notin {"replying", "answered"}
    BY <1>2
  <2> QED
    BY <1>t, <1>1, <1>2, <1>3, <2>1, <2>2, <2>3, TurnGoes
<1>5. frozen # Unlocked /\ OfSnapshot(turn[s].file)
  BY <1>1 DEF SupervisorInv, ExportsKnow
<1>6. e \in [by : Requests, papers : SUBSET Papers] /\ e.by = s /\ e.papers = turn[s].file
  BY <1>t DEF Turns
<1>7. UNCHANGED <<status, judged, snap, frozen, straddling>> /\ outages' \in 0..MaxOutages
  BY <1>t, <1>1, SupervisorBounds DEF periodVars, Outage
<1> HIDE DEF e
<1>8. SupervisorTypeOK'
  BY <1>t, <1>1, <1>4, <1>6, <1>7 DEF SupervisorTypeOK, Turns, TurnPlaces
<1>9. FilesAreAudited'
  BY <1>1, <1>2, <1>4, <1>6 DEF SupervisorInv, SupervisorTypeOK, FilesAreAudited
<1>10. LockKnows'
  BY <1>7 DEF SupervisorInv, LockKnows, Filed
<1>11. ExportsKnow'
  BY <1>1, <1>2, <1>4, <1>5, <1>6, <1>7 DEF SupervisorInv, ExportsKnow, OfSnapshot, Moved
<1> QED
  BY <1>4, <1>8, <1>9, <1>10, <1>11 DEF SupervisorInv

(* A tool that commits the session's rows and has no correction in hand:   *)
(* of the turn and the book all stays true.                                *)
LEMMA CommitKeeps ==
  ASSUME SupervisorInv, NEW s \in Requests, turn[s].at \in {"running", "auditing"},
         Commit(s, {}), NEW r \in Turns, r.work = {}, r.told = turn[s].told,
         r.undone = turn[s].undone, ToolDone(s, r, FALSE)
  PROVE  /\ turn' \in [Requests -> Turns]
         /\ turn'[s].at \in {"running", "asking", "last"}
         /\ \A q \in Requests \ {s} : turn'[q] = turn[q]
         /\ book' \subseteq Requests \X {"task", "correction", "rule"}
         /\ ToldIsKept' /\ CorrectionsWait'
<1> DEFINE q == AfterTool(r, FALSE)
<1>t. /\ SupervisorTypeOK /\ ToldIsKept /\ CorrectionsWait
  BY DEF SupervisorInv
<1>1. /\ q \in Turns /\ q.at \in {"running", "asking", "last"}
      /\ q.work = r.work /\ q.told = r.told /\ q.undone = r.undone
  BY AfterToolGoes, FALSE \in BOOLEAN
<1>2. Becomes(s, q)
  BY Zenon DEF ToolDone
<1>3. /\ book \subseteq book' /\ \A row \in book' : row \in book \/ row[1] = s
      /\ book' \subseteq Requests \X {"task", "correction", "rule"}
      /\ \A k : <<s, k>> \in book' <=> <<s, k>> \in book \/ k \in turn[s].work
  BY <1>t, CommitWrites, {} \in SUBSET {"rule"}
<1>4. <<s, "correction">> \in book' => <<s, "rule">> \in book'
  BY <1>t, <1>3 DEF CorrectionsWait
<1>5. ~r.undone => \A k \in r.told : <<s, k>> \in book'
  BY <1>t, <1>3 DEF ToldIsKept
<1> HIDE DEF q
<1> QED
  BY <1>t, <1>1, <1>2, <1>3, <1>4, <1>5, TurnGoes

LEMMA AuditKeeps ==
  ASSUME SupervisorInv, NEW s \in Requests, Audit(s)
  PROVE  SupervisorInv'
<1> DEFINE e == [by |-> s, papers |-> turn[s].file]
           r == [turn[s] EXCEPT !.work = {}, !.file = {}]
<1>t. SupervisorTypeOK /\ turn[s] \in Turns
  BY TurnTypes DEF SupervisorInv
<1>1. /\ turn[s].at = "auditing" /\ audited' = audited \cup {e} /\ Commit(s, {})
      /\ ToolDone(s, r, FALSE)
      /\ UNCHANGED <<gstins, periodVars, marked, delivered, outages>>
  BY Zenon DEF Audit
<1>2. /\ r \in Turns /\ r.work = {} /\ r.told = turn[s].told /\ r.undone = turn[s].undone
  BY <1>t DEF Turns
<1>3. e \in [by : Requests, papers : SUBSET Papers] /\ e.by = s /\ e.papers = turn[s].file
  BY <1>t DEF Turns
<1>4. \A x \in delivered : x.by = s /\ x.papers = turn[s].file => x = e
  BY <1>t, <1>3 DEF SupervisorTypeOK
<1> HIDE DEF r, e
<1>5. /\ turn' \in [Requests -> Turns] /\ turn'[s].at \in {"running", "asking", "last"}
      /\ \A q \in Requests \ {s} : turn'[q] = turn[q]
      /\ book' \subseteq Requests \X {"task", "correction", "rule"}
      /\ ToldIsKept' /\ CorrectionsWait'
  BY <1>1, <1>2, CommitKeeps
<1>6. UNCHANGED <<status, judged, snap, frozen, straddling>>
  BY <1>1 DEF periodVars
<1>7. SupervisorTypeOK'
  BY <1>t, <1>1, <1>3, <1>5, <1>6 DEF SupervisorTypeOK, Turns, TurnPlaces
<1>8. FilesAreAudited'
  BY <1>1, <1>4, <1>5 DEF SupervisorInv, SupervisorTypeOK, FilesAreAudited
<1>9. LockKnows'
  BY <1>6 DEF SupervisorInv, LockKnows, Filed
<1>10. ExportsKnow'
  BY <1>1, <1>5, <1>6 DEF SupervisorInv, ExportsKnow, OfSnapshot, Moved
<1> QED
  BY <1>5, <1>7, <1>8, <1>9, <1>10 DEF SupervisorInv

LEMMA MarkKeeps ==
  ASSUME SupervisorInv, NEW s \in Requests, NEW d \in Papers, MarkDocument(s, d)
  PROVE  SupervisorInv'
<1> DEFINE r == [turn[s] EXCEPT !.work = {}]
<1>t. SupervisorTypeOK /\ turn[s] \in Turns
  BY TurnTypes DEF SupervisorInv
<1>1. /\ turn[s].at = "running" /\ d \in Filed /\ Commit(s, {}) /\ ToolDone(s, r, FALSE)
      /\ marked' = marked \cup {d}
      /\ UNCHANGED <<gstins, judged, snap, frozen, straddling, exportVars, outages>>
  BY Zenon DEF MarkDocument, Calls
<1>2. PICK v \in {"exportable", "withheld"} : status' = [status EXCEPT ![d] = v]
  BY Zenon DEF MarkDocument
<1>3. /\ r \in Turns /\ r.work = {} /\ r.told = turn[s].told /\ r.undone = turn[s].undone
  BY <1>t DEF Turns
<1> HIDE DEF r
<1>4. /\ turn' \in [Requests -> Turns] /\ turn'[s].at \in {"running", "asking", "last"}
      /\ \A q \in Requests \ {s} : turn'[q] = turn[q]
      /\ book' \subseteq Requests \X {"task", "correction", "rule"}
      /\ ToldIsKept' /\ CorrectionsWait'
  BY <1>1, <1>3, CommitKeeps
<1>5. /\ status' \in [Papers -> {"absent", "exportable", "withheld"}]
      /\ \A x \in Papers : x # d => status'[x] = status[x]
      /\ Filed' = Filed
  BY <1>t, <1>1, <1>2 DEF SupervisorTypeOK, Filed
<1>6. UNCHANGED <<delivered, audited>>
  BY <1>1 DEF exportVars
<1>7. SupervisorTypeOK'
  BY <1>t, <1>1, <1>4, <1>5, <1>6 DEF SupervisorTypeOK, Turns, TurnPlaces
<1>8. FilesAreAudited'
  BY <1>1, <1>4, <1>6 DEF SupervisorInv, SupervisorTypeOK, FilesAreAudited
<1>9. LockKnows'
  BY <1>1, <1>5 DEF SupervisorInv, LockKnows
<1>10. ASSUME NEW file, OfSnapshot(file), frozen # Unlocked PROVE OfSnapshot(file)'
  <2>1. frozen \subseteq Papers
    BY <1>t, <1>10 DEF SupervisorTypeOK
  <2> QED
    BY <1>1, <1>5, <1>10, <2>1 DEF OfSnapshot, Moved
<1>11. ExportsKnow'
  <2>1. \A q \in Requests : turn'[q].at \in {"gathering", "sending", "auditing"} =>
                                turn'[q] = turn[q]
    BY <1>4
  <2>2. /\ \A q \in Requests : turn'[q].at \in {"gathering", "sending", "auditing"} => frozen' # Unlocked
        /\ \A q \in Requests : turn'[q].at \in {"sending", "auditing"} => OfSnapshot(turn[q].file)'
    BY <1>1, <1>10, <2>1 DEF SupervisorInv, ExportsKnow
  <2>3. \A e \in delivered : frozen' # Unlocked /\ OfSnapshot(e.papers)'
    BY <1>1, <1>10 DEF SupervisorInv, ExportsKnow
  <2> QED
    BY <1>6, <2>1, <2>2, <2>3 DEF ExportsKnow, OfSnapshot, Moved
<1> QED
  BY <1>4, <1>7, <1>8, <1>9, <1>11 DEF SupervisorInv

(* Papers come in and the period is locked: no task moves.                 *)
LEMMA LedgerKeeps ==
  ASSUME SupervisorInv,
         (\E d \in Papers : JudgePaper(d) \/ FilePaper(d)) \/ ReadPeriod \/ LockPeriod
  PROVE  SupervisorInv'
<1>t. SupervisorTypeOK
  BY DEF SupervisorInv
<1>u. UNCHANGED <<turn, book, gstins, marked, delivered, audited, outages>>
  BY DEF JudgePaper, FilePaper, ReadPeriod, LockPeriod, exportVars
<1>1. ToldIsKept' /\ CorrectionsWait' /\ FilesAreAudited'
  BY <1>u DEF SupervisorInv, ToldIsKept, CorrectionsWait, FilesAreAudited
<1>2. ASSUME NEW d \in Papers, JudgePaper(d) PROVE SupervisorInv'
  <2>1. /\ frozen = Unlocked /\ judged' = judged \cup {d}
        /\ UNCHANGED <<status, snap, frozen, straddling>>
    BY <1>2, Zenon DEF JudgePaper
  <2>2. SupervisorTypeOK'
    BY <1>t, <1>u, <2>1 DEF SupervisorTypeOK
  <2>3. LockKnows' /\ ExportsKnow'
    BY <1>u, <2>1 DEF SupervisorInv, LockKnows, ExportsKnow
  <2> QED
    BY <1>1, <2>2, <2>3 DEF SupervisorInv
<1>3. ASSUME NEW d \in Papers, FilePaper(d) PROVE SupervisorInv'
  <2>1. /\ d \in judged /\ judged' = judged \ {d}
        /\ UNCHANGED <<snap, frozen, straddling>>
    BY <1>3, Zenon DEF FilePaper
  <2>2. PICK v \in {"exportable", "withheld"} : status' = [status EXCEPT ![d] = v]
    BY <1>3, Zenon DEF FilePaper
  <2>3. /\ status' \in [Papers -> {"absent", "exportable", "withheld"}]
        /\ \A x \in Papers : x # d => status'[x] = status[x]
    BY <1>t, <2>2 DEF SupervisorTypeOK
  <2>4. SupervisorTypeOK'
    BY <1>t, <1>u, <2>1, <2>3 DEF SupervisorTypeOK
  <2>5. LockKnows'
    BY <2>1, <2>3 DEF SupervisorInv, LockKnows, Filed
  <2>6. ASSUME NEW file, OfSnapshot(file), frozen # Unlocked PROVE OfSnapshot(file)'
    <3>1. frozen \subseteq Papers /\ d \in Moved
      BY <1>t, <2>1, <2>6 DEF SupervisorInv, SupervisorTypeOK, LockKnows, Moved
    <3> QED
      BY <1>u, <2>1, <2>3, <2>6, <3>1 DEF OfSnapshot, Moved
  <2>7. ExportsKnow'
    <3>1. /\ \A q \in Requests : turn[q].at \in {"sending", "auditing"} => OfSnapshot(turn[q].file)'
          /\ \A e \in delivered : OfSnapshot(e.papers)'
      BY <1>u, <2>6 DEF SupervisorInv, ExportsKnow
    <3> QED
      BY <1>u, <2>1, <3>1 DEF SupervisorInv, ExportsKnow, OfSnapshot, Moved
  <2> QED
    BY <1>1, <2>4, <2>5, <2>7 DEF SupervisorInv
<1>4. ASSUME ReadPeriod PROVE SupervisorInv'
  <2>1. /\ frozen = Unlocked /\ snap' = Filed
        /\ UNCHANGED <<status, judged, frozen, straddling>>
    BY <1>4, Zenon DEF ReadPeriod
  <2>2. SupervisorTypeOK'
    BY <1>t, <1>u, <2>1 DEF SupervisorTypeOK, Filed
  <2>3. LockKnows' /\ ExportsKnow'
    BY <1>u, <2>1 DEF SupervisorInv, LockKnows, ExportsKnow
  <2> QED
    BY <1>1, <2>2, <2>3 DEF SupervisorInv
<1>5. ASSUME LockPeriod PROVE SupervisorInv'
  <2>1. /\ frozen = Unlocked /\ snap # Unlocked /\ frozen' = snap
        /\ straddling' = judged \cup (Filed \ snap)
        /\ UNCHANGED <<status, judged, snap>>
    BY <1>5, Zenon DEF LockPeriod
  <2>2. SupervisorTypeOK'
    BY <1>t, <1>u, <2>1 DEF SupervisorTypeOK, Filed
  <2>3. LockKnows'
    BY <2>1 DEF LockKnows, Filed
  <2>4. ExportsKnow'
    BY <1>u, <2>1 DEF SupervisorInv, ExportsKnow
  <2> QED
    BY <1>1, <2>2, <2>3, <2>4 DEF SupervisorInv
<1> QED
  BY <1>2, <1>3, <1>4, <1>5

LEMMA NextSupervisorInv ==
  SupervisorInv /\ [SupervisorNext]_supervisorVars => SupervisorInv'
<1> SUFFICES ASSUME SupervisorInv, [SupervisorNext]_supervisorVars PROVE SupervisorInv'
  OBVIOUS
<1>1. ASSUME NEW s \in Requests, SupervisorStep(s) PROVE SupervisorInv'
  BY <1>1, LoopKeeps, ToolsKeep, GatherKeeps, SendKeeps, AuditKeeps, MarkKeeps, Zenon
     DEF SupervisorStep
<1>2. CASE (\E d \in Papers : JudgePaper(d) \/ FilePaper(d)) \/ ReadPeriod \/ LockPeriod
  BY <1>2, LedgerKeeps
<1>3. CASE UNCHANGED supervisorVars
  BY <1>3 DEF supervisorVars, periodVars, exportVars, SupervisorInv, SupervisorTypeOK, ToldIsKept,
              CorrectionsWait, FilesAreAudited, LockKnows, Filed, ExportsKnow, OfSnapshot, Moved
<1> QED
  BY <1>1, <1>2, <1>3, Zenon DEF SupervisorNext

THEOREM SupervisorInvariant == SupervisorSpec => []SupervisorInv
<1>1. SupervisorInit => SupervisorInv
  BY InitSupervisorInv
<1>2. SupervisorInv /\ [SupervisorNext]_supervisorVars => SupervisorInv'
  BY NextSupervisorInv
<1> QED
  BY <1>1, <1>2, PTL DEF SupervisorSpec
-----------------------------------------------------------------------------
(* The supervisor's state has its types.                                   *)
THEOREM SupervisorTyping == SupervisorSpec => []SupervisorTypeOK
<1>1. SupervisorInv => SupervisorTypeOK
  BY Zenon DEF SupervisorInv
<1> QED
  BY <1>1, SupervisorInvariant, PTL

(* Whatever the LLM was told it created is committed when its answer goes  *)
(* out, unless a duplicate GSTIN rolled it back (add_client).              *)
THEOREM ToldTasksAreSaved == SupervisorSpec => []ToldTasksSurvive
<1>1. SupervisorInv => ToldTasksSurvive
  BY DEF SupervisorInv, ToldIsKept, ToldTasksSurvive
<1> QED
  BY <1>1, SupervisorInvariant, PTL

(* No correction without its rule (correct_verdict), and no Tally export   *)
(* without its audit row unless the task is between the two or died there. *)
THEOREM BooksStayWhole == SupervisorSpec => []BooksAreWhole
<1>1. SupervisorInv => BooksAreWhole
  BY DEF SupervisorInv, CorrectionsWait, FilesAreAudited, BooksAreWhole
<1> QED
  BY <1>1, SupervisorInvariant, PTL

(* export_to_tally sends the exportable part of the approved snapshot, but *)
(* for papers marked by a tool or on their way in when it was locked.      *)
THEOREM ExportsMatchTheLock == SupervisorSpec => []ExportsTheSnapshot
<1>1. SupervisorInv => ExportsTheSnapshot
  BY DEF SupervisorInv, ExportsKnow, OfSnapshot, Moved, ExportsTheSnapshot
<1> QED
  BY <1>1, SupervisorInvariant, PTL
=============================================================================
