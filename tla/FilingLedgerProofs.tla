------------------------- MODULE FilingLedgerProofs -------------------------
(***************************************************************************)
(* Proofs about FilingLedger, for every number of uploads, commands,       *)
(* clients, invoices and periods.                                          *)
(*                                                                         *)
(* The safety invariants of the module are not inductive.  Inv adds what   *)
(* the tasks know while they run: what an upload has learnt about the lock *)
(* (UploadKnows), what a command carries from one read to the next         *)
(* (CommandKnows), who holds the unique key (KeyHolder), and that a scan   *)
(* has not lost the period it looks for (ScanKnows).  Three facts only     *)
(* ever grow -- the documents of a period, the prompts, the locks -- and   *)
(* that is what makes a stale read safe.                                   *)
(***************************************************************************)
EXTENDS FilingLedger, TLAPS

(* A committed row belongs to a finished task, which judged it. *)
Committed == \A d \in docs : pc[d] = "saved" /\ row[d].verdict = "done"

UploadKnows ==
  \A u \in Uploads :
    /\ pc[u] = "lockcheck" => /\ row[u].verdict \in {"done", "locked"}
                              /\ row[u].verdict = "locked" =>
                                   IsPeriodLocked(row[u].period)
    /\ pc[u] \in {"content", "persist"} => row[u].verdict = "done"
    /\ pc[u] = "refused" => IsPeriodLocked(row[u].period)

(* Documents are only added: a prompt never shows more than there is. *)
PromptsAreStored == \A h \in prompted : h[2] \subseteq DocsOf(h[1])

Looking == {"parse", "snap", "match", "relock", "resnap", "insert", "commit", "refused"}
Confirming == {"list", "scan", "match", "relock", "resnap", "insert", "commit",
               "drifted", "nomatch"}
Matched == {"relock", "resnap", "insert", "commit", "drifted"}

CommandKnows ==
  \A c \in Commands :
    /\ cpc[c] \in Looking => at[c] \in Periods
    /\ cpc[c] \in Confirming => want[c] \in prompted
    /\ cpc[c] \in Matched => at[c] = want[c][1]
    /\ cpc[c] \in {"insert", "commit"} => intent[c] = want[c]
    /\ cpc[c] = "refused" => IsPeriodLocked(at[c])

KeyHolder ==
  /\ \A c \in Commands, p \in Periods :
       inserting[p] = c <=> cpc[c] = "commit" /\ at[c] = p
  /\ \A p \in Periods : inserting[p] # None => approval[p] = None

(* A filing that can no longer be confirmed: locked, or changed. *)
Stale(h) == IsPeriodLocked(h[1]) \/ Snapshot(h[1]) # h

ScanKnows ==
  \A c \in Commands :
    /\ cpc[c] = "drifted" => Snapshot(want[c][1]) # want[c]
    /\ cpc[c] = "nomatch" /\ want[c][2] # {} => Stale(want[c])
    /\ cpc[c] \in {"scan", "match"} /\ want[c][2] # {} =>
         \/ Stale(want[c])
         \/ want[c][1] \in todo[c]
         \/ cpc[c] = "match" /\ at[c] = want[c][1]

Inv ==
  /\ TypeOK
  /\ Committed
  /\ UploadKnows
  /\ LockedContentWasShown
  /\ PromptsAreStored
  /\ CommandKnows
  /\ KeyHolder
  /\ ScanKnows
-----------------------------------------------------------------------------
(***************************************************************************)
(* Types.                                                                  *)
(***************************************************************************)

LEMMA SnapshotType ==
  ASSUME TypeOK, NEW p \in Periods
  PROVE  Snapshot(p) \in Periods \X SUBSET Uploads
BY DEF TypeOK, Snapshot, DocsOf

(* The updates of a row that the upload actions make. *)
LEMMA WithFileType ==
  ASSUME NEW r \in Row, NEW f \in Files \cup {None}
  PROVE  WithFile(r, f) \in Row
BY DEF Row, WithFile

LEMMA WithRouteType ==
  ASSUME NEW r \in Row, NEW x \in Readings, NEW c \in Clients \cup {None}
  PROVE  WithRoute(r, x, c) \in Row
<1>1. x.key \in Invoices \cup {None} /\ x.period \in Periods \cup {None}
  BY PeriodOfType DEF Readings
<1> QED
  BY <1>1 DEF Row, WithRoute

LEMMA WithVerdictType ==
  ASSUME NEW r \in Row, NEW v \in {"unset", "done", "locked"}
  PROVE  WithVerdict(r, v) \in Row
BY DEF Row, WithVerdict

(* A verdict changes nothing else. *)
LEMMA WithVerdictFields ==
  ASSUME NEW r \in Row, NEW v \in {"unset", "done", "locked"}
  PROVE  WithVerdict(r, v).verdict = v /\ WithVerdict(r, v).period = r.period
BY DEF Row, WithVerdict

USE DEF UploadPC, UploadRunning, UploadSettled, CommandPC, CommandRunning, CommandSettled

LEMMA TypeInit == Init => TypeOK
<1> SUFFICES ASSUME Init PROVE TypeOK
  OBVIOUS
<1>1. Blank \in Row
  BY DEF Blank, Row
<1> QED
  BY <1>1 DEF Init, TypeOK

UploadMoves(u) ==
  \/ \E f \in Files : Receive(u, f)
  \/ \E c \in Clients : Assign(u, c)
  \/ UploadStep(u)

CommandMoves(c) ==
  \/ \E p \in Periods : ApproveText(c, p)
  \/ \E h \in prompted : ConfirmText(c, h)
  \/ CommandStep(c)

LEMMA NextCases ==
  Next <=> \/ \E u \in Uploads : UploadMoves(u)
           \/ \E c \in Commands : CommandMoves(c)
           \/ Crash
BY DEF Next, UploadMoves, CommandMoves

(* An upload step is about one unfinished task; only INSERT adds a row.    *)
LEMMA UploadEffect ==
  ASSUME TypeOK, NEW u \in Uploads, UploadMoves(u)
  PROVE  /\ UNCHANGED commandVars
         /\ \E next \in UploadPC : pc' = [pc EXCEPT ![u] = next]
         /\ \E r \in Row : row' = [row EXCEPT ![u] = r]
         /\ pc[u] \notin {"saved", "refused"}
         /\ \/ docs' = docs
            \/ /\ docs' = docs \cup {u} /\ row' = row
               /\ pc[u] = "persist" /\ pc'[u] = "saved"
<1> USE DEF TypeOK, Goto, commandVars
<1>1. CASE \E f \in Files : Receive(u, f)
  BY <1>1, WithFileType DEF Receive
<1>2. CASE \E c \in Clients : Assign(u, c)
  BY <1>2, WithFileType, WithRouteType DEF Assign
<1>3. CASE ExtractAndRoute(u)
  BY <1>3, WithRouteType DEF ExtractAndRoute
<1>4. CASE Verdict(u)
  BY <1>4, WithVerdictType DEF Verdict
<1>5. CASE UNCHANGED <<row, docs, commandVars>> /\ UploadStep(u)
  BY <1>5 DEF UploadStep, EarlyDedup, ExtractFails, ExtractAndRoute, Verdict,
              LockCheck, ContentCheck, Persist, PersistFails
<1>6. CASE Persist(u)
  BY <1>6 DEF Persist
<1> QED
  BY <1>1, <1>2, <1>3, <1>4, <1>5, <1>6 DEF UploadMoves, UploadStep, EarlyDedup,
     ExtractFails, LockCheck, ContentCheck, PersistFails

LEMMA TypeUpload ==
  ASSUME TypeOK, NEW u \in Uploads, UploadMoves(u)
  PROVE  TypeOK'
BY UploadEffect DEF TypeOK, commandVars

LEMMA TypeCommand ==
  ASSUME TypeOK, CommandKnows, NEW c \in Commands, CommandMoves(c)
  PROVE  TypeOK'
<1> USE DEF TypeOK, CGoto, uploadVars, commandVars
<1>1. CASE \E p \in Periods : ApproveText(c, p)
  BY <1>1 DEF ApproveText
<1>2. CASE \E h \in prompted : ConfirmText(c, h)
  BY <1>2 DEF ConfirmText
<1>3. CASE ParseLockCheck(c)
  BY <1>3 DEF ParseLockCheck
<1>4. CASE ParseSnapshot(c)
  BY <1>4, SnapshotType DEF ParseSnapshot, CommandKnows, Looking
<1>5. CASE ListPeriods(c)
  BY <1>5 DEF ListPeriods, Row
<1>6. CASE \E p \in Periods : ScanLockCheck(c, p)
  BY <1>6 DEF ScanLockCheck
<1>7. CASE ScanSnapshot(c)
  BY <1>7 DEF ScanSnapshot
<1>8. CASE ScanExhausted(c)
  BY <1>8 DEF ScanExhausted
<1>9. CASE RecheckLock(c)
  BY <1>9 DEF RecheckLock
<1>10. CASE RecheckSnapshot(c)
  BY <1>10, SnapshotType DEF RecheckSnapshot, CommandKnows, Looking
<1>11. CASE InsertApproval(c)
  BY <1>11 DEF InsertApproval
<1>12. CASE InsertConflicts(c)
  BY <1>12 DEF InsertConflicts
<1>13. CASE CommitApproval(c)
  <2>1. want[c] \in prompted /\ intent[c] = want[c]
    BY <1>13 DEF CommitApproval, CommandKnows, Confirming
  <2> QED
    BY <1>13, <2>1 DEF CommitApproval
<1>14. CASE CommitFails(c)
  BY <1>14 DEF CommitFails
<1> QED
  BY <1>1, <1>2, <1>3, <1>4, <1>5, <1>6, <1>7, <1>8, <1>9, <1>10, <1>11, <1>12,
     <1>13, <1>14 DEF CommandMoves, CommandStep

LEMMA TypeNext ==
  ASSUME TypeOK, CommandKnows, [Next]_vars
  PROVE  TypeOK'
<1>1. CASE Crash
  BY <1>1 DEF TypeOK, Crash
<1>2. CASE UNCHANGED vars
  BY <1>2 DEF TypeOK, vars
<1> QED
  BY <1>1, <1>2, TypeUpload, TypeCommand, NextCases-----------------------------------------------------------------------------
(***************************************************************************)
(* Effects: what a step of either kind may touch.                          *)
(***************************************************************************)

(* A command step leaves the documents and the other commands alone, shows *)
(* at most the present content of its period, and locks at most its own.   *)
LEMMA CommandEffect ==
  ASSUME TypeOK, CommandKnows, NEW c \in Commands, CommandMoves(c)
  PROVE  /\ UNCHANGED uploadVars
         /\ \A d \in Commands \ {c} :
              /\ cpc'[d] = cpc[d] /\ want'[d] = want[d] /\ todo'[d] = todo[d]
              /\ at'[d] = at[d] /\ intent'[d] = intent[d]
         /\ \/ prompted' = prompted
            \/ prompted' = prompted \cup {Snapshot(at[c])} /\ at[c] \in Periods
         /\ approval' = approval \/ CommitApproval(c)
<1> USE DEF TypeOK, CGoto, uploadVars
<1>1. CASE \E p \in Periods : ApproveText(c, p)
  BY <1>1 DEF ApproveText
<1>2. CASE \E h \in prompted : ConfirmText(c, h)
  BY <1>2 DEF ConfirmText
<1>3. CASE ParseSnapshot(c)
  BY <1>3 DEF ParseSnapshot, CommandKnows, Looking
<1>4. CASE ParseLockCheck(c) \/ ListPeriods(c) \/ (\E p \in Periods : ScanLockCheck(c, p))
             \/ ScanSnapshot(c) \/ ScanExhausted(c)
  BY <1>4 DEF ParseLockCheck, ListPeriods, ScanLockCheck, ScanSnapshot, ScanExhausted
<1>5. CASE RecheckLock(c) \/ RecheckSnapshot(c) \/ InsertApproval(c) \/ InsertConflicts(c)
             \/ CommitApproval(c) \/ CommitFails(c)
  BY <1>5 DEF RecheckLock, RecheckSnapshot, InsertApproval, InsertConflicts,
              CommitApproval, CommitFails
<1> QED
  BY <1>1, <1>2, <1>3, <1>4, <1>5 DEF CommandMoves, CommandStep

(* The three facts that only grow. *)
Grows ==
  /\ docs \subseteq docs'
  /\ \A d \in docs : row'[d] = row[d]
  /\ prompted \subseteq prompted'
  /\ \A p \in Periods : approval[p] # None => approval'[p] = approval[p]

LEMMA Growth ==
  ASSUME Inv, [Next]_vars
  PROVE  Grows
<1> USE DEF Inv
<1>1. CASE \E u \in Uploads : UploadMoves(u)
  <2>1. PICK u \in Uploads : UploadMoves(u)
    BY <1>1
  <2>2. u \notin docs
    BY <2>1, UploadEffect DEF Committed
  <2>3. PICK r \in Row : row' = [row EXCEPT ![u] = r]
    BY <2>1, UploadEffect
  <2>4. \A d \in docs : row'[d] = row[d]
    BY <2>2, <2>3 DEF TypeOK
  <2>5. docs \subseteq docs' /\ UNCHANGED <<prompted, approval>>
    BY <2>1, UploadEffect DEF commandVars
  <2> QED
    BY <2>4, <2>5 DEF Grows
<1>2. CASE \E c \in Commands : CommandMoves(c)
  <2>1. PICK c \in Commands : CommandMoves(c)
    BY <1>2
  <2>2. \A p \in Periods : approval[p] # None => approval'[p] = approval[p]
    <3>1. CASE CommitApproval(c)
      <4>1. at[c] \in Periods /\ inserting[at[c]] = c
        BY <3>1 DEF CommitApproval, CommandKnows, KeyHolder, Looking
      <4>2. approval[at[c]] = None
        BY <4>1, NoneIsNoCommand DEF KeyHolder
      <4> QED
        BY <3>1, <4>2 DEF CommitApproval, TypeOK
    <3> QED
      BY <2>1, <3>1, CommandEffect
  <2> QED
    BY <2>1, <2>2, CommandEffect DEF Grows, uploadVars
<1>3. CASE Crash
  BY <1>3 DEF Crash, Grows
<1>4. CASE UNCHANGED vars
  BY <1>4 DEF vars, Grows
<1> QED
  BY <1>1, <1>2, <1>3, <1>4, NextCases

LEMMA DocsGrow ==
  ASSUME Grows, NEW p
  PROVE  DocsOf(p) \subseteq DocsOf(p)'
BY DEF Grows, DocsOf

LEMMA LockStays ==
  ASSUME Grows, NEW p
  PROVE  IsPeriodLocked(p) => IsPeriodLocked(p)'
BY DEF Grows, IsPeriodLocked

(* A filing that has drifted from what a prompt showed never drifts back.  *)
LEMMA DriftStays ==
  ASSUME TypeOK, PromptsAreStored, Grows, NEW h \in prompted, Snapshot(h[1]) # h
  PROVE  (Snapshot(h[1]) # h)'
<1>1. PICK p \in Periods, S \in SUBSET Uploads : h = <<p, S>>
  BY DEF TypeOK
<1>2. S \subseteq DocsOf(p) /\ S # DocsOf(p)
  BY <1>1 DEF PromptsAreStored, Snapshot
<1>3. S # DocsOf(p)'
  BY <1>2, DocsGrow
<1> QED
  BY <1>1, <1>3 DEF Snapshot

LEMMA StaleStays ==
  ASSUME TypeOK, PromptsAreStored, Grows, NEW h \in prompted, Stale(h)
  PROVE  Stale(h)'
BY LockStays, DriftStays DEF Stale-----------------------------------------------------------------------------
(***************************************************************************)
(* Preservation, one conjunct of Inv at a time.                            *)
(***************************************************************************)

LEMMA KeepsCommitted ==
  ASSUME Inv, [Next]_vars
  PROVE  Committed'
<1> USE DEF Inv, Committed
<1>1. CASE \E u \in Uploads : UploadMoves(u)
  <2>1. PICK u \in Uploads : UploadMoves(u)
    BY <1>1
  <2>2. PICK r \in Row : row' = [row EXCEPT ![u] = r]
    BY <2>1, UploadEffect
  <2>3. PICK next \in UploadPC : pc' = [pc EXCEPT ![u] = next]
    BY <2>1, UploadEffect
  <2>4. u \notin docs
    BY <2>1, UploadEffect
  <2>5. CASE docs' = docs
    BY <2>2, <2>3, <2>4, <2>5 DEF TypeOK
  <2>6. CASE docs' = docs \cup {u} /\ row' = row /\ pc[u] = "persist" /\ pc'[u] = "saved"
    BY <2>3, <2>4, <2>6 DEF TypeOK, UploadKnows
  <2> QED
    BY <2>1, <2>5, <2>6, UploadEffect
<1>2. CASE \E c \in Commands : CommandMoves(c)
  BY <1>2, CommandEffect DEF uploadVars
<1>3. CASE Crash
  BY <1>3 DEF Crash, TypeOK
<1>4. CASE UNCHANGED vars
  BY <1>4 DEF vars
<1> QED
  BY <1>1, <1>2, <1>3, <1>4, NextCases

LEMMA KeepsUploadKnows ==
  ASSUME Inv, [Next]_vars
  PROVE  UploadKnows'
<1> USE DEF Inv
<1>0. Grows
  BY Growth
<1>1. CASE \E u \in Uploads : UploadMoves(u)
  <2>1. PICK u \in Uploads : UploadMoves(u)
    BY <1>1
  <2>2. SUFFICES ASSUME NEW v \in Uploads
                 PROVE  /\ pc'[v] = "lockcheck" =>
                             /\ row'[v].verdict \in {"done", "locked"}
                             /\ row'[v].verdict = "locked" => IsPeriodLocked(row[v].period)'
                        /\ pc'[v] \in {"content", "persist"} => row'[v].verdict = "done"
                        /\ pc'[v] = "refused" => IsPeriodLocked(row[v].period)'
    BY DEF UploadKnows
  <2>3. CASE v # u
    <3>1. row'[v] = row[v] /\ pc'[v] = pc[v]
      BY <2>1, <2>3, UploadEffect DEF TypeOK
    <3> QED
      BY <3>1, <1>0 DEF UploadKnows, IsPeriodLocked, Grows
  <2>4. CASE v = u /\ \E f \in Files : Receive(u, f)
    BY <2>4 DEF Receive, Goto, TypeOK
  <2>5. CASE v = u /\ \E c \in Clients : Assign(u, c)
    BY <2>5 DEF Assign, Goto, TypeOK
  <2>6. CASE v = u /\ ExtractAndRoute(u)
    BY <2>6 DEF ExtractAndRoute, Goto, TypeOK
  <2>7. CASE v = u /\ Verdict(u)
    <3>1. row'[u] = WithVerdict(row[u], IF IsPeriodLocked(row[u].period)
                                        THEN "locked" ELSE "done")
      BY <2>7 DEF Verdict, TypeOK
    <3>2. /\ row'[u].period = row[u].period
          /\ row'[u].verdict = IF IsPeriodLocked(row[u].period) THEN "locked" ELSE "done"
      BY <3>1, WithVerdictFields DEF TypeOK
    <3> QED
      BY <2>7, <3>2, <1>0, LockStays DEF Verdict, Goto, TypeOK
  <2>8. CASE v = u /\ UNCHANGED row /\ UploadStep(u)
    <3>1. CASE LockCheck(u)
      BY <1>0, <2>8, <3>1 DEF LockCheck, Goto, TypeOK, UploadKnows, IsPeriodLocked, Grows
    <3>2. CASE ContentCheck(u)
      BY <2>8, <3>2 DEF ContentCheck, Goto, TypeOK, UploadKnows
    <3>3. CASE EarlyDedup(u) \/ ExtractFails(u) \/ Persist(u) \/ PersistFails(u)
      BY <2>8, <3>3 DEF EarlyDedup, ExtractFails, Persist, PersistFails, Goto, TypeOK
    <3> QED
      BY <2>8, <2>6, <2>7, <3>1, <3>2, <3>3 DEF UploadStep
  <2> QED
    BY <2>1, <2>3, <2>4, <2>5, <2>6, <2>7, <2>8 DEF UploadMoves, UploadStep, EarlyDedup,
       ExtractFails, LockCheck, ContentCheck, Persist, PersistFails
<1>2. CASE \E c \in Commands : CommandMoves(c)
  BY <1>0, <1>2, CommandEffect, LockStays DEF uploadVars, UploadKnows
<1>3. CASE Crash
  BY <1>0, <1>3, LockStays DEF Crash, TypeOK, UploadKnows
<1>4. CASE UNCHANGED vars
  BY <1>0, <1>4, LockStays DEF vars, UploadKnows
<1> QED
  BY <1>1, <1>2, <1>3, <1>4, NextCases

LEMMA KeepsLockedContent ==
  ASSUME Inv, [Next]_vars
  PROVE  LockedContentWasShown'
<1> USE DEF Inv
<1>0. Grows
  BY Growth
<1>1. CASE approval' = approval
  BY <1>0, <1>1, DocsGrow DEF LockedContentWasShown, Grows
<1>2. CASE \E c \in Commands : CommitApproval(c)
  <2>1. PICK c \in Commands : CommitApproval(c)
    BY <1>2
  <2>2. /\ at[c] = want[c][1] /\ intent[c] = want[c]
        /\ want[c] \in prompted /\ at[c] \in Periods
    BY <2>1 DEF CommitApproval, CommandKnows, Confirming, Matched, Looking
  <2>3. /\ approval' = [approval EXCEPT ![at[c]] = want[c][2]]
        /\ UNCHANGED <<prompted, docs, row>>
    BY <2>1, <2>2 DEF CommitApproval, uploadVars
  <2>4. want[c] = <<at[c], want[c][2]>>
    BY <2>2 DEF TypeOK
  <2>5. want[c][2] \subseteq DocsOf(at[c])
    BY <2>2 DEF PromptsAreStored
  <2> QED
    BY <2>2, <2>3, <2>4, <2>5 DEF LockedContentWasShown, TypeOK, DocsOf
<1> QED
  BY <1>1, <1>2, NextCases, UploadEffect, CommandEffect
  DEF commandVars, Crash, vars

LEMMA KeepsPromptsAreStored ==
  ASSUME Inv, [Next]_vars
  PROVE  PromptsAreStored'
<1> USE DEF Inv
<1>0. Grows
  BY Growth
<1>1. CASE prompted' = prompted
  BY <1>0, <1>1, DocsGrow DEF PromptsAreStored
<1>2. CASE \E c \in Commands : prompted' = prompted \cup {Snapshot(at[c])}
  BY <1>0, <1>2, DocsGrow DEF PromptsAreStored, Snapshot
<1> QED
  BY <1>1, <1>2, NextCases, UploadEffect, CommandEffect
  DEF commandVars, Crash, vars
LEMMA KeepsCommandKnows ==
  ASSUME Inv, [Next]_vars
  PROVE  CommandKnows'
<1> USE DEF Inv, CommandKnows, Looking, Confirming, Matched
<1>0. Grows
  BY Growth
<1>1. CASE UNCHANGED <<cpc, want, at, intent>>
  BY <1>0, <1>1 DEF Grows, IsPeriodLocked
<1>2. CASE \E c \in Commands : CommandMoves(c)
  <2>1. PICK c \in Commands : CommandMoves(c)
    BY <1>2
  <2>2. SUFFICES ASSUME NEW d \in Commands
                 PROVE  /\ cpc'[d] \in Looking => at'[d] \in Periods
                        /\ cpc'[d] \in Confirming => want'[d] \in prompted'
                        /\ cpc'[d] \in Matched => at'[d] = want'[d][1]
                        /\ cpc'[d] \in {"insert", "commit"} => intent'[d] = want'[d]
                        /\ cpc'[d] = "refused" => IsPeriodLocked(at[d])'
    OBVIOUS
  <2>3. CASE d # c
    <3>1. /\ cpc'[d] = cpc[d] /\ want'[d] = want[d]
          /\ at'[d] = at[d] /\ intent'[d] = intent[d]
      BY <2>1, <2>3, CommandEffect
    <3> QED
      BY <3>1, <1>0 DEF Grows, IsPeriodLocked
  <2>4. CASE d = c
    <3> USE <1>0, <2>4 DEF TypeOK, CGoto, Grows, IsPeriodLocked
    <3>1. CASE \E p \in Periods : ApproveText(c, p)
      BY <3>1 DEF ApproveText
    <3>2. CASE \E h \in prompted : ConfirmText(c, h)
      BY <3>2 DEF ConfirmText
    <3>3. CASE ParseLockCheck(c)
      BY <3>3 DEF ParseLockCheck
    <3>4. CASE ParseSnapshot(c)
      BY <3>4 DEF ParseSnapshot
    <3>5. CASE ListPeriods(c)
      BY <3>5 DEF ListPeriods
    <3>6. CASE \E p \in Periods : ScanLockCheck(c, p)
      BY <3>6 DEF ScanLockCheck
    <3>7. CASE ScanSnapshot(c)
      BY <3>7 DEF ScanSnapshot, Snapshot
    <3>8. CASE ScanExhausted(c)
      BY <3>8 DEF ScanExhausted
    <3>9. CASE RecheckLock(c)
      BY <3>9 DEF RecheckLock
    <3>10. CASE RecheckSnapshot(c)
      BY <3>10 DEF RecheckSnapshot
    <3>11. CASE InsertApproval(c)
      BY <3>11 DEF InsertApproval
    <3>12. CASE InsertConflicts(c)
      BY <3>12 DEF InsertConflicts
    <3>13. CASE CommitApproval(c) \/ CommitFails(c)
      BY <3>13 DEF CommitApproval, CommitFails
    <3> QED
      BY <2>1, <3>1, <3>2, <3>3, <3>4, <3>5, <3>6, <3>7, <3>8, <3>9, <3>10, <3>11,
         <3>12, <3>13 DEF CommandMoves, CommandStep
  <2> QED
    BY <2>3, <2>4
<1>3. CASE Crash
  BY <1>0, <1>3 DEF Crash, TypeOK, Grows, IsPeriodLocked
<1> QED
  BY <1>1, <1>2, <1>3, NextCases, UploadEffect DEF commandVars, vars

LEMMA KeepsKeyHolder ==
  ASSUME Inv, [Next]_vars
  PROVE  KeyHolder'
<1> USE DEF Inv, KeyHolder
<1>1. CASE UNCHANGED <<cpc, at, inserting, approval>>
  BY <1>1
<1>2. CASE \E c \in Commands : CommandMoves(c)
  <2>1. PICK c \in Commands : CommandMoves(c)
    BY <1>2
  <2> USE DEF TypeOK, CGoto
  <2>2. CASE InsertApproval(c)
    BY <2>2, NoneIsNoCommand DEF InsertApproval, CommandKnows, Looking
  <2>3. CASE CommitApproval(c)
    BY <2>3, NoneIsNoCommand DEF CommitApproval, CommandKnows, Looking
  <2>4. CASE CommitFails(c)
    BY <2>4, NoneIsNoCommand DEF CommitFails, CommandKnows, Looking
  <2>5. CASE /\ UNCHANGED <<inserting, approval>>
             /\ cpc[c] # "commit" /\ cpc'[c] # "commit"
    BY <2>1, <2>5, CommandEffect
  <2>6. CASE ParseLockCheck(c) \/ ParseSnapshot(c) \/ ListPeriods(c)
    BY <2>5, <2>6 DEF ParseLockCheck, ParseSnapshot, ListPeriods
  <2>7. CASE ScanSnapshot(c) \/ ScanExhausted(c) \/ RecheckLock(c) \/ RecheckSnapshot(c)
             \/ InsertConflicts(c)
    BY <2>5, <2>7 DEF ScanSnapshot, ScanExhausted, RecheckLock, RecheckSnapshot,
       InsertConflicts
  <2>8. CASE \E p \in Periods : ApproveText(c, p) \/ ScanLockCheck(c, p)
    BY <2>5, <2>8 DEF ApproveText, ScanLockCheck
  <2>9. CASE \E h \in prompted : ConfirmText(c, h)
    BY <2>5, <2>9 DEF ConfirmText
  <2> QED
    BY <2>1, <2>2, <2>3, <2>4, <2>6, <2>7, <2>8, <2>9 DEF CommandMoves, CommandStep
<1>3. CASE Crash
  BY <1>3, NoneIsNoCommand DEF Crash, TypeOK
<1> QED
  BY <1>1, <1>2, <1>3, NextCases, UploadEffect DEF commandVars, vars
(* The scan's argument: a prompt that listed documents names a period that *)
(* still holds them, so ListPeriods puts it on the list; it leaves the     *)
(* list only to be found locked, changed, or equal.                        *)
LEMMA KeepsScanKnows ==
  ASSUME Inv, [Next]_vars
  PROVE  ScanKnows'
<1> USE DEF Inv
<1>0. Grows
  BY Growth
<1>1. ASSUME NEW d \in Commands,
             cpc'[d] = cpc[d], want'[d] = want[d], todo'[d] = todo[d], at'[d] = at[d]
      PROVE  /\ cpc'[d] = "drifted" => (Snapshot(want[d][1]) # want[d])'
             /\ cpc'[d] = "nomatch" /\ want'[d][2] # {} => Stale(want[d])'
             /\ cpc'[d] \in {"scan", "match"} /\ want'[d][2] # {} =>
                  \/ Stale(want[d])'
                  \/ want'[d][1] \in todo'[d]
                  \/ cpc'[d] = "match" /\ at'[d] = want'[d][1]
  <2>1. SUFFICES ASSUME cpc[d] \in {"drifted", "nomatch", "scan", "match"}
                 PROVE  /\ Snapshot(want[d][1]) # want[d] =>
                              (Snapshot(want[d][1]) # want[d])'
                        /\ Stale(want[d]) => Stale(want[d])'
    BY <1>1 DEF ScanKnows
  <2>2. PICK h \in prompted : want[d] = h
    BY <2>1 DEF CommandKnows, Confirming
  <2>3. want'[d] = h
    BY <1>1, <2>2
  <2>4. Snapshot(h[1]) # h => (Snapshot(h[1]) # h)'
    BY <1>0, DriftStays
  <2>5. Stale(h) => Stale(h)'
    BY <1>0, StaleStays
  <2> QED
    BY <2>2, <2>3, <2>4, <2>5 DEF Snapshot, Stale, DocsOf, IsPeriodLocked
<1>2. CASE UNCHANGED <<cpc, want, todo, at>>
  BY <1>1, <1>2 DEF ScanKnows
<1>3. CASE \E c \in Commands : CommandMoves(c)
  <2>1. PICK c \in Commands : CommandMoves(c)
    BY <1>3
  <2>2. ASSUME NEW d \in Commands, d # c
        PROVE  cpc'[d] = cpc[d] /\ want'[d] = want[d] /\ todo'[d] = todo[d] /\ at'[d] = at[d]
    BY <2>1, <2>2, CommandEffect
  <2>3. SUFFICES
          /\ cpc'[c] = "drifted" => (Snapshot(want[c][1]) # want[c])'
          /\ cpc'[c] = "nomatch" /\ want'[c][2] # {} => Stale(want[c])'
          /\ cpc'[c] \in {"scan", "match"} /\ want'[c][2] # {} =>
               \/ Stale(want[c])'
               \/ want'[c][1] \in todo'[c]
               \/ cpc'[c] = "match" /\ at'[c] = want'[c][1]
    BY <1>1, <2>2 DEF ScanKnows
  <2> USE DEF TypeOK, CGoto, uploadVars
  <2>4. CASE cpc'[c] \notin {"drifted", "nomatch", "scan", "match"}
    BY <2>4
  <2>5. CASE ListPeriods(c)
    <3>1. PICK p \in Periods, S \in SUBSET Uploads : want[c] = <<p, S>> /\ S \subseteq DocsOf(p)
      BY <2>5 DEF ListPeriods, CommandKnows, Confirming, PromptsAreStored
    <3>2. S # {} => p \in {row[d].period : d \in docs} \ {None}
      BY <3>1, NoneIsNoPeriod DEF DocsOf
    <3> QED
      BY <2>5, <3>1, <3>2 DEF ListPeriods
  <2>6. CASE \E p \in Periods : ScanLockCheck(c, p)
    BY <2>6 DEF ScanLockCheck, ScanKnows, Stale, IsPeriodLocked, Snapshot, DocsOf
  <2>7. CASE ScanSnapshot(c)
    BY <2>7 DEF ScanSnapshot, ScanKnows, Stale, IsPeriodLocked, Snapshot, DocsOf
  <2>8. CASE ScanExhausted(c)
    BY <2>8 DEF ScanExhausted, ScanKnows, Stale, IsPeriodLocked, Snapshot, DocsOf
  <2>9. CASE RecheckSnapshot(c)
    BY <2>9 DEF RecheckSnapshot, CommandKnows, Matched, Snapshot, DocsOf
  <2>10. CASE (\E p \in Periods : ApproveText(c, p)) \/ (\E h \in prompted : ConfirmText(c, h))
    BY <2>4, <2>10 DEF ApproveText, ConfirmText
  <2>11. CASE ParseLockCheck(c) \/ ParseSnapshot(c) \/ RecheckLock(c)
    BY <2>4, <2>11 DEF ParseLockCheck, ParseSnapshot, RecheckLock
  <2>12. CASE InsertApproval(c) \/ InsertConflicts(c) \/ CommitApproval(c) \/ CommitFails(c)
    BY <2>4, <2>12 DEF InsertApproval, InsertConflicts, CommitApproval, CommitFails
  <2> QED
    BY <2>1, <2>5, <2>6, <2>7, <2>8, <2>9, <2>10, <2>11, <2>12 DEF CommandMoves, CommandStep
<1>4. CASE Crash
  <2>1. ASSUME NEW d \in Commands
        PROVE  \/ cpc'[d] = cpc[d] /\ want'[d] = want[d] /\ todo'[d] = todo[d] /\ at'[d] = at[d]
               \/ cpc'[d] = "lost"
    BY <1>4 DEF Crash, TypeOK
  <2> QED
    BY <1>1, <2>1 DEF ScanKnows
<1> QED
  BY <1>2, <1>3, <1>4, NextCases, UploadEffect DEF commandVars, vars
-----------------------------------------------------------------------------
(***************************************************************************)
(* The inductive invariant and what follows from it.                       *)
(***************************************************************************)

LEMMA InvInit == Init => Inv
<1> SUFFICES ASSUME Init PROVE Inv
  OBVIOUS
<1>1. TypeOK
  BY TypeInit
<1>2. Committed /\ UploadKnows /\ PromptsAreStored /\ LockedContentWasShown
  BY DEF Init, Committed, UploadKnows, PromptsAreStored, LockedContentWasShown
<1>3. CommandKnows /\ KeyHolder /\ ScanKnows
  BY NoneIsNoCommand DEF Init, CommandKnows, KeyHolder, ScanKnows, Looking, Confirming, Matched
<1> QED
  BY <1>1, <1>2, <1>3 DEF Inv

LEMMA InvNext == Inv /\ [Next]_vars => Inv'
BY TypeNext, KeepsCommitted, KeepsUploadKnows, KeepsLockedContent, KeepsPromptsAreStored,
   KeepsCommandKnows, KeepsKeyHolder, KeepsScanKnows DEF Inv

THEOREM Invariance == Spec => []Inv
BY InvInit, InvNext, PTL DEF Spec

(* Every variable keeps its type: the rows, the snapshots and the locks    *)
(* are the records the database schema describes.                          *)
THEOREM TypeCorrect == Spec => []TypeOK
<1>1. Inv => TypeOK
  BY DEF Inv
<1> QED
  BY <1>1, Invariance, PTL
(* Whatever is locked is what the CA was shown, and it is all stored.      *)
THEOREM LockedContent == Spec => []LockedContentWasShown
<1>1. Inv => LockedContentWasShown
  BY DEF Inv
<1> QED
  BY <1>1, Invariance, PTL

(* Every refusal sent to the CA -- locked, drifted, nothing to confirm --  *)
(* is true when it is sent and stays true.                                 *)
THEOREM TrueRefusals == Spec => []RefusalsAreTrue
<1>1. Inv => RefusalsAreTrue
  BY DEF Inv, UploadKnows, CommandKnows, ScanKnows, Stale, RefusalsAreTrue
<1> QED
  BY <1>1, Invariance, PTL

(* The tax engine's refusal of a locked period is followed by the lock     *)
(* check's: no row is stored that the lock kept from being judged.         *)
THEOREM StoredIsJudged == Spec => []NoRowWithoutVerdictFromLock
<1>1. Inv => NoRowWithoutVerdictFromLock
  BY DEF Inv, Committed, NoRowWithoutVerdictFromLock
<1> QED
  BY <1>1, Invariance, PTL

(* The unique key of filing_approvals has one holder at a time.            *)
THEOREM OneHolder == Spec => []OneApprovalInFlight
<1>1. Inv => OneApprovalInFlight
  <2> SUFFICES ASSUME Inv PROVE OneApprovalInFlight
    OBVIOUS
  <2>1. ASSUME NEW c \in Commands, NEW d \in Commands,
               cpc[c] = "commit", cpc[d] = "commit", at[c] = at[d]
        PROVE  c = d
    <3>1. at[c] \in Periods
      BY <2>1 DEF Inv, CommandKnows, Looking
    <3>2. inserting[at[c]] = c /\ inserting[at[c]] = d
      BY <2>1, <3>1 DEF Inv, KeyHolder
    <3> QED
      BY <3>2
  <2> QED
    BY <2>1 DEF Inv, KeyHolder, OneApprovalInFlight
<1> QED
  BY <1>1, Invariance, PTL

(* A lock, once committed, is never changed or removed.                    *)
THEOREM Irreversible == Spec => ApprovalIsForever
<1>1. Inv /\ [Next]_vars =>
        [\A p \in Periods : approval[p] # None => approval'[p] = approval[p]]_vars
  BY Growth DEF Grows
<1> QED
  BY <1>1, Invariance, PTL DEF Spec, ApprovalIsForever

(* Only the INSERT of a task that stands before it changes the rows.       *)
LEMMA RowsChangeByPersist ==
  ASSUME Inv, [Next]_vars
  PROVE  \/ docs' = docs /\ \A d \in docs : row'[d] = row[d]
         \/ \E u \in Uploads : /\ pc[u] = "persist" /\ row' = row
                              /\ docs' = docs \cup {u} /\ u \notin docs
<1>1. Grows
  BY Growth
<1>2. CASE \E u \in Uploads : UploadMoves(u)
  BY <1>1, <1>2, UploadEffect DEF Grows, Inv, Committed
<1>3. CASE docs' = docs
  BY <1>1, <1>3 DEF Grows
<1> QED
  BY <1>2, <1>3, NextCases, CommandEffect DEF uploadVars, Crash, vars, Inv

(* Who moves on to the content check has read that its period is open.     *)
LEMMA LockChecksClose ==
  ASSUME Inv, [Next]_vars, NEW p \in Periods, approval[p] # None
  PROVE  PastLockCheck(p)' \subseteq PastLockCheck(p)
<1> USE DEF Inv
<1>1. SUFFICES ASSUME NEW v \in Uploads, pc'[v] \in {"content", "persist"}, row'[v].period = p
               PROVE  pc[v] \in {"content", "persist"} /\ row[v].period = p
  BY DEF PastLockCheck
<1>2. CASE \E u \in Uploads : UploadMoves(u)
  <2>1. PICK u \in Uploads : UploadMoves(u)
    BY <1>2
  <2>2. CASE v # u
    BY <1>1, <2>1, <2>2, UploadEffect DEF TypeOK
  <2>3. CASE v = u /\ row' = row /\ UploadStep(u)
    <3>1. CASE LockCheck(u)
      BY <1>1, <2>3, <3>1 DEF LockCheck, Goto, TypeOK, IsPeriodLocked
    <3>2. CASE ContentCheck(u)
      BY <1>1, <2>3, <3>2 DEF ContentCheck
    <3>3. CASE EarlyDedup(u) \/ ExtractFails(u) \/ Persist(u) \/ PersistFails(u)
      BY <1>1, <2>3, <3>3 DEF EarlyDedup, ExtractFails, Persist, PersistFails, Goto, TypeOK
    <3>4. CASE ExtractAndRoute(u) \/ Verdict(u)
      BY <1>1, <2>3, <3>4 DEF ExtractAndRoute, Verdict, Goto, TypeOK
    <3> QED
      BY <2>3, <3>1, <3>2, <3>3, <3>4 DEF UploadStep
  <2>4. CASE v = u /\ ((\E f \in Files : Receive(u, f)) \/ (\E c \in Clients : Assign(u, c))
                         \/ ExtractAndRoute(u) \/ Verdict(u))
    BY <1>1, <2>4 DEF Receive, Assign, ExtractAndRoute, Verdict, Goto, TypeOK
  <2> QED
    BY <2>1, <2>2, <2>3, <2>4 DEF UploadMoves, UploadStep, EarlyDedup, ExtractFails,
       LockCheck, ContentCheck, Persist, PersistFails
<1>3. CASE \E c \in Commands : CommandMoves(c)
  BY <1>1, <1>3, CommandEffect DEF uploadVars
<1>4. CASE Crash
  BY <1>1, <1>4 DEF Crash, TypeOK
<1>5. CASE UNCHANGED vars
  BY <1>1, <1>5 DEF vars
<1> QED
  BY <1>2, <1>3, <1>4, <1>5, NextCases

(* Who moves on to the INSERT has found no row of its invoice.             *)
LEMMA ContentChecksClose ==
  ASSUME Inv, [Next]_vars, NEW c \in Clients, NEW k \in Invoices, SameInvoice(c, k) # {}
  PROVE  PastContentCheck(c, k)' \subseteq PastContentCheck(c, k)
<1> USE DEF Inv
<1>1. SUFFICES ASSUME NEW v \in Uploads, pc'[v] = "persist",
                      row'[v].client = c, row'[v].key = k
               PROVE  pc[v] = "persist" /\ row[v].client = c /\ row[v].key = k
  BY DEF PastContentCheck
<1>2. CASE \E u \in Uploads : UploadMoves(u)
  <2>1. PICK u \in Uploads : UploadMoves(u)
    BY <1>2
  <2>2. CASE v # u
    BY <1>1, <2>1, <2>2, UploadEffect DEF TypeOK
  <2>3. CASE v = u /\ ContentCheck(u)
    BY <1>1, <2>3, NoneIsNoInvoice DEF ContentCheck, Goto, TypeOK
  <2>4. CASE v = u /\ ~ContentCheck(u)
    <3>1. pc'[u] # "persist"
      BY <2>1, <2>4 DEF UploadMoves, UploadStep, Receive, Assign, EarlyDedup, ExtractFails,
         ExtractAndRoute, Verdict, LockCheck, Persist, PersistFails, Goto, TypeOK
    <3> QED
      BY <1>1, <2>4, <3>1
  <2> QED
    BY <2>2, <2>3, <2>4
<1>3. CASE \E d \in Commands : CommandMoves(d)
  BY <1>1, <1>3, CommandEffect DEF uploadVars
<1>4. CASE Crash
  BY <1>1, <1>4 DEF Crash, TypeOK
<1>5. CASE UNCHANGED vars
  BY <1>1, <1>5 DEF vars
<1> QED
  BY <1>2, <1>3, <1>4, <1>5, NextCases

(* A locked period takes documents only from the tasks that had passed     *)
(* their lock check, and no task joins them: it is frozen once they end.   *)
THEOREM LockDrains == Spec => LockedPeriodDrains
<1>1. ASSUME Inv, [Next]_vars, NEW p \in Periods
      PROVE  DocsOf(p)' \subseteq DocsOf(p) \cup PastLockCheck(p)
  BY <1>1, RowsChangeByPersist DEF DocsOf, PastLockCheck
<1>2. Inv /\ [Next]_vars =>
        [\A p \in Periods : approval[p] # None =>
           /\ DocsOf(p)' \subseteq DocsOf(p) \cup PastLockCheck(p)
           /\ PastLockCheck(p)' \subseteq PastLockCheck(p)]_vars
  BY <1>1, LockChecksClose
<1> QED
  BY <1>2, Invariance, PTL DEF Spec, LockedPeriodDrains

(* A second row of an invoice needs a task that looked before the first.   *)
THEOREM NoDuplicateAlone == Spec => DuplicatesNeedOverlap
<1>1. ASSUME Inv, [Next]_vars, NEW c \in Clients, NEW k \in Invoices
      PROVE  SameInvoice(c, k)' \subseteq SameInvoice(c, k) \cup PastContentCheck(c, k)
  BY <1>1, RowsChangeByPersist DEF SameInvoice, PastContentCheck
<1>2. Inv /\ [Next]_vars =>
        [\A c \in Clients, k \in Invoices : SameInvoice(c, k) # {} =>
           /\ SameInvoice(c, k)' \subseteq SameInvoice(c, k) \cup PastContentCheck(c, k)
           /\ PastContentCheck(c, k)' \subseteq PastContentCheck(c, k)]_vars
  BY <1>1, ContentChecksClose
<1> QED
  BY <1>2, Invariance, PTL DEF Spec, DuplicatesNeedOverlap
-----------------------------------------------------------------------------
(***************************************************************************)
(* Refinement.  The steps of the protocol that the CA can tell apart are   *)
(* the INSERT of a document, the prompt and the COMMIT of an approval;     *)
(* each is the step of PeriodLock of the same meaning, and every other     *)
(* step of every task is a stutter.                                        *)
(***************************************************************************)

LEMMA RefinesInit == Init => PL!Init
BY DEF Init, PL!Init, DocsOf

LEMMA RefinesNext ==
  ASSUME Inv, [Next]_vars
  PROVE  [PL!Next]_(PL!vars)
<1> USE DEF Inv
<1>1. CASE docs' = docs /\ prompted' = prompted /\ approval' = approval
  <2>1. \A p \in Periods : DocsOf(p)' = DocsOf(p)
    BY <1>1, Growth DEF DocsOf, Grows
  <2> QED
    BY <1>1, <2>1 DEF PL!vars
<1>2. CASE \E u \in Uploads : UploadMoves(u)
  <2>1. PICK u \in Uploads : UploadMoves(u)
    BY <1>2
  <2>2. UNCHANGED <<prompted, approval>>
    BY <2>1, UploadEffect DEF commandVars
  <2>3. CASE docs' = docs \cup {u} /\ row' = row /\ pc[u] = "persist"
    <3>1. u \notin docs
      BY <2>3 DEF Committed
    <3>2. CASE row[u].period \in Periods
      <4>1. PL!File(row[u].period, u)
        BY <2>2, <2>3, <3>1, <3>2 DEF PL!File, DocsOf
      <4> QED
        BY <3>2, <4>1 DEF PL!Next
    <3>3. CASE row[u].period \notin Periods
      BY <2>2, <2>3, <3>3 DEF PL!vars, DocsOf
    <3> QED
      BY <3>2, <3>3
  <2> QED
    BY <1>1, <2>1, <2>2, <2>3, UploadEffect
<1>3. CASE \E c \in Commands : CommandMoves(c)
  <2>1. PICK c \in Commands : CommandMoves(c)
    BY <1>3
  <2>2. UNCHANGED <<docs, row>>
    BY <2>1, CommandEffect DEF uploadVars
  <2>3. CASE prompted' = prompted \cup {Snapshot(at[c])} /\ at[c] \in Periods
             /\ approval' = approval
    <3>1. PL!Show(at[c])
      BY <2>2, <2>3 DEF PL!Show, Snapshot, DocsOf
    <3> QED
      BY <2>3, <3>1 DEF PL!Next
  <2>4. CASE CommitApproval(c)
    <3>1. /\ at[c] = want[c][1] /\ intent[c] = want[c]
          /\ want[c] \in prompted /\ at[c] \in Periods
      BY <2>4 DEF CommitApproval, CommandKnows, Confirming, Matched, Looking
    <3>2. inserting[at[c]] = c
      BY <2>4, <3>1 DEF CommitApproval, KeyHolder
    <3>3. approval[at[c]] = None
      BY <3>1, <3>2, NoneIsNoCommand DEF KeyHolder
    <3>4. want[c] = <<at[c], want[c][2]>> /\ want[c][2] \in SUBSET Uploads
      BY <3>1 DEF TypeOK
    <3>5. PL!Lock(at[c])
      BY <2>2, <2>4, <3>1, <3>3, <3>4 DEF PL!Lock, CommitApproval, DocsOf
    <3> QED
      BY <3>1, <3>5 DEF PL!Next
  <2>5. prompted' = prompted \/ approval' = approval
    BY <2>1, CommandEffect DEF CommitApproval
  <2> QED
    BY <1>1, <2>1, <2>2, <2>3, <2>4, <2>5, CommandEffect
<1> QED
  BY <1>1, <1>2, <1>3, NextCases DEF Crash, vars

(* The ledger, with its interleaved tasks, failures and crashes, does      *)
(* nothing to a filing period that PeriodLock does not allow.              *)
THEOREM Refinement == Spec => ImplementsPeriodLock
BY RefinesInit, RefinesNext, Invariance, PTL DEF Spec, ImplementsPeriodLock, PL!Spec
=============================================================================
