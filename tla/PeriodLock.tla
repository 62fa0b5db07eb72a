----------------------------- MODULE PeriodLock -----------------------------
(***************************************************************************)
(* What the filing-approval protocol promises, without saying how.         *)
(*                                                                         *)
(* A firm files documents under monthly periods.  The CA is shown the      *)
(* exact content of a period; a period can be locked once, and only on a   *)
(* content the CA was shown; nothing is ever unfiled, unshown or unlocked. *)
(* FilingLedger implements this specification (ImplementsPeriodLock).      *)
(***************************************************************************)
CONSTANTS Docs,      \* documents that may ever be filed
          Periods,   \* filing periods of the firm
          Open       \* the value of an unlocked period, not a set of documents

VARIABLES filed,     \* filed[p]: the documents stored under period p
          shown,     \* pairs <<p, S>>: the CA was shown S as the content of p
          lock       \* lock[p]: Open, or the frozen content of p

vars == <<filed, shown, lock>>

TypeOK ==
  /\ filed \in [Periods -> SUBSET Docs]
  /\ shown \subseteq Periods \X SUBSET Docs
  /\ lock \in [Periods -> {Open} \cup SUBSET Docs]

Init ==
  /\ filed = [p \in Periods |-> {}]
  /\ shown = {}
  /\ lock = [p \in Periods |-> Open]

(* A document is stored under one period. *)
File(p, d) ==
  /\ \A q \in Periods : d \notin filed[q]
  /\ filed' = [filed EXCEPT ![p] = @ \cup {d}]
  /\ UNCHANGED <<shown, lock>>

(* The current content of an open period is shown to the CA. *)
Show(p) ==
  /\ shown' = shown \cup {<<p, filed[p]>>}
  /\ UNCHANGED <<filed, lock>>

(* An open period is locked on some content the CA was shown. *)
Lock(p) ==
  /\ lock[p] = Open
  /\ \E S \in SUBSET Docs :
        /\ <<p, S>> \in shown
        /\ lock' = [lock EXCEPT ![p] = S]
  /\ UNCHANGED <<filed, shown>>

Next == \E p \in Periods :
          \/ \E d \in Docs : File(p, d)
          \/ Show(p)
          \/ Lock(p)

Spec == Init /\ [][Next]_vars
=============================================================================
