-------------------------- MODULE TaxEngineProofs --------------------------
(***************************************************************************)
(* For any documents, any rules and any TopK: the engine keeps its types,  *)
(* conserves tax, and what the law withholds is not claimed unless some    *)
(* rule forced it.                                                         *)
(***************************************************************************)
EXTENDS TaxEngine, SumTheorems

(* The sum of the three destinations at each line and at each rule.        *)
Split ==
  Ordinary /\ (pc \in {"lines", "rules"} \/ (pc = "done" /\ Modules(doc.type) # {})) =>
    /\ claim + defer + block = total
    /\ claim >= 0 /\ defer >= 0 /\ block >= 0

(* Before any line has been walked there is nothing to split.              *)
Untouched == pc = "start" => claim = 0 /\ defer = 0 /\ block = 0 /\ total = 0

Active == pc \in {"lines", "rules"} => Modules(doc.type) # {}

Inv == TypeOK /\ Split /\ Untouched /\ Active
-----------------------------------------------------------------------------
USE DEF input, walk, money

(* The document in hand is one of Document, its lines are lines.           *)
LEMMA DocType ==
  ASSUME TypeOK
  PROVE  /\ doc \in Document
         /\ Len(doc.lines) \in Nat
         /\ \A i \in 1..Len(doc.lines) : doc.lines[i].tax \in Int /\ doc.lines[i].taxable \in Int
<1>1. doc \in Document
  BY DocumentsType DEF TypeOK
<1>2. doc.lines \in Seq(Line)
  BY <1>1 DEF Document
<1>3. \A i \in 1..Len(doc.lines) : doc.lines[i] \in Line
  BY <1>2
<1>4. \A x \in Line : x.tax \in Int /\ x.taxable \in Int
  BY DEF Line
<1>5. Len(doc.lines) \in Nat
  BY <1>2
<1> QED
  BY <1>1, <1>3, <1>4, <1>5

(* Rounding a percentage leaves whole paise.                               *)
LEMMA PercentType == \A x \in Int : Percent(x, 2) \in Int /\ Percent(x, 5) \in Int
BY DEF Percent

LEMMA LineTypes ==
  ASSUME NEW l, l.tax \in Int, l.taxable \in Int
  PROVE  Blocked(l) \in Int /\ Residue(l) \in Int /\ Liability(l) \in Int
<1>1. Blocked(l) \in Int
  BY DEF Blocked
<1>2. Residue(l) \in Int
  BY <1>1 DEF Residue
<1>3. Percent(l.taxable, 5) \in Int
  BY PercentType, Zenon
<1>4. Liability(l) \in Int
  <2>1. \/ Liability(l) = 0 \/ Liability(l) = l.tax \/ Liability(l) = Percent(l.taxable, 5)
    BY Zenon DEF Liability
  <2>2. 0 \in Int
    OBVIOUS
  <2> QED
    BY <1>3, <2>1, <2>2, Zenon
<1> QED
  BY <1>1, <1>2, <1>4

LEMMA ShiftType ==
  ASSUME TypeOK, NEW a
  PROVE  Shift(a) \in Int
BY DEF TypeOK, Shift, Lesser

LEMMA InitInv == Init => Inv
<1> SUFFICES ASSUME Init PROVE Inv
  OBVIOUS
<1>1. order \in Seq(Rules) /\ applied \in [1..Len(order) -> BOOLEAN]
  BY DEF Init
<1>a. k \in Nat \ {0} /\ r \in Nat \ {0} /\ target \in Int /\ pc = "start"
      /\ claim \in Int /\ defer \in Int /\ block \in Int /\ rcm \in Int /\ tds \in Int
      /\ taxable \in Int /\ total \in Int /\ r = 1
  BY DEF Init
<1>b. doc \in Documents /\ stored \subseteq Rules /\ hit \in BOOLEAN
  BY Zenon DEF Init
<1>c. "start" # "rules"
  OBVIOUS
<1>d. pc \in {"start", "lines", "rules", "done", "refused"}
  BY <1>a
<1>2. TypeOK
  BY <1>1, <1>a, <1>b, <1>c, <1>d, Zenon DEF TypeOK
<1> QED
  BY <1>2 DEF Init, Inv, Split, Untouched, Active

(* The money of a rule stays whole numbers.                                *)
LEMMA ApplyTypes ==
  ASSUME TypeOK, Apply
  PROVE  claim' \in Int /\ defer' \in Int /\ block' \in Int /\ rcm' \in Int
<1>1. Shift("force_block") \in Int /\ Shift("force_claim") \in Int /\ Shift("force_defer") \in Int
  BY ShiftType
<1>2. CASE ForceBlock
  BY <1>1, <1>2 DEF ForceBlock, TypeOK, Lesser
<1>3. CASE ForceClaim
  BY <1>1, <1>3 DEF ForceClaim, TypeOK, Lesser
<1>4. CASE ForceDefer
  BY <1>1, <1>4 DEF ForceDefer, TypeOK
<1>5. CASE ChangeRcm(order[r].action)
  BY <1>5 DEF ChangeRcm, TypeOK
<1>6. CASE UNCHANGED <<claim, defer, block, rcm>>
  BY <1>6 DEF TypeOK
<1> QED
  BY <1>2, <1>3, <1>4, <1>5, <1>6 DEF Apply

LEMMA TypeNext == TypeOK /\ [Next]_vars => TypeOK'
<1> SUFFICES ASSUME TypeOK, [Next]_vars PROVE TypeOK'
  OBVIOUS
<1>1. CASE Start
  <2>1. PICK s : s \in Orders(Eligible(stored)) /\ order' = s
    BY <1>1 DEF Start
  <2>2. PICK n \in 0..TopK : s \in [1..n -> Eligible(stored)]
    BY <2>1 DEF Orders
  <2>3. Eligible(stored) \subseteq Rules
    BY DEF Eligible, TypeOK
  <2>4. s \in Seq(Rules) /\ Len(s) = n
    BY <2>2, <2>3, TopKType
  <2>5. order' \in Seq(Rules) /\ applied' \in [1..Len(order') -> BOOLEAN]
    BY <1>1, <2>1, <2>4 DEF Start
  <2>6. pc' \in {"refused", "done", "lines"}
    BY <1>1 DEF Start
  <2> QED
    BY <1>1, <2>5, <2>6 DEF Start, TypeOK
<1>2. CASE WalkLine
  <2> DEFINE l == doc.lines[k]
  <2>1. l.tax \in Int /\ l.taxable \in Int
    BY <1>2, DocType DEF WalkLine, TypeOK
  <2>2. Blocked(l) \in Int /\ Residue(l) \in Int /\ Liability(l) \in Int
    BY <2>1, LineTypes
  <2>3. /\ claim' \in Int /\ defer' \in Int /\ block' \in Int /\ rcm' \in Int
        /\ taxable' \in Int /\ total' \in Int
    <3> DEFINE x == Residue(l)  b == Blocked(l)  y == Liability(l)
               t == l.tax  v == l.taxable
               late == TimeBarred  cross == CrossPeriod
    <3>1. /\ claim' = claim + (IF late \/ cross THEN 0 ELSE x)
          /\ defer' = defer + (IF ~late /\ cross THEN x ELSE 0)
          /\ block' = block + b + (IF late THEN x ELSE 0)
          /\ rcm' = rcm + y
          /\ taxable' = taxable + v
          /\ total' = total + t
      BY <1>2, Zenon DEF WalkLine
    <3>2. x \in Int /\ b \in Int /\ y \in Int /\ t \in Int /\ v \in Int
      BY <2>1, <2>2, Zenon
    <3> HIDE DEF x, b, y, t, v, late, cross
    <3> QED
      BY <3>1, <3>2 DEF TypeOK
  <2>4. k' \in Nat \ {0}
    BY <1>2 DEF WalkLine, TypeOK
  <2> QED
    BY <1>2, <2>3, <2>4 DEF WalkLine, TypeOK
<1>3. CASE Withhold
  <2>1. Percent(taxable, 2) \in Int
    BY PercentType, Zenon DEF TypeOK
  <2>a. /\ tds' = Percent(taxable, 2) \/ tds' = 0
        /\ k' = 1
        /\ pc' = "done" \/ pc' = "rules"
    BY <1>3, Zenon DEF Withhold
  <2>2. tds' \in Int /\ k' \in Nat \ {0} /\ pc' \in {"done", "rules"}
    BY <2>1, <2>a
  <2>3. pc' = "rules" => r' = 1 /\ r' <= Len(order')
    <3>1. pc' = "rules" => order # <<>>
      BY <1>3 DEF Withhold
    <3>2. Len(order) \in Nat /\ (order # <<>> => Len(order) >= 1)
      BY DEF TypeOK
    <3> QED
      BY <1>3, <3>1, <3>2 DEF Withhold, TypeOK
  <2> QED
    BY <1>3, <2>2, <2>3 DEF Withhold, TypeOK
<1>4. CASE Aim
  <2>1. doc.lines[k].tax \in Int
    BY <1>4, DocType DEF Aim, TypeOK
  <2>a. \/ target' = target + doc.lines[k].tax /\ hit' = TRUE
        \/ target' = target /\ hit' = hit
    BY <1>4, Zenon DEF Aim
  <2>2. target' \in Int /\ hit' \in BOOLEAN /\ k' \in Nat \ {0}
    <3>1. k' = k + 1
      BY <1>4, Zenon DEF Aim
    <3>4. k' \in Nat \ {0}
      BY <3>1 DEF TypeOK
    <3> DEFINE y == doc.lines[k].tax
    <3>2. y \in Int
      BY <2>1
    <3>3. \/ target' = target + y /\ hit' = TRUE
          \/ target' = target /\ hit' = hit
      BY <2>a, Zenon
    <3> HIDE DEF y
    <3>5. target \in Int /\ hit \in BOOLEAN
      BY Zenon DEF TypeOK
    <3>6. hit' \in BOOLEAN
      BY <3>3, <3>5, Zenon
    <3>7. target' = target + y \/ target' = target
      BY <3>3, Zenon
    <3>8. target' \in Int
      BY <3>2, <3>5, <3>7
    <3> QED
      BY <3>4, <3>6, <3>8
  <2> QED
    BY <1>4, <2>2 DEF Aim, TypeOK
<1>5. CASE Apply
  <2>1. claim' \in Int /\ defer' \in Int /\ block' \in Int /\ rcm' \in Int
    BY <1>5, ApplyTypes
  <2>2. Applies(order[r].action) \in BOOLEAN
    BY DEF Applies, TypeOK
  <2>3. applied' \in [1..Len(order) -> BOOLEAN]
    BY <1>5, <2>2 DEF Apply, TypeOK
  <2>4. r' \in Nat \ {0} /\ pc' \in {"rules", "done"} /\ (pc' = "rules" => r' <= Len(order))
    BY <1>5 DEF Apply, NextRule, TypeOK
  <2>5. /\ k' = 1 /\ hit' = FALSE /\ target' = 0
        /\ doc' = doc /\ stored' = stored /\ order' = order /\ tds' = tds
        /\ taxable' = taxable /\ total' = total
    BY <1>5, Zenon DEF Apply
  <2>6. /\ doc' \in Documents /\ stored' \subseteq Rules /\ order' \in Seq(Rules)
        /\ applied' \in [1..Len(order') -> BOOLEAN]
    BY <2>3, <2>5, Zenon DEF TypeOK
  <2>7. k' \in Nat \ {0} /\ hit' \in BOOLEAN /\ target' \in Int
    <3>1. k' \in Nat \ {0} /\ target' \in Int
      BY <2>5
    <3>2. hit' \in BOOLEAN
      BY <2>5, Zenon
    <3> QED
      BY <3>1, <3>2
  <2>8. /\ pc' \in {"start", "lines", "rules", "done", "refused"}
        /\ pc' \in {"start", "lines"} => r' = 1
        /\ pc' = "rules" => r' <= Len(order')
    BY <2>4, <2>5
  <2>9. tds' \in Int /\ taxable' \in Int /\ total' \in Int
    BY <2>5, Zenon DEF TypeOK
  <2> QED
    BY <2>1, <2>4, <2>6, <2>7, <2>8, <2>9, Zenon DEF TypeOK
<1>6. CASE UNCHANGED vars
  BY <1>6 DEF vars, TypeOK
<1> QED
  BY <1>1, <1>2, <1>3, <1>4, <1>5, <1>6 DEF Next
-----------------------------------------------------------------------------
(* No step changes the document or the rules of the firm.                  *)
LEMMA InputStays == [Next]_vars => doc' = doc /\ (Ordinary' <=> Ordinary)
<1> SUFFICES ASSUME [Next]_vars PROVE doc' = doc /\ (Ordinary' <=> Ordinary)
  OBVIOUS
<1>1. doc' = doc
  BY Zenon DEF Next, Start, WalkLine, Withhold, Aim, Apply, vars
<1> QED
  BY <1>1, Zenon DEF Ordinary

(* What is left of a line and what is blocked of it make up its tax.       *)
LEMMA LineSplit ==
  ASSUME TypeOK, Modules(doc.type) # {}, NEW l, l.tax \in Int, l.tax >= 0
  PROVE  /\ Residue(l) >= 0 /\ Blocked(l) >= 0
         /\ Residue(l) + Blocked(l) = l.tax
<1>1. doc.type \in DocTypes
  BY DocType, Zenon DEF Document
<1>2. Runs("itc") \/ (doc.type = "RESTAURANT" /\ Runs("blocked"))
  <2> DEFINE t == doc.type
  <2>1. Modules(t) # {} /\ t \in DocTypes
    BY <1>1
  <2> HIDE DEF t
  <2>2. "itc" \in Modules(t) \/ (t = "RESTAURANT" /\ "blocked" \in Modules(t))
    BY <2>1 DEF Modules, DocTypes
  <2> QED
    BY <2>2 DEF t, Runs
<1> DEFINE t == l.tax  b == Blocked(l)  x == Residue(l)
<1>3. /\ b = t \/ b = 0
      /\ (doc.type = "RESTAURANT" /\ Runs("blocked")) => b = t
  BY Zenon DEF Blocked, IsBlocked
<1>4. /\ Runs("itc") /\ t > b => x = t - b
      /\ ~(Runs("itc") /\ t > b) => x = 0
  BY Zenon DEF Residue
<1>5. t \in Int /\ t >= 0
  OBVIOUS
<1> HIDE DEF t, b, x
<1>6. x >= 0 /\ b >= 0 /\ x + b = t
  BY <1>2, <1>3, <1>4, <1>5
<1> QED
  BY <1>6 DEF t, b, x

(* A rule moves tax from one place to another and leaves none negative.    *)
LEMMA ApplySplit ==
  ASSUME TypeOK, Apply, claim >= 0, defer >= 0, block >= 0
  PROVE  /\ claim' + defer' + block' = claim + defer + block
         /\ claim' >= 0 /\ defer' >= 0 /\ block' >= 0
<1>0. claim \in Int /\ defer \in Int /\ block \in Int /\ target \in Int
  BY Zenon DEF TypeOK
<1>1. CASE Applies("force_block") /\ ForceBlock
  <2>1. Shift("force_block") = Lesser(claim + defer, target)
    BY Zenon DEF Shift
  <2>2. Shift("force_block") > 0
    BY <1>1 DEF Applies
  <2> QED
    BY <1>0, <1>1, <2>1, <2>2 DEF ForceBlock, Lesser
<1>2. CASE Applies("force_claim") /\ ForceClaim
  <2>1. Shift("force_claim") = Lesser(defer + block, target)
    BY DEF Shift
  <2>2. Shift("force_claim") > 0
    BY <1>2 DEF Applies
  <2> QED
    BY <1>0, <1>2, <2>1, <2>2 DEF ForceClaim, Lesser
<1>3. CASE Applies("force_defer") /\ ForceDefer
  <2>1. Shift("force_defer") = Lesser(claim, target)
    BY DEF Shift
  <2>2. Shift("force_defer") > 0
    BY <1>3 DEF Applies
  <2> QED
    BY <1>0, <1>3, <2>1, <2>2 DEF ForceDefer, Lesser
<1>4. CASE UNCHANGED <<claim, defer, block>>
  BY <1>0, <1>4
<1>5. \/ Applies("force_block") /\ ForceBlock
      \/ Applies("force_claim") /\ ForceClaim
      \/ Applies("force_defer") /\ ForceDefer
      \/ UNCHANGED <<claim, defer, block>>
  BY Zenon DEF Apply, ChangeRcm
<1> QED
  BY <1>1, <1>2, <1>3, <1>4, <1>5

LEMMA InvNext == Inv /\ [Next]_vars => Inv'
<1> SUFFICES ASSUME Inv, [Next]_vars PROVE Inv'
  OBVIOUS
<1>t. TypeOK /\ TypeOK'
  BY TypeNext DEF Inv
<1>d. doc' = doc /\ (Ordinary' <=> Ordinary)
  BY InputStays
<1>i. /\ claim \in Int /\ defer \in Int /\ block \in Int /\ total \in Int
      /\ claim' \in Int /\ defer' \in Int /\ block' \in Int /\ total' \in Int
  BY <1>t, Zenon DEF TypeOK
<1> DEFINE M == Modules(doc.type)
<1> HIDE DEF M
<1>s. /\ Ordinary /\ (pc \in {"lines", "rules"} \/ (pc = "done" /\ M # {})) =>
           claim + defer + block = total /\ claim >= 0 /\ defer >= 0 /\ block >= 0
      /\ pc = "start" => claim = 0 /\ defer = 0 /\ block = 0 /\ total = 0
      /\ pc \in {"lines", "rules"} => M # {}
  BY Zenon DEF Inv, Split, Untouched, Active, M
<1>p. (/\ Ordinary /\ (pc' \in {"lines", "rules"} \/ (pc' = "done" /\ M # {})) =>
            claim' + defer' + block' = total' /\ claim' >= 0 /\ defer' >= 0 /\ block' >= 0
       /\ pc' = "start" => claim' = 0 /\ defer' = 0 /\ block' = 0 /\ total' = 0
       /\ pc' \in {"lines", "rules"} => M # {})
  <2>1. CASE Start
    <3>1. /\ pc = "start"
          /\ claim' = claim /\ defer' = defer /\ block' = block /\ total' = total
      BY <2>1, Zenon DEF Start
    <3>2. pc' = "refused" \/ pc' = "done" \/ (pc' = "lines" /\ M # {})
      <4> DEFINE shut == doc.month # None /\ doc.month \in doc.locked
      <4>1. pc' = CASE shut -> "refused" [] ~shut /\ M = {} -> "done" [] OTHER -> "lines"
        BY <2>1, Zenon DEF Start, M
      <4> HIDE DEF shut
      <4> QED
        BY <4>1
    <3> QED
      BY <1>s, <3>1, <3>2
  <2>2. CASE WalkLine
    <3> DEFINE l == doc.lines[k]
    <3>1. l.tax \in Int
      BY <1>t, <2>2, DocType DEF WalkLine, TypeOK
    <3>2. pc = "lines" /\ pc' = "lines"
      BY <2>2, Zenon DEF WalkLine
    <3>3. Ordinary => l.tax >= 0
      BY <1>t, <2>2, DocType DEF Ordinary, WalkLine, TypeOK
    <3>4. M # {}
      BY <1>s, <3>2
    <3>5. Ordinary => /\ Residue(l) >= 0 /\ Blocked(l) >= 0
                      /\ Residue(l) + Blocked(l) = l.tax
      <4> HIDE DEF l
      <4> QED
        BY <1>t, <3>1, <3>3, <3>4, LineSplit DEF M
    <3> DEFINE x == Residue(l)  b == Blocked(l)  t == l.tax
               late == TimeBarred  cross == CrossPeriod
    <3>6. /\ claim' = claim + (IF late \/ cross THEN 0 ELSE x)
          /\ defer' = defer + (IF ~late /\ cross THEN x ELSE 0)
          /\ block' = block + b + (IF late THEN x ELSE 0)
          /\ total' = total + t
      BY <2>2, Zenon DEF WalkLine
    <3>7. (Ordinary => x >= 0 /\ b >= 0 /\ x + b = t) /\ t \in Int /\ x \in Int /\ b \in Int
      <4>1. \A y : y.tax \in Int /\ y.taxable \in Int => Blocked(y) \in Int /\ Residue(y) \in Int
        BY LineTypes, Zenon
      <4>2. l.taxable \in Int
        BY <1>t, <2>2, DocType DEF WalkLine, TypeOK
      <4>3. x \in Int /\ b \in Int
        BY <3>1, <4>1, <4>2, Zenon
      <4> QED
        BY <3>1, <3>5, <4>3, Zenon
    <3> HIDE DEF l, x, b, t, late, cross
    <3> QED
      BY <1>i, <1>s, <3>2, <3>4, <3>6, <3>7
  <2>3. CASE Withhold
    <3>1. /\ pc = "lines" /\ (pc' = "done" \/ pc' = "rules")
          /\ claim' = claim /\ defer' = defer /\ block' = block /\ total' = total
      BY <2>3, Zenon DEF Withhold
    <3> QED
      BY <1>s, <3>1
  <2>4. CASE Aim
    <3>1. /\ pc = "rules" /\ pc' = "rules"
          /\ claim' = claim /\ defer' = defer /\ block' = block /\ total' = total
      BY <2>4, Zenon DEF Aim
    <3> QED
      BY <1>s, <3>1
  <2>5. CASE Apply
    <3>1. pc = "rules" /\ (pc' = "done" \/ pc' = "rules") /\ total' = total
      BY <2>5, Zenon DEF Apply, NextRule
    <3>2. Ordinary => /\ claim' + defer' + block' = claim + defer + block
                      /\ claim' >= 0 /\ defer' >= 0 /\ block' >= 0
      <4>1. Ordinary => claim >= 0 /\ defer >= 0 /\ block >= 0
        BY <1>s, <3>1
      <4> QED
        BY <1>t, <2>5, <4>1, ApplySplit, Zenon
    <3> QED
      BY <1>i, <1>s, <3>1, <3>2
  <2>6. CASE UNCHANGED vars
    <3>1. /\ pc' = pc
          /\ claim' = claim /\ defer' = defer /\ block' = block /\ total' = total
      BY <2>6, Zenon DEF vars
    <3> QED
      BY <1>s, <3>1
  <2> QED
    BY <2>1, <2>2, <2>3, <2>4, <2>5, <2>6, Zenon DEF Next
<1> QED
  BY <1>t, <1>d, <1>p, Zenon DEF Inv, Split, Untouched, Active, M

(* The engine keeps its types, whatever the documents and the rules.       *)
THEOREM TaxTypes == Spec => []TypeOK
<1>1. Inv => TypeOK
  BY DEF Inv
<1> QED
  BY <1>1, InitInv, InvNext, PTL DEF Spec

(* Every rupee of tax is claimed, deferred or blocked, once, after any     *)
(* number of lines and any sequence of rules: compute_verdict with         *)
(* _apply_directives neither loses nor creates tax.                        *)
THEOREM Conservation == Spec => []TaxIsConserved
<1>1. Inv => TaxIsConserved
  BY Zenon DEF Inv, Split, TaxIsConserved
<1> QED
  BY <1>1, InitInv, InvNext, PTL DEF Spec
-----------------------------------------------------------------------------
(* The second argument: a rule has no mark in the audit trail before its   *)
(* turn, so that a forced claim, once marked, stays marked.                *)
Withheld ==
  \/ TimeBarred
  \/ Runs("blocked") /\ \A i \in 1..Len(doc.lines) : IsBlocked(doc.lines[i])

NoForcedClaim == \A i \in 1..Len(order) : applied[i] => order[i].action # "force_claim"

Unmarked == pc \in {"lines", "rules"} => \A i \in r..Len(order) : applied[i] = FALSE

WithheldInv == Inv /\ Unmarked /\ (Withheld /\ NoForcedClaim => claim = 0 /\ defer = 0)

(* A withheld line adds nothing to the claim or to the deferred amount.    *)
LEMMA WithheldLine ==
  ASSUME TypeOK, WalkLine, Withheld, claim = 0, defer = 0
  PROVE  claim' = 0 /\ defer' = 0
<1> DEFINE l == doc.lines[k]  x == Residue(l)  b == Blocked(l)  t == l.tax
           late == TimeBarred  cross == CrossPeriod
<1>1. /\ claim' = claim + (IF late \/ cross THEN 0 ELSE x)
      /\ defer' = defer + (IF ~late /\ cross THEN x ELSE 0)
  BY Zenon DEF WalkLine
<1>2. l.tax \in Int /\ k \in 1..Len(doc.lines)
  BY DocType DEF WalkLine, TypeOK
<1>3. ~late => b = t
  BY <1>2, Zenon DEF Withheld, Blocked
<1>4. t \in Int
  BY <1>2
<1>5. x = 0 \/ (t > b /\ x = t - b)
  BY Zenon DEF Residue
<1> HIDE DEF x, b, t, late, cross
<1>6. ~late => x = 0
  BY <1>3, <1>4, <1>5
<1> QED
  BY <1>1, <1>6

(* With nothing claimed or deferred, only a forced claim moves anything.   *)
LEMMA WithheldRule ==
  ASSUME TypeOK, Apply, claim = 0, defer = 0,
         ~(Applies("force_claim") /\ order[r].action = "force_claim")
  PROVE  claim' = 0 /\ defer' = 0
<1>0. target \in Int
  BY Zenon DEF TypeOK
<1>1. ~Applies("force_block")
  <2>1. Shift("force_block") = Lesser(claim + defer, target)
    BY Zenon DEF Shift
  <2>2. ~(Shift("force_block") > 0)
    BY <1>0, <2>1 DEF Lesser
  <2> QED
    BY <2>2 DEF Applies
<1>2. ~Applies("force_defer")
  <2>1. Shift("force_defer") = Lesser(claim, target)
    BY DEF Shift
  <2>2. ~(Shift("force_defer") > 0)
    BY <1>0, <2>1 DEF Lesser
  <2> QED
    BY <2>2 DEF Applies
<1>3. claim' = claim /\ defer' = defer
  BY <1>1, <1>2, Zenon DEF Apply, ChangeRcm
<1> QED
  BY <1>3

LEMMA WithheldNext == WithheldInv /\ [Next]_vars => WithheldInv'
<1> SUFFICES ASSUME WithheldInv, [Next]_vars PROVE WithheldInv'
  OBVIOUS
<1>t. Inv /\ TypeOK /\ TypeOK' /\ Inv'
  BY InvNext DEF WithheldInv, Inv
<1>d. doc' = doc /\ (Withheld' <=> Withheld)
  <2>1. doc' = doc
    BY InputStays
  <2> QED
    BY <2>1, Zenon DEF Withheld, TimeBarred, Runs, IsBlocked
<1>p. Unmarked' /\ (Withheld /\ NoForcedClaim' => claim' = 0 /\ defer' = 0)
  <2>1. CASE Start
    <3>1. claim' = 0 /\ defer' = 0
      BY <1>t, <2>1, Zenon DEF Start, Inv, Untouched, money
    <3>2. applied' = [i \in 1..Len(order') |-> FALSE] /\ r' = r /\ r = 1
      BY <1>t, <2>1 DEF Start, TypeOK
    <3>3. Unmarked'
      BY <3>2 DEF Unmarked
    <3> QED
      BY <3>1, <3>3
  <2>2. CASE WalkLine
    <3>1. /\ pc = "lines" /\ pc' = pc /\ order' = order /\ applied' = applied /\ r' = r
      BY <2>2, Zenon DEF WalkLine
    <3>2. Withheld /\ NoForcedClaim => claim' = 0 /\ defer' = 0
      BY <1>t, <2>2, WithheldLine, Zenon DEF WithheldInv
    <3> QED
      BY <3>1, <3>2, Zenon DEF WithheldInv, Unmarked, NoForcedClaim
  <2>3. CASE Withhold
    <3>1. /\ pc = "lines" /\ order' = order /\ applied' = applied /\ r' = r
          /\ claim' = claim /\ defer' = defer
      BY <2>3, Zenon DEF Withhold
    <3> QED
      BY <3>1 DEF WithheldInv, Unmarked, NoForcedClaim
  <2>4. CASE Aim
    <3>1. /\ pc' = pc /\ order' = order /\ applied' = applied /\ r' = r
          /\ claim' = claim /\ defer' = defer
      BY <2>4, Zenon DEF Aim
    <3> QED
      BY <3>1, Zenon DEF WithheldInv, Unmarked, NoForcedClaim
  <2>5. CASE Apply
    <3> DEFINE a == order[r].action
               fires == Applies(a)
    <3>1. /\ pc = "rules" /\ order' = order
          /\ applied' = [applied EXCEPT ![r] = fires]
          /\ pc' = "rules" => r' = r + 1
          /\ pc' = "rules" \/ pc' = "done"
      BY <2>5, Zenon DEF Apply, NextRule
    <3>2. /\ r \in 1..Len(order) /\ Len(order) \in Nat
          /\ applied \in [1..Len(order) -> BOOLEAN]
      <4>1. /\ applied \in [1..Len(order) -> BOOLEAN] /\ order \in Seq(Rules)
            /\ r \in Nat \ {0} /\ r <= Len(order)
        BY <1>t, <3>1, Zenon DEF TypeOK
      <4>2. Len(order) \in Nat
        BY <4>1
      <4>3. r \in 1..Len(order)
        BY <4>1, <4>2
      <4> QED
        BY <4>1, <4>2, <4>3, Zenon
    <3>3. /\ \A i \in 1..Len(order) : i # r => applied'[i] = applied[i]
          /\ applied'[r] = fires
      BY <3>1, <3>2, Zenon
    <3>4. \A i \in r..Len(order) : applied[i] = FALSE
      BY <3>1, Zenon DEF WithheldInv, Unmarked
    <3>5. Unmarked'
      <4>1. SUFFICES ASSUME pc' = "rules", NEW i \in r'..Len(order') PROVE applied'[i] = FALSE
        BY <3>1 DEF Unmarked
      <4>2. i \in 1..Len(order) /\ i # r /\ i \in r..Len(order)
        BY <3>1, <3>2, <4>1
      <4> QED
        BY <3>3, <3>4, <4>2, Zenon
    <3>6. ASSUME Withheld, NoForcedClaim' PROVE claim' = 0 /\ defer' = 0
      <4>1. r \in r..Len(order)
        BY <3>2
      <4>2. NoForcedClaim
        BY <3>1, <3>3, <3>4, <3>6, <4>1, Zenon DEF NoForcedClaim
      <4>3. ~(fires /\ a = "force_claim")
        BY <3>1, <3>2, <3>3, <3>6, Zenon DEF NoForcedClaim
      <4>4. ~(Applies("force_claim") /\ order[r].action = "force_claim")
        BY <4>3, Zenon
      <4>5. claim = 0 /\ defer = 0
        BY <3>6, <4>2, Zenon DEF WithheldInv
      <4> QED
        BY <1>t, <2>5, <4>4, <4>5, WithheldRule, Zenon
    <3> QED
      BY <3>5, <3>6
  <2>6. CASE UNCHANGED vars
    BY <2>6, Zenon DEF vars, WithheldInv, Unmarked, NoForcedClaim
  <2> QED
    BY <2>1, <2>2, <2>3, <2>4, <2>5, <2>6, Zenon DEF Next
<1> QED
  BY <1>t, <1>d, <1>p, Zenon DEF WithheldInv

(* Credit the law withholds from every line stays out of the claim and of  *)
(* the deferred amount unless the trail shows a forced claim, whichever    *)
(* rules the firm has and in whichever order they apply.                   *)
THEOREM WithheldStaysWithheld == Spec => []WithheldUnlessForced
<1>1. Init => WithheldInv
  <2> SUFFICES ASSUME Init PROVE WithheldInv
    OBVIOUS
  <2>1. claim = 0 /\ defer = 0 /\ pc = "start"
    BY DEF Init
  <2> QED
    BY <2>1, InitInv DEF WithheldInv, Unmarked
<1>2. WithheldInv => WithheldUnlessForced
  BY Zenon DEF WithheldInv, Withheld, NoForcedClaim, WithheldUnlessForced
<1> QED
  BY <1>1, <1>2, WithheldNext, PTL DEF Spec
-----------------------------------------------------------------------------
(* What a rule aims at is the tax of the lines of its scope, as far as     *)
(* they have been walked; and no document drives the claim or the deferred *)
(* amount below zero, be there discounts or not.                           *)
Taxed == [i \in DOMAIN doc.lines |-> doc.lines[i].tax]

Before(n) == {i \in DOMAIN doc.lines : i < n /\ InScope(order[r], doc.lines[i])}

Aimed == IF pc = "rules" THEN /\ k <= Len(doc.lines) + 1
                              /\ target = SumFunctionOnSet(Taxed, Before(k))
                         ELSE target = 0

Available == claim >= 0 /\ defer >= 0

(* What has been hit is a line in the scope of the rule.                   *)
Met == hit => /\ pc = "rules"
              /\ \E i \in DOMAIN doc.lines : InScope(order[r], doc.lines[i])

AuditInv == Inv /\ Aimed /\ Available /\ Met

(* A finite document, the taxes of which are numbers.                      *)
LEMMA TaxedTypes ==
  ASSUME TypeOK
  PROVE  /\ DOMAIN doc.lines = 1..Len(doc.lines) /\ Len(doc.lines) \in Nat
         /\ \A i \in DOMAIN doc.lines : Taxed[i] = doc.lines[i].tax /\ Taxed[i] \in Int
         /\ \A n : IsFiniteSet(Before(n))
<1>1. doc.lines \in Seq(Line)
  BY DocType DEF Document
<1>2. DOMAIN doc.lines = 1..Len(doc.lines) /\ Len(doc.lines) \in Nat
  BY <1>1
<1>3. \A i \in DOMAIN doc.lines : Taxed[i] = doc.lines[i].tax /\ Taxed[i] \in Int
  BY <1>2, DocType DEF Taxed
<1>4. IsFiniteSet(1..Len(doc.lines))
  BY <1>2, FS_Interval
<1>5. \A n : IsFiniteSet(Before(n))
  BY <1>2, <1>4, FS_Subset DEF Before
<1> QED BY <1>2, <1>3, <1>5

(* Of a line nothing is left that was not there.                           *)
LEMMA ResidueIsLeft ==
  ASSUME NEW l, l.tax \in Int PROVE Residue(l) \in Int /\ Residue(l) >= 0
<1> DEFINE t == l.tax  b == Blocked(l)  x == Residue(l)
<1>1. b = t \/ b = 0
  BY Zenon DEF Blocked
<1>2. x = 0 \/ (t > b /\ x = t - b)
  BY Zenon DEF Residue
<1> HIDE DEF t, b, x
<1>3. t \in Int => x \in Int /\ x >= 0
  BY <1>1, <1>2
<1> QED BY <1>3 DEF t, b, x

(* A line in scope adds its tax to what the rule aims at.                  *)
LEMMA AimAdds ==
  ASSUME AuditInv, Aim PROVE Aimed'
<1>1. TypeOK /\ pc = "rules" /\ pc' = "rules" /\ k <= Len(doc.lines) /\ k' = k + 1
      /\ doc' = doc /\ order' = order /\ r' = r
  BY Zenon DEF Aim, AuditInv, Inv
<1>2. /\ DOMAIN doc.lines = 1..Len(doc.lines) /\ Len(doc.lines) \in Nat
      /\ \A i \in DOMAIN doc.lines : Taxed[i] = doc.lines[i].tax /\ Taxed[i] \in Int
      /\ \A n : IsFiniteSet(Before(n))
  BY <1>1, TaxedTypes
<1>3. k \in DOMAIN doc.lines /\ k \in Nat \ {0}
  BY <1>1, <1>2 DEF TypeOK
<1>4. target = SumFunctionOnSet(Taxed, Before(k))
  BY <1>1 DEF AuditInv, Aimed
<1>5. Taxed' = Taxed /\ (Before(k))' = Before(k + 1)
  <2>1. Taxed' = Taxed
    BY <1>1, Zenon DEF Taxed
  <2>2. \A l : InScope(order[r], l)' = InScope(order[r], l)
    BY <1>1, Zenon DEF InScope
  <2>3. (Before(k))' = {i \in DOMAIN doc'.lines : i < k' /\ InScope(order[r], doc.lines[i])'}
    BY Zenon DEF Before
  <2>4. (Before(k))' = Before(k + 1)
    BY <1>1, <2>2, <2>3 DEF Before, InScope
  <2> QED BY <2>1, <2>4
<1>6. target' = SumFunctionOnSet(Taxed, Before(k + 1))
  <2>1. CASE InScope(order[r], doc.lines[k])
    <3>1. k \in Before(k + 1) /\ Before(k + 1) \ {k} = Before(k)
      BY <1>2, <1>3, <2>1 DEF Before
    <3>2. \A i \in Before(k + 1) : Taxed[i] \in Int
      BY <1>2 DEF Before
    <3>3. SumFunctionOnSet(Taxed, Before(k + 1)) = Taxed[k] + SumFunctionOnSet(Taxed, Before(k))
      BY <1>2, <3>1, <3>2, SumStep
    <3>4. target' = target + doc.lines[k].tax
      BY <2>1, Zenon DEF Aim
    <3>5. target \in Int /\ Taxed[k] \in Int /\ doc.lines[k].tax = Taxed[k]
      BY <1>1, <1>2, <1>3 DEF TypeOK
    <3> QED BY <1>4, <3>3, <3>4, <3>5
  <2>2. CASE ~InScope(order[r], doc.lines[k])
    <3>1. Before(k + 1) = Before(k)
      BY <1>2, <1>3, <2>2 DEF Before
    <3>2. target' = target
      BY <2>2, Zenon DEF Aim
    <3> QED BY <1>4, <3>1, <3>2
  <2> QED BY <2>1, <2>2
<1>7. k' <= Len(doc'.lines) + 1
  BY <1>1, <1>2, <1>3
<1> QED BY <1>1, <1>5, <1>6, <1>7, Zenon DEF Aimed

(* A line that is hit is in scope.                                         *)
LEMMA AimMeets ==
  ASSUME AuditInv, Aim PROVE Met'
<1>1. /\ pc = "rules" /\ pc' = "rules" /\ k <= Len(doc.lines)
      /\ doc' = doc /\ order' = order /\ r' = r
  BY Zenon DEF Aim
<1>2. k \in DOMAIN doc.lines
  <2>1. DOMAIN doc.lines = 1..Len(doc.lines) /\ Len(doc.lines) \in Nat
    BY TaxedTypes DEF AuditInv, Inv
  <2>2. k \in Nat \ {0}
    BY DEF AuditInv, Inv, TypeOK
  <2> QED BY <1>1, <2>1, <2>2
<1>3. \A l : InScope(order[r], l)' = InScope(order[r], l)
  BY <1>1, Zenon DEF InScope
<1>4. hit' => hit \/ InScope(order[r], doc.lines[k])
  BY Zenon DEF Aim
<1>5. ASSUME hit' PROVE \E i \in DOMAIN doc.lines : InScope(order[r], doc.lines[i])
  BY <1>2, <1>4, <1>5, Zenon DEF AuditInv, Met
<1> QED BY <1>1, <1>3, <1>5, Zenon DEF Met

(* Where a rule begins, it aims at nothing yet.                            *)
LEMMA NothingAimedAt ==
  ASSUME TypeOK', k' = 1, target' = 0 PROVE Aimed'
<1>1. /\ DOMAIN doc'.lines = 1..Len(doc'.lines) /\ Len(doc'.lines) \in Nat
  <2>1. doc' \in Document
    BY DocumentsType DEF TypeOK
  <2>2. doc'.lines \in Seq(Line)
    BY <2>1 DEF Document
  <2> QED BY <2>2
<1>2. (Before(k))' = {}
  BY <1>1 DEF Before
<1>3. SumFunctionOnSet(Taxed', (Before(k))') = 0
  BY <1>2, SumOfNone
<1> QED BY <1>1, <1>3 DEF Aimed

(* A rule moves at most what it aims at, from what there is.               *)
LEMMA ShiftsAreBounded ==
  ASSUME TypeOK, Available, Apply
  PROVE  /\ Available'
         /\ claim' = claim \/ (claim' - claim <= target /\ claim - claim' <= target)
         /\ defer' = defer \/ (defer' - defer <= target /\ defer - defer' <= target)
         /\ block' = block \/ (block' - block <= target /\ block - block' <= target)
<1>0. claim \in Int /\ defer \in Int /\ block \in Int /\ target \in Int
      /\ claim >= 0 /\ defer >= 0
  BY Zenon DEF TypeOK, Available
<1>1. CASE Applies("force_block") /\ ForceBlock
  <2>1. Shift("force_block") = Lesser(claim + defer, target)
    BY Zenon DEF Shift
  <2>2. Shift("force_block") > 0
    BY <1>1 DEF Applies
  <2> QED
    BY <1>0, <1>1, <2>1, <2>2 DEF ForceBlock, Lesser, Available
<1>2. CASE Applies("force_claim") /\ ForceClaim
  <2>1. Shift("force_claim") = Lesser(defer + block, target)
    BY DEF Shift
  <2>2. Shift("force_claim") > 0
    BY <1>2 DEF Applies
  <2> DEFINE s == Shift("force_claim")
  <2>3. /\ defer' = defer - Lesser(defer, s) /\ claim' = claim + s
        /\ block' = block - (s - Lesser(defer, s))
    BY <1>2 DEF ForceClaim
  <2>4. s > 0 /\ s = Lesser(defer + block, target)
    BY <2>1, <2>2
  <2> HIDE DEF s
  <2>5. s \in Int /\ s <= target
    BY <1>0, <2>4 DEF Lesser
  <2>6. Lesser(defer, s) \in 0..s /\ Lesser(defer, s) <= defer
    BY <1>0, <2>4, <2>5 DEF Lesser
  <2> QED
    BY <1>0, <2>3, <2>4, <2>5, <2>6 DEF Available
<1>3. CASE Applies("force_defer") /\ ForceDefer
  <2>1. Shift("force_defer") = Lesser(claim, target)
    BY DEF Shift
  <2>2. Shift("force_defer") > 0
    BY <1>3 DEF Applies
  <2> QED
    BY <1>0, <1>3, <2>1, <2>2 DEF ForceDefer, Lesser, Available
<1>4. CASE UNCHANGED <<claim, defer, block>>
  BY <1>0, <1>4 DEF Available
<1>5. \/ Applies("force_block") /\ ForceBlock
      \/ Applies("force_claim") /\ ForceClaim
      \/ Applies("force_defer") /\ ForceDefer
      \/ UNCHANGED <<claim, defer, block>>
  BY Zenon DEF Apply, ChangeRcm
<1> QED
  BY <1>1, <1>2, <1>3, <1>4, <1>5

LEMMA AuditInit == Init => AuditInv
BY InitInv DEF Init, AuditInv, Aimed, Available, Met

LEMMA AuditNext == AuditInv /\ [Next]_vars => AuditInv'
<1> SUFFICES ASSUME AuditInv, [Next]_vars PROVE AuditInv'
  OBVIOUS
<1>1. Inv /\ Inv' /\ TypeOK /\ TypeOK' /\ Aimed /\ Available
  BY InvNext DEF AuditInv, Inv
<1>3. Met'
  <2>1. CASE Start \/ WalkLine \/ Withhold
    <3>1. pc # "rules" /\ hit' = hit
      BY <2>1, Zenon DEF Start, WalkLine, Withhold, walk
    <3> QED BY <3>1, Zenon DEF AuditInv, Met
  <2>2. CASE Aim
    BY <2>2, AimMeets
  <2>3. CASE Apply
    <3>1. hit' = FALSE
      BY <2>3, Zenon DEF Apply
    <3> QED BY <3>1, Zenon DEF Met
  <2>4. CASE UNCHANGED vars
    <3>1. /\ hit' = hit /\ pc' = pc /\ doc' = doc /\ order' = order /\ r' = r
      BY <2>4, Zenon DEF vars, input, walk
    <3> QED BY <3>1, Zenon DEF AuditInv, Met, InScope
  <2> QED BY <2>1, <2>2, <2>3, <2>4, Zenon DEF Next
<1>2. Aimed' /\ Available'
  <2>1. CASE Start
    BY <1>1, <2>1 DEF Start, Aimed, Available
  <2>2. CASE WalkLine
    <3>1. Aimed'
      BY <1>1, <2>2 DEF WalkLine, Aimed
    <3> DEFINE l == doc.lines[k]  x == Residue(l)  late == TimeBarred  cross == CrossPeriod
    <3>2. l.tax \in Int
      BY <1>1, <2>2, DocType DEF WalkLine, TypeOK
    <3>3. x \in Int /\ x >= 0
      BY <3>2, ResidueIsLeft
    <3>4. /\ claim' = claim + (IF late \/ cross THEN 0 ELSE x)
          /\ defer' = defer + (IF ~late /\ cross THEN x ELSE 0)
      BY <2>2, Zenon DEF WalkLine
    <3>5. claim \in Int /\ defer \in Int
      BY <1>1, Zenon DEF TypeOK
    <3> HIDE DEF l, x, late, cross
    <3>6. Available'
      BY <1>1, <3>3, <3>4, <3>5 DEF Available
    <3> QED BY <3>1, <3>6
  <2>3. CASE Withhold
    <3>1. pc = "lines" /\ k' = 1 /\ target' = target /\ claim' = claim /\ defer' = defer
      BY <2>3, Zenon DEF Withhold
    <3>2. target' = 0
      BY <1>1, <3>1 DEF Aimed
    <3> QED BY <1>1, <3>1, <3>2, NothingAimedAt DEF Available
  <2>4. CASE Aim
    BY <1>1, <2>4, AimAdds DEF Aim, Available
  <2>5. CASE Apply
    <3>1. k' = 1 /\ target' = 0
      BY <2>5, Zenon DEF Apply
    <3> QED BY <1>1, <2>5, <3>1, NothingAimedAt, ShiftsAreBounded
  <2>6. CASE UNCHANGED vars
    BY <1>1, <2>6 DEF vars, Aimed, Available, Taxed, Before, InScope
  <2> QED BY <2>1, <2>2, <2>3, <2>4, <2>5, <2>6 DEF Next
<1> QED BY <1>1, <1>2, <1>3 DEF AuditInv

(* Distances are compared by their squares, the sum may be negative.       *)
LEMMA WithinAimed ==
  ASSUME NEW a \in Int, NEW b \in Int, NEW d \in Int,
         a = b \/ (a - b <= d /\ b - a <= d) \/ a = b + d
  PROVE  Within(a, b, d)
<1>1. \A x, y \in Int : x >= 0 /\ y >= 0 => x * y >= 0
  OBVIOUS
<1>2. CASE a = b
  <2>1. (a - b) * (a - b) = 0 /\ d * d >= 0
    BY <1>2
  <2> QED BY <2>1 DEF Within
<1>3. CASE a - b <= d /\ b - a <= d
  <2> DEFINE x == a - b
  <2>1. x \in Int /\ d - x >= 0 /\ d + x >= 0
    BY <1>3
  <2> HIDE DEF x
  <2>2. (d - x) * (d + x) >= 0
    BY <1>1, <2>1
  <2>3. (d - x) * (d + x) = d * d - x * x
    BY <2>1
  <2>4. x * x <= d * d
    BY <2>1, <2>2, <2>3
  <2> QED BY <2>4 DEF Within, x
<1>4. CASE a = b + d
  <2>1. a - b = d
    BY <1>4
  <2> QED BY <2>1 DEF Within
<1> QED BY <1>2, <1>3, <1>4

(* The audit trail tells who moved the money, for any document and rules:  *)
(* a rule recorded as not applied has moved nothing; one that was, moves   *)
(* no more than the tax of the lines in its scope, or is a disable_rcm,    *)
(* which clears the reverse charge of the document and nothing else.       *)
THEOREM AuditTrailHolds == Spec => AuditTrailIsTrue
<1> DEFINE x == order[r]
           P == pc = "rules" /\ k > Len(doc.lines) =>
                  /\ ~applied'[r] => UNCHANGED money
                  /\ applied'[r] =>
                       /\ \E i \in DOMAIN doc.lines : InScope(order[r], doc.lines[i])
                       /\ tds' = tds
                       /\ IF order[r].action = "disable_rcm" THEN ClearsRcm
                          ELSE \/ money' = money
                               \/ /\ Within(claim', claim, ScopeTax(order[r]))
                                  /\ Within(defer', defer, ScopeTax(order[r]))
                                  /\ Within(block', block, ScopeTax(order[r]))
                                  /\ Within(rcm', rcm, ScopeTax(order[r]))
           Bounded == /\ Within(claim', claim, ScopeTax(x)) /\ Within(defer', defer, ScopeTax(x))
                      /\ Within(block', block, ScopeTax(x)) /\ Within(rcm', rcm, ScopeTax(x))
<1>1. AuditInv /\ [Next]_vars => [P]_vars
  <2> SUFFICES ASSUME AuditInv, Next, pc = "rules", k > Len(doc.lines)
               PROVE  P
    BY DEF vars
  <2>1. TypeOK /\ TypeOK' /\ Available
    BY TypeNext DEF AuditInv, Inv
  <2>2. Apply
    <3>1. Len(doc.lines) \in Nat /\ k \in Nat
      BY <2>1, DocType DEF TypeOK
    <3> QED BY <3>1 DEF Next, Start, WalkLine, Withhold, Aim
  <2>3. applied'[r] = Applies(x.action)
    BY <2>1, <2>2 DEF Apply, TypeOK
  <2>4. target = ScopeTax(x)
    <3>1. /\ DOMAIN doc.lines = 1..Len(doc.lines) /\ Len(doc.lines) \in Nat
      BY <2>1, TaxedTypes
    <3>2. k \in Nat
      BY <2>1 DEF TypeOK
    <3>3. k <= Len(doc.lines) + 1
      BY DEF AuditInv, Aimed
    <3>4. k = Len(doc.lines) + 1
      BY <3>1, <3>2, <3>3
    <3>5. Before(k) = {i \in DOMAIN doc.lines : InScope(x, doc.lines[i])}
      BY <3>1, <3>4 DEF Before
    <3>6. target = SumFunctionOnSet(Taxed, Before(k))
      BY DEF AuditInv, Aimed
    <3> QED BY <3>5, <3>6, Zenon DEF ScopeTax, Taxed
  <2>8. tds' = tds
    BY <2>2, Zenon DEF Apply
  <2>5. CASE ~Applies(x.action)
    <3>1. UNCHANGED money
      BY <2>2, <2>5, <2>8 DEF Apply, money
    <3> QED BY <2>3, <2>5, <3>1
  <2>9. ASSUME Applies(x.action) PROVE \E i \in DOMAIN doc.lines : InScope(x, doc.lines[i])
    BY <2>9, Zenon DEF Applies, AuditInv, Met
  <2>6. CASE Applies(x.action) /\ x.action # "disable_rcm"
    <3>1. /\ claim \in Int /\ defer \in Int /\ block \in Int /\ rcm \in Int /\ target \in Int
          /\ claim' \in Int /\ defer' \in Int /\ block' \in Int /\ rcm' \in Int
      BY <2>1, Zenon DEF TypeOK
    <3>2. /\ claim' = claim \/ (claim' - claim <= target /\ claim - claim' <= target)
          /\ defer' = defer \/ (defer' - defer <= target /\ defer - defer' <= target)
          /\ block' = block \/ (block' - block <= target /\ block - block' <= target)
      BY <2>1, <2>2, ShiftsAreBounded
    <3>3. rcm' = rcm \/ rcm' = rcm + target
      <4> DEFINE a == order[r].action
      <4>1. \/ ForceBlock \/ ForceClaim \/ ForceDefer \/ UNCHANGED rcm
            \/ a \in {"force_rcm", "disable_rcm"} /\ ChangeRcm(a)
        BY <2>2, Zenon DEF Apply
      <4>2. a # "disable_rcm"
        BY <2>6
      <4> HIDE DEF a
      <4>3. UNCHANGED rcm \/ (a = "force_rcm" /\ ChangeRcm(a))
        BY <4>1, <4>2 DEF ForceBlock, ForceClaim, ForceDefer
      <4> QED BY <4>3 DEF ChangeRcm
    <3>4. Bounded
      <4>1. /\ Within(claim', claim, target) /\ Within(defer', defer, target)
            /\ Within(block', block, target) /\ Within(rcm', rcm, target)
        BY <3>1, <3>2, <3>3, WithinAimed
      <4> QED BY <2>4, <4>1
    <3> QED BY <2>3, <2>6, <2>8, <2>9, <3>4
  <2>7. CASE Applies(x.action) /\ x.action = "disable_rcm"
    <3>1. rcm > 0
      BY <2>7 DEF Applies
    <3>2. ChangeRcm("disable_rcm")
      BY <2>2, <2>7 DEF Apply
    <3>3. ClearsRcm
      BY <3>1, <3>2 DEF ChangeRcm, ClearsRcm
    <3> QED BY <2>3, <2>7, <2>8, <2>9, <3>3
  <2> HIDE DEF P
  <2> QED BY <2>5, <2>6, <2>7
<1>2. Spec => []AuditInv
  BY AuditInit, AuditNext, PTL DEF Spec
<1> QED BY <1>1, <1>2, PTL DEF Spec, AuditTrailIsTrue
=============================================================================
