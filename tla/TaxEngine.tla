------------------------------ MODULE TaxEngine ------------------------------
(***************************************************************************)
(* The deterministic tax verdict of one document: agents/tax_engine.py     *)
(* over tax/{types,blocked_credits,rcm,tds,itc,directives}.py, with the    *)
(* firm rules retrieved by db/queries/rules.py, as the pipeline calls it.  *)
(*                                                                         *)
(* Three loops decide the outcome and each is a loop here: the sub-engines *)
(* walk the lines of the document, the directive pass walks the rules, and *)
(* a rule walks the lines to find what it is about.  The sub-engines share *)
(* nothing but the blocked tax of the line itself, so they walk together.  *)
(*                                                                         *)
(* Money is in paise.  Only percentages are rounded (quantize_money, half  *)
(* up); sums of quantised amounts are exact.  A period is a month, counted *)
(* from month 0.                                                           *)
(***************************************************************************)
EXTENDS Integers, Sequences, FiniteSets, Functions

CONSTANTS Documents,   \* what the extractor may hand to the engine
          Rules,       \* active rules a firm may have
          TopK,        \* how many of them the search returns
          Threshold,   \* GST_TDS_THRESHOLDS.threshold_inr
          None

Actions == {"force_block", "force_claim", "force_defer", "force_rcm",
            "disable_rcm", "set_gst_tds_deductor", "note", "none"}

DocTypes == {"B2B_INVOICE", "B2C_INVOICE", "FREIGHT", "RESTAURANT", "IMPORT",
             "PROFESSIONAL", "CAPITAL_GOODS", "UNKNOWN"}

(* An HSN or SAC code, as far as the tables tell codes apart: on the       *)
(* blocked list, freight, another reverse-charge service, or anything else.*)
RcmCodes == {"freight", "reverse"}
Hsn == {"blocked", "other"} \cup RcmCodes

Line == [hsn : Hsn \cup {None}, taxable : Int, tax : Int]

Document == [type : DocTypes, vendor : {None, "v"}, client : {"c1", "c2"},
             lines : Seq(Line), month : Nat \cup {None}, today : Nat,
             locked : SUBSET Nat, deductor : BOOLEAN]

(* A row of ca_firm_rules: source rank (0 human correction, 1 manual, 2    *)
(* learned), creation time, client or None for the whole firm, directive.  *)
Rule == [rank : 0..2, created : Nat, client : {None, "c1", "c2"},
         action : Actions,
         kind : {"client_wide", "document_type", "vendor_gstin", "hsn_prefix"},
         value : DocTypes \cup Hsn \cup {"v", None}]

ASSUME DocumentsType == Documents \subseteq Document
ASSUME RulesType == Rules \subseteq Rule
ASSUME TopKType == TopK \in Nat

VARIABLES
  doc,       \* the transaction, the client's flag, the locked periods, today
  stored,    \* the firm's rules when they are searched
  pc,        \* "start", "lines", "rules", then "done" or "refused"
  order,     \* the consulted rules, best first
  applied,   \* applied[i]: what the audit trail says of order[i]
  k,         \* next line to walk
  r,         \* rule whose turn it is
  hit,       \* whether a line of the rule's scope has been met
  target,    \* tax of those lines so far
  claim, defer, block, rcm, tds,   \* the five outputs
  taxable,   \* gross taxable value of the lines walked
  total      \* history: tax of the lines walked

input == <<doc, stored>>
walk == <<k, r, hit, target>>
money == <<claim, defer, block, rcm, tds>>
vars == <<input, pc, order, applied, walk, money, taxable, total>>

Init ==
  /\ doc \in Documents
  /\ stored \in SUBSET Rules
  /\ pc = "start" /\ order = <<>> /\ applied = <<>>
  /\ k = 1 /\ r = 1 /\ hit = FALSE /\ target = 0
  /\ claim = 0 /\ defer = 0 /\ block = 0 /\ rcm = 0 /\ tds = 0
  /\ taxable = 0 /\ total = 0

Lesser(a, b) == IF a <= b THEN a ELSE b

(* quantize_money(x * p / 100), half up and away from zero.                *)
Percent(x, p) == IF x >= 0 THEN (2 * x * p + 100) \div 200
                           ELSE -((2 * (-x) * p + 100) \div 200)

(***************************************************************************)
(* Retrieval: search, then order_consulted_by_precedence.                  *)
(***************************************************************************)
(* By source, then the newer one; the similarity decides ties, so that any *)
(* order of them is possible.                                              *)
Precedes(a, b) == a.rank < b.rank \/ (a.rank = b.rank /\ a.created > b.created)

(* Firm-wide rules and those of the document's client.                     *)
Eligible(S) == {x \in S : x.client \in {None, doc.client}}

(* The TopK nearest by embedding, which may be any, in order of precedence.*)
Orders(S) ==
  {s \in UNION {[1..n -> S] : n \in 0..TopK} :
     /\ \A i, j \in 1..Len(s) : i < j => s[i] # s[j] /\ ~Precedes(s[j], s[i])
     /\ Len(s) = Lesser(TopK, Cardinality(S))}

(***************************************************************************)
(* The sub-engines on one line.                                            *)
(***************************************************************************)
(* modules_for_verdict                                                     *)
Modules(t) ==
  CASE t = "B2B_INVOICE" -> {"blocked", "rcm", "tds", "itc"}
    [] t = "CAPITAL_GOODS" -> {"blocked", "tds", "itc"}
    [] t \in {"FREIGHT", "PROFESSIONAL"} -> {"rcm", "tds", "itc"}
    [] t = "RESTAURANT" -> {"blocked"}
    [] t = "IMPORT" -> {"itc"}
    [] OTHER -> {}

Runs(m) == m \in Modules(doc.type)

(* line_is_blocked_by: by document type, else by code.                     *)
IsBlocked(l) == doc.type = "RESTAURANT" \/ l.hsn = "blocked"

Blocked(l) == IF Runs("blocked") /\ IsBlocked(l) THEN l.tax ELSE 0

(* line_matches_trigger: by document type, else by code.                   *)
Trigger(l) == CASE doc.type = "FREIGHT" -> "freight"
                [] doc.type = "PROFESSIONAL" -> "reverse"
                [] l.hsn \in RcmCodes /\
                   doc.type \notin {"FREIGHT", "PROFESSIONAL"} -> l.hsn
                [] OTHER -> None

(* Only freight has a forward-charge rate; at 12% after rounding to two    *)
(* places, that is from 11.995%, the supplier has opted in.                *)
ForwardCharge(l) == l.taxable > 0 /\ l.tax * 200000 >= l.taxable * 23990

Liability(l) ==
  IF ~Runs("rcm") \/ Trigger(l) = None \/ (Trigger(l) = "freight" /\ ForwardCharge(l))
  THEN 0
  ELSE IF l.tax > 0 THEN l.tax ELSE Percent(l.taxable, 5)

(* Section 16(4): after 30 November of the fiscal year (April to March)    *)
(* that follows the invoice's.                                             *)
TimeBarred == /\ doc.month # None
              /\ doc.today > 12 * ((doc.month - 3) \div 12 + 1) + 10

(* The invoice's period differs from the current one, which the pipeline   *)
(* takes from today's date, and is locked.                                 *)
CrossPeriod == doc.month # None /\ doc.month # doc.today /\ doc.month \in doc.locked

(* Mutant: what is blocked is not taken out of the line's tax.             *)
ResidueGross(l) == IF Runs("itc") /\ l.tax > 0 THEN l.tax ELSE 0

(* compute_itc's use of a line: its tax less what is blocked, if positive. *)
Residue(l) == IF Runs("itc") /\ l.tax > Blocked(l) THEN l.tax - Blocked(l) ELSE 0

(***************************************************************************)
(* compute_verdict.                                                        *)
(***************************************************************************)
(* The rules are loaded; a locked period is refused (LockedPeriodError);   *)
(* an unsupported document type has zeros only.                            *)
Start ==
  /\ pc = "start"
  /\ order' \in Orders(Eligible(stored))
  /\ applied' = [i \in 1..Len(order') |-> FALSE]
  /\ pc' = CASE doc.month # None /\ doc.month \in doc.locked -> "refused"
             [] ~(doc.month # None /\ doc.month \in doc.locked)
                  /\ Modules(doc.type) = {} -> "done"
             [] OTHER -> "lines"
  /\ UNCHANGED <<input, walk, money, taxable, total>>

WalkLine ==
  /\ pc = "lines" /\ k <= Len(doc.lines)
  /\ LET l == doc.lines[k]
         x == Residue(l)
     IN  /\ claim' = claim + (IF TimeBarred \/ CrossPeriod THEN 0 ELSE x)
         /\ defer' = defer + (IF ~TimeBarred /\ CrossPeriod THEN x ELSE 0)
         /\ block' = block + Blocked(l) + (IF TimeBarred THEN x ELSE 0)
         /\ rcm' = rcm + Liability(l)
         /\ taxable' = taxable + l.taxable
         /\ total' = total + l.tax
  /\ k' = k + 1
  /\ UNCHANGED <<input, pc, order, applied, r, hit, target, tds>>

(* After the last line: compute_tds, then the directive pass begins.       *)
Withhold ==
  /\ pc = "lines" /\ k > Len(doc.lines)
  /\ tds' = IF Runs("tds") /\ doc.deductor /\ taxable >= Threshold
            THEN Percent(taxable, 2) ELSE 0
  /\ pc' = IF order = <<>> THEN "done" ELSE "rules"
  /\ k' = 1
  /\ UNCHANGED <<input, order, applied, r, hit, target, claim, defer, block, rcm,
                 taxable, total>>

(***************************************************************************)
(* _apply_directives.                                                      *)
(***************************************************************************)
(* directive_applies_to_line                                               *)
InScope(x, l) ==
  CASE x.kind = "client_wide" -> TRUE
    [] x.kind = "document_type" -> x.value = doc.type
    [] x.kind = "vendor_gstin" -> x.value = doc.vendor
    [] x.kind = "hsn_prefix" -> x.value = l.hsn

(* Mutant: every line counts.                                              *)
AimAtAll ==
  /\ pc = "rules" /\ k <= Len(doc.lines)
  /\ target' = target + doc.lines[k].tax
  /\ hit' = TRUE
  /\ k' = k + 1
  /\ UNCHANGED <<input, pc, order, applied, r, money, taxable, total>>

Aim ==
  /\ pc = "rules" /\ k <= Len(doc.lines)
  /\ LET l == doc.lines[k] IN
       IF InScope(order[r], l)
       THEN target' = target + l.tax /\ hit' = TRUE
       ELSE UNCHANGED <<target, hit>>
  /\ k' = k + 1
  /\ UNCHANGED <<input, pc, order, applied, r, money, taxable, total>>

(* What the action of a rule can move, for the tax it aims at.             *)
Shift(a) == CASE a = "force_block" -> Lesser(claim + defer, target)
              [] a = "force_claim" -> Lesser(defer + block, target)
              [] a = "force_defer" -> Lesser(claim, target)
              [] OTHER -> 0

(* The value _apply_one_directive returns.                                 *)
Applies(a) ==
  /\ hit
  /\ CASE a \in {"force_block", "force_claim", "force_defer"} -> Shift(a) > 0
       [] a \in {"force_rcm", "set_gst_tds_deductor"} -> TRUE
       [] a = "disable_rcm" -> rcm > 0
       [] OTHER -> FALSE

ForceBlock ==
  LET fromClaim == Lesser(claim, Shift("force_block")) IN
  /\ claim' = claim - fromClaim
  /\ defer' = defer - (Shift("force_block") - fromClaim)
  /\ block' = block + Shift("force_block")
  /\ UNCHANGED rcm

(* Mutant: the pull is capped by the target alone.                         *)
ForceClaimUncapped ==
  LET fromDefer == Lesser(defer, target) IN
  /\ defer' = defer - fromDefer
  /\ block' = block - (target - fromDefer)
  /\ claim' = claim + target
  /\ UNCHANGED rcm

ForceClaim ==
  LET fromDefer == Lesser(defer, Shift("force_claim")) IN
  /\ defer' = defer - fromDefer
  /\ block' = block - (Shift("force_claim") - fromDefer)
  /\ claim' = claim + Shift("force_claim")
  /\ UNCHANGED rcm

ForceDefer ==
  /\ claim' = claim - Shift("force_defer")
  /\ defer' = defer + Shift("force_defer")
  /\ UNCHANGED <<block, rcm>>

ChangeRcm(a) ==
  /\ rcm' = IF a = "force_rcm" THEN rcm + target ELSE 0
  /\ UNCHANGED <<claim, defer, block>>

(* Mutant: one turn too many.                                              *)
NextRuleOffByOne == IF r > Len(order) THEN pc' = "done" /\ UNCHANGED r
                                      ELSE r' = r + 1 /\ UNCHANGED pc

NextRule == IF r = Len(order) THEN pc' = "done" /\ UNCHANGED r
                              ELSE r' = r + 1 /\ UNCHANGED pc

(* One rule takes effect, or does not; then the next one is looked at.     *)
Apply ==
  /\ pc = "rules" /\ k > Len(doc.lines)
  /\ LET a == order[r].action IN
       /\ applied' = [applied EXCEPT ![r] = Applies(a)]
       /\ \/ Applies(a) /\ a = "force_block" /\ ForceBlock
          \/ Applies(a) /\ a = "force_claim" /\ ForceClaim
          \/ Applies(a) /\ a = "force_defer" /\ ForceDefer
          \/ Applies(a) /\ a \in {"force_rcm", "disable_rcm"} /\ ChangeRcm(a)
          \/ /\ ~Applies(a) \/ a = "set_gst_tds_deductor"
             /\ UNCHANGED <<claim, defer, block, rcm>>
  /\ NextRule
  /\ k' = 1 /\ hit' = FALSE /\ target' = 0
  /\ UNCHANGED <<input, order, tds, taxable, total>>

Next == Start \/ WalkLine \/ Withhold \/ Aim \/ Apply

Spec == Init /\ [][Next]_vars
-----------------------------------------------------------------------------
TypeOK ==
  /\ doc \in Documents /\ stored \subseteq Rules
  /\ pc \in {"start", "lines", "rules", "done", "refused"}
  /\ order \in Seq(Rules) /\ applied \in [1..Len(order) -> BOOLEAN]
  /\ k \in Nat \ {0} /\ r \in Nat \ {0}
  /\ pc \in {"start", "lines"} => r = 1
  /\ pc = "rules" => r <= Len(order)
  /\ hit \in BOOLEAN /\ target \in Int
  /\ claim \in Int /\ defer \in Int /\ block \in Int /\ rcm \in Int /\ tds \in Int
  /\ taxable \in Int /\ total \in Int

Ordinary == \A i \in 1..Len(doc.lines) : doc.lines[i].tax >= 0

(* Every rupee of tax ends in exactly one place: without negative lines    *)
(* the claim, the deferred and the blocked amount add up to the tax of the *)
(* document, after any sequence of rules, and none of them is negative.    *)
TaxIsConserved ==
  Ordinary /\ (pc \in {"lines", "rules"} \/ (pc = "done" /\ Modules(doc.type) # {})) =>
    /\ claim + defer + block = total
    /\ claim >= 0 /\ defer >= 0 /\ block >= 0

(* Credit the law withholds -- of blocked lines, or time-barred -- is      *)
(* claimed or deferred only if some rule forces a claim.                   *)
WithheldUnlessForced ==
  /\ \/ TimeBarred
     \/ Runs("blocked") /\ \A i \in 1..Len(doc.lines) : IsBlocked(doc.lines[i])
  /\ \A i \in 1..Len(order) : applied[i] => order[i].action # "force_claim"
  => claim = 0 /\ defer = 0

(* The audit trail tells who moved the money. A rule recorded as not       *)
(* applied has moved nothing. One that was applied moved no more than the  *)
(* tax of the lines in its scope; only disable_rcm does, which clears the  *)
(* reverse charge of the whole document as soon as one line is in its      *)
(* scope (tax_engine.py:341-346), and moves nothing else. No rule changes  *)
(* the tax deducted at source.                                             *)
ScopeTax(x) ==
  SumFunctionOnSet([i \in DOMAIN doc.lines |-> doc.lines[i].tax],
                   {i \in DOMAIN doc.lines : InScope(x, doc.lines[i])})

Within(a, b, d) == (a - b) * (a - b) <= d * d

ClearsRcm == rcm > 0 /\ rcm' = 0 /\ UNCHANGED <<claim, defer, block>>

AuditTrailIsTrue ==
  [][pc = "rules" /\ k > Len(doc.lines) =>
       /\ ~applied'[r] => UNCHANGED money
       /\ applied'[r] =>
            /\ \E i \in DOMAIN doc.lines : InScope(order[r], doc.lines[i])
            /\ tds' = tds
            /\ IF order[r].action = "disable_rcm" THEN ClearsRcm
               ELSE \/ money' = money
                    \/ /\ Within(claim', claim, ScopeTax(order[r]))
                       /\ Within(defer', defer, ScopeTax(order[r]))
                       /\ Within(block', block, ScopeTax(order[r]))
                       /\ Within(rcm', rcm, ScopeTax(order[r]))]_vars
=============================================================================
