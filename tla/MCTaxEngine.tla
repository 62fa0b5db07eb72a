---------------------------- MODULE MCTaxEngine ----------------------------
(* TaxEngine and Invoice, one at a time: "part" chooses. TaxEngine is     *)
(* checked on documents of at most two lines and a pool of five rules.   *)
(* Month 0 is a January; the cutoff of invoices up to month 14 is the end  *)
(* of month 22, that of month 15 to 26 the end of month 34.                *)
EXTENDS TaxEngine, Invoice

L(h, v, t) == [hsn |-> h, taxable |-> v, tax |-> t]

(* Freight at 5% and at 12%, an untaxed service, a blocked line, a line    *)
(* with neither code nor trigger, and a discount.                          *)
MCLines == {L("freight", 100, 5), L("freight", 100, 12), L("reverse", 100, 0),
            L("blocked", 100, 18), L(None, 100, 9), L("other", -50, -9)}

MCSeqs == {<<>>} \cup {<<a>> : a \in MCLines} \cup {<<a, b>> : a \in MCLines, b \in MCLines}

(* An ordinary invoice of this month, one of a locked period, one from the *)
(* last month before its cutoff and one from the first month after it, and *)
(* one without a date.                                                     *)
MCDates == {<<20, 20, {}>>, <<19, 20, {19}>>, <<14, 22, {13}>>, <<14, 23, {13}>>,
            <<None, 20, {}>>}

MCDocuments ==
  {[type |-> t, vendor |-> "v", client |-> IF t = "FREIGHT" THEN "c2" ELSE "c1",
    lines |-> s, month |-> d[1], today |-> d[2], locked |-> d[3], deductor |-> t # "FREIGHT"] :
      t \in {"B2B_INVOICE", "FREIGHT", "RESTAURANT", "UNKNOWN"}, s \in MCSeqs, d \in MCDates}

R(rank, created, client, action, kind, value) ==
  [rank |-> rank, created |-> created, client |-> client, action |-> action,
   kind |-> kind, value |-> value]

MCRules == {R(0, 1, None, "force_block", "client_wide", None),
            R(1, 2, "c1", "force_claim", "vendor_gstin", "v"),
            R(1, 3, None, "force_defer", "hsn_prefix", "freight"),
            R(2, 4, None, "force_rcm", "document_type", "B2B_INVOICE"),
            R(2, 5, None, "disable_rcm", "hsn_prefix", "reverse")}

(* Lines of an invoice: with tax included at 5% and, off by a paisa, at    *)
(* 18%; by quantity at 5%, of 333.33 paise; of 1.5 paise at 200% and at    *)
(* 500%; as stated at 5%; at 0.25%, whose half has three decimals; with an *)
(* IGST rate the model made up; exempt, of 150.5 paise; a discount; and a  *)
(* line of text.                                                           *)
Blank == [b \in Buckets |-> Absent]

Each(x, y, z) == [b \in Buckets |-> CASE b = "cgst" -> x [] b = "sgst" -> y [] OTHER -> z]

RL(amount, tax, product, stated, label, rate, paid) ==
  [amount |-> amount, tax |-> tax, product |-> product, stated |-> stated,
   label |-> label, rate |-> rate, paid |-> paid]

MCRawLines ==
  {RL(105, 5, Absent, Absent, Absent, Blank, Blank),
   RL(590, 91, Absent, Absent, Absent, Blank, Blank),
   RL(Absent, Absent, 33333, Absent, 5000, Blank, Blank),
   RL(Absent, Absent, 150, Absent, 200000, Blank, Blank),
   RL(Absent, Absent, 150, Absent, 500000, Blank, Blank),
   RL(Absent, Absent, Absent, 200, Absent, Each(2500, 2500, Absent), Each(5, 5, 0)),
   RL(Absent, Absent, Absent, 400, 250, Blank, Blank),
   RL(Absent, Absent, Absent, 200, Absent, Each(Absent, Absent, 18000), Each(0, 0, 36)),
   RL(Absent, Absent, 15050, Absent, Absent, Blank, Blank),
   RL(1000, 1180, Absent, -180, Absent, Blank, Blank),
   RL(Absent, Absent, Absent, Absent, Absent, Blank, Blank)}

MCRawSeqs == {<<>>} \cup {<<x>> : x \in MCRawLines} \cup {<<x, y>> : x \in MCRawLines, y \in MCRawLines}

Unprinted == [key \in {"taxable", "grand"} \cup Buckets |-> Absent]

Plain(s, vendor, buyer, odd) ==
  [lines |-> s, vendor |-> vendor, buyer |-> buyer, printed |-> Unprinted,
   totals |-> Unprinted, odd |-> odd]

G(state, valid) == [state |-> state, valid |-> valid]

MCPlain == {Plain(s, G(10, TRUE), p[1], p[2]) : s \in MCRawSeqs,
              p \in {<<G(10, TRUE), FALSE>>, <<G(27, FALSE), FALSE>>, <<Absent, FALSE>>, <<Absent, TRUE>>}}

(* The totals as printed: none, or near the lines, or far from them.       *)
Prints(s, x, y) ==
  LET c == Reconcile(s) IN
  [s EXCEPT !.printed = [key \in DOMAIN @ |->
     CASE key = "taxable" /\ x # Absent -> c.taxable + x
       [] key = "grand" /\ y # Absent -> c.grand + y
       [] key = "cgst" /\ y # Absent -> c.tax["cgst"] + y
       [] OTHER -> Absent]]

MCSheets == {Prints(s, x, y) : s \in MCPlain, x \in {Absent, 1, 50, 500}, y \in {Absent, -1, 300}}

VARIABLE part

MCInit == \/ part = "verdict" /\ file = "image" /\ InvoiceInit /\ Init
          \/ /\ part = "invoice" /\ InvoiceInit
             /\ doc = CHOOSE x \in MCDocuments : x.lines = <<>>
             /\ stored = {} /\ Init

MCNext == /\ UNCHANGED part
          /\ \/ part = "verdict" /\ Next /\ UNCHANGED invoiceVars
             \/ part = "invoice" /\ InvoiceNext /\ UNCHANGED vars

MCSpec == MCInit /\ [][MCNext]_<<vars, invoiceVars, part>>
=============================================================================
