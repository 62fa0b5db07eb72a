------------------------------- MODULE Invoice -------------------------------
(***************************************************************************)
(* The figures of one invoice, from the photo to the books: extract_only   *)
(* (agents/pipeline.py) reads a file, recomputes the figures               *)
(* (tax/reconciler.py), writes them over what the model read and checks    *)
(* them (agents/verifier.py); the ledger export (services/export.py) and   *)
(* the Tally export (agents/supervisor.py, services/tally.py) each         *)
(* recompute them from the extraction the pipeline stored.                 *)
(*                                                                         *)
(* Money is in paise and rates are in thousandths of a percent, so that    *)
(* the half of a rate with two decimals is whole. A field the model left   *)
(* out, or wrote in a form parse_money refuses, is Absent.                 *)
(***************************************************************************)
EXTENDS Integers, Sequences, FiniteSets, Functions

CONSTANTS Sheets,  \* what the extractor may return
          Absent,
          Failed   \* an export that raised

Buckets == {"cgst", "sgst", "igst"}

Amount == {Absent} \cup Int

(* A line as read: amount with tax, tax, quantity * price (of two numbers  *)
(* with two decimals: in hundredths of a paisa), taxable_value, the rate   *)
(* in the tax label, rate and tax per bucket.                              *)
RawLine == [amount : Amount, tax : Amount, product : Amount, stated : Amount,
            label : {Absent} \cup Nat, rate : [Buckets -> Amount], paid : [Buckets -> Amount]]

(* A GSTIN: its state, if its first characters are digits, and whether     *)
(* validate_gstin accepts it.                                              *)
Gstin == {Absent} \cup [state : {Absent} \cup 1..99, valid : BOOLEAN]

(* The observed and the claimed totals; odd: the vendor is not an object.  *)
Totals == [{"taxable", "grand"} \cup Buckets -> Amount]

Sheet == [lines : Seq(RawLine), vendor : Gstin, buyer : Gstin, printed : Totals,
          totals : Totals, odd : BOOLEAN]

ASSUME SheetsType == Sheets \subseteq Sheet
ASSUME AbsentType == Absent \notin Int /\ Absent # Failed

VARIABLES
  phase,    \* the stage of the pipeline whose turn it is, then "filed"
  file,     \* the bytes, as far as file processing tells them apart
  raw,      \* the extraction as the model returned it
  sheet,    \* extraction_data: raw, then patched, as it is stored
  intake,   \* what the reconciliation stage found
  issues,   \* what the verifier reported: code and line (0: the document)
  row,      \* the ledger export's row
  voucher   \* the Tally export's entries: ledger, rate, amount

invoiceVars == <<phase, file, raw, sheet, intake, issues, row, voucher>>

Files == {"image", "pdf", "broken_pdf", "encrypted_pdf", "empty_pdf", "heavy_pdf", "unknown"}

(* rasterize_pdf_page refuses a PDF that does not open, is encrypted, has  *)
(* no page, or makes too large an image.                                   *)
Readable == {"image", "pdf"}
-----------------------------------------------------------------------------
(* quantize_money, and the default rounding the rate is snapped with.      *)
HalfUp(n, d) == IF n >= 0 THEN (n + d \div 2) \div d ELSE -((d \div 2 - n) \div d)

HalfEven(n, d) ==
  LET q == n \div d  rest == 2 * (n % d) IN
  IF rest < d \/ (rest = d /\ q % 2 = 0) THEN q ELSE q + 1

(* quantize_money(x * rate / 100), of x in hundredths of a paisa.          *)
TaxOn(x, rate) == HalfUp(x * rate, 10000000)

(* A rate read back from the extraction keeps two decimals.                *)
Money(x) == IF x = Absent THEN Absent ELSE HalfUp(x, 10) * 10

OrZero(x) == IF x = Absent THEN 0 ELSE x

Positive(x) == x # Absent /\ x > 0

Off(x, y, tolerance) == x > y + tolerance \/ y > x + tolerance
-----------------------------------------------------------------------------
Intra(s) ==
  LET State(party) == IF party = Absent THEN Absent ELSE party.state IN
  Absent \in {State(s.vendor), State(s.buyer)} \/ State(s.vendor) = State(s.buyer)

(* What a line is taxed on, in hundredths of a paisa.                      *)
TaxableOf(l) ==
  CASE l.amount # Absent /\ l.tax # Absent -> 100 * (l.amount - l.tax)
    [] ~(l.amount # Absent /\ l.tax # Absent) /\ l.product # Absent -> l.product
    [] OTHER -> IF l.stated = Absent THEN Absent ELSE 100 * l.stated

(* Mutant: a negative line is kept.                                        *)
KeptWhateverSign(l) == TaxableOf(l) # Absent

(* A line without a taxable value, or with a negative one, is dropped.     *)
Kept(l) == TaxableOf(l) # Absent /\ TaxableOf(l) >= 0

LineRate(l) ==
  LET t == TaxableOf(l)  half(b) == OrZero(Money(l.rate[b])) IN
  IF t > 0 /\ l.tax # Absent /\ l.tax >= 0 THEN HalfEven(20000 * l.tax, t) * 500
  ELSE IF l.label # Absent THEN l.label
  ELSE IF half("cgst") > 0 \/ half("sgst") > 0 THEN half("cgst") + half("sgst")
  ELSE IF half("igst") > 0 THEN half("igst") ELSE 0

(* The rate of each bucket, of a line taxed at x.                          *)
Split(x, intra) ==
  [b \in Buckets |-> IF intra THEN (IF b = "igst" THEN 0 ELSE x \div 2)
                              ELSE (IF b = "igst" THEN x ELSE 0)]

(* The tax is taken on the taxable value as it is; then that is rounded to *)
(* whole paise.                                                            *)
ReconcileLine(l, intra) ==
  [taxable |-> HalfUp(TaxableOf(l), 100), rate |-> LineRate(l),
   tax |-> [b \in Buckets |-> TaxOn(TaxableOf(l), Split(LineRate(l), intra)[b])]]

KeptLines(s) == {i \in DOMAIN s.lines : Kept(s.lines[i])}

(* A reconciled line is known by the line it was computed from.            *)
ReconciledLines(s) == [i \in KeptLines(s) |-> ReconcileLine(s.lines[i], Intra(s))]

Rates(lines) == {lines[i].rate : i \in DOMAIN lines}

TaxableSum(lines) == SumFunction([i \in DOMAIN lines |-> lines[i].taxable])

TaxSum(lines, b) == SumFunction([i \in DOMAIN lines |-> lines[i].tax[b]])

(* The printed taxable wins if it is within a rupee of the lines; what     *)
(* else is printed only raises doubts.                                     *)
Total(lines, printed, intra) ==
  LET tax == [b \in Buckets |-> TaxSum(lines, b)]
      summed == TaxableSum(lines)
      near == printed["taxable"] # Absent /\ ~Off(printed["taxable"], summed, 100)
      taxable == IF near THEN printed["taxable"] ELSE summed
      grand == taxable + SumFunction(tax)
      doubt(key, figure) == printed[key] # Absent /\ Off(printed[key], figure, 100)
  IN [lines |-> lines, taxable |-> taxable, tax |-> tax, grand |-> grand, intra |-> intra,
      rate |-> IF Cardinality(Rates(lines)) = 1 THEN CHOOSE x \in Rates(lines) : TRUE ELSE 0,
      doubts |-> {b \in Buckets : doubt(b, tax[b])}
                   \cup {key \in {"taxable"} : doubt(key, summed)}
                   \cup {key \in {"grand"} : doubt(key, grand)}]

Reconcile(s) == Total(ReconciledLines(s), s.printed, Intra(s))

(* Mutant: a rate the model made up for IGST stays on an intra-state line. *)
WriteLineKeepingIgst(l, x, intra) ==
  [l EXCEPT !.stated = x.taxable, !.paid = x.tax,
            !.rate = [b \in Buckets |-> IF b = "igst" /\ intra THEN @[b]
                                        ELSE Split(x.rate, intra)[b]]]

(* The figures are written over those of the extraction: the n-th line     *)
(* that was kept onto the n-th line that was read.                         *)
WriteLine(l, x, intra) ==
  [l EXCEPT !.stated = x.taxable, !.rate = Split(x.rate, intra), !.paid = x.tax]

Place(i, c) == Cardinality({j \in DOMAIN c.lines : j <= i})

Nth(n, c) == CHOOSE i \in DOMAIN c.lines : Place(i, c) = n

PatchLine(l, n, c) ==
  IF \E i \in DOMAIN c.lines : Place(i, c) = n THEN WriteLine(l, c.lines[Nth(n, c)], c.intra)
                                              ELSE l

Patch(s, c) ==
  [s EXCEPT
    !.totals = [key \in DOMAIN s.totals |->
                  CASE key = "taxable" -> c.taxable [] key = "grand" -> c.grand
                    [] OTHER -> c.tax[key]],
    !.lines = [n \in DOMAIN s.lines |-> PatchLine(s.lines[n], n, c)]]
-----------------------------------------------------------------------------
(* _check_gstins looks past a party that is no object.                     *)
GstinIssues(s) ==
  LET vendor == IF s.odd THEN {} ELSE {s.vendor} IN
  {<<"vendor_gstin_missing", 0>> : x \in vendor \cap {Absent}}
    \cup {<<"buyer_gstin_missing", 0>> : x \in {s.buyer} \cap {Absent}}
    \cup {<<"gstin_invalid", 0>> : x \in {y \in (vendor \cup {s.buyer}) \ {Absent} : ~y.valid}}

Carries(l, b) == Positive(l.paid[b]) \/ Positive(Money(l.rate[b]))

LineIssues(l, i) ==
  {<<"tax_coexistence", i>> : b \in {b \in {"cgst", "sgst"} : Carries(l, "igst") /\ Carries(l, b)}}
    \cup {<<"cgst_sgst_mismatch", i>> :
            b \in {b \in {"cgst"} : Carries(l, "cgst") # Carries(l, "sgst")}}
    \cup {<<"missing_taxable_value", i>> : x \in {l.stated} \cap {Absent}}
    \cup {<<"math_mismatch", i>> :
            b \in {b \in Buckets : /\ Absent \notin {l.stated, l.rate[b], l.paid[b]}
                                   /\ Off(TaxOn(100 * l.stated, Money(l.rate[b])), l.paid[b], 1)}}

Field(l, key) == OrZero(IF key = "taxable" THEN l.stated ELSE l.paid[key])

FieldSums(s) == [key \in {"taxable"} \cup Buckets |->
                   SumFunction([i \in DOMAIN s.lines |-> Field(s.lines[i], key)])]

TotalIssues(s) ==
  LET sum == FieldSums(s)
      off(key, figure) == s.totals[key] # Absent /\ Off(figure, s.totals[key], 1)
  IN {<<"sum_mismatch", 0>> : key \in {key \in DOMAIN sum : off(key, sum[key])}}
       \cup {<<"grand_total_mismatch", 0>> : key \in {key \in {"grand"} : off(key, SumFunction(sum))}}

Findings(s) ==
  GstinIssues(s) \cup TotalIssues(s) \cup UNION {LineIssues(s.lines[i], i) : i \in DOMAIN s.lines}
-----------------------------------------------------------------------------
(* The party takes the printed grand total, or else the one of the totals  *)
(* block.                                                                  *)
PartyAmount(s, c) ==
  CASE s.printed["grand"] # Absent -> s.printed["grand"]
    [] s.printed["grand"] = Absent /\ s.totals["grand"] # Absent -> s.totals["grand"]
    [] OTHER -> c.grand

Entry(ledger, rate, amount) == [ledger |-> ledger, rate |-> rate, amount |-> amount]

(* Mutant: the difference is not absorbed.                                 *)
NeverRoundedOff(s, c) == {}

(* What the printed grand total differs from the computed one.             *)
RoundedOff(s, c) ==
  {Entry("rounded off", 0, -x) : x \in {PartyAmount(s, c) - c.grand} \ {0}}

Slice(x, lines) == [i \in {i \in DOMAIN lines : lines[i].rate = x} |-> lines[i]]

(* A purchase for each rate, or one without tax if no line was kept ...    *)
Purchases(c) ==
  IF Rates(c.lines) = {} THEN {Entry("purchase", 0, -c.taxable)}
  ELSE {Entry("purchase", x, -TaxableSum(Slice(x, c.lines))) : x \in Rates(c.lines)}

(* ... and its tax, unless it is zero, in the ledger of a bucket and rate. *)
Taxes(c) ==
  LET tax(p) == TaxSum(Slice(p[1], c.lines), p[2]) IN
  {Entry(p[2], Split(p[1], c.intra)[p[2]], -tax(p)) :
     p \in {p \in Rates(c.lines) \X Buckets : tax(p) # 0}}

Voucher(s, c) ==
  {Entry("party", 0, PartyAmount(s, c))} \cup Purchases(c) \cup Taxes(c) \cup RoundedOff(s, c)

LedgerRow(c) == [taxable |-> c.taxable, tax |-> c.tax, grand |-> c.grand]
-----------------------------------------------------------------------------
InvoiceInit ==
  /\ phase = "file" /\ file \in Files
  /\ raw = Absent /\ sheet = Absent /\ intake = Absent /\ issues = {}
  /\ row = Absent /\ voucher = Absent

(* An image passes as it is; the first page of a PDF becomes one.          *)
ProcessFile ==
  /\ phase = "file"
  /\ IF file \in Readable THEN phase' = "classify" /\ file' = "image"
                                  ELSE phase' = "refused" /\ UNCHANGED file
  /\ UNCHANGED <<raw, sheet, intake, issues, row, voucher>>

(* A reply that breaks the schema is UNKNOWN and goes on; one that is no   *)
(* JSON, or none, ends the pipeline.                                       *)
ClassifyFile ==
  /\ phase = "classify" /\ phase' \in {"extract", "refused"}
  /\ UNCHANGED <<file, raw, sheet, intake, issues, row, voucher>>

(* Without an extraction the later stages are skipped and the document is  *)
(* stored as failed: no export takes it.                                   *)
ExtractFile ==
  /\ phase = "extract"
  /\ \/ \E x \in Sheets : raw' = x /\ sheet' = x /\ phase' = "reconcile"
     \/ phase' = "unread" /\ UNCHANGED <<raw, sheet>>
  /\ UNCHANGED <<file, intake, issues, row, voucher>>

ReconcileSheet ==
  /\ phase = "reconcile" /\ phase' = "verify"
  /\ IF sheet.odd THEN UNCHANGED <<intake, sheet>>
     ELSE intake' = Reconcile(sheet) /\ sheet' = Patch(sheet, Reconcile(sheet))
  /\ UNCHANGED <<file, raw, issues, row, voucher>>

VerifySheet ==
  /\ phase = "verify" /\ phase' = "filed"
  /\ issues' = Findings(sheet)
  /\ UNCHANGED <<file, raw, sheet, intake, row, voucher>>

(* A vendor that is no object ends either export with an AttributeError.   *)
ExportLedger ==
  /\ phase = "filed" /\ row = Absent
  /\ row' = IF sheet.odd THEN Failed ELSE LedgerRow(Reconcile(sheet))
  /\ UNCHANGED <<phase, file, raw, sheet, intake, issues, voucher>>

ExportTally ==
  /\ phase = "filed" /\ voucher = Absent
  /\ voucher' = IF sheet.odd THEN Failed ELSE Voucher(sheet, Reconcile(sheet))
  /\ UNCHANGED <<phase, file, raw, sheet, intake, issues, row>>

InvoiceNext == \/ ProcessFile \/ ClassifyFile \/ ExtractFile \/ ReconcileSheet
               \/ VerifySheet \/ ExportLedger \/ ExportTally

InvoiceSpec == InvoiceInit /\ [][InvoiceNext]_invoiceVars
-----------------------------------------------------------------------------
Exported(x) == x \notin {Absent, Failed}

InvoiceTypeOK ==
  /\ phase \in {"file", "classify", "extract", "reconcile", "verify",
                "filed", "refused", "unread"}
  /\ file \in Files
  /\ raw = Absent \/ raw \in Sheet
  /\ sheet = Absent \/ sheet \in Sheet
  /\ intake # Absent =>
       /\ intake.taxable \in Int /\ intake.grand \in Int /\ intake.tax \in [Buckets -> Int]
       /\ \A i \in DOMAIN intake.lines : intake.lines[i].taxable \in Nat
  /\ \A x \in issues : x[2] \in 0..Len(sheet.lines)
  /\ Exported(row) => row.grand \in Int
  /\ Exported(voucher) => \A e \in voucher : e.amount \in Int

(* Lines the reconciler kept come first, and the half of no rate has three *)
(* decimals, nor is it negative, as the sum of two rates the model read    *)
(* may be: the figures land on the lines they were computed from, and      *)
(* read back as they were written.                                         *)
Aligned == \A i, j \in DOMAIN raw.lines : i < j /\ Kept(raw.lines[j]) => Kept(raw.lines[i])

Exact == \A i \in KeptLines(raw) : LineRate(raw.lines[i]) >= 0 /\ LineRate(raw.lines[i]) % 20 = 0

Balance(v) == SumFunction([e \in v |-> e.amount])

(* The books show the invoice as the client was told: of an aligned and    *)
(* exact invoice, the ledger row repeats the figures found at intake, and  *)
(* the voucher is out of balance by what the printed taxable value differs *)
(* from the lines, a rupee at most, and not at all without a line.         *)
BooksShowTheInvoice ==
  intake # Absent /\ Aligned /\ Exact =>
    /\ Exported(row) => row = LedgerRow(intake)
    /\ Exported(voucher) =>
         /\ ~Off(Balance(voucher), 0, 100)
         /\ Balance(voucher) = IF DOMAIN intake.lines = {} THEN 0
                               ELSE intake.taxable - TaxableSum(intake.lines)

(* A paisa is what the verifier tolerates. The reconciler takes the tax on *)
(* quantity * price and rounds that product afterwards (reconciler.py:304, *)
(* 318-333); the verifier starts from the rounded one. What lies between   *)
(* is lost in the tolerance up to a rate of 200%.                          *)
Tolerable == \A i \in KeptLines(raw) :
  TaxableOf(raw.lines[i]) % 100 = 0 \/ LineRate(raw.lines[i]) <= 200000

(* The verifier has nothing to say against the reconciler's own figures:   *)
(* once the reconciler has rewritten an exact invoice of which it kept     *)
(* every line, all that is left to report are GSTINs and a printed taxable *)
(* value that was preferred to the lines, up to the rate above which the   *)
(* rounding of a product shows.                                            *)
FindingsAreReal ==
  /\ phase = "filed" /\ intake # Absent /\ Exact /\ Tolerable
  /\ \A i \in DOMAIN raw.lines : Kept(raw.lines[i])
  => issues \subseteq GstinIssues(raw) \cup
       IF Off(intake.taxable, TaxableSum(intake.lines), 1)
       THEN {<<"sum_mismatch", 0>>, <<"grand_total_mismatch", 0>>} ELSE {}

(* "absorb the difference here so the voucher balances to zero"            *)
(* (services/tally.py:276-278).                                            *)
VoucherBalances == Exported(voucher) => Balance(voucher) = 0

(* "every downstream consumer (verifier, tax engine, summary) reads from a *)
(* single source of truth" (agents/pipeline.py:284-287): an export finds   *)
(* what the reconciliation of the document found.                          *)
ExportSeesTheSameInvoice ==
  intake # Absent /\ Exported(row) => row = LedgerRow(intake)
=============================================================================
