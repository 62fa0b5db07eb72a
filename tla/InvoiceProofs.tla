--------------------------- MODULE InvoiceProofs ---------------------------
(***************************************************************************)
(* For any extraction a model may return, of any number of lines: an       *)
(* aligned and exact invoice goes into the ledger and into Tally as the    *)
(* client was told of it, and the verifier finds nothing that the          *)
(* reconciler did.                                                         *)
(***************************************************************************)
EXTENDS Invoice, SumTheorems

(* Rounding gives a whole number.                                          *)
LEMMA RoundingTypes ==
  ASSUME NEW n \in Int
  PROVE  /\ HalfUp(n, 10) \in Int /\ HalfUp(n, 100) \in Int
         /\ \A d \in Int : d > 0 => HalfEven(n, d) \in Int
BY DEF HalfUp, HalfEven

(* So is a tax, and nothing is not taxed.                                  *)
LEMMA TaxTypes ==
  ASSUME NEW x \in Int, NEW rate \in Int PROVE TaxOn(x, rate) \in Int
<1>1. x * rate \in Int
  OBVIOUS
<1>2. \A n \in Int : HalfUp(n, 10000000) \in Int
  BY SMT DEF HalfUp
<1> QED BY <1>1, <1>2, SMT DEF TaxOn

(* The rate is snapped to a whole number of half percents.                 *)
LEMMA HalfEvenTypes ==
  ASSUME NEW n \in Int, NEW d \in Int, d > 0 PROVE HalfEven(n, d) \in Int
BY RoundingTypes

(* A rate of two decimals is read back as it was written.                  *)
LEMMA ReadsBack ==
  ASSUME NEW x \in Nat, x % 10 = 0 PROVE Money(x) = x
BY AbsentType DEF Money, HalfUp

(* A field that is read is a whole number, or left out.                    *)
LEMMA MoneyTypes == \A x \in Amount : OrZero(Money(x)) \in Int /\ OrZero(x) \in Int
BY RoundingTypes DEF Amount, Money, OrZero

(* A line that is kept has a taxable value, and it is not negative.        *)
LEMMA TaxableTypes == 
  ASSUME NEW l \in RawLine
  PROVE  /\ TaxableOf(l) \in Amount
         /\ Kept(l) => TaxableOf(l) \in Nat /\ HalfUp(TaxableOf(l), 100) \in Nat
<1>1. /\ l.amount \in {Absent} \cup Int /\ l.tax \in {Absent} \cup Int
      /\ l.product \in {Absent} \cup Int /\ l.stated \in {Absent} \cup Int
  BY DEF RawLine, Amount
<1>2. TaxableOf(l) \in {Absent} \cup Int
  <2>1. CASE l.amount # Absent /\ l.tax # Absent
    BY <1>1, <2>1 DEF TaxableOf
  <2>2. CASE ~(l.amount # Absent /\ l.tax # Absent) /\ l.product # Absent
    BY <1>1, <2>2 DEF TaxableOf
  <2>3. CASE ~(l.amount # Absent /\ l.tax # Absent) /\ l.product = Absent
    BY <1>1, <2>3 DEF TaxableOf
  <2> QED BY <2>1, <2>2, <2>3
<1>3. \A x \in Nat : HalfUp(x, 100) \in Nat
  BY DEF HalfUp
<1> QED BY <1>2, <1>3 DEF Kept, Amount

(* It has a rate, which is not said to be positive.                        *)
LEMMA LineRateTypes ==
  ASSUME NEW l \in RawLine, Kept(l)
  PROVE  LineRate(l) \in Int
<1>1. TaxableOf(l) \in Nat
  BY TaxableTypes
<1>2. \A b \in Buckets : OrZero(Money(l.rate[b])) \in Int
  BY MoneyTypes DEF RawLine
<1>3. CASE TaxableOf(l) > 0 /\ l.tax # Absent /\ l.tax >= 0
  <2>1. l.tax \in Int
    BY <1>3 DEF RawLine, Amount
  <2>2. 20000 * l.tax \in Int
    BY <2>1
  <2>3. HalfEven(20000 * l.tax, TaxableOf(l)) \in Int
    <3> DEFINE n == 20000 * l.tax  d == TaxableOf(l)
    <3>1. n \in Int /\ d \in Int /\ d > 0
      BY <1>1, <1>3, <2>2
    <3> HIDE DEF n, d
    <3>2. HalfEven(n, d) \in Int
      BY <3>1, HalfEvenTypes
    <3> QED BY <3>2 DEF n, d
  <2>4. LineRate(l) = HalfEven(20000 * l.tax, TaxableOf(l)) * 500
    BY <1>3 DEF LineRate
  <2> QED BY <2>3, <2>4
<1>4. CASE ~(TaxableOf(l) > 0 /\ l.tax # Absent /\ l.tax >= 0)
  <2>1. l.label \in {Absent} \cup Nat
    BY DEF RawLine
  <2>2. /\ OrZero(Money(l.rate["cgst"])) \in Int /\ OrZero(Money(l.rate["sgst"])) \in Int
        /\ OrZero(Money(l.rate["igst"])) \in Int
    BY <1>2 DEF Buckets
  <2> QED BY <1>4, <2>1, <2>2 DEF LineRate
<1> QED BY <1>3, <1>4

(* A rate is shared out among the three buckets.                           *)
LEMMA SplitTypes ==
  ASSUME NEW x \in Int, NEW intra \in BOOLEAN
  PROVE  Split(x, intra) \in [Buckets -> Int]
BY DEF Split

(* So its figures are numbers.                                             *)
LEMMA LineTypes ==
  ASSUME NEW l \in RawLine, Kept(l), NEW intra \in BOOLEAN
  PROVE  ReconcileLine(l, intra) \in [taxable : Nat, rate : Int, tax : [Buckets -> Int]]
<1>1. TaxableOf(l) \in Nat /\ HalfUp(TaxableOf(l), 100) \in Nat /\ LineRate(l) \in Int
  BY TaxableTypes, LineRateTypes
<1>2. \A b \in Buckets : TaxOn(TaxableOf(l), Split(LineRate(l), intra)[b]) \in Int
  <2> TAKE b \in Buckets
  <2> DEFINE x == TaxableOf(l)  y == Split(LineRate(l), intra)[b]
  <2>1. x \in Int /\ y \in Int
    BY <1>1, SplitTypes
  <2> HIDE DEF x, y
  <2>2. TaxOn(x, y) \in Int
    BY <2>1, TaxTypes
  <2> QED BY <2>2 DEF x, y
<1> QED BY <1>1, <1>2 DEF ReconcileLine

(* The figures of one line, and of the lines of one invoice.               *)
Figures == [taxable : Nat, rate : Int, tax : [Buckets -> Int]]

LinesType(lines) == IsFiniteSet(DOMAIN lines) /\ \A i \in DOMAIN lines : lines[i] \in Figures

(* The lines of an extraction, which are finitely many.                    *)
LEMMA SheetLines ==
  ASSUME NEW s \in Sheet
  PROVE  /\ Len(s.lines) \in Nat /\ DOMAIN s.lines = 1..Len(s.lines)
         /\ \A i \in DOMAIN s.lines : s.lines[i] \in RawLine
         /\ IsFiniteSet(DOMAIN s.lines) /\ Intra(s) \in BOOLEAN
<1>1. s.lines \in Seq(RawLine)
  BY DEF Sheet
<1>2. Len(s.lines) \in Nat /\ DOMAIN s.lines = 1..Len(s.lines)
  BY <1>1
<1>3. \A i \in DOMAIN s.lines : s.lines[i] \in RawLine
  BY <1>1
<1>4. IsFiniteSet(DOMAIN s.lines)
  BY <1>2, FS_Interval
<1>5. Intra(s) \in BOOLEAN
  BY DEF Intra
<1> QED BY <1>2, <1>3, <1>4, <1>5

(* What the reconciler makes of them.                                      *)
LEMMA ReconciledTypes ==
  ASSUME NEW s \in Sheet
  PROVE  /\ DOMAIN ReconciledLines(s) = KeptLines(s)
         /\ LinesType(ReconciledLines(s))
<1>1. KeptLines(s) \subseteq DOMAIN s.lines /\ \A i \in KeptLines(s) : Kept(s.lines[i])
  BY DEF KeptLines
<1>2. IsFiniteSet(KeptLines(s))
  BY <1>1, SheetLines, FS_Subset
<1>3. \A i \in KeptLines(s) : ReconcileLine(s.lines[i], Intra(s)) \in Figures
  <2> TAKE i \in KeptLines(s)
  <2>1. s.lines[i] \in RawLine /\ Kept(s.lines[i]) /\ Intra(s) \in BOOLEAN
    BY <1>1, SheetLines
  <2> QED BY <2>1, LineTypes DEF Figures
<1> QED BY <1>2, <1>3 DEF ReconciledLines, LinesType

(* There are finitely many buckets to sum over.                            *)
LEMMA BucketsAreFinite == IsFiniteSet(Buckets)
<1>1. IsFiniteSet({"cgst"})
  BY FS_Singleton
<1>2. IsFiniteSet({"sgst"})
  BY FS_Singleton
<1>3. IsFiniteSet({"igst"})
  BY FS_Singleton
<1>4. Buckets = ({"cgst"} \cup {"sgst"}) \cup {"igst"}
  BY DEF Buckets
<1>5. IsFiniteSet({"cgst"} \cup {"sgst"})
  BY <1>1, <1>2, FS_Union
<1> QED BY <1>3, <1>4, <1>5, FS_Union

(* The sums of the lines.                                                  *)
LEMMA LineSums ==
  ASSUME NEW lines, LinesType(lines)
  PROVE  /\ TaxableSum(lines) \in Nat /\ TaxableSum(lines) \in Int
         /\ \A b \in Buckets : TaxSum(lines, b) \in Int
<1>1. TaxableSum(lines) \in Nat
  <2> DEFINE f == [i \in DOMAIN lines |-> lines[i].taxable]
  <2>1. IsFiniteSet(DOMAIN lines) /\ Nat \in {Nat, Int} /\ \A i \in DOMAIN lines : f[i] \in Nat
    BY DEF LinesType, Figures
  <2>2. DOMAIN f = DOMAIN lines
    OBVIOUS
  <2>3. TaxableSum(lines) = SumFunctionOnSet(f, DOMAIN f)
    BY DEF TaxableSum, SumFunction
  <2> HIDE DEF f
  <2>4. SumFunctionOnSet(f, DOMAIN lines) \in Nat
    BY <2>1, SumTypes
  <2> QED BY <2>2, <2>3, <2>4
<1>2. ASSUME NEW b \in Buckets PROVE TaxSum(lines, b) \in Int
  <2> DEFINE f == [i \in DOMAIN lines |-> lines[i].tax[b]]
  <2>1. IsFiniteSet(DOMAIN lines) /\ Int \in {Nat, Int} /\ \A i \in DOMAIN lines : f[i] \in Int
    BY DEF LinesType, Figures
  <2>2. DOMAIN f = DOMAIN lines
    OBVIOUS
  <2>3. TaxSum(lines, b) = SumFunctionOnSet(f, DOMAIN f)
    BY DEF TaxSum, SumFunction
  <2> HIDE DEF f
  <2>4. SumFunctionOnSet(f, DOMAIN lines) \in Int
    BY <2>1, SumTypes
  <2> QED BY <2>2, <2>3, <2>4
<1> QED BY <1>1, <1>2

(* The tax in every bucket.                                                *)
TaxSums(lines) == [b \in Buckets |-> TaxSum(lines, b)]

(* It comes to a number.                                                   *)
LEMMA TaxTotalTypes ==
  ASSUME NEW lines, LinesType(lines)
  PROVE  /\ TaxSums(lines) \in [Buckets -> Int]
         /\ SumFunction(TaxSums(lines)) = SumFunctionOnSet(TaxSums(lines), Buckets)
         /\ SumFunction(TaxSums(lines)) \in Int
<1>1. TaxSums(lines) \in [Buckets -> Int]
  BY LineSums DEF TaxSums
<1>2. SumFunction(TaxSums(lines)) = SumFunctionOnSet(TaxSums(lines), Buckets)
  BY <1>1 DEF SumFunction
<1>3. Int \in {Nat, Int} /\ \A b \in Buckets : TaxSums(lines)[b] \in Int
  BY <1>1
<1>4. SumFunctionOnSet(TaxSums(lines), Buckets) \in Int
  BY <1>3, BucketsAreFinite, SumTypes
<1> QED BY <1>1, <1>2, <1>4

(* What the totals come to: the taxable value is that of the lines to a    *)
(* rupee, and the grand total adds the tax to it.                          *)
LEMMA Totalled ==
  ASSUME NEW lines, LinesType(lines), NEW printed \in Totals, NEW intra,
         NEW c, c = Total(lines, printed, intra)
  PROVE  /\ c.lines = lines /\ c.intra = intra /\ c.tax = TaxSums(lines)
         /\ c.taxable \in Int /\ c.grand \in Int
         /\ c.grand = c.taxable + SumFunction(TaxSums(lines))
         /\ ~Off(c.taxable, TaxableSum(lines), 100)
<1> DEFINE near == printed["taxable"] # Absent /\ ~Off(printed["taxable"], TaxableSum(lines), 100)
           taxable == IF near THEN printed["taxable"] ELSE TaxableSum(lines)
<1>1. /\ c.lines = lines /\ c.intra = intra /\ c.tax = TaxSums(lines)
      /\ c.taxable = taxable
      /\ c.grand = taxable + SumFunction(TaxSums(lines))
  BY DEF Total, TaxSums
<1>2. printed["taxable"] \in {Absent} \cup Int
  BY DEF Totals, Amount
<1>3. TaxableSum(lines) \in Int /\ SumFunction(TaxSums(lines)) \in Int
  BY LineSums, TaxTotalTypes
<1>4. taxable \in Int /\ ~Off(taxable, TaxableSum(lines), 100)
  BY <1>2, <1>3 DEF Off
<1> HIDE DEF taxable
<1> QED BY <1>1, <1>3, <1>4

(* A rate of which the half has two decimals.                              *)
Whole(l) == LineRate(l) >= 0 /\ LineRate(l) % 20 = 0

(* Half the rate in each of CGST and SGST within a state, the whole in     *)
(* IGST between two.                                                       *)
LEMMA SplitOf ==
  ASSUME NEW x \in Int, NEW intra \in BOOLEAN
  PROVE  /\ intra => /\ Split(x, intra)["cgst"] = x \div 2 /\ Split(x, intra)["sgst"] = x \div 2
                     /\ Split(x, intra)["igst"] = 0
         /\ ~intra => /\ Split(x, intra)["cgst"] = 0 /\ Split(x, intra)["sgst"] = 0
                      /\ Split(x, intra)["igst"] = x
BY DEF Split, Buckets

(* The shares of such a rate are read back as they were written.           *)
LEMMA HalvesReadBack ==
  ASSUME NEW x \in Int, x >= 0, x % 20 = 0, NEW intra \in BOOLEAN, NEW b \in Buckets
  PROVE  Money(Split(x, intra)[b]) = Split(x, intra)[b] /\ Split(x, intra)[b] \in Nat
<1>1. x \in Nat /\ x \div 2 \in Nat /\ (x \div 2) % 10 = 0 /\ x % 10 = 0 /\ 0 % 10 = 0
  OBVIOUS
<1>2. Money(x \div 2) = x \div 2 /\ Money(x) = x /\ Money(0) = 0
  BY <1>1, ReadsBack
<1>3. Split(x, intra)[b] \in {x, x \div 2, 0}
  BY DEF Split
<1> QED BY <1>1, <1>2, <1>3

(* Whole paise are not rounded.                                            *)
LEMMA WholePaise == ASSUME NEW x \in Int PROVE HalfUp(100 * x, 100) = x
BY DEF HalfUp

(* A line written by the reconciler is reconciled again to the same        *)
(* figures: what it was computed from is not overwritten, or is repeated.  *)
LEMMA Rewritten ==
  ASSUME NEW l \in RawLine, Kept(l), Whole(l), NEW intra \in BOOLEAN,
         NEW m, m = WriteLine(l, ReconcileLine(l, intra), intra)
  PROVE  /\ Kept(m) /\ ReconcileLine(m, intra) = ReconcileLine(l, intra)
         /\ m.stated = HalfUp(TaxableOf(l), 100) /\ m.rate = Split(LineRate(l), intra)
         /\ m.paid = ReconcileLine(l, intra).tax
<1>1. /\ m.amount = l.amount /\ m.tax = l.tax /\ m.product = l.product /\ m.label = l.label
      /\ m.stated = HalfUp(TaxableOf(l), 100) /\ m.rate = Split(LineRate(l), intra)
      /\ m.paid = ReconcileLine(l, intra).tax
  BY DEF RawLine, WriteLine, ReconcileLine
<1>2. TaxableOf(m) = TaxableOf(l)
  <2>1. CASE l.amount # Absent /\ l.tax # Absent
    BY <1>1, <2>1 DEF TaxableOf
  <2>2. CASE ~(l.amount # Absent /\ l.tax # Absent) /\ l.product # Absent
    BY <1>1, <2>2 DEF TaxableOf
  <2>3. CASE ~(l.amount # Absent /\ l.tax # Absent) /\ l.product = Absent
    <3>1. l.stated # Absent /\ TaxableOf(l) = 100 * l.stated
      BY <2>3 DEF TaxableOf, Kept
    <3>2. l.stated \in Int
      BY <3>1 DEF RawLine, Amount
    <3>3. HalfUp(100 * l.stated, 100) = l.stated
      BY <3>2, WholePaise
    <3>4. m.stated = l.stated
      BY <1>1, <3>1, <3>3
    <3> QED BY <1>1, <2>3, <3>1, <3>4 DEF TaxableOf
  <2> QED BY <2>1, <2>2, <2>3
<1>3. TaxableOf(l) \in Nat /\ TaxableOf(l) # Absent
  BY TaxableTypes DEF Kept
<1>4. Kept(m)
  BY <1>2, <1>3 DEF Kept
<1>5. LineRate(m) = LineRate(l)
  <2>1. CASE TaxableOf(l) > 0 /\ l.tax # Absent /\ l.tax >= 0
    BY <2>1, <1>1, <1>2 DEF LineRate
  <2>2. CASE ~(TaxableOf(l) > 0 /\ l.tax # Absent /\ l.tax >= 0) /\ l.label # Absent
    BY <2>2, <1>1, <1>2 DEF LineRate
  <2>3. CASE ~(TaxableOf(l) > 0 /\ l.tax # Absent /\ l.tax >= 0) /\ l.label = Absent
    <3> DEFINE r == LineRate(l)  half(b) == OrZero(Money(m.rate[b]))
    <3>1. r \in Int /\ r >= 0 /\ r % 20 = 0
      BY LineRateTypes DEF Whole
    <3>2. \A b \in Buckets : half(b) = Split(r, intra)[b]
      <4> TAKE b \in Buckets
      <4>1. Money(Split(r, intra)[b]) = Split(r, intra)[b] /\ Split(r, intra)[b] \in Nat
        BY <3>1, HalvesReadBack
      <4> QED BY <4>1, <1>1, AbsentType DEF OrZero
    <3>3. LineRate(m) = IF half("cgst") > 0 \/ half("sgst") > 0 THEN half("cgst") + half("sgst")
                        ELSE IF half("igst") > 0 THEN half("igst") ELSE 0
      BY <2>3, <1>1, <1>2 DEF LineRate
    <3>4. half("cgst") = Split(r, intra)["cgst"] /\ half("sgst") = Split(r, intra)["sgst"]
          /\ half("igst") = Split(r, intra)["igst"]
      BY <3>2 DEF Buckets
    <3> HIDE DEF r, half
    <3>5. CASE intra
      <4>1. half("cgst") = r \div 2 /\ half("sgst") = r \div 2 /\ half("igst") = 0
        BY <3>1, <3>4, <3>5, SplitOf
      <4> QED BY <4>1, <3>1, <3>3 DEF r
    <3>6. CASE ~intra
      <4>1. half("cgst") = 0 /\ half("sgst") = 0 /\ half("igst") = r
        BY <3>1, <3>4, <3>6, SplitOf
      <4> QED BY <4>1, <3>1, <3>3 DEF r
    <3> QED BY <3>5, <3>6
  <2> QED BY <2>1, <2>2, <2>3
<1> QED BY <1>1, <1>2, <1>4, <1>5 DEF ReconcileLine

(* A rewritten line is one the model could have returned.                  *)
LEMMA RewrittenType ==
  ASSUME NEW l \in RawLine, NEW x \in Figures, NEW intra \in BOOLEAN
  PROVE  WriteLine(l, x, intra) \in RawLine
<1>1. x.taxable \in Int /\ x.rate \in Int /\ x.tax \in [Buckets -> Int]
  BY DEF Figures
<1>2. Split(x.rate, intra) \in [Buckets -> Int]
  BY <1>1, SplitTypes
<1>3. x.taxable \in Amount /\ x.tax \in [Buckets -> Amount]
      /\ Split(x.rate, intra) \in [Buckets -> Amount]
  BY <1>1, <1>2 DEF Amount
<1> QED BY <1>3 DEF RawLine, WriteLine

(* The lines that were kept come first ...                                 *)
InOrder(s) == \A i, j \in DOMAIN s.lines : i < j /\ Kept(s.lines[j]) => Kept(s.lines[i])

(* ... and have rates whose halves have two decimals.                      *)
Halves(s) == \A i \in KeptLines(s) : Whole(s.lines[i])

(* The extraction as the pipeline stores it.                               *)
Patched(s) == Patch(s, Reconcile(s))

(* The totals of an extraction.                                            *)
LEMMA ReconciledIs ==
  ASSUME NEW s \in Sheet
  PROVE  /\ Reconcile(s).lines = ReconciledLines(s) /\ Reconcile(s).intra = Intra(s)
         /\ Reconcile(s).tax = TaxSums(ReconciledLines(s))
         /\ Reconcile(s).taxable \in Int /\ Reconcile(s).grand \in Int
         /\ Reconcile(s).grand = Reconcile(s).taxable + SumFunction(TaxSums(ReconciledLines(s)))
         /\ ~Off(Reconcile(s).taxable, TaxableSum(ReconciledLines(s)), 100)
<1>1. LinesType(ReconciledLines(s))
  BY ReconciledTypes
<1>2. s.printed \in Totals
  BY DEF Sheet
<1>3. Reconcile(s) = Total(ReconciledLines(s), s.printed, Intra(s))
  BY DEF Reconcile
<1> HIDE DEF Reconcile
<1> QED BY <1>1, <1>2, <1>3, Totalled

(* Patching leaves the parties, what is printed and the number of lines.   *)
LEMMA PatchKeeps ==
  ASSUME NEW s \in Sheet, NEW c
  PROVE  /\ Patch(s, c).vendor = s.vendor /\ Patch(s, c).buyer = s.buyer
         /\ Patch(s, c).printed = s.printed /\ Patch(s, c).odd = s.odd
         /\ Patch(s, c).totals =
              [key \in {"taxable", "grand"} \cup Buckets |->
                 CASE key = "taxable" -> c.taxable [] key = "grand" -> c.grand
                   [] OTHER -> c.tax[key]]
         /\ DOMAIN Patch(s, c).lines = DOMAIN s.lines
         /\ Intra(Patch(s, c)) = Intra(s)
<1>1. /\ Patch(s, c).vendor = s.vendor /\ Patch(s, c).buyer = s.buyer
      /\ Patch(s, c).printed = s.printed /\ Patch(s, c).odd = s.odd
      /\ DOMAIN Patch(s, c).lines = DOMAIN s.lines
  BY DEF Sheet, Patch
<1>2. DOMAIN s.totals = {"taxable", "grand"} \cup Buckets
  BY DEF Sheet, Totals
<1>3. Patch(s, c).totals =
              [key \in {"taxable", "grand"} \cup Buckets |->
                 CASE key = "taxable" -> c.taxable [] key = "grand" -> c.grand
                   [] OTHER -> c.tax[key]]
  BY <1>2 DEF Sheet, Patch
<1>4. Intra(Patch(s, c)) = Intra(s)
  BY <1>1 DEF Intra
<1> QED BY <1>1, <1>3, <1>4

(* It writes the claimed totals ...                                        *)
LEMMA PatchedTotals ==
  ASSUME NEW s \in Sheet, NEW c
  PROVE  /\ Patch(s, c).totals["taxable"] = c.taxable /\ Patch(s, c).totals["grand"] = c.grand
         /\ \A b \in Buckets : Patch(s, c).totals[b] = c.tax[b]
<1> DEFINE u == Patch(s, c).totals
<1>1. u = [key \in {"taxable", "grand"} \cup Buckets |->
             CASE key = "taxable" -> c.taxable [] key = "grand" -> c.grand [] OTHER -> c.tax[key]]
  BY PatchKeeps, Zenon
<1> HIDE DEF u
<1>2. /\ u["taxable"] = c.taxable /\ u["grand"] = c.grand
      /\ \A b \in Buckets : u[b] = c.tax[b]
  BY <1>1 DEF Buckets
<1> QED BY <1>2 DEF u

(* ... and, line by line, those of the reconciler.                         *)
LEMMA PatchedLine ==
  ASSUME NEW s \in Sheet, NEW c, NEW n \in DOMAIN s.lines
  PROVE  Patch(s, c).lines[n] = PatchLine(s.lines[n], n, c)
BY DEF Sheet, Patch

(* A patched extraction is one the model could have returned.              *)
LEMMA PatchedType ==
  ASSUME NEW s \in Sheet PROVE Patched(s) \in Sheet
<1> DEFINE c == Reconcile(s)  t == Patch(s, c)
<1>1. c.lines = ReconciledLines(s) /\ c.intra \in BOOLEAN /\ c.taxable \in Int /\ c.grand \in Int
      /\ c.tax \in [Buckets -> Int] /\ LinesType(c.lines)
  BY ReconciledIs, ReconciledTypes, SheetLines, TaxTotalTypes
<1> HIDE DEF c
<1>2. t.totals \in Totals
  <2>1. \A key \in {"taxable", "grand"} \cup Buckets :
          (CASE key = "taxable" -> c.taxable [] key = "grand" -> c.grand [] OTHER -> c.tax[key]) \in Amount
    BY <1>1 DEF Amount
  <2>2. t.totals = [key \in {"taxable", "grand"} \cup Buckets |->
                      CASE key = "taxable" -> c.taxable [] key = "grand" -> c.grand
                        [] OTHER -> c.tax[key]]
    BY PatchKeeps, Zenon
  <2> HIDE DEF t
  <2> QED BY <2>1, <2>2 DEF Totals
<1>3. t.lines \in Seq(RawLine)
  <2>1. ASSUME NEW n \in DOMAIN s.lines PROVE t.lines[n] \in RawLine
    <3>1. s.lines[n] \in RawLine
      BY SheetLines
    <3> DEFINE j == Nth(n, c)
    <3>0. t.lines[n] = PatchLine(s.lines[n], n, c)
      BY PatchedLine, Zenon
    <3> HIDE DEF t
    <3>2. CASE \E i \in DOMAIN c.lines : Place(i, c) = n
      <4>1. j \in DOMAIN c.lines
        BY <3>2 DEF Nth
      <4>2. c.lines[j] \in Figures
        BY <1>1, <4>1 DEF LinesType
      <4>3. t.lines[n] = WriteLine(s.lines[n], c.lines[j], c.intra)
        BY <3>2, <3>0 DEF PatchLine
      <4> HIDE DEF j
      <4> QED BY <1>1, <3>1, <4>2, <4>3, RewrittenType
    <3>3. CASE ~ \E i \in DOMAIN c.lines : Place(i, c) = n
      BY <3>1, <3>3, <3>0 DEF PatchLine
    <3> QED BY <3>2, <3>3
  <2>2. t.lines = [n \in DOMAIN s.lines |-> t.lines[n]]
    BY DEF Sheet, Patch
  <2>3. Len(s.lines) \in Nat /\ DOMAIN s.lines = 1..Len(s.lines)
    BY SheetLines
  <2> HIDE DEF t
  <2> QED BY <2>1, <2>2, <2>3
<1>4. t = [s EXCEPT !.totals = t.totals, !.lines = t.lines]
  BY DEF Sheet, Patch
<1> HIDE DEF t
<1>5. t \in Sheet
  BY <1>2, <1>3, <1>4 DEF Sheet
<1> QED BY <1>5 DEF t, c, Patched

(* If the kept lines come first, each keeps its place.                     *)
LEMMA InPlace ==
  ASSUME NEW s \in Sheet, InOrder(s), NEW c, DOMAIN c.lines = KeptLines(s),
         NEW i \in KeptLines(s)
  PROVE  Place(i, c) = i
<1>1. Len(s.lines) \in Nat /\ DOMAIN s.lines = 1..Len(s.lines)
  BY SheetLines
<1>2. i \in 1..Len(s.lines) /\ KeptLines(s) \subseteq 1..Len(s.lines)
  BY <1>1 DEF KeptLines
<1>3. {j \in KeptLines(s) : j <= i} = 1..i
  <2>1. ASSUME NEW j \in 1..i PROVE j \in KeptLines(s)
    <3>1. j \in DOMAIN s.lines /\ i \in DOMAIN s.lines /\ Kept(s.lines[i]) /\ (j < i \/ j = i)
      BY <1>1, <1>2 DEF KeptLines
    <3> QED BY <3>1 DEF InOrder, KeptLines
  <2> QED BY <1>2, <2>1
<1>4. Cardinality(1..i) = i
  BY <1>2, FS_Interval
<1> QED BY <1>3, <1>4 DEF Place

(* Then every kept line gets the figures computed from it.                 *)
LEMMA PatchedInOrder ==
  ASSUME NEW s \in Sheet, InOrder(s), NEW n \in DOMAIN s.lines
  PROVE  Patched(s).lines[n] =
           IF n \in KeptLines(s)
           THEN WriteLine(s.lines[n], ReconcileLine(s.lines[n], Intra(s)), Intra(s))
           ELSE s.lines[n]
<1> DEFINE c == Reconcile(s)
<1>1. c.lines = ReconciledLines(s) /\ c.intra = Intra(s) /\ DOMAIN c.lines = KeptLines(s)
  BY ReconciledIs, ReconciledTypes
<1> HIDE DEF c
<1>2. \A i \in DOMAIN c.lines : Place(i, c) = i
  BY <1>1, InPlace
<1>5. Patch(s, c).lines[n] = PatchLine(s.lines[n], n, c)
  BY PatchedLine, Zenon
<1>3. CASE n \in KeptLines(s)
  <2>1. Nth(n, c) = n
    BY <1>1, <1>2, <1>3 DEF Nth
  <2>2. \E i \in DOMAIN c.lines : Place(i, c) = n
    BY <1>1, <1>2, <1>3
  <2>3. Patch(s, c).lines[n] = WriteLine(s.lines[n], c.lines[n], c.intra)
    BY <2>1, <2>2, <1>5 DEF PatchLine
  <2>4. c.lines[n] = ReconcileLine(s.lines[n], Intra(s))
    BY <1>1, <1>3 DEF ReconciledLines
  <2> QED BY <1>1, <1>3, <2>3, <2>4 DEF Patched, c
<1>4. CASE n \notin KeptLines(s)
  <2>1. ~ \E i \in DOMAIN c.lines : Place(i, c) = n
    BY <1>1, <1>2, <1>4
  <2>2. Patch(s, c).lines[n] = s.lines[n]
    BY <2>1, <1>5 DEF PatchLine
  <2> QED BY <2>2, <1>4 DEF Patched, c
<1> QED BY <1>3, <1>4

(* And the stored extraction is reconciled as the one the model returned.  *)
LEMMA ReadAgain ==
  ASSUME NEW s \in Sheet, InOrder(s), Halves(s)
  PROVE  Reconcile(Patched(s)) = Reconcile(s)
<1> DEFINE t == Patched(s)
<1>1. DOMAIN t.lines = DOMAIN s.lines /\ Intra(t) = Intra(s) /\ t.printed = s.printed
  BY PatchKeeps DEF Patched
<1>2. ASSUME NEW n \in DOMAIN s.lines
      PROVE  /\ Kept(t.lines[n]) <=> Kept(s.lines[n])
             /\ Kept(s.lines[n]) =>
                  ReconcileLine(t.lines[n], Intra(s)) = ReconcileLine(s.lines[n], Intra(s))
  <2>1. s.lines[n] \in RawLine /\ Intra(s) \in BOOLEAN
    BY SheetLines
  <2>2. CASE n \in KeptLines(s)
    <3>1. Kept(s.lines[n]) /\ Whole(s.lines[n])
      BY <2>2 DEF KeptLines, Halves
    <3>2. t.lines[n] = WriteLine(s.lines[n], ReconcileLine(s.lines[n], Intra(s)), Intra(s))
      BY <2>2, PatchedInOrder
    <3> HIDE DEF t
    <3> QED BY <2>1, <3>1, <3>2, Rewritten
  <2>3. CASE n \notin KeptLines(s)
    <3>1. t.lines[n] = s.lines[n] /\ ~Kept(s.lines[n])
      BY <2>3, PatchedInOrder DEF KeptLines
    <3> QED BY <3>1
  <2> QED BY <2>2, <2>3
<1> HIDE DEF t
<1>3. KeptLines(t) = KeptLines(s)
  BY <1>1, <1>2 DEF KeptLines
<1>4. ReconciledLines(t) = ReconciledLines(s)
  BY <1>1, <1>2, <1>3 DEF ReconciledLines, KeptLines
<1> QED BY <1>1, <1>4 DEF Reconcile, t

(* An invoice has finitely many rates.                                     *)
LEMMA RatesAreFinite ==
  ASSUME NEW lines, LinesType(lines)
  PROVE  IsFiniteSet(Rates(lines)) /\ \A x \in Rates(lines) : x \in Int
<1> DEFINE h == [i \in DOMAIN lines |-> lines[i].rate]
<1>1. Rates(lines) = {h[i] : i \in DOMAIN lines}
  BY DEF Rates
<1>2. IsFiniteSet({h[i] : i \in DOMAIN lines})
  BY ImageIsFinite DEF LinesType
<1> QED BY <1>1, <1>2 DEF LinesType, Figures

(* The lines of one rate.                                                  *)
LEMMA SliceTypes ==
  ASSUME NEW lines, LinesType(lines), NEW x
  PROVE  /\ LinesType(Slice(x, lines))
         /\ DOMAIN Slice(x, lines) = {i \in DOMAIN lines : lines[i].rate = x}
         /\ \A i \in DOMAIN Slice(x, lines) : Slice(x, lines)[i] = lines[i]
<1>1. /\ DOMAIN Slice(x, lines) = {i \in DOMAIN lines : lines[i].rate = x}
      /\ \A i \in DOMAIN Slice(x, lines) : Slice(x, lines)[i] = lines[i]
  BY DEF Slice
<1>2. IsFiniteSet(DOMAIN Slice(x, lines))
  BY <1>1, FS_Subset DEF LinesType
<1> QED BY <1>1, <1>2 DEF LinesType

(* The lines of one rate after the other are all the lines: of what they   *)
(* are taxed at ...                                                        *)
LEMMA SlicesTaxable ==
  ASSUME NEW lines, LinesType(lines), NEW v,
         \A x \in Rates(lines) : v[x] = TaxableSum(Slice(x, lines))
  PROVE  SumFunctionOnSet(v, Rates(lines)) = TaxableSum(lines)
<1> DEFINE w == [i \in DOMAIN lines |-> lines[i].taxable]
           key == [i \in DOMAIN lines |-> lines[i].rate]
<1>1. IsFiniteSet(DOMAIN lines) /\ \A i \in DOMAIN lines : w[i] \in Int
  BY DEF LinesType, Figures
<1>2. IsFiniteSet(Rates(lines)) /\ \A i \in DOMAIN lines : key[i] \in Rates(lines)
  BY RatesAreFinite DEF Rates
<1>3. ASSUME NEW x \in Rates(lines)
      PROVE  v[x] = SumFunctionOnSet(w, Fiber(DOMAIN lines, key, x))
  <2> DEFINE D == DOMAIN Slice(x, lines)
             u == [i \in D |-> Slice(x, lines)[i].taxable]
  <2>0. /\ LinesType(Slice(x, lines)) /\ D = {i \in DOMAIN lines : lines[i].rate = x}
        /\ \A i \in D : Slice(x, lines)[i] = lines[i]
    BY SliceTypes, Zenon
  <2>1. D = Fiber(DOMAIN lines, key, x) /\ IsFiniteSet(D)
    <3>1. IsFiniteSet(D)
      BY <2>0 DEF LinesType
    <3> HIDE DEF D
    <3>2. D = Fiber(DOMAIN lines, key, x)
      BY <2>0 DEF Fiber
    <3> QED BY <3>1, <3>2
  <2>2. \A i \in D : w[i] \in Int /\ u[i] = w[i]
    <3>1. \A i \in D : w[i] \in Int /\ w[i] = lines[i].taxable
      BY <1>1, <2>0
    <3>2. \A i \in D : u[i] = lines[i].taxable
      BY <2>0
    <3> QED BY <3>1, <3>2
  <2>3. TaxableSum(Slice(x, lines)) = SumFunctionOnSet(u, D)
    BY DEF TaxableSum, SumFunction
  <2> HIDE DEF u, w, D
  <2>4. SumFunctionOnSet(w, D) = SumFunctionOnSet(u, D)
    BY <2>1, <2>2, SumSame
  <2> QED BY <2>1, <2>3, <2>4
<1>4. TaxableSum(lines) = SumFunctionOnSet(w, DOMAIN lines)
  BY DEF TaxableSum, SumFunction
<1> HIDE DEF w, key
<1>5. \A x \in Rates(lines) : v[x] = SumFunctionOnSet(w, Fiber(DOMAIN lines, key, x))
  BY <1>3
<1>6. SumFunctionOnSet(v, Rates(lines)) = SumFunctionOnSet(w, DOMAIN lines)
  BY <1>1, <1>2, <1>5, SumOfFibers
<1> QED BY <1>4, <1>6

(* ... and of the tax in a bucket.                                         *)
LEMMA SlicesTax ==
  ASSUME NEW lines, LinesType(lines), NEW b \in Buckets, NEW v,
         \A x \in Rates(lines) : v[x] = TaxSum(Slice(x, lines), b)
  PROVE  SumFunctionOnSet(v, Rates(lines)) = TaxSum(lines, b)
<1> DEFINE w == [i \in DOMAIN lines |-> lines[i].tax[b]]
           key == [i \in DOMAIN lines |-> lines[i].rate]
<1>1. IsFiniteSet(DOMAIN lines) /\ \A i \in DOMAIN lines : w[i] \in Int
  BY DEF LinesType, Figures
<1>2. IsFiniteSet(Rates(lines)) /\ \A i \in DOMAIN lines : key[i] \in Rates(lines)
  BY RatesAreFinite DEF Rates
<1>3. ASSUME NEW x \in Rates(lines)
      PROVE  v[x] = SumFunctionOnSet(w, Fiber(DOMAIN lines, key, x))
  <2> DEFINE D == DOMAIN Slice(x, lines)
             u == [i \in D |-> Slice(x, lines)[i].tax[b]]
  <2>0. /\ LinesType(Slice(x, lines)) /\ D = {i \in DOMAIN lines : lines[i].rate = x}
        /\ \A i \in D : Slice(x, lines)[i] = lines[i]
    BY SliceTypes, Zenon
  <2>1. D = Fiber(DOMAIN lines, key, x) /\ IsFiniteSet(D)
    <3>1. IsFiniteSet(D)
      BY <2>0 DEF LinesType
    <3> HIDE DEF D
    <3>2. D = Fiber(DOMAIN lines, key, x)
      BY <2>0 DEF Fiber
    <3> QED BY <3>1, <3>2
  <2>2. \A i \in D : w[i] \in Int /\ u[i] = w[i]
    <3>1. \A i \in D : w[i] \in Int /\ w[i] = lines[i].tax[b]
      BY <1>1, <2>0
    <3>2. \A i \in D : u[i] = lines[i].tax[b]
      BY <2>0
    <3> QED BY <3>1, <3>2
  <2>3. TaxSum(Slice(x, lines), b) = SumFunctionOnSet(u, D)
    BY DEF TaxSum, SumFunction
  <2> HIDE DEF u, w, D
  <2>4. SumFunctionOnSet(w, D) = SumFunctionOnSet(u, D)
    BY <2>1, <2>2, SumSame
  <2> QED BY <2>1, <2>3, <2>4
<1>4. TaxSum(lines, b) = SumFunctionOnSet(w, DOMAIN lines)
  BY DEF TaxSum, SumFunction
<1> HIDE DEF w, key
<1>5. \A x \in Rates(lines) : v[x] = SumFunctionOnSet(w, Fiber(DOMAIN lines, key, x))
  BY <1>3
<1>6. SumFunctionOnSet(v, Rates(lines)) = SumFunctionOnSet(w, DOMAIN lines)
  BY <1>1, <1>2, <1>5, SumOfFibers
<1> QED BY <1>4, <1>6

(* Entries that book v[x] for each x of R come to the negative of the sum. *)
LEMMA BookedSum ==
  ASSUME NEW f, NEW R, IsFiniteSet(R), NEW h, NEW v,
         \A x \in R : v[x] \in Int /\ f[h[x]] = -v[x],
         \A x, y \in R : h[x] = h[y] => x = y
  PROVE  SumFunctionOnSet(f, {h[x] : x \in R}) = -SumFunctionOnSet(v, R)
<1> DEFINE u == [x \in R |-> -v[x]]
<1>1. \A x \in R : f[h[x]] = u[x] /\ u[x] \in Int
  OBVIOUS
<1>2. \A x \in R : v[x] \in Int /\ u[x] = -v[x]
  OBVIOUS
<1> HIDE DEF u
<1>3. SumFunctionOnSet(f, {h[x] : x \in R}) = SumFunctionOnSet(u, R)
  BY <1>1, SumOfImage
<1>4. SumFunctionOnSet(u, R) = -SumFunctionOnSet(v, R)
  BY <1>2, SumNegated
<1> QED BY <1>3, <1>4

(* The purchases come to the taxable value of the lines.                   *)
LEMMA PurchasesSum ==
  ASSUME NEW c, LinesType(c.lines), c.taxable \in Int, NEW f,
         \A e \in Purchases(c) : f[e] = e.amount
  PROVE  /\ IsFiniteSet(Purchases(c))
         /\ \A e \in Purchases(c) : e.ledger = "purchase" /\ e.amount \in Int
         /\ SumFunctionOnSet(f, Purchases(c)) =
              IF Rates(c.lines) = {} THEN -c.taxable ELSE -TaxableSum(c.lines)
<1>1. CASE Rates(c.lines) = {}
  <2> DEFINE e == Entry("purchase", 0, -c.taxable)
  <2>1. Purchases(c) = {e} /\ e.ledger = "purchase" /\ e.amount = -c.taxable
    BY <1>1 DEF Purchases, Entry
  <2> HIDE DEF e
  <2>2. IsFiniteSet({e})
    BY FS_Singleton, Zenon
  <2>4. e \in Purchases(c)
    BY <2>1
  <2>5. f[e] = e.amount
    BY <2>4
  <2>6. f[e] = -c.taxable /\ f[e] \in Int
    BY <2>5, <2>1
  <2>3. SumFunctionOnSet(f, {e}) = f[e]
    BY <2>6, SumOfOne
  <2> QED BY <1>1, <2>1, <2>2, <2>3, <2>6
<1>2. CASE Rates(c.lines) # {}
  <2> DEFINE R == Rates(c.lines)
             v == [x \in R |-> TaxableSum(Slice(x, c.lines))]
             h == [x \in R |-> Entry("purchase", x, -v[x])]
  <2>1. IsFiniteSet(R)
    BY RatesAreFinite
  <2>2. Purchases(c) = {h[x] : x \in R}
    BY <1>2 DEF Purchases
  <2>3. \A x \in R : v[x] \in Int /\ v[x] = TaxableSum(Slice(x, c.lines))
    BY SliceTypes, LineSums
  <2>4. \A x \in R : h[x].ledger = "purchase" /\ h[x].rate = x /\ h[x].amount = -v[x]
    BY DEF Entry
  <2> HIDE DEF h, v
  <2>5. \A x, y \in R : h[x] = h[y] => x = y
    BY <2>4
  <2>6. \A x \in R : v[x] \in Int /\ f[h[x]] = -v[x]
    BY <2>2, <2>3, <2>4
  <2>7. IsFiniteSet({h[x] : x \in R})
    BY <2>1, ImageIsFinite
  <2>8. SumFunctionOnSet(f, {h[x] : x \in R}) = -SumFunctionOnSet(v, R)
    BY <2>1, <2>5, <2>6, BookedSum
  <2>9. SumFunctionOnSet(v, R) = TaxableSum(c.lines)
    BY <2>3, SlicesTaxable
  <2>10. \A e \in Purchases(c) : e.ledger = "purchase" /\ e.amount \in Int
    BY <2>2, <2>3, <2>4
  <2> QED BY <1>2, <2>2, <2>7, <2>8, <2>9, <2>10
<1> QED BY <1>1, <1>2

(* Rates are even, and where a bucket has no rate there is no tax in it.   *)
Booked(c) ==
  \A i \in DOMAIN c.lines :
    /\ c.lines[i].rate % 2 = 0
    /\ \A b \in Buckets : Split(c.lines[i].rate, c.intra)[b] = 0 => c.lines[i].tax[b] = 0

(* IGST is not charged within a state, nor the others between two: an      *)
(* entry of rate zero would merge with that of another bucket.             *)
LEMMA NoTaxInTheOther ==
  ASSUME NEW c, LinesType(c.lines), Booked(c), NEW x \in Rates(c.lines), NEW b \in Buckets,
         Split(x, c.intra)[b] = 0
  PROVE  TaxSum(Slice(x, c.lines), b) = 0
<1> DEFINE S == Slice(x, c.lines)
           u == [i \in DOMAIN S |-> S[i].tax[b]]
<1>1. /\ LinesType(S) /\ DOMAIN S = {i \in DOMAIN c.lines : c.lines[i].rate = x}
      /\ \A i \in DOMAIN S : S[i] = c.lines[i]
  BY SliceTypes, Zenon
<1>2. IsFiniteSet(DOMAIN S)
  BY <1>1 DEF LinesType
<1>3. TaxSum(S, b) = SumFunctionOnSet(u, DOMAIN S)
  BY DEF TaxSum, SumFunction
<1> HIDE DEF S
<1>4. \A i \in DOMAIN S : u[i] = 0
  BY <1>1 DEF Booked
<1> HIDE DEF u
<1>5. SumFunctionOnSet(u, DOMAIN S) = 0
  BY <1>2, <1>4, SumOfZeros
<1> QED BY <1>3, <1>5 DEF S

(* The tax by rate and bucket.                                             *)
TaxAt(lines) == [q \in Rates(lines) \X Buckets |-> TaxSum(Slice(q[1], lines), q[2])]

(* It comes to the tax of the invoice.                                     *)
LEMMA TaxAtSum ==
  ASSUME NEW lines, LinesType(lines)
  PROVE  /\ IsFiniteSet(Rates(lines) \X Buckets)
         /\ \A q \in Rates(lines) \X Buckets : TaxAt(lines)[q] \in Int
         /\ SumFunctionOnSet(TaxAt(lines), Rates(lines) \X Buckets) = SumFunction(TaxSums(lines))
<1> DEFINE R == Rates(lines)  Q == R \X Buckets  key == [q \in Q |-> q[2]]
<1>1. IsFiniteSet(R)
  BY RatesAreFinite
<1>2. IsFiniteSet(Q)
  BY <1>1, BucketsAreFinite, FS_Product
<1>3. \A q \in Q : TaxAt(lines)[q] \in Int
  <2> TAKE q \in Q
  <2>1. LinesType(Slice(q[1], lines)) /\ q[2] \in Buckets
    BY SliceTypes
  <2> QED BY <2>1, LineSums DEF TaxAt
<1>4. ASSUME NEW b \in Buckets
      PROVE  TaxSums(lines)[b] = SumFunctionOnSet(TaxAt(lines), Fiber(Q, key, b))
  <2> DEFINE k == [x \in R |-> <<x, b>>]
             v == [x \in R |-> TaxSum(Slice(x, lines), b)]
  <2>1. Fiber(Q, key, b) = {k[x] : x \in R}
    BY DEF Fiber
  <2>2. \A x \in R : v[x] = TaxSum(Slice(x, lines), b) /\ v[x] \in Int
    BY SliceTypes, LineSums
  <2>3. \A x \in R : k[x] \in Q /\ TaxAt(lines)[k[x]] = TaxSum(Slice(x, lines), b)
    BY DEF TaxAt
  <2>4. \A x, y \in R : k[x] = k[y] => x = y
    OBVIOUS
  <2> HIDE DEF k, v, key, R
  <2>5. \A x \in R : TaxAt(lines)[k[x]] = v[x] /\ v[x] \in Int
    BY <2>2, <2>3
  <2>6. SumFunctionOnSet(TaxAt(lines), {k[x] : x \in R}) = SumFunctionOnSet(v, R)
    BY <1>1, <2>4, <2>5, SumOfImage
  <2>7. SumFunctionOnSet(v, R) = TaxSum(lines, b)
    BY <2>2, SlicesTax DEF R
  <2> QED BY <2>1, <2>6, <2>7 DEF TaxSums
<1>5. \A q \in Q : key[q] \in Buckets
  OBVIOUS
<1> HIDE DEF key, Q
<1>6. \A b \in Buckets : TaxSums(lines)[b] = SumFunctionOnSet(TaxAt(lines), Fiber(Q, key, b))
  BY <1>4
<1>7. SumFunctionOnSet(TaxSums(lines), Buckets) = SumFunctionOnSet(TaxAt(lines), Q)
  BY <1>2, <1>3, <1>5, <1>6, BucketsAreFinite, SumOfFibers
<1> QED BY <1>2, <1>3, <1>7, TaxTotalTypes DEF Q

(* So do the tax entries, each of its own rate and bucket.                 *)
LEMMA TaxesSum ==
  ASSUME NEW c, LinesType(c.lines), c.intra \in BOOLEAN, Booked(c), NEW f,
         \A e \in Taxes(c) : f[e] = e.amount
  PROVE  /\ IsFiniteSet(Taxes(c))
         /\ \A e \in Taxes(c) : e.ledger \in Buckets /\ e.amount \in Int
         /\ SumFunctionOnSet(f, Taxes(c)) = -SumFunction(TaxSums(c.lines))
<1> DEFINE Q == Rates(c.lines) \X Buckets
           v == TaxAt(c.lines)
           P == {q \in Q : v[q] # 0}
           h == [q \in Q |-> Entry(q[2], Split(q[1], c.intra)[q[2]], -v[q])]
<1>1. IsFiniteSet(Q) /\ \A q \in Q : v[q] \in Int
  BY TaxAtSum
<1>2. IsFiniteSet(P)
  BY <1>1, FS_Subset
<1>3. \A q \in Q : v[q] = TaxSum(Slice(q[1], c.lines), q[2])
  BY DEF TaxAt
<1>4. Taxes(c) = {h[q] : q \in P}
  <2>1. Taxes(c) = {Entry(q[2], Split(q[1], c.intra)[q[2]], -TaxSum(Slice(q[1], c.lines), q[2])) :
                      q \in {q \in Q : TaxSum(Slice(q[1], c.lines), q[2]) # 0}}
    BY Zenon DEF Taxes
  <2> HIDE DEF v, Q
  <2>2. P = {q \in Q : TaxSum(Slice(q[1], c.lines), q[2]) # 0}
    BY <1>3
  <2> QED BY <1>3, <2>1, <2>2
<1>5. \A q \in Q : /\ h[q].ledger = q[2] /\ h[q].rate = Split(q[1], c.intra)[q[2]]
                   /\ h[q].amount = -v[q]
  BY DEF Entry
<1>6. \A p, q \in P : h[p] = h[q] => p = q
  <2> SUFFICES ASSUME NEW p \in P, NEW q \in P, h[p] = h[q] PROVE p[1] = q[1] /\ p[2] = q[2]
    OBVIOUS
  <2>1. p[2] = q[2] /\ Split(p[1], c.intra)[p[2]] = Split(q[1], c.intra)[q[2]] /\ p[2] \in Buckets
    BY <1>5
  <2>2. p[1] \in Rates(c.lines) /\ q[1] \in Rates(c.lines)
    OBVIOUS
  <2>3. p[1] \in Int /\ q[1] \in Int /\ p[1] % 2 = 0 /\ q[1] % 2 = 0
    BY <2>2, RatesAreFinite DEF Booked, Rates
  <2>4. Split(p[1], c.intra)[p[2]] # 0
    BY <1>3, <2>1, <2>2, NoTaxInTheOther
  <2>5. CASE c.intra
    <3>1. p[2] \in {"cgst", "sgst"}
      <4>1. Split(p[1], c.intra)["igst"] = 0
        BY <2>3, <2>5, SplitOf
      <4>2. p[2] # "igst"
        BY <4>1, <2>4
      <4> QED BY <4>2, <2>1 DEF Buckets
    <3>2. p[1] \div 2 = q[1] \div 2
      <4>1. \A r \in Int : Split(r, c.intra)["cgst"] = r \div 2 /\ Split(r, c.intra)["sgst"] = r \div 2
        BY <2>5, SplitOf
      <4>2. Split(p[1], c.intra)[p[2]] = p[1] \div 2 /\ Split(q[1], c.intra)[p[2]] = q[1] \div 2
        BY <2>3, <3>1, <4>1
      <4> QED BY <2>1, <4>2
    <3> QED BY <2>1, <2>3, <3>2
  <2>6. CASE ~c.intra
    <3>1. p[2] = "igst"
      BY <2>1, <2>3, <2>4, <2>6, SplitOf DEF Buckets
    <3> QED BY <2>1, <2>3, <2>6, <3>1, SplitOf
  <2> QED BY <2>5, <2>6
<1> HIDE DEF h, v
<1>7. \A q \in P : v[q] \in Int /\ f[h[q]] = -v[q]
  BY <1>1, <1>4, <1>5
<1>8. \A e \in Taxes(c) : e.ledger \in Buckets /\ e.amount \in Int
  BY <1>1, <1>4, <1>5
<1>9. SumFunctionOnSet(v, P) = SumFunctionOnSet(v, Q)
  BY <1>1, SumWithoutZeros
<1> HIDE DEF P
<1>10. IsFiniteSet({h[q] : q \in P})
  BY <1>2, ImageIsFinite
<1>11. SumFunctionOnSet(f, {h[q] : q \in P}) = -SumFunctionOnSet(v, P)
  BY <1>2, <1>6, <1>7, BookedSum
<1>12. SumFunctionOnSet(v, Q) = SumFunction(TaxSums(c.lines))
  BY TaxAtSum DEF v
<1> QED BY <1>4, <1>8, <1>9, <1>10, <1>11, <1>12

(* The rounding entry makes up for a printed grand total.                  *)
LEMMA RoundedOffSum ==
  ASSUME NEW s, NEW c, PartyAmount(s, c) \in Int, c.grand \in Int, NEW f,
         \A e \in RoundedOff(s, c) : f[e] = e.amount
  PROVE  /\ IsFiniteSet(RoundedOff(s, c))
         /\ \A e \in RoundedOff(s, c) : e.ledger = "rounded off" /\ e.amount \in Int
         /\ SumFunctionOnSet(f, RoundedOff(s, c)) = c.grand - PartyAmount(s, c)
<1> DEFINE x == PartyAmount(s, c) - c.grand
           e == Entry("rounded off", 0, -x)
<1>0. x \in Int /\ -x = c.grand - PartyAmount(s, c) /\ -x \in Int
  OBVIOUS
<1>1. RoundedOff(s, c) = IF x = 0 THEN {} ELSE {e}
  BY DEF RoundedOff
<1>2. e.ledger = "rounded off" /\ e.amount = -x
  BY DEF Entry
<1> HIDE DEF e, x
<1>3. CASE x = 0
  <2>1. RoundedOff(s, c) = {} /\ IsFiniteSet({}) /\ SumFunctionOnSet(f, {}) = 0
    BY <1>1, <1>3, SumOfNone, FS_EmptySet
  <2> QED BY <1>0, <1>3, <2>1
<1>4. CASE x # 0
  <2>1. RoundedOff(s, c) = {e}
    BY <1>1, <1>4
  <2>2. f[e] = -x /\ f[e] \in Int
    BY <1>0, <1>2, <2>1
  <2>3. IsFiniteSet({e}) /\ SumFunctionOnSet(f, {e}) = f[e]
    BY <2>2, SumOfOne, FS_Singleton
  <2> QED BY <1>0, <1>2, <2>1, <2>2, <2>3
<1> QED BY <1>3, <1>4

(* Without a rate there is no line.                                        *)
LEMMA NoRatesNoLines ==
  ASSUME NEW lines PROVE Rates(lines) = {} <=> DOMAIN lines = {}
BY DEF Rates

(* Without a line there is no tax.                                         *)
LEMMA NothingOfNothing ==
  ASSUME NEW lines, DOMAIN lines = {}, LinesType(lines)
  PROVE  SumFunction(TaxSums(lines)) = 0
<1>1. ASSUME NEW b \in Buckets PROVE TaxSums(lines)[b] = 0
  <2> DEFINE u == [i \in DOMAIN lines |-> lines[i].tax[b]]
  <2>1. TaxSum(lines, b) = SumFunctionOnSet(u, {})
    BY DEF TaxSum, SumFunction
  <2> HIDE DEF u
  <2>2. SumFunctionOnSet(u, {}) = 0
    BY SumOfNone
  <2> QED BY <2>1, <2>2 DEF TaxSums
<1>2. SumFunctionOnSet(TaxSums(lines), Buckets) = 0
  BY <1>1, BucketsAreFinite, SumOfZeros
<1> QED BY <1>2, TaxTotalTypes

(* What the entries of a voucher come to.                                  *)
LEMMA VoucherBalance ==
  ASSUME NEW s, NEW c, LinesType(c.lines), c.intra \in BOOLEAN, Booked(c),
         c.taxable \in Int, c.grand \in Int,
         c.grand = c.taxable + SumFunction(TaxSums(c.lines)),
         PartyAmount(s, c) \in Int
  PROVE  Balance(Voucher(s, c)) =
           IF DOMAIN c.lines = {} THEN 0 ELSE c.taxable - TaxableSum(c.lines)
<1> DEFINE v == Voucher(s, c)
           f == [e \in v |-> e.amount]
           a == Entry("party", 0, PartyAmount(s, c))
           A == {a}  B == Purchases(c)  C == Taxes(c)  D == RoundedOff(s, c)
<1>1. v = ((A \cup B) \cup C) \cup D
  BY DEF Voucher
<1>2. Balance(v) = SumFunctionOnSet(f, v)
  BY DEF Balance, SumFunction
<1>3. \A e \in v : f[e] = e.amount
  OBVIOUS
<1>4. a.ledger = "party" /\ a.amount = PartyAmount(s, c)
  BY DEF Entry
<1> HIDE DEF f, a, v
<1>5. IsFiniteSet(A) /\ SumFunctionOnSet(f, A) = PartyAmount(s, c)
  <2>1. f[a] = PartyAmount(s, c) /\ f[a] \in Int
    BY <1>1, <1>3, <1>4
  <2> QED BY <2>1, SumOfOne, FS_Singleton
<1>6. /\ IsFiniteSet(B) /\ \A e \in B : e.ledger = "purchase" /\ e.amount \in Int
      /\ SumFunctionOnSet(f, B) = IF Rates(c.lines) = {} THEN -c.taxable ELSE -TaxableSum(c.lines)
  <2>1. \A e \in Purchases(c) : f[e] = e.amount
    BY <1>1, <1>3
  <2> QED BY <2>1, PurchasesSum
<1>7. /\ IsFiniteSet(C) /\ \A e \in C : e.ledger \in Buckets /\ e.amount \in Int
      /\ SumFunctionOnSet(f, C) = -SumFunction(TaxSums(c.lines))
  <2>1. \A e \in Taxes(c) : f[e] = e.amount
    BY <1>1, <1>3
  <2> QED BY <2>1, TaxesSum
<1>8. /\ IsFiniteSet(D) /\ \A e \in D : e.ledger = "rounded off" /\ e.amount \in Int
      /\ SumFunctionOnSet(f, D) = c.grand - PartyAmount(s, c)
  <2>1. \A e \in RoundedOff(s, c) : f[e] = e.amount
    BY <1>1, <1>3
  <2> QED BY <2>1, RoundedOffSum
<1>9. A \cap B = {} /\ (A \cup B) \cap C = {} /\ ((A \cup B) \cup C) \cap D = {}
  <2>1. "party" \notin Buckets /\ "purchase" \notin Buckets /\ "rounded off" \notin Buckets
        /\ "party" # "purchase" /\ "party" # "rounded off" /\ "purchase" # "rounded off"
    BY DEF Buckets
  <2> HIDE DEF B, C, D
  <2> QED BY <1>4, <1>6, <1>7, <1>8, <2>1
<1>10. \A e \in v : f[e] \in Int
  <2>1. \A e \in A \cup B \cup C \cup D : e.amount \in Int
    BY <1>4, <1>6, <1>7, <1>8
  <2> QED BY <1>1, <1>3, <2>1
<1> HIDE DEF A, B, C, D
<1>11. IsFiniteSet(A \cup B) /\ IsFiniteSet((A \cup B) \cup C)
  BY <1>5, <1>6, <1>7, FS_Union
<1>12. SumFunctionOnSet(f, A \cup B) = SumFunctionOnSet(f, A) + SumFunctionOnSet(f, B)
  BY <1>1, <1>5, <1>6, <1>9, <1>10, SumOfTwo
<1>13. SumFunctionOnSet(f, (A \cup B) \cup C) = SumFunctionOnSet(f, A \cup B) + SumFunctionOnSet(f, C)
  BY <1>1, <1>7, <1>9, <1>10, <1>11, SumOfTwo
<1>14. SumFunctionOnSet(f, v) = SumFunctionOnSet(f, (A \cup B) \cup C) + SumFunctionOnSet(f, D)
  BY <1>1, <1>8, <1>9, <1>10, <1>11, SumOfTwo
<1>15. /\ TaxableSum(c.lines) \in Int /\ SumFunction(TaxSums(c.lines)) \in Int
       /\ (Rates(c.lines) = {}) = (DOMAIN c.lines = {})
       /\ DOMAIN c.lines = {} => SumFunction(TaxSums(c.lines)) = 0
  <2>1. TaxableSum(c.lines) \in Int
    BY LineSums
  <2>2. SumFunction(TaxSums(c.lines)) \in Int
    BY TaxTotalTypes
  <2>3. (Rates(c.lines) = {}) = (DOMAIN c.lines = {})
    BY NoRatesNoLines
  <2>4. DOMAIN c.lines = {} => SumFunction(TaxSums(c.lines)) = 0
    BY NothingOfNothing
  <2> QED BY <2>1, <2>2, <2>3, <2>4
<1>16. Balance(v) = IF DOMAIN c.lines = {} THEN 0 ELSE c.taxable - TaxableSum(c.lines)
  <2> DEFINE p == PartyAmount(s, c)  t == SumFunction(TaxSums(c.lines))
             b == SumFunctionOnSet(f, B)
  <2>1. Balance(v) = ((p + b) + (-t)) + (c.grand - p)
    BY <1>2, <1>5, <1>7, <1>8, <1>12, <1>13, <1>14
  <2>2. p \in Int /\ t \in Int /\ c.grand = c.taxable + t
    BY <1>15
  <2>3. b = IF DOMAIN c.lines = {} THEN -c.taxable ELSE -TaxableSum(c.lines)
    BY <1>6, <1>15
  <2>4. DOMAIN c.lines = {} => t = 0
    BY <1>15
  <2>5. TaxableSum(c.lines) \in Int
    BY <1>15
  <2> HIDE DEF p, t, b
  <2>6. CASE DOMAIN c.lines = {}
    <3>1. b = -c.taxable /\ t = 0
      BY <2>3, <2>4, <2>6
    <3> QED BY <2>1, <2>2, <2>6, <3>1
  <2>7. CASE DOMAIN c.lines # {}
    <3>1. b = -TaxableSum(c.lines)
      BY <2>3, <2>7
    <3> QED BY <2>1, <2>2, <2>5, <2>7, <3>1
  <2> QED BY <2>6, <2>7
<1> QED BY <1>16 DEF v

(* A tax at no rate is none.                                               *)
LEMMA ZeroRounds == ASSUME NEW x \in Int PROVE TaxOn(x, 0) = 0
<1>1. x * 0 = 0 /\ HalfUp(0, 10000000) = 0
  BY SMT DEF HalfUp
<1> QED BY <1>1, SMT DEF TaxOn

(* What the reconciler finds can be booked.                                *)
LEMMA ReconciledIsBooked ==
  ASSUME NEW s \in Sheet, Halves(s) PROVE Booked(Reconcile(s))
<1> DEFINE c == Reconcile(s)
<1>1. c.lines = ReconciledLines(s) /\ c.intra = Intra(s) /\ DOMAIN c.lines = KeptLines(s)
      /\ Intra(s) \in BOOLEAN
  BY ReconciledIs, ReconciledTypes, SheetLines
<1> HIDE DEF c
<1>2. ASSUME NEW i \in DOMAIN c.lines
      PROVE  /\ c.lines[i].rate % 2 = 0
             /\ \A b \in Buckets : Split(c.lines[i].rate, c.intra)[b] = 0 => c.lines[i].tax[b] = 0
  <2> DEFINE l == s.lines[i]
  <2>1. l \in RawLine /\ Kept(l) /\ Whole(l)
    BY <1>1, SheetLines DEF KeptLines, Halves
  <2>2. c.lines[i] = ReconcileLine(l, Intra(s))
    BY <1>1 DEF ReconciledLines
  <2> HIDE DEF l
  <2>3. LineRate(l) \in Int /\ LineRate(l) % 20 = 0 /\ TaxableOf(l) \in Int
    BY <2>1, LineRateTypes, TaxableTypes DEF Whole
  <2>4. c.lines[i].rate = LineRate(l)
        /\ \A b \in Buckets :
             c.lines[i].tax[b] = TaxOn(TaxableOf(l), Split(LineRate(l), Intra(s))[b])
    BY <2>2 DEF ReconcileLine
  <2>5. ASSUME NEW b \in Buckets, Split(c.lines[i].rate, c.intra)[b] = 0
        PROVE  c.lines[i].tax[b] = 0
    <3>1. Split(LineRate(l), Intra(s))[b] = 0
      BY <1>1, <2>4, <2>5
    <3> QED BY <2>3, <2>4, <3>1, ZeroRounds
  <2>6. c.lines[i].rate % 2 = 0
    BY <2>3, <2>4
  <2> QED BY <2>5, <2>6
<1>3. Booked(c)
  BY <1>2 DEF Booked
<1> QED BY <1>3 DEF c

(* The party owes a number.                                                *)
LEMMA PartyTypes ==
  ASSUME NEW s \in Sheet, NEW c, c.grand \in Int PROVE PartyAmount(s, c) \in Int
<1>1. s.printed["grand"] \in Amount /\ s.totals["grand"] \in Amount
  BY DEF Sheet, Totals
<1> QED BY <1>1 DEF PartyAmount, Amount

(* Of an invoice in order and exact, the exports find what intake found,   *)
(* and the voucher is out of balance by the printed taxable value.         *)
LEMMA BooksOfSheet ==
  ASSUME NEW s \in Sheet, InOrder(s), Halves(s), NEW c, c = Reconcile(s),
         NEW t, t = Patched(s)
  PROVE  /\ Reconcile(t) = c
         /\ Balance(Voucher(t, c)) = IF DOMAIN c.lines = {} THEN 0
                                     ELSE c.taxable - TaxableSum(c.lines)
         /\ ~Off(Balance(Voucher(t, c)), 0, 100)
<1>1. Reconcile(t) = c /\ t \in Sheet
  BY ReadAgain, PatchedType
<1>2. /\ LinesType(c.lines) /\ c.intra \in BOOLEAN /\ Booked(c)
      /\ c.taxable \in Int /\ c.grand \in Int
      /\ c.grand = c.taxable + SumFunction(TaxSums(c.lines))
      /\ ~Off(c.taxable, TaxableSum(c.lines), 100)
  BY ReconciledIs, ReconciledTypes, SheetLines, ReconciledIsBooked
<1>3. PartyAmount(t, c) \in Int
  BY <1>1, <1>2, PartyTypes
<1>4. Balance(Voucher(t, c)) = IF DOMAIN c.lines = {} THEN 0 ELSE c.taxable - TaxableSum(c.lines)
  BY <1>2, <1>3, VoucherBalance, Zenon
<1>5. TaxableSum(c.lines) \in Int
  BY <1>2, LineSums
<1>6. ~Off(Balance(Voucher(t, c)), 0, 100)
  BY <1>2, <1>4, <1>5 DEF Off
<1> QED BY <1>1, <1>4, <1>6

-----------------------------------------------------------------------------
(* A rate that taxes half a paisa with a paisa at most.                    *)
Mild(rate) == rate <= 200000

(* Whether the rounding of a product stays within the tolerance.           *)
Quiet(l) == TaxableOf(l) % 100 = 0 \/ Mild(LineRate(l))

(* What is a multiple of a rate keeps its order.                           *)
LEMMA Scaled ==
  ASSUME NEW x \in Int, NEW y \in Int, NEW r \in Nat, x <= y PROVE x * r <= y * r
<1>1. (y - x) \in Nat
  OBVIOUS
<1>2. \A u, v \in Nat : u * v >= 0
  OBVIOUS
<1>3. (y - x) * r >= 0
  BY <1>1, <1>2
<1>4. (y - x) * r = y * r - x * r
  OBVIOUS
<1> QED BY <1>3, <1>4

(* Tax is rounded to the nearest paisa.                                    *)
Nearest(tax, exact) == /\ tax \in Nat
                       /\ 10000000 * tax <= exact + 5000000
                       /\ exact < 10000000 * tax + 5000000

LEMMA TaxNearest ==
  ASSUME NEW x \in Nat, NEW r \in Nat PROVE Nearest(TaxOn(x, r), x * r)
<1>1. \A n \in Nat : Nearest(HalfUp(n, 10000000), n)
  BY SMT DEF HalfUp, Nearest
<1>2. x * r \in Nat
  <2>1. \A u, v \in Nat : u * v \in Nat
    BY SMT
  <2> QED BY <2>1, SMT
<1> DEFINE e == x * r
<1> HIDE DEF e
<1>3. Nearest(HalfUp(e, 10000000), e)
  BY <1>1, <1>2, SMT DEF e
<1> QED BY <1>3, SMT DEF TaxOn, e

(* The tax on a rounded taxable value and that on the value itself are a   *)
(* paisa apart at most: as long as half a paisa is taxed with a paisa at   *)
(* most, or the value was in whole paise anyway.                           *)
LEMMA RoundingIsQuiet ==
  ASSUME NEW T \in Nat, NEW r \in Nat, T % 100 = 0 \/ Mild(r)
  PROVE  ~Off(TaxOn(100 * HalfUp(T, 100), r), TaxOn(T, r), 1)
<1> DEFINE S == 100 * HalfUp(T, 100)  a == TaxOn(S, r)  b == TaxOn(T, r)
<1>1. S \in Nat /\ S <= T + 50 /\ T <= S + 50 /\ (T % 100 = 0 => S = T)
  BY SMT DEF HalfUp
<1> HIDE DEF S
<1>2. Nearest(TaxOn(S, r), S * r) /\ Nearest(TaxOn(T, r), T * r)
  BY <1>1, TaxNearest, Zenon
<1>5. a \in Nat /\ b \in Nat
  BY <1>2, SMT DEF Nearest
<1>3. CASE T % 100 = 0
  <2>1. a = b
    BY <1>1, <1>3
  <2> QED BY <1>5, <2>1, SMT DEF Off, S
<1>4. CASE Mild(r)
  <2> DEFINE A == S * r  B == T * r
  <2>1. S * r <= (T + 50) * r /\ T * r <= (S + 50) * r
    BY <1>1, Scaled, SMT
  <2>2. (T + 50) * r = T * r + 50 * r /\ (S + 50) * r = S * r + 50 * r
    BY <1>1, SMT
  <2>3. /\ 10000000 * a <= A + 5000000 /\ A < 10000000 * a + 5000000
        /\ 10000000 * b <= B + 5000000 /\ B < 10000000 * b + 5000000
    BY <1>2, SMT DEF Nearest
  <2>4. A \in Int /\ B \in Int
    BY <1>1, SMT
  <2>5. A <= B + 50 * r /\ B <= A + 50 * r
    BY <2>1, <2>2, SMT
  <2>6. 50 * r <= 10000000
    BY <1>4, SMT DEF Mild
  <2> HIDE DEF A, B, a, b
  <2>7. a <= b + 1 /\ b <= a + 1
    BY <1>5, <2>3, <2>4, <2>5, <2>6, SMT
  <2>8. ~Off(a, b, 1)
    BY <1>5, <2>7, SMT DEF Off
  <2> QED BY <2>8, SMT DEF a, b, S
<1> QED BY <1>3, <1>4

(* The verifier has nothing to say of a line the reconciler has written,   *)
(* unless the rounding of its product shows.                               *)
LEMMA NoLineIssues ==
  ASSUME NEW l \in RawLine, Kept(l), Whole(l), Quiet(l), NEW intra \in BOOLEAN, NEW i,
         NEW m, m = WriteLine(l, ReconcileLine(l, intra), intra)
  PROVE  LineIssues(m, i) = {}
<1> DEFINE r == LineRate(l)  T == TaxableOf(l)
<1>1. r \in Int /\ r >= 0 /\ r % 20 = 0 /\ T \in Nat /\ HalfUp(T, 100) \in Nat
      /\ (T % 100 = 0 \/ Mild(r))
  BY LineRateTypes, TaxableTypes DEF Whole, Quiet
<1>2. /\ m.stated = HalfUp(T, 100) /\ m.rate = Split(r, intra)
      /\ m.paid = ReconcileLine(l, intra).tax
  BY Rewritten
<1>3. \A b \in Buckets : /\ m.paid[b] = TaxOn(T, Split(r, intra)[b])
                         /\ Money(m.rate[b]) = Split(r, intra)[b]
                         /\ Split(r, intra)[b] \in Nat
                         /\ m.paid[b] \in Int
  <2> TAKE b \in Buckets
  <2>1. m.paid[b] = TaxOn(T, Split(r, intra)[b])
    BY <1>2 DEF ReconcileLine
  <2>2. Money(Split(r, intra)[b]) = Split(r, intra)[b] /\ Split(r, intra)[b] \in Nat
    BY <1>1, HalvesReadBack
  <2>3. TaxOn(T, Split(r, intra)[b]) \in Int
    <3> DEFINE y == Split(r, intra)[b]
    <3>1. T \in Int /\ y \in Int
      BY <1>1, <2>2
    <3> HIDE DEF T, y
    <3>2. TaxOn(T, y) \in Int
      BY <3>1, TaxTypes
    <3> QED BY <3>2 DEF y
  <2> QED BY <1>2, <2>1, <2>2, <2>3
<1> HIDE DEF r, T
<1>4. ASSUME NEW b \in Buckets, Split(r, intra)[b] = 0 PROVE ~Carries(m, b)
  <2>2. m.paid[b] = 0 /\ Money(m.rate[b]) = 0
    BY <1>1, <1>3, <1>4, ZeroRounds
  <2> QED BY <2>2 DEF Carries, Positive
<1>5. ~(Carries(m, "igst") /\ (Carries(m, "cgst") \/ Carries(m, "sgst")))
  <2>1. CASE intra
    <3>1. Split(r, intra)["igst"] = 0
      BY <1>1, <2>1, SplitOf
    <3> QED BY <1>4, <3>1 DEF Buckets
  <2>2. CASE ~intra
    <3>1. Split(r, intra)["cgst"] = 0 /\ Split(r, intra)["sgst"] = 0
      BY <1>1, <2>2, SplitOf
    <3> QED BY <1>4, <3>1 DEF Buckets
  <2> QED BY <2>1, <2>2
<1>6. Carries(m, "cgst") = Carries(m, "sgst")
  <2>1. Split(r, intra)["cgst"] = Split(r, intra)["sgst"]
    BY <1>1, SplitOf
  <2>2. m.paid["cgst"] = m.paid["sgst"] /\ Money(m.rate["cgst"]) = Money(m.rate["sgst"])
    BY <1>3, <2>1 DEF Buckets
  <2> QED BY <2>2 DEF Carries
<1>7. \A b \in Buckets : ~Off(TaxOn(100 * m.stated, Money(m.rate[b])), m.paid[b], 1)
  <2> TAKE b \in Buckets
  <2> DEFINE x == Split(r, intra)[b]
  <2>1. x \in Nat
    BY <1>3
  <2>2. T % 100 = 0 \/ Mild(x)
    <3>1. x \in {r, r \div 2, 0}
      BY DEF Split
    <3> HIDE DEF x
    <3>2. Mild(r) => Mild(x)
      BY <1>1, <3>1, SMT DEF Mild
    <3> QED BY <1>1, <3>2
  <2>3. Money(m.rate[b]) = x /\ m.paid[b] = TaxOn(T, x)
    BY <1>3
  <2> HIDE DEF x
  <2>4. ~Off(TaxOn(100 * HalfUp(T, 100), x), TaxOn(T, x), 1)
    BY <1>1, <2>1, <2>2, RoundingIsQuiet
  <2> QED BY <1>2, <2>3, <2>4
<1>8. {<<"tax_coexistence", i>> : b \in {b \in {"cgst", "sgst"} : Carries(m, "igst") /\ Carries(m, b)}} = {}
  BY <1>5
<1>9. {<<"cgst_sgst_mismatch", i>> :
          b \in {b \in {"cgst"} : Carries(m, "cgst") # Carries(m, "sgst")}} = {}
  BY <1>6
<1>10. {<<"missing_taxable_value", i>> : x \in {m.stated} \cap {Absent}} = {}
  BY <1>1, <1>2, AbsentType
<1>11. {<<"math_mismatch", i>> :
            b \in {b \in Buckets : /\ Absent \notin {m.stated, m.rate[b], m.paid[b]}
                                   /\ Off(TaxOn(100 * m.stated, Money(m.rate[b])),
                                          m.paid[b], 1)}} = {}
  BY <1>7
<1> QED BY <1>8, <1>9, <1>10, <1>11 DEF LineIssues

(* The verifier sums the lines as the reconciler did ...                   *)
LEMMA SumsOfPatched ==
  ASSUME NEW s \in Sheet, KeptLines(s) = DOMAIN s.lines, Halves(s), NEW t, t = Patched(s)
  PROVE  /\ FieldSums(t)["taxable"] = TaxableSum(ReconciledLines(s))
         /\ \A b \in Buckets : FieldSums(t)[b] = TaxSum(ReconciledLines(s), b)
<1> DEFINE L == ReconciledLines(s)
<1>0. InOrder(s)
  BY DEF InOrder, KeptLines
<1>1. DOMAIN t.lines = DOMAIN s.lines /\ DOMAIN L = DOMAIN s.lines /\ LinesType(L)
  BY PatchKeeps, ReconciledTypes DEF Patched
<1>2. \A n \in DOMAIN s.lines : t.lines[n].stated = L[n].taxable /\ t.lines[n].paid = L[n].tax
  <2> TAKE n \in DOMAIN s.lines
  <2>1. s.lines[n] \in RawLine /\ Kept(s.lines[n]) /\ Whole(s.lines[n]) /\ Intra(s) \in BOOLEAN
    BY SheetLines DEF KeptLines, Halves
  <2>2. t.lines[n] = WriteLine(s.lines[n], ReconcileLine(s.lines[n], Intra(s)), Intra(s))
    BY <1>0, PatchedInOrder
  <2>3. L[n] = ReconcileLine(s.lines[n], Intra(s))
    BY DEF ReconciledLines
  <2>4. /\ t.lines[n].stated = HalfUp(TaxableOf(s.lines[n]), 100)
        /\ t.lines[n].paid = ReconcileLine(s.lines[n], Intra(s)).tax
    BY <2>1, <2>2, Rewritten
  <2> QED BY <2>3, <2>4 DEF ReconcileLine
<1> HIDE DEF L
<1>3. \A n \in DOMAIN s.lines : /\ Field(t.lines[n], "taxable") = L[n].taxable
                                /\ \A b \in Buckets : Field(t.lines[n], b) = L[n].tax[b]
  <2> TAKE n \in DOMAIN s.lines
  <2>1. L[n].taxable \in Int /\ L[n].tax \in [Buckets -> Int]
    BY <1>1 DEF LinesType, Figures
  <2>2. L[n].taxable # Absent /\ \A b \in Buckets : L[n].tax[b] # Absent /\ b # "taxable"
    BY <2>1, AbsentType DEF Buckets
  <2> QED BY <1>2, <2>2 DEF Field, OrZero
<1>4. FieldSums(t)["taxable"] = SumFunction([i \in DOMAIN t.lines |-> Field(t.lines[i], "taxable")])
  BY DEF FieldSums
<1>5. ASSUME NEW b \in Buckets
      PROVE  FieldSums(t)[b] = SumFunction([i \in DOMAIN t.lines |-> Field(t.lines[i], b)])
  BY DEF FieldSums
<1>6. [i \in DOMAIN t.lines |-> Field(t.lines[i], "taxable")] = [i \in DOMAIN L |-> L[i].taxable]
  BY <1>1, <1>3
<1>7. ASSUME NEW b \in Buckets
      PROVE  [i \in DOMAIN t.lines |-> Field(t.lines[i], b)] = [i \in DOMAIN L |-> L[i].tax[b]]
  BY <1>1, <1>3
<1>8. FieldSums(t)["taxable"] = TaxableSum(L)
  BY <1>4, <1>6 DEF TaxableSum
<1>9. \A b \in Buckets : FieldSums(t)[b] = TaxSum(L, b)
  BY <1>5, <1>7 DEF TaxSum
<1> QED BY <1>8, <1>9 DEF L

(* ... and so their grand total.                                           *)
LEMMA SumOfFieldSums ==
  ASSUME NEW t, NEW lines, LinesType(lines),
         FieldSums(t)["taxable"] = TaxableSum(lines),
         \A b \in Buckets : FieldSums(t)[b] = TaxSum(lines, b)
  PROVE  SumFunction(FieldSums(t)) = TaxableSum(lines) + SumFunction(TaxSums(lines))
<1> DEFINE f == FieldSums(t)
<1>1. DOMAIN f = {"taxable"} \cup Buckets
  BY DEF FieldSums
<1>2. f["taxable"] \in Int /\ \A b \in Buckets : f[b] \in Int /\ TaxSums(lines)[b] = f[b]
  BY LineSums DEF TaxSums
<1> HIDE DEF f
<1>3. IsFiniteSet({"taxable"}) /\ "taxable" \notin Buckets
  BY FS_Singleton DEF Buckets
<1>4. SumFunctionOnSet(f, {"taxable"} \cup Buckets)
        = SumFunctionOnSet(f, {"taxable"}) + SumFunctionOnSet(f, Buckets)
  BY <1>2, <1>3, BucketsAreFinite, SumOfTwo
<1>5. SumFunctionOnSet(f, {"taxable"}) = f["taxable"]
  BY <1>2, SumOfOne
<1>6. SumFunctionOnSet(f, Buckets) = SumFunctionOnSet(TaxSums(lines), Buckets)
  BY <1>2, BucketsAreFinite, SumSame
<1>7. SumFunctionOnSet(TaxSums(lines), Buckets) = SumFunction(TaxSums(lines))
  BY TaxTotalTypes
<1>8. SumFunction(f) = SumFunctionOnSet(f, {"taxable"} \cup Buckets)
  BY <1>1 DEF SumFunction
<1>9. SumFunction(f) = TaxableSum(lines) + SumFunction(TaxSums(lines))
  BY <1>4, <1>5, <1>6, <1>7, <1>8 DEF f
<1> QED BY <1>9 DEF f

(* What is left to report of a printed taxable value.                      *)
Doubted == {<<"sum_mismatch", 0>>, <<"grand_total_mismatch", 0>>}

(* The totals the reconciler wrote agree with its lines, but for a printed *)
(* taxable value it preferred.                                             *)
LEMMA TotalIssuesOfPatched ==
  ASSUME NEW s \in Sheet, KeptLines(s) = DOMAIN s.lines, Halves(s), NEW c, c = Reconcile(s),
         NEW t, t = Patched(s)
  PROVE  TotalIssues(t) \subseteq IF Off(c.taxable, TaxableSum(c.lines), 1) THEN Doubted ELSE {}
<1> DEFINE L == ReconciledLines(s)  tau == SumFunction(TaxSums(L))
           sum == FieldSums(t)
           off(key, figure) == t.totals[key] # Absent /\ Off(figure, t.totals[key], 1)
<1>1. /\ c.lines = L /\ c.tax = TaxSums(L) /\ c.taxable \in Int /\ c.grand \in Int
      /\ c.grand = c.taxable + tau /\ LinesType(L)
  BY ReconciledIs, ReconciledTypes
<1>2. /\ t.totals["taxable"] = c.taxable /\ t.totals["grand"] = c.grand
      /\ \A b \in Buckets : t.totals[b] = c.tax[b]
  BY PatchedTotals DEF Patched
<1>3. /\ t.totals["taxable"] = c.taxable /\ t.totals["grand"] = c.grand
      /\ \A b \in Buckets : t.totals[b] = TaxSum(L, b)
  BY <1>1, <1>2 DEF Buckets, TaxSums
<1>4. sum["taxable"] = TaxableSum(L) /\ \A b \in Buckets : sum[b] = TaxSum(L, b)
  BY SumsOfPatched
<1>5. SumFunction(sum) = TaxableSum(L) + tau
  BY <1>1, <1>4, SumOfFieldSums
<1>6. /\ TaxableSum(L) \in Int /\ tau \in Int
      /\ \A b \in Buckets : TaxSum(L, b) \in Int
  BY <1>1, LineSums, TaxTotalTypes
<1>7. DOMAIN sum = {"taxable"} \cup Buckets
  BY DEF FieldSums
<1> HIDE DEF L, tau, sum
<1>8. \A b \in Buckets : ~off(b, sum[b])
  BY <1>3, <1>4, <1>6 DEF Off
<1>9. off("taxable", sum["taxable"]) => Off(c.taxable, TaxableSum(L), 1)
  BY <1>1, <1>3, <1>4, <1>6 DEF Off
<1>10. off("grand", SumFunction(sum)) => Off(c.taxable, TaxableSum(L), 1)
  BY <1>1, <1>3, <1>5, <1>6 DEF Off
<1>11. TotalIssues(t) =
         {<<"sum_mismatch", 0>> : key \in {key \in DOMAIN sum : off(key, sum[key])}}
           \cup {<<"grand_total_mismatch", 0>> : key \in {key \in {"grand"} : off(key, SumFunction(sum))}}
  BY Zenon DEF TotalIssues, sum
<1> HIDE DEF off
<1> QED BY <1>1, <1>7, <1>8, <1>9, <1>10, <1>11 DEF Doubted

(* No line of which the rounding shows.                                    *)
Calm(s) == \A i \in KeptLines(s) : Quiet(s.lines[i])

(* Nothing else is reported of an invoice of which every line was kept.    *)
LEMMA FindingsOfPatched ==
  ASSUME NEW s \in Sheet, KeptLines(s) = DOMAIN s.lines, Halves(s), Calm(s), NEW c, c = Reconcile(s),
         NEW t, t = Patched(s)
  PROVE  Findings(t) \subseteq GstinIssues(s) \cup
           IF Off(c.taxable, TaxableSum(c.lines), 1) THEN Doubted ELSE {}
<1>1. TotalIssues(t) \subseteq IF Off(c.taxable, TaxableSum(c.lines), 1) THEN Doubted ELSE {}
  BY TotalIssuesOfPatched
<1>2. GstinIssues(t) = GstinIssues(s)
  <2>1. t.odd = s.odd /\ t.vendor = s.vendor /\ t.buyer = s.buyer
    BY PatchKeeps DEF Patched
  <2> QED BY <2>1 DEF GstinIssues
<1>3. ASSUME NEW i \in DOMAIN t.lines PROVE LineIssues(t.lines[i], i) = {}
  <2>1. InOrder(s) /\ i \in DOMAIN s.lines /\ i \in KeptLines(s)
    BY <1>3, PatchKeeps DEF Patched, InOrder, KeptLines
  <2>2. t.lines[i] = WriteLine(s.lines[i], ReconcileLine(s.lines[i], Intra(s)), Intra(s))
    BY <2>1, PatchedInOrder
  <2>3. s.lines[i] \in RawLine /\ Kept(s.lines[i]) /\ Whole(s.lines[i]) /\ Quiet(s.lines[i])
        /\ Intra(s) \in BOOLEAN
    BY <2>1, SheetLines DEF KeptLines, Halves, Calm
  <2> QED BY <2>2, <2>3, NoLineIssues, Zenon
<1>4. UNION {LineIssues(t.lines[i], i) : i \in DOMAIN t.lines} = {}
  BY <1>3
<1> QED BY <1>1, <1>2, <1>4 DEF Findings

(* A finding names a line of the document, or none.                        *)
LEMMA FindingsTypes ==
  ASSUME NEW s \in Sheet PROVE \A x \in Findings(s) : x[2] \in 0..Len(s.lines)
<1>1. \A x \in GstinIssues(s) : x[2] = 0
  BY DEF GstinIssues
<1>2. \A x \in TotalIssues(s) : x[2] = 0
  BY DEF TotalIssues
<1>3. \A i : \A x \in LineIssues(s.lines[i], i) : x[2] = i
  BY DEF LineIssues
<1>4. Len(s.lines) \in Nat /\ DOMAIN s.lines = 1..Len(s.lines)
  BY SheetLines
<1> QED BY <1>1, <1>2, <1>3, <1>4 DEF Findings

-----------------------------------------------------------------------------
(* The stages of the pipeline ...                                          *)
Stages == {"file", "classify", "extract", "reconcile", "verify", "filed", "refused", "unread"}

(* ... and those that follow a readable reply.                             *)
Read == phase \in {"reconcile", "verify", "filed"}

(* What each stage holds: from the reconciliation on, everything is a      *)
(* function of the extraction the model returned; the exports start from   *)
(* the extraction that is stored.                                          *)
InvoiceInv ==
  /\ phase \in Stages /\ file \in Files
  /\ ~Read => raw = Absent /\ sheet = Absent
  /\ Read => raw \in Sheet /\ sheet \in Sheet
  /\ phase \notin {"verify", "filed"} => intake = Absent
  /\ phase = "reconcile" => sheet = raw
  /\ phase \in {"verify", "filed"} =>
       IF raw.odd THEN intake = Absent /\ sheet = raw
                  ELSE intake = Reconcile(raw) /\ sheet = Patched(raw)
  /\ phase # "filed" => issues = {} /\ row = Absent /\ voucher = Absent
  /\ phase = "filed" =>
       /\ issues = Findings(sheet)
       /\ row \in {Absent, IF sheet.odd THEN Failed ELSE LedgerRow(Reconcile(sheet))}
       /\ voucher \in {Absent, IF sheet.odd THEN Failed ELSE Voucher(sheet, Reconcile(sheet))}

(* No stage has run.                                                       *)
LEMMA InvoiceInitInv == InvoiceInit => InvoiceInv
BY DEF InvoiceInit, InvoiceInv, Stages, Read

(* One stage after the other.                                              *)
LEMMA InvoiceNextInv == InvoiceInv /\ [InvoiceNext]_invoiceVars => InvoiceInv'
<1> SUFFICES ASSUME InvoiceInv, [InvoiceNext]_invoiceVars PROVE InvoiceInv'
  OBVIOUS
<1>1. ASSUME ProcessFile PROVE InvoiceInv'
  BY <1>1 DEF ProcessFile, InvoiceInv, Stages, Read, Files
<1>2. ASSUME ClassifyFile PROVE InvoiceInv'
  BY <1>2 DEF ClassifyFile, InvoiceInv, Stages, Read
<1>3. ASSUME ExtractFile PROVE InvoiceInv'
  BY <1>3, SheetsType DEF ExtractFile, InvoiceInv, Stages, Read
<1>4. ASSUME ReconcileSheet PROVE InvoiceInv'
  <2>1. /\ phase = "reconcile" /\ phase' = "verify" /\ sheet = raw /\ raw \in Sheet
        /\ intake = Absent /\ issues = {} /\ row = Absent /\ voucher = Absent /\ file \in Files
        /\ file' = file /\ raw' = raw /\ issues' = issues /\ row' = row /\ voucher' = voucher
    BY <1>4 DEF ReconcileSheet, InvoiceInv, Read
  <2>2. IF raw.odd THEN intake' = Absent /\ sheet' = raw
                   ELSE intake' = Reconcile(raw) /\ sheet' = Patched(raw)
    BY <1>4, <2>1 DEF ReconcileSheet, Patched
  <2>3. sheet' \in Sheet
    BY <2>1, <2>2, PatchedType
  <2> QED BY <2>1, <2>2, <2>3 DEF InvoiceInv, Stages, Read, Patched
<1>5. ASSUME VerifySheet PROVE InvoiceInv'
  BY <1>5 DEF VerifySheet, InvoiceInv, Stages, Read
<1>6. ASSUME ExportLedger PROVE InvoiceInv'
  BY <1>6 DEF ExportLedger, InvoiceInv, Stages, Read
<1>7. ASSUME ExportTally PROVE InvoiceInv'
  BY <1>7 DEF ExportTally, InvoiceInv, Stages, Read
<1>8. ASSUME UNCHANGED invoiceVars PROVE InvoiceInv'
  BY <1>8 DEF invoiceVars, InvoiceInv, Stages, Read
<1> QED BY <1>1, <1>2, <1>3, <1>4, <1>5, <1>6, <1>7, <1>8 DEF InvoiceNext

(* Whatever the model returns, every stage holds what was computed from    *)
(* that extraction and nothing else.                                       *)
THEOREM InvoiceInvariant == InvoiceSpec => []InvoiceInv
BY InvoiceInitInv, InvoiceNextInv, PTL DEF InvoiceSpec

(* Entries are numbers.                                                    *)
LEMMA VoucherTypes ==
  ASSUME NEW s \in Sheet, NEW e \in Voucher(s, Reconcile(s)) PROVE e.amount \in Int
<1> DEFINE c == Reconcile(s)
<1>1. LinesType(c.lines) /\ c.taxable \in Int /\ c.grand \in Int
  BY ReconciledIs, ReconciledTypes
<1> HIDE DEF c
<1>2. PartyAmount(s, c) \in Int
  BY <1>1, PartyTypes
<1>3. ASSUME NEW x PROVE TaxableSum(Slice(x, c.lines)) \in Int
  BY <1>1, SliceTypes, LineSums
<1>4. ASSUME NEW x, NEW b \in Buckets PROVE TaxSum(Slice(x, c.lines), b) \in Int
  BY <1>1, SliceTypes, LineSums
<1>5. CASE e = Entry("party", 0, PartyAmount(s, c))
  BY <1>2, <1>5 DEF Entry
<1>6. CASE e \in Purchases(c)
  BY <1>1, <1>3, <1>6 DEF Purchases, Entry
<1>7. CASE e \in Taxes(c)
  BY <1>4, <1>7 DEF Taxes, Entry
<1>8. CASE e \in RoundedOff(s, c)
  <2>1. PICK x \in {PartyAmount(s, c) - c.grand} : e = Entry("rounded off", 0, -x)
    BY <1>8 DEF RoundedOff
  <2>2. x \in Int
    BY <1>1, <1>2
  <2>3. e.amount = -x
    BY <2>1 DEF Entry
  <2> QED BY <2>2, <2>3
<1> QED BY <1>5, <1>6, <1>7, <1>8 DEF Voucher, c

(* The figures of the pipeline, of the verifier and of both exports keep   *)
(* their types, and nothing the reconciler keeps is negative.              *)
THEOREM InvoiceTyping == InvoiceSpec => []InvoiceTypeOK
<1>1. InvoiceInv => InvoiceTypeOK
  <2> SUFFICES ASSUME InvoiceInv PROVE InvoiceTypeOK
    OBVIOUS
  <2>1. /\ phase \in Stages /\ file \in Files
        /\ (raw = Absent \/ raw \in Sheet) /\ (sheet = Absent \/ sheet \in Sheet)
    BY DEF InvoiceInv
  <2>2. ASSUME intake # Absent
        PROVE  /\ intake.taxable \in Int /\ intake.grand \in Int /\ intake.tax \in [Buckets -> Int]
               /\ \A i \in DOMAIN intake.lines : intake.lines[i].taxable \in Nat
    <3>1. intake = Reconcile(raw) /\ raw \in Sheet
      BY <2>2 DEF InvoiceInv, Read
    <3>2. intake.lines = ReconciledLines(raw) /\ intake.tax = TaxSums(ReconciledLines(raw))
          /\ intake.taxable \in Int /\ intake.grand \in Int
      BY <3>1, ReconciledIs
    <3>3. LinesType(ReconciledLines(raw)) /\ TaxSums(ReconciledLines(raw)) \in [Buckets -> Int]
      BY <3>1, ReconciledTypes, TaxTotalTypes
    <3> QED BY <3>2, <3>3 DEF LinesType, Figures
  <2>3. \A x \in issues : x[2] \in 0..Len(sheet.lines)
    BY FindingsTypes DEF InvoiceInv, Read
  <2>4. ASSUME Exported(row) PROVE row.grand \in Int
    <3>1. sheet \in Sheet /\ row = LedgerRow(Reconcile(sheet))
      BY <2>4 DEF InvoiceInv, Read, Exported
    <3>2. Reconcile(sheet).grand \in Int
      BY <3>1, ReconciledIs
    <3> QED BY <3>1, <3>2 DEF LedgerRow
  <2>5. ASSUME Exported(voucher) PROVE \A e \in voucher : e.amount \in Int
    <3>1. sheet \in Sheet /\ voucher = Voucher(sheet, Reconcile(sheet))
      BY <2>5 DEF InvoiceInv, Read, Exported
    <3> QED BY <3>1, VoucherTypes
  <2> QED BY <2>1, <2>2, <2>3, <2>4, <2>5 DEF InvoiceTypeOK, Stages
<1> QED BY <1>1, InvoiceInvariant, PTL

(* The books show the invoice as the client was told: for any number of    *)
(* lines and any figures, of an aligned and exact invoice the ledger row   *)
(* repeats what intake found, and the voucher is out of balance by the     *)
(* rupee, at most, that the printed taxable value is off its lines.        *)
THEOREM BooksShowInvoices == InvoiceSpec => []BooksShowTheInvoice
<1>1. InvoiceInv => BooksShowTheInvoice
  <2> SUFFICES ASSUME InvoiceInv, intake # Absent, Aligned, Exact
               PROVE  /\ Exported(row) => row = LedgerRow(intake)
                      /\ Exported(voucher) =>
                           /\ ~Off(Balance(voucher), 0, 100)
                           /\ Balance(voucher) = IF DOMAIN intake.lines = {} THEN 0
                                                 ELSE intake.taxable - TaxableSum(intake.lines)
    BY Zenon DEF BooksShowTheInvoice
  <2>1. raw \in Sheet /\ intake = Reconcile(raw) /\ sheet = Patched(raw)
    BY DEF InvoiceInv, Read
  <2>2. InOrder(raw) /\ Halves(raw)
    BY DEF Aligned, Exact, InOrder, Halves, Whole
  <2>3. /\ Reconcile(sheet) = intake
        /\ Balance(Voucher(sheet, intake)) = IF DOMAIN intake.lines = {} THEN 0
                                             ELSE intake.taxable - TaxableSum(intake.lines)
        /\ ~Off(Balance(Voucher(sheet, intake)), 0, 100)
    BY <2>1, <2>2, BooksOfSheet
  <2>4. Exported(row) => row = LedgerRow(Reconcile(sheet))
    BY DEF InvoiceInv, Exported
  <2>5. Exported(voucher) => voucher = Voucher(sheet, Reconcile(sheet))
    BY DEF InvoiceInv, Exported
  <2> QED BY <2>3, <2>4, <2>5
<1> QED BY <1>1, InvoiceInvariant, PTL

(* The verifier says nothing against the reconciler: of an exact invoice   *)
(* of which every line was kept, and taxed in whole paise or at 200% at    *)
(* most, it reports GSTINs and a preferred printed taxable value only.     *)
THEOREM VerifierFindsWhatIsReal == InvoiceSpec => []FindingsAreReal
<1>1. InvoiceInv => FindingsAreReal
  <2> SUFFICES ASSUME InvoiceInv, phase = "filed", intake # Absent, Exact, Tolerable,
                      \A i \in DOMAIN raw.lines : Kept(raw.lines[i])
               PROVE  issues \subseteq GstinIssues(raw) \cup
                        IF Off(intake.taxable, TaxableSum(intake.lines), 1) THEN Doubted ELSE {}
    BY Zenon DEF FindingsAreReal, Doubted
  <2>1. raw \in Sheet /\ intake = Reconcile(raw) /\ sheet = Patched(raw) /\ issues = Findings(sheet)
    BY DEF InvoiceInv, Read
  <2>2. KeptLines(raw) = DOMAIN raw.lines /\ Halves(raw) /\ Calm(raw)
    BY SMT DEF Exact, Tolerable, KeptLines, Halves, Whole, Calm, Quiet, Mild
  <2> QED BY <2>1, <2>2, FindingsOfPatched
<1> QED BY <1>1, InvoiceInvariant, PTL
=============================================================================
