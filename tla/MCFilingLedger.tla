--------------------------- MODULE MCFilingLedger ---------------------------
(* FilingLedger on a small firm: one client, one readable invoice, two     *)
(* periods of which one holds only documents with an incomplete key.       *)
EXTENDS FilingLedger, TLC

CONSTANTS u1, u2, k1, p1, p2

MCPeriodOf == [k \in Invoices |-> p1]

Symmetry == Permutations(Uploads) \cup Permutations(Commands)
=============================================================================
