SPECIFICATION MCSpec
CONSTANTS
  Documents <- MCDocuments
  Rules <- MCRules
  TopK = 2
  Threshold = 200
  None = None
  Sheets <- MCSheets
  Absent = Absent
  Failed = Failed
INVARIANTS
  TypeOK
  TaxIsConserved
  WithheldUnlessForced
  InvoiceTypeOK
  BooksShowTheInvoice
  FindingsAreReal
PROPERTIES
  AuditTrailIsTrue
CHECK_DEADLOCK FALSE
