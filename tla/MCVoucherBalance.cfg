SPECIFICATION MCSpec
CONSTANTS
  Documents <- MCDocuments
  Rules <- MCRules
  TopK = 2
  Threshold = 200
  None = None
  Sheets <- MCSheets
  Absent = Absent
  Failed = Failed
INVARIANTS
  VoucherBalances
CHECK_DEADLOCK FALSE
