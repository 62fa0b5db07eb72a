SPECIFICATION Spec
CONSTANTS
  u1 = u1
  u2 = u2
  k1 = k1
  p1 = p1
  p2 = p2
  Uploads = {u1, u2}
  Commands = {}
  Files = {f1}
  Clients = {cl}
  Invoices = {k1}
  Periods = {p1}
  PeriodOf <- MCPeriodOf
  None = None
INVARIANTS
  OneRowPerInvoice
CHECK_DEADLOCK FALSE
