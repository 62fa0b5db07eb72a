SPECIFICATION FairSpec
CONSTANTS
  u1 = u1
  u2 = u2
  k1 = k1
  p1 = p1
  p2 = p2
  Uploads = {u1}
  Commands = {c1, c2, c3}
  Files = {f1}
  Clients = {cl}
  Invoices = {k1}
  Periods = {p1}
  PeriodOf <- MCPeriodOf
  None = None
PROPERTIES
  CommandsEnd
CHECK_DEADLOCK FALSE
