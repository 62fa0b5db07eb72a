CONSTANTS
  a = a
  b = b
  d1 = d1
  d2 = d2
  m1 = m1
  m3 = m3
  m4 = m4
  f1 = f1
  f2 = f2
  k1 = k1
  k2 = k2
  p1 = p1
  p2 = p2
  p3 = p3
  q1 = q1
  q2 = q2
  n2 = n2
  n1 = n1
  s1 = s1
  s2 = s2
  None = None
  Nobody = Nobody
  Nowhere = Nowhere
  Nil = Nil
  Unlocked = Unlocked
  Docs = {d1, d2}
  Texts = {m1, m3, m4}
  Spoken = {m1}
  Clients = {a, b}
  Registered = {a}
  Verb <- MCVerb
  Sim <- MCSim
  Found <- MCFound
  MaxFaults = 1
  Firms = {f1, f2}
  Chats = {k1, k2}
  Taps = {p1, p2, p3}
  ChatOf <- MCChatOf
  LinkOf <- MCLinkOf
  Bound <- MCBound
  Messages = {q1, q2}
  Notes = {n1, n2}
  Heavy = {}
  Trigger = 2
  Window = 3
  Recent = 2
  MaxLapses = 1
  Requests = {s1, s2}
  Uses <- MCUses
  Papers = {d1}
  Gstins = {a}
  Rounds = 2
  Retries = 1
  MaxTools = 2
  Batch <- MCBatch
  MaxOutages = 1
  o1 = o1
  o2 = o2
  c1 = c1
  c2 = c2
  c3 = c3
  u1 = u1
  u2 = u2
  w1 = w1
  t1 = t1
  g1 = g1
  g2 = g2
  x1 = x1
  x2 = x2
  x3 = x3
  v1 = v1
  v2 = v2
  v3 = v3
  Noone = Noone
  Missing = Missing
  Uploads = {u1, u2}
  Offices = {o1, o2}
  Customers = {c1, c2, c3}
  OfficeOf <- MCOfficeOf
  GstinOf <- MCGstinOf
  Paper <- MCPaper
  Wires = {w1}
  DayBooks = {t1}
  DeskOf <- MCDeskOf
  LookBack = 1
  MinHits = 1
  LastTick = 2
  Exports = {x1, x2, x3}
  Vouchers = {v1, v2, v3}
  Parties = {c1, c2}
  Content <- MCContent
  Entries = {v1, v2}
  Caption <- MCCaption
  Company <- MCCompany
  MaxBreaks = 2
SPECIFICATION MCSpec
INVARIANTS
  TypesOK
  RoutedOnce
  LossNeedsFault
  LinkedChatsStayKnown
  NothingForgotten
  ToldOnceUnlessRaced
  ToldTasksSurvive
  BooksAreWhole
  ExportsTheSnapshot
  RoutesAreExplained
  VouchersLandOnce
PROPERTIES
  DecidedOnce
  MessagesEnd
CHECK_DEADLOCK FALSE
