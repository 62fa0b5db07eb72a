SPECIFICATION FairSpec
CONSTANTS
  m1 = m1
  m2 = m2
  m3 = m3
  m4 = m4
  g1 = g1
  Updates = {1, 2, 3, 4, 5}
  KindOf <- MCKindOf
  KeyOf <- MCKeyOf
  AlbumOf <- MCAlbumOf
  Keys = {m1, m2, m3, m4}
  Albums = {g1}
  None = None
  Capacity = 1
  Limit = 1
  Scenes <- MCScenes
  MaxFaults = 2
INVARIANTS
  TypeOK
  AtMostOnce
  NothingVanishes
  SlotsAreUsed
PROPERTIES
  EveryMessageSettles
CHECK_DEADLOCK FALSE
