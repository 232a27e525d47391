SPECIFICATION BothSpec
CONSTANTS
  a1 = a1
  a2 = a2
  b = b
  sa = sa
  sb = sb
  m1 = m1
  Names = {a1, a2, b}
  Slugs = {sa, sb}
  Slug <- SlugOf
  Models = {m1}
  Default = Default
  NoModel = NoModel
  Missing = Missing
  MaxKbs = 2
  MaxDocs = 2
  MaxFaults = 1
  s1 = s1
  s2 = s2
  k1 = k1
  k2 = k2
  n1 = n1
  n2 = n2
  c1 = c1
  c2 = c2
  Servers = {s1, s2}
  Kbs = {k1, k2}
  Labels = {n1, n2}
  Texts = {c1, c2}
  Absent = Absent
  FolderKey = TRUE
  MaxRows = 2
  MaxCalls = 4
  MaxLosses = 1
INVARIANT BothTypeOK
INVARIANT KbKept
INVARIANT StoresMatch
INVARIANT FindsItsOwn
INVARIANT ServersAgree
PROPERTY DeletedStaysDeleted
SYMMETRY Renamings
CHECK_DEADLOCK FALSE
