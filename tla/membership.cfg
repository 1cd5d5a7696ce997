CONSTANTS
  u1 = u1
  u2 = u2
  u3 = u3
  t1 = t1
  t2 = t2
  Nil = Nil
  Users <- TwoUsers
  Threads <- TwoThreads
  TTL = 1
  Joins <- JoinAsEditor
  Changes <- BansAndHands
  MaxRows = 2
SYMMETRY Symmetry
SPECIFICATION Spec
INVARIANTS TypeOK OneRowPerUser RecentRole
PROPERTIES BanStands LeftStaysLeft SettledOwnersStay
