CONSTANTS
  t1 = t1
  t2 = t2
  u1 = u1
  u2 = u2
  u3 = u3
  T1 = T1
  T2 = T2
  Nil = Nil
  Guest = Guest
  Users <- ThreeUsers
  Threads <- TwoThreads
  Teams <- TwoTeams
  RoleIn <- OneOwner
  Joined <- TwoOfThree
  Newcomers = {u3}
  MaxRequests = 4
  MaxMoves = 1
SPECIFICATION Spec
INVARIANTS TypeOK ActsAsItself InItsTeam CurrentTeamWasJoined EntryNotRefused
SYMMETRY AllThreads
