CONSTANTS
  u1 = u1
  u2 = u2
  u3 = u3
  t1 = t1
  t2 = t2
  Nil = Nil
  Users <- ThreeUsers
  Threads <- OneThread
  TTL = 1
  Joins <- JoinAsContributor
  Changes <- RoleChanges
  MaxRows = 3
SPECIFICATION Spec
PROPERTIES HigherRolesStay
