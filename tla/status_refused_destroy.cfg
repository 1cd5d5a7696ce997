CONSTANTS
  undetermined = undetermined
  verified = verified
  owner = owner
  journalist = journalist
  t1 = t1
  t2 = t2
  Nil = Nil
  Statuses <- StatusesTwo
  DefaultStatus = undetermined
  Users <- OwnerAndJournalist
  Journalists <- OwnerAndJournalist
  Owners <- OwnerOnly
  Threads <- OneThread
  MaxVersions = 2
SPECIFICATION RequestSpec
PROPERTIES RefusedDestroyChangesNothing
