CONSTANTS
  undetermined = undetermined
  verified = verified
  owner = owner
  journalist = journalist
  t1 = t1
  t2 = t2
  Nil = Nil
  Statuses <- StatusesTwo
  DefaultStatus = undetermined
  Users <- OwnerOnly
  Journalists <- OwnerOnly
  Owners <- OwnerOnly
  Threads <- TwoThreads
  MaxVersions = 2
SYMMETRY ThreadSymmetry
SPECIFICATION Spec
INVARIANTS TypeOK
PROPERTIES
  RestoresHeldStatus
  WithdrawnStaysWithdrawn
  WritesOfferedStatus
  AnnouncedChangesAreNamed
