CONSTANTS
  undetermined = undetermined
  verified = verified
  owner = owner
  owner2 = owner2
  contributor = contributor
  t1 = t1
  Nil = Nil
  Statuses <- StatusesTwo
  DefaultStatus = undetermined
  Users <- Everybody
  Journalists <- TwoOwners
  Owners <- TwoOwners
  Threads <- OneThread
  MaxVersions = 4
SPECIFICATION RequestSpec
INVARIANTS LogShowsEveryChange
PROPERTIES ImplementsUndoStack DropsVersionRestored
