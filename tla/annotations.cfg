CONSTANTS
  t1 = t1
  t2 = t2
  Nil = Nil
  Here = Here
  Users <- TwoUsers
  Threads <- TwoThreads
  Teams <- TwoTeams
  RoleIn <- RolesOfAll
  Adder <- AuthorOfAll
  MediaOwner = "author"
  TTL = 2
  Texts <- TwoTexts
  Fields <- TwoFields
  Callers <- ThreeCallers
  Drafts <- FourDrafts
  Changes <- ThreeChanges
  Edits <- FourEdits
  MaxRequests = 3
SPECIFICATION Spec
INVARIANTS TypeOK AloneTagsUnique AloneTitlesStand
PROPERTIES ChangedByItsTeam NoLateAnnotations
SYMMETRY AllThreads
