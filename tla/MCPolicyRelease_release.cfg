SPECIFICATION MCSpec
CONSTANTS
  Corners = {"EDITS","STAGES","ROLLBACKS","LATE","COPY"}
  Policies = {p, q}
  Contents = {c1, c2}
  People = {ann, bob}
  System = System
  Nobody = Nobody
  MaxRevision = 3
  MaxRows = 3
  MaxValidating = 2
  MaxPublications = 3
  MaxCases = 2
  MaxCrashes = 1
  Syncs = {s1, s2}
  MaxPlan = 2
  Size <- Sizes
  On <- Switches
  MaxStarts = 3
  MaxHands = 1
SYMMETRY Interchangeable
CHECK_DEADLOCK FALSE
INVARIANTS
  ReleaseTypeOK
  RowIsItsRevision
  PublishedWasJudged
  ServedIsPublished
  ExecutionMatchesArtifact
  RollsBackTheLast
  TriggerHeard
  WideOnlyAfterWatch
  CopyHolds
