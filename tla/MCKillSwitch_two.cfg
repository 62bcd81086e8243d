SPECIFICATION Spec
CONSTANTS
  f1 = f1
  v1 = v1
  v2 = v2
  ann = ann
  ben = ben
  cho = cho
  dan = dan
  sys = sys
  Features = {f1}
  Vehicles = {v1}
  Users = {ann, ben, cho, dan}
  System = sys
  Roles = {"FSM"}
  Categories = {"SAFETY", "COMMERCIAL"}
  Profiles <- FixedProfiles
  Lifecycles = {"RELEASED"}
  MaxKills = 2
  MaxTime = 0
  ApprovalTTL = 1
  KillWindow = 5
  CanaryMax = 2
CHECK_DEADLOCK FALSE
SYMMETRY People
INVARIANTS
  RestoreSeparation
  StatusMatchesCommands
  SeqGapFree
  OverlapOnlyOverCommercial
PROPERTY ImplementsTwoPersonControl
