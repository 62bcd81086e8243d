SPECIFICATION Spec
CONSTANTS
  f1 = f1
  v1 = v1
  v2 = v2
  ann = ann
  ben = ben
  cho = cho
  dan = dan
  sys = sys
  Features = {f1}
  Vehicles = {v1}
  Users = {ann, ben, cho}
  System = sys
  Roles = {"FSM", "OPS_LEAD"}
  Categories = {"SAFETY"}
  Profiles <- DraftProfiles
  Lifecycles = {"RELEASED", "VERIFIED"}
  MaxKills = 1
  MaxTime = 2
  ApprovalTTL = 1
  KillWindow = 5
  CanaryMax = 2
SYMMETRY Three
CHECK_DEADLOCK FALSE
INVARIANTS
  TwoPersonRule
  IssuedInTime
