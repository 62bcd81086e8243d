SPECIFICATION Spec
CONSTANTS
  f1 = f1
  v1 = v1
  v2 = v2
  ann = ann
  ben = ben
  cho = cho
  dan = dan
  sys = sys
  Features = {f1}
  Vehicles = {v1, v2}
  Users = {ann, ben, cho}
  System = sys
  Roles = {"FSM", "CSM"}
  Categories = {"OPERATIONAL"}
  Profiles <- TightProfiles
  Lifecycles = {"RELEASED"}
  MaxKills = 2
  MaxTime = 1
  ApprovalTTL = 1
  KillWindow = 0
  CanaryMax = 2
SYMMETRY Three
CHECK_DEADLOCK FALSE
INVARIANTS
  WindowCap
