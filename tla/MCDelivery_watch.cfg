SPECIFICATION Spec
CONSTANTS
  v1 = v1
  v2 = v2
  Vehicles = {v1, v2}
  Offline = {v2}
  Lists <- BothOrV1
  Categories = {"SAFETY"}
  Class = "DC2"
  Latency = 1
  Stagger = 1
  IdleDelay = 1
  CycleDelay = 2
  Takeover = 2
  Ramp = 1
  ApplyWindow = 3
  ReplyTime = 3
  OverdueMargin = 4
  MaxCommands = 3
  MaxEpoch = 1
  MaxCrashes = 0
CHECK_DEADLOCK FALSE
INVARIANTS
  OverdueExact
PROPERTIES
  PublicationsClose
  KillTakesEffect
