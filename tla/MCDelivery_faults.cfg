SPECIFICATION Spec
CONSTANTS
  v1 = v1
  v2 = v2
  Vehicles = {v1, v2}
  Offline = {}
  Lists <- BothOrV2
  Categories = {"SAFETY", "COMMERCIAL"}
  Class = "DC0"
  Latency = 1
  Stagger = 3
  IdleDelay = 1
  CycleDelay = 2
  Takeover = 2
  Ramp = 1
  ApplyWindow = 0
  ReplyTime = 3
  OverdueMargin = 4
  MaxCommands = 3
  MaxEpoch = 2
  MaxCrashes = 1
CHECK_DEADLOCK FALSE
INVARIANTS
  AckedKillNotShownActive
PROPERTIES
  ClosedIsFinal
