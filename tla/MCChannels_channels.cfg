SPECIFICATION Spec
CONSTANTS
  Parts = {"REQUESTS","SYNC","OVERLAP","KERNEL","KEYS","NUMBERS","TRIALS","LOOP","LIMIT"}
  ReportTypes = {"HELLO","CONTEXT","TRIAL_ACCEPT"}
  ChannelPublications = 1
  MaxBoot = 2
  MaxReports = 2
  MaxSent = 3
  MaxApplied = 4
  MaxWorking = 2
  EpicSteps <- TwoSteps
  MirrorSteps <- ThereAndBack
  Approved = 2
  InReview = 1
  MaxStatus = 2
  MaxAttempts = 2
  MaxChanges = 2
  Resolvers = {r1, r2}
  SecondResolver = r2
  MaxConflicts = 2
  MaxSyncFaults = 1
  Events = {e1, e2, e3}
  MaxDepth = 2
  MaxWork = 1
  MaxKernelCrashes = 1
  Keys = {k1, k2}
  Bodies = {b1, b2}
  MaxHandlers = 2
  MaxEffects = 3
  MaxKeyCrashes = 1
  Range16 = 3
  Features = {f1, f2}
  MaxEmitted = 5
  OfferDays = 2
  TrialDays = 2
  PlanDays = 2
  NoticeDays = 1
  MaxDay = 4
  MaxGrants = 3
  MaxTrialCrashes = 1
  CaseKinds = {"FEATURE_FAULT","DELIVERY"}
  CaseSignals <- FewSignals
  SafetyVersions = {1}
  MaxSignals = 2
  ManyVehicles = 2
  ManyAsilB = 1
  MaxCases = 2
  MaxVersion = 2
  MaxPasses = 1
  MaxLoopCrashes = 1
  FailCount = 3
  FailWindow = 2
  LimitTime = 6
  Channels = {"IF-06","SIM"}
  MaxFailures = 6
CHECK_DEADLOCK FALSE
INVARIANTS
  TwiceOnlyIfStray
  OldBootOnlyIfStray
  ReconciledCoversSent
  EpicConverges
  CrCurrentUnlessRetried
  UndoneStaysOut
  NothingUnheard
  OneEffectUnlessExcused
  FreshTakenUntilWrap
  NeverReversedUntilWrap
  CutIsDue
  LoopCloses
  LimitedWhileFailing
PROPERTIES
  OutboxDrains
  StreamsCommitted
  NeverPlayedDown
