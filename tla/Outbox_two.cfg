SPECIFICATION FairSpec
CONSTANTS
  N = 1
  Workers = {w1, w2}
  MaxAttempts = 2
  BatchLimit = 1
  LeaseTicks = 1
  BackoffUnit = 1
  BackoffCap = 2
  ModuleEvents = {1}
  ChannelEvents = {1}
  PushEvents = {1}
  HookModules = {m1}
  Tokens = {t1}
  MaxCrashes = 1
INVARIANT PublishedWasDelivered
INVARIANT ClaimsAreDistinct
INVARIANT HooksRecordedOnce
INVARIANT AttemptsAreBounded
PROPERTY ImplementsContract
PROPERTY EveryEventIsSettled
