SPECIFICATION RFairSpec
CONSTANTS
  QMax <- MCQMax
  PoolSize <- MCPoolSize
  UMax <- MCUMax
INVARIANTS
  RidingFreesMotor
  DisarmCancelsRecovery
  OnekeyStopsWhenRiding
  LockIsPowered
  DisarmedIsQuiet
  PhoneShowsLock
PROPERTIES
  AlarmEnds
