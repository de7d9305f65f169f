SPECIFICATION Spec
CONSTANTS
  QMax <- MCQMax
  PoolSize <- MCPoolSize
PROPERTIES
  RecoveryOnlyEndsAlarm
