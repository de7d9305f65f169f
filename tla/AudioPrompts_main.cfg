SPECIFICATION Spec
CONSTANTS
  LoopTones <- MCLoopTones
  OnceTones <- MCOnceTones
  Timed <- MCTimed
  Speeding <- MCSpeeding
  MaxCalls <- MCMaxCalls
  MaxLost <- MCMaxLost
  MaxPending <- MCMaxPending
INVARIANTS
  StoppedIsSilent
  RepeatedIsTimed
PROPERTIES
  EndsWhole
CHECK_DEADLOCK FALSE
