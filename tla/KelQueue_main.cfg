SPECIFICATION Spec
CONSTANTS
  m1 = m1
  m2 = m2
  Msgs <- MCMsgs
  NoMsg = NoMsg
  Size <- MCSize
  OwedMax <- MCOwedMax
  Users <- AllUsers
CHECK_DEADLOCK FALSE
INVARIANTS
  MainNeverStrands
  OldestIsTaken
PROPERTIES
  ImplementsChannel
