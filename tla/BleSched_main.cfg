SPECIFICATION FairSpec
CONSTANTS
  e1 = e1
  e2 = e2
  Events <- MCEvents
  NoEvent = NoEvent
  Size <- MCSize
PROPERTIES
  ImplementsChannel
  PassEnds
