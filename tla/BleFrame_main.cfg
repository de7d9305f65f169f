SPECIFICATION Spec
CONSTANTS
  PacketLen <- MCPacketLen
  FrameMax <- MCFrameMax
  QMax <- MCQMax
  MaxLinks <- MCMaxLinks
  MaxFrames <- MCMaxFrames
  FrameLens <- MCFrameLens
PROPERTIES
  ImplementsChannel
  WholeIsTaken
CHECK_DEADLOCK FALSE
