SPECIFICATION FairSpec
CONSTANTS
  HeaderSize = 1
  MaximumPayloadBytes = 7
  SentMaximum = 8
  ReadSize = 3
  MaxFrames = 3
  MaxDepth = 2
INVARIANTS
  TypeOK
  InOrder
  BoundedBuffer
  NoneHeldBack
  RoomyStreamAccepted
PROPERTIES
  FramesAnswered
