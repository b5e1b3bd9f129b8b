SPECIFICATION Spec
CONSTANTS
  HeaderSize = 2
  MaximumPayloadBytes = 3
  SentMaximum = 3
  ReadSize = 3
  MaxFrames = 2
  MaxDepth = 1
INVARIANTS
  LegalStreamAccepted
