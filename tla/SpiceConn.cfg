SPECIFICATION FairSpec
CONSTANTS
  HeaderLen = 2
  AuthLen = 1
  MiniLen = 2
  ReplyLens = {0, 2}
  PayloadLens = {0, 1, 3}
  Windows = {0, 1, 2}
  MaxMessages = 3
INVARIANTS TypeOK Framing AcksDue
PROPERTIES InOrder LossTold ConnectsOrTells
CHECK_DEADLOCK FALSE
