CONSTANTS
  Common = Common
  Chan = Chan
  User = User
  Channels = {Chan}
  Private = {User}
  NoChat = NoChat
  Ids = {1}
  Modes = {"groups"}
  Feeds <- TwoStreams
  MaxOpens = 1
SPECIFICATION FairUpdateSpec
INVARIANTS CheckpointCovered DeletionExact
PROPERTIES Delivery FailureReported
CHECK_DEADLOCK FALSE
