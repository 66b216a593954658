CONSTANTS
  N = 2
  Capacity <- MCCapacity
  MaxWrites = 3
  NULL = NULL
SPECIFICATION FairSpec
INVARIANTS
  TypeOK
  NoLostPollWakeup
  NoLostSignal
  NotifyOnlyDuringPoll
  TryWriteNeverBlocks
PROPERTIES
  PollReturns
  WriteReturns
  PollFindsRecord
  RefinesChannels
CHECK_DEADLOCK FALSE
