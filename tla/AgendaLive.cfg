SPECIFICATION FairSpec
CONSTANTS
  uploader = uploader
  pumpA = pumpA
  pumpB = pumpB
  part1 = part1
  part2 = part2
  part3 = part3
  packer = packer
  Task = {uploader, pumpA, pumpB, part1, packer}
  NoTask = NoTask
  Thread = {t1, t2, t3}
  Limit <- OnePerClass
  ClassOf <- TransferClass
  Needs <- TransferNeeds
  Parent <- TransferParent
  Carries <- TransferCarries
  MaxSegments = 2
  MaxAttempts = 1
  MaxRuns = 1
INVARIANT NoLostWakeup
PROPERTY RunReturns
CHECK_DEADLOCK FALSE
