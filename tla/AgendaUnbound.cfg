SPECIFICATION Spec
CONSTANTS
  uploader = uploader
  pumpA = pumpA
  pumpB = pumpB
  part1 = part1
  part2 = part2
  part3 = part3
  packer = packer
  Task = {uploader, pumpA, part1, part2}
  NoTask = NoTask
  Thread = {t1, t2, t3}
  Limit <- OnePerClass
  ClassOf <- TransferClass
  Needs <- TransferNeeds
  Parent <- TransferParent
  Carries <- TransferCarries
  MaxSegments = 2
  MaxAttempts = 1
  MaxRuns = 1
PROPERTIES UnboundMayBorrow
CHECK_DEADLOCK FALSE
