SPECIFICATION Spec
CONSTANTS
  uploader = uploader
  pumpA = pumpA
  pumpB = pumpB
  part1 = part1
  part2 = part2
  part3 = part3
  packer = packer
  Task = {uploader, pumpA, pumpB, part1, part2, part3}
  NoTask = NoTask
  Thread = {t1, t2, t3}
  Limit <- OnePerClass
  ClassOf <- TransferClass
  Needs <- TransferNeeds
  Parent <- TransferParent
  Carries <- TransferCarries
  MaxSegments = 2
  MaxAttempts = 2
  MaxRuns = 2
SYMMETRY ThreadSymmetry
INVARIANTS TypeOK Accounting Budget OneExecutor NoEarlyLeave NeverStuck Ownership
PROPERTIES RunFinishesAll ImplementsPool
CHECK_DEADLOCK FALSE
