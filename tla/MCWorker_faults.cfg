SPECIFICATION Spec
CONSTANTS
  j1 = j1  j2 = j2  t1 = t1  t2 = t2  t3 = t3
  strict = strict  default = default  none = none
  Job <- OneJob
  Tweet <- MCTweet
  Archive <- OneArchive
  BadArchive = {}
  Criteria = {strict, default}
  DefaultCriteria = default
  NoCriteria = none
  JobCriteria <- OneJobCriteria
  Threatening = {}
  PolicySet = FALSE
  Verdict <- AllVerdicts
  JobQueueSize = 1
  TweetQueueSize = 1
  DailyQuotaLimit = 1
  UpdateEvery = 2
  MayStop = FALSE
  MaxFaults = 1
  MaxRestarts = 1
  MaxDays = 1
INVARIANTS
  NothingStranded
  
  CountsNeverExceed
  QuotaRespected
PROPERTIES
  LeftForReason
  
CHECK_DEADLOCK FALSE
