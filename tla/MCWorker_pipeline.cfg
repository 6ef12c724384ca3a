SPECIFICATION Spec
CONSTANTS
  j1 = j1  j2 = j2  t1 = t1  t2 = t2  t3 = t3
  strict = strict  default = default  none = none
  Job <- MCJob
  Tweet <- MCTweet
  Archive <- MCArchive
  BadArchive = {}
  Criteria = {strict, default}
  DefaultCriteria = default
  NoCriteria = none
  JobCriteria <- MCJobCriteria
  Threatening = {}
  PolicySet = FALSE
  Verdict = {"safe"}
  JobQueueSize = 1
  TweetQueueSize = 1
  DailyQuotaLimit = 5
  UpdateEvery = 2
  MayStop = TRUE
  MaxFaults = 0
  MaxRestarts = 0
  MaxDays = 0
INVARIANTS
  TypeOK
  InFlightOnce
  CriteriaMatch
  ShutdownDrainsJobs
  
CHECK_DEADLOCK FALSE
