SPECIFICATION AuditSpec
CONSTANTS
  j1 = j1  t1 = t1  t2 = t2  default = default  none = none
  Job <- OneJob
  Tweet = {t1, t2}
  Archive <- OneArchive
  BadArchive = {}
  Criteria = {default}
  DefaultCriteria = default
  NoCriteria = none
  JobCriteria <- OneJobCriteria
  Threatening = {}
  PolicySet = FALSE
  Verdict <- EveryVerdict
  JobQueueSize = 1
  TweetQueueSize = 1
  DailyQuotaLimit = 5
  UpdateEvery = 2
  MayStop = FALSE
  MaxFaults = 0
  MaxRestarts = 0
  MaxDays = 0
  Caller = {tweetLoop}
  me = tweetLoop
  Retries <- MCRetries
  retryBackoff = 1
  rateLimitBackoff = 1
  maxBackoff = 1
  maxTokens = 1
  refillRate = 1
  failureThreshold = 2
  successThreshold = 1
  openTimeout = 2
INVARIANTS
  CallsWereMade
  GivenUpAfterTrying
PROPERTIES
  KeepsWorker
CHECK_DEADLOCK FALSE
