SPECIFICATION FairSpec
CONSTANTS
  j1 = j1  j2 = j2  t1 = t1  t2 = t2  t3 = t3
  strict = strict  default = default  none = none
  Job <- MCJob
  Tweet <- MCTweet
  Archive <- LongArchive
  BadArchive = {j2}
  Criteria = {strict, default}
  DefaultCriteria = default
  NoCriteria = none
  JobCriteria <- MCJobCriteria
  Threatening = {t1}
  PolicySet = TRUE
  Verdict = {"flag", "error"}
  JobQueueSize = 1
  TweetQueueSize = 1
  DailyQuotaLimit = 5
  UpdateEvery = 2
  MayStop = FALSE
  MaxFaults = 0
  MaxRestarts = 0
  MaxDays = 0
INVARIANTS
  CountsNeverExceed
PROPERTIES
  FailedIsFinal
  EveryTweetProcessed
  EveryUploadAnswered
  EveryJobStarted
CHECK_DEADLOCK FALSE
