SPECIFICATION Spec
CONSTANTS
  Caller = {tweetLoop}
  me = tweetLoop
  Retries <- MCRetries
  retryBackoff = 1
  rateLimitBackoff = 2
  maxBackoff = 3
  maxTokens = 2
  refillRate = 2
  failureThreshold = 3
  successThreshold = 2
  openTimeout = 3
INVARIANTS
  GSTypeOK
  TwoBuckets
  DueByRefill
  OpenMeansQuiet
  CriticalOpens
PROPERTIES
  SleeperWakes
  KeepsPromise
