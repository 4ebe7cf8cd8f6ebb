SPECIFICATION Spec
CHECK_DEADLOCK FALSE
CONSTANTS
  Truncated = Truncated
  Nil = Nil
  Huge = Huge
  Requests <- MCRequests
  Results <- MCResults
  CacheName <- MCCacheName
  CacheUUID <- MCCacheUUID
  CCNotFound = 1
  CCNoSupp = 2
  Chunk = 6
  MaxRequests = 2
  Cuts = {1}
INVARIANTS ExecutedAsSent RepliesAsGiven NoReplyMissing
