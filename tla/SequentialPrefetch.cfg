\* More items than the queue holds, so both sides block in turn; room for two
\* of three masks, so that the cache evicts.
CONSTANTS
  Count = 4
  Capacity = 2
  CacheCapacity = 2
  BabyStep = 2
  Fingerprint <- MCFingerprint
  IndexKey <- MCIndexKey
  Inputs <- MCInputs
SPECIFICATION TermsSpec
INVARIANTS
  QueueInv
  TermsRight
  CacheIsLatest
  IndexExact
PROPERTIES
  ChannelSpec
  CallsReturn
