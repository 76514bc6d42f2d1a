SPECIFICATION StorageFairSpec
CONSTANTS
  c1 = c1
  c2 = c2
  Calls <- MCCalls
  Asks <- MCAsks
  Transports = {"http", "s3"}
  MaxRetries = 1
  NoCall = NoCall
PROPERTIES
  CallsSettle
  LookupSpec
INVARIANTS
  StorageTypeOK
  Truthful
  FailuresJustified
  OneFetch
  ClearedStaysGone
CHECK_DEADLOCK FALSE
