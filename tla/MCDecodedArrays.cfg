SPECIFICATION Spec
CONSTANTS
  h1 = h1
  h2 = h2
  a1 = a1
  a2 = a2
  a3 = a3
  b = b
  c = c
  coordinate = coordinate
  time = time
  Handles = {h1, h2}
  Calls = {a1, a2, a3, b, c}
  HandleOf <- MCHandleOf
  KeyOf <- MCKeyOf
  Shared = {coordinate}
  Ttl <- MCTtl
  MetadataTtl = 1
  NoCall = NoCall
  CacheKeys = {coordinate, "zattrs"}
  CacheValues = {"array", "json", "absent"}
  Cost <- MCCost
  MaxBytes = 3
  MaxTime = 1
  Never = Never
SYMMETRY MCSymmetry
INVARIANTS
  BytesExact
  DedupSound
CHECK_DEADLOCK FALSE
