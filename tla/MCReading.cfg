SPECIFICATION ReadingSpec
CONSTANTS
  Reads <- MCReads
  MaxShape = 5
  MaxChunk = 3
  Fill = Fill
  Pad = Pad
  Undefined = Undefined
  Queries <- MCQueries
  Calls <- MCCalls
  Requests <- MCRequests
  Unlimited = Unlimited
  FillValue = FillValue
INVARIANTS
  TasksExact
  OutputExact
  SelectionExact
  ValuesAligned
CHECK_DEADLOCK FALSE
