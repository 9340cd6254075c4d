CONSTANTS
  Thread = {t1, t2}
  Callback = {f, g}
  Address = {a1, a2, a3, a4}
  None = None
  Scope = {s1}
  Scripts <- ApplicationScripts
  SmallestCapacity = 1
  MaxChanges = 3
  MaxCalls = 2
  PipeSize = 1
  MaxStarts = 2
  MaxOutput = 2
SPECIFICATION FairSpec
INVARIANTS
  TypeOK
  ArraysOutliveReaders
  ResolutionIsSound
  ChildrenAreAccounted
PROPERTIES
  SubscriptionsAreKept
  CallsReturn
CHECK_DEADLOCK FALSE
