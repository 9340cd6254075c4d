\* Small capacities, integers of two to six bits, texts of up to three letters.
CONSTANTS
  None = None
  InitialCapacity = 2
  WordSize = 2
  MaxCount = 4
  MaxItems = 5
  ItemNumbers = 6
  Slot = {0, 1, 2}
  Key = {"k1", "k2"}
  CachedValue = {"v1", "v2"}
  HistoryLineCount = 2
  Message = {"m1", "m2"}
  MaxIndentation = 1
  MaxAppended = 1
  Subscriber <- Delegates
  BuiltInSubscriberCount = 1
  CapacityFactor = 2
  MaxSubscribers = 3
  TextLength = 3
  Bits <- DataBits
SPECIFICATION Spec
INVARIANTS
  TypeOK
  ContainersKeepOrder
  EmissionReachesSubscribers
  ValuesSurvive
  AlgorithmsAreRight
PROPERTIES
  CachesEvictOldest
CHECK_DEADLOCK FALSE
