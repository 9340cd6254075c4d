\* Two clients, of which only one starts a job that has its own thread.
CONSTANTS
  Client = {c1, c2}
  Starter = {c1}
  Worker = {w1, w2, w3}
  NoWorker = NoWorker
SPECIFICATION FairSpec
INVARIANTS
  TypeOK
  StatusMatchesWork
  CancelReachesWork
  ThreadDoesNotOutliveJob
PROPERTIES
  WorkOnlyOnDemand
  StartAnswered
  WaitersReturn
CHECK_DEADLOCK FALSE
