\* A job on a pool that is destroyed as soon as its work is done.
CONSTANTS
  Client = {c1}
  Starter = {c1}
  Worker = {w1}
  NoWorker = NoWorker
SPECIFICATION Spec
INVARIANTS
  WorkerDoesNotOutliveJob
CHECK_DEADLOCK FALSE
