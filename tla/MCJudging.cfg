\* The workers: two instances with two places each, one submission, two attempts,
\* one crash, one paused worker.
\* The pool: three requests, one slot, one waiting place, two calls of Close.
\* The store: three uploads of two bytes at most into three bytes and two entries, two
\* readers, a restart.
SPECIFICATION MCSpec
CONSTANTS
  s1 = s1
  t1 = t1
  t2 = t2
  i1 = i1
  i2 = i2
  Tasks = {t1, t2}
  TaskOf <- MCTaskOf
  Submissions = {s1}
  Instances = {i1, i2}
  Parallelism = 2
  MaxAttempts = 2
  MaxCrashes = 1
  MaxPauses = 1
  RawResults <- MCRawResults
  r1 = r1
  r2 = r2
  r3 = r3
  k1 = k1
  k2 = k2
  Requests = {r1, r2, r3}
  Closers = {k1, k2}
  PoolParallelism = 1
  QueueSize = 1
  b1 = b1
  b2 = b2
  b3 = b3
  Refs = {b1, b2, b3}
  MaxBlobBytes = 2
  MaxTotalBytes = 3
  MaxEntries = 2
  MaxReaders = 2
  MaxRestarts = 1
INVARIANTS
  OneTerminalEvent
  AttemptHistory
  WorkerInv
  StoppedPoolStartsNothing
  CloseWaitsForAll
  BlobInv
PROPERTY CloseReturns
