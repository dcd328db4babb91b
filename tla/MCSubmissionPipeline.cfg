CONSTANTS
  s1 = s1
  s2 = s2
  t1 = t1
  t2 = t2
  k1 = k1
  d1 = d1
  i1 = i1
  Tasks = {t1, t2}
  Keys = {k1}
  Digests = {d1}
  NoSubmission = NoSubmission
  NoTask = NoTask
  TaskOf <- MCTaskOf
  KeyOf <- OneKeyOf
  DigestOf <- MCDigestOf
  Submissions = {s1, s2}
  Instances = {i1}
  Parallelism = 1
  MaxAttempts = 2
  MaxCrashes = 1
  MaxPauses = 0
  RawResults <- CutDiagnostics
SPECIFICATION PipelineFairSpec
INVARIANTS
  OneSubmissionPerKey
  ShownVerdictWasDecided
  TerminalEventTakesEffect
PROPERTIES
  ImplementsContract
  CreatedIsFinished
CHECK_DEADLOCK FALSE
