\* Two callers of each operation, two workers, three jobs for two buffer slots:
\* full and empty buffer, Enqueue before Start and after Drain, repeated Drain.
CONSTANTS
  Producers = {p1, p2}
  Drainers = {d1, d2}
  Workers = {w1, w2}
  Jobs = {j1, j2, j3}
  BufferSize = 2
  MaxDiscards = 1
  NoJob = NoJob
  NoDrainer = NoDrainer
SPECIFICATION Spec
SYMMETRY Symmetry
INVARIANTS TypeOK NoSendOnClosedChannel Conservation AnswersAreCounted DrainedMeansSettled BoundedOvertaking
PROPERTY ImplementsBestEffortQueue
\* After Drain, with every job offered, the publisher has nothing left to do.
CHECK_DEADLOCK FALSE
