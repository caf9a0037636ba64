\* No fairness for the workers: NATS may hang, except where a property assumes
\* it does not. Two producers fill one slot; one worker, whose loss would show.
CONSTANTS
  Producers = {p1, p2}
  Drainers = {d1, d2}
  Workers = {w1}
  Jobs = {j1, j2}
  BufferSize = 1
  MaxDiscards = 1
  NoJob = NoJob
  NoDrainer = NoDrainer
SPECIFICATION FairSpec
PROPERTIES EnqueueReturns DrainReturns AcceptedIsTried
CHECK_DEADLOCK FALSE
