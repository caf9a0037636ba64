SPECIFICATION PSpec
CONSTANTS
  Conns = {c1, c2, c3}
  ClientIDs = {i1, i2}
  Assets = {a1, a2}
  Orgs = {o1}
  Secrets = {s1}
  StrayIDs = {i1, i2}
  EnvelopeSizes = {200}
  PayloadSizes = {1}
  ValidTokens = {o1, a1, a2}
  Empty = Empty
  Scoped = Scoped
  Service = Service
  None = None
  MaxEvents = 4
SYMMETRY Symmetry
INVARIANTS OfflineNeedsACause OnlineNeedsACause DisconnectsAnswerConnects
\* With MaxEvents advisories said, nothing more is modelled.
CHECK_DEADLOCK FALSE
