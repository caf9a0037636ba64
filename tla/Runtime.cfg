SPECIFICATION Spec
CONSTANTS
  Conns = {c1, c2}
  ClientIDs = {i1, i2}
  Assets = {a1, a2}
  Orgs = {o1}
  Secrets = {s1, s2}
  StrayIDs = {i1, i2}
  EnvelopeSizes = {200}
  PayloadSizes = {921600, 921601}
  ValidTokens = {o1, a1}
  Empty = Empty
  Scoped = Scoped
  Service = Service
  None = None
SYMMETRY Symmetry
INVARIANTS TypeOK SessionHasConnection IngressIsTheSenders SessionLostToSameClientID DevicesReachTheirOwnTopic AdmittedByTheRightCredential
