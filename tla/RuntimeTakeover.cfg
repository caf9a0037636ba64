SPECIFICATION Spec
CONSTANTS
  Conns = {c1, c2}
  ClientIDs = {i1}
  Assets = {a1, a2}
  Orgs = {o1}
  Secrets = {s1}
  StrayIDs = {}
  EnvelopeSizes = {200}
  PayloadSizes = {921600}
  ValidTokens = {o1, a1, a2}
  Empty = Empty
  Scoped = Scoped
  Service = Service
  None = None
SYMMETRY Symmetry
INVARIANT ConnectedClientHasSession
