SPECIFICATION Spec
CONSTANTS
  Assets = {a1}
  L1TTL = 2
  AuthTimeout = 2
  MaxVersion = 2
  MaxSkew = 0
  None = None
PROPERTY L2DownFallsThrough
