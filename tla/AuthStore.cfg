\* One change of the asset, and a wall clock set back once. An entry can expire,
\* be set back into its TTL, or be read from the future.
SPECIFICATION FairSpec
CONSTANTS
  Assets = {a1}
  L1TTL = 1
  AuthTimeout = 1
  MaxVersion = 1
  MaxSkew = 1
  None = None
INVARIANTS TypeOK StalenessBounded OutdatedNeedsACause InvalidatedStaysGone
PROPERTIES EventuallyCoherent ChangesAreNotForgotten
