SPECIFICATION Spec
CONSTANTS
  MaxInt = 32767
  Second = 12
  Minute = 720
  Blank = Blank
  Text = Text
  Jobs = {j1}
  MinBacklog = 1
  MaxBacklog = 2
  OptionSets <- MCOptionSets
  MaxChannel = 16000
  MaxPending = 1
  None = None
INVARIANT StopDrainsHandlers
CHECK_DEADLOCK FALSE
