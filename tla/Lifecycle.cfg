SPECIFICATION FairSpec
CONSTANTS
  MaxInt = 32767
  Second = 12
  Minute = 720
  Blank = Blank
  Text = Text
  Jobs = {j1, j2}
  MinBacklog = 1
  MaxBacklog = 2
  OptionSets <- MCOptionSets
  MaxChannel = 16000
  MaxPending = 2
  None = None
INVARIANTS
  TypeOK
  CallbackSeesWholeRuntime
  FailedInitIsInert
  CrashOnlyAfterClose
  LateOnlyAfterTimeout
  
  DurationsAsWritten
PROPERTIES BrokerThreadReturns ImplementsPluginContract
\* After cleanup, or a crash, the process does nothing more.
CHECK_DEADLOCK FALSE
