SPECIFICATION LifecycleFairSpec
CONSTANTS
  Sender = {s1, s2}
  Topics <- MCTopics
  MaxStarts = 3
  MaxClients = 2
  None = None
INVARIANTS
  LifecycleTypeOK
  
  StartedIsRunning
  StoppedIsStopped
  OneOfEach
PROPERTIES
  MainReturns
\* Nobody has to start the system.
CHECK_DEADLOCK FALSE
