CONSTANTS
  Pairs <- MCPairs
  Source <- MCSource
  Bundle <- MCBundle
  Connector <- MCConnector
  Configured = "configured"
  None = "none"
  MaxStages = 3
  MaxUnloads = 2
  MaxFaults = 1
SPECIFICATION FairSpec
INVARIANTS Sound Proven
PROPERTY Taken
CHECK_DEADLOCK FALSE
