SPECIFICATION Spec
CONSTANTS
  daemon = daemon
  api = api
  cli = cli
  server = server
  shell = shell
  Nobody = Nobody
  Threads <- MCThreads
  Processes <- MCProcesses
  ProcOf <- MCProcOf
  MaxInode = 1
  Unlinkable = FALSE
INVARIANTS
  TypeOK
  MutualExclusion
PROPERTIES
  ImplementsMutex
  SomeoneGetsIn
