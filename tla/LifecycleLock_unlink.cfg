SPECIFICATION Spec
CONSTANTS
  daemon = daemon
  api = api
  cli = cli
  server = server
  shell = shell
  Nobody = Nobody
  Threads <- MCThreads
  Processes <- MCProcesses
  ProcOf <- MCProcOf
  MaxInode = 3
  Unlinkable = TRUE
INVARIANTS
  ThreadExclusion
  LeaksAreKnown
