-------------------------- MODULE MCLifecycleLock --------------------------
(* The daemon with its API threads in one process, a CLI call in another.  *)
EXTENDS LifecycleLock

CONSTANTS daemon, api, cli, server, shell

MCThreads   == {daemon, api, cli}
MCProcesses == {server, shell}
MCProcOf    == [t \in MCThreads |-> IF t = cli THEN shell ELSE server]
=============================================================================
