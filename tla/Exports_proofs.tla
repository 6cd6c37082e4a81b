--------------------------- MODULE Exports_proofs ---------------------------
(***************************************************************************)
(* Theorems about Exports, for any challenges, ports, providers, processes, *)
(* accounts, commands and faults.  What every invariant needs is that the  *)
(* job is in shape (JobShape): which of its fields a step may rely on.     *)
(***************************************************************************)
EXTENDS Exports, FiniteSetTheorems, TLAPS

-----------------------------------------------------------------------------
(* What a step relies on: a running challenge has a port, the job has a    *)
(* challenge, a provider and a process where it uses them, and a list of   *)
(* tunnels to stop names no direct export.                                 *)

HasPort ==
    \A c \in Challenges :
        /\ runtime[c].up => runtime[c].row > 0
        /\ runtime[c].row > 0 => port[c] # None

Named ==
    /\ job.pc \in {"down", "runtime", "list", "starts", "spawned", "record"} => job.c \in Challenges
    /\ job.op = "restart" =>
         /\ job.pc \in {"down", "runtime", "list", "stop", "unrecord", "starts", "spawned", "record"}
         /\ job.c \in Challenges /\ runtime[job.c].row > 0
    /\ job.pc \in {"starts", "spawned", "record"} => runtime[job.c].row > 0
    /\ job.pc \in {"spawned", "record"} => job.prov \in Providers /\ job.pid \in Pids
    /\ job.pc = "stop" /\ job.c = None => job.todo # {}

Indirect(rs) == \A r \in rs : r.prov # Direct

Tunnelled ==
    /\ job.pc = "orphans" => Indirect(job.todo)
    /\ job.pc = "test" => Indirect(job.doomed)
    /\ job.pc \in {"stop", "unrecord"} /\ job.c = None => Indirect(job.doomed)

\* There is room for the row a start will add.
Room ==
    /\ job.pc = "runtime" => job.op \in {"up", "restart"}
    /\ job.pc = "runtime" /\ job.op = "up" => runtime[job.c].row < MaxRows
    /\ job.pc \in {"down", "list", "stop", "unrecord", "runtime"} /\ job.op = "restart" =>
         job.kept \/ runtime[job.c].row < MaxRows

JobShape == HasPort /\ Named /\ Tunnelled /\ Room
TypeInv == TypeOK /\ JobShape

-----------------------------------------------------------------------------
(* Operators.                                                              *)

LEMMA KeyIn ==
  ASSUME NEW prov \in Providers, NEW c \in Challenges, NEW p \in HostPorts
  PROVE  Key(prov, c, p) \in Keys
  BY NoneAssumption DEF Key, Keys

\* A direct export that is missing has no process and the port of its challenge.
LEMMA MissingRows ==
  ASSUME TypeOK, HasPort, NEW cs, cs \subseteq Challenges
  PROVE  \A r \in Missing(cs) :
           /\ r \in Export /\ r.pid = None /\ r.prov = Direct /\ r.c \in cs
           /\ runtime[r.c].up /\ r.row = runtime[r.c].row /\ r.port = port[r.c]
  <1>1. ASSUME NEW c \in Challenges, runtime[c].up
        PROVE  runtime[c].row \in 1 .. MaxRows /\ port[c] \in HostPorts
    <2>1. runtime[c].row \in 0 .. MaxRows
      BY DEF TypeOK, Runtime
    <2>2. runtime[c].row > 0 /\ port[c] # None
      BY <1>1 DEF HasPort
    <2>3. port[c] \in HostPorts \cup {None}
      BY DEF TypeOK
    <2> QED
      BY <2>1, <2>2, <2>3, RowsAssumption
  <1>2. SUFFICES ASSUME NEW c \in cs, BaseIp, runtime[c].up
                 PROVE  LET r == [c |-> c, row |-> runtime[c].row, prov |-> Direct,
                                  port |-> port[c], pid |-> None]
                        IN /\ r \in Export /\ r.pid = None /\ r.prov = Direct /\ r.c \in cs
                           /\ runtime[r.c].up /\ r.row = runtime[r.c].row /\ r.port = port[r.c]
    BY DEF Missing
  <1> QED
    BY <1>1, <1>2 DEF Export

LEMMA ListedRows ==
  ASSUME TypeOK, HasPort, NEW cs, cs \subseteq Challenges
  PROVE  Listed(cs) \subseteq Export /\ Listed(cs) \subseteq exports \cup Missing(cs)
  BY MissingRows DEF Listed, Deduped, TypeOK

LEMMA TriesNat ==
  /\ 0 \in 0 .. MaxAttempts /\ 1 \in 0 .. MaxAttempts
  /\ \A n \in 0 .. MaxAttempts : n \in Nat /\ n # n + 1 /\ n + 1 >= 1
                                /\ (n < MaxAttempts => n + 1 \in 0 .. MaxAttempts)
  BY AttemptsAssumption

LEMMA Shapes ==
  ASSUME job \in Job
  PROVE  /\ Idle \in Job /\ Cycle \in Job /\ ToHeal \in Job
         /\ NoState \in State /\ NoView \in View /\ NoProc \in Proc
         /\ \A pid \in Pids, t \in Tokens \cup {None} : Saved(pid, t) \in State
  <1>1. Idle \in Job
    BY TriesNat DEF Job, Idle, JobPCs
  <1>2. Cycle \in Job /\ ToHeal \in Job
    <2>1. /\ job.op \in OpKinds \cup {"none", "crashed"}
          /\ job.queue \in SUBSET Challenges /\ job.heal \in SUBSET Challenges
      BY DEF Job
    <2>2. "cycle" \in JobPCs /\ "heal" \in JobPCs
      BY DEF JobPCs
    <2>3. Cycle \in Job
      BY ZenonT(60), <1>1, <2>1, <2>2 DEF Job, Idle, Cycle
    <2>4. ToHeal \in Job
      BY ZenonT(60), <1>1, <2>1, <2>2 DEF Job, Idle, ToHeal
    <2> QED
      BY <2>3, <2>4
  <1>3. NoState \in State /\ \A pid \in Pids, t \in Tokens \cup {None} : Saved(pid, t) \in State
    BY DEF NoState, State, Saved
  <1>4. NoView \in View /\ NoProc \in Proc
    BY <1>3 DEF NoView, View, NoProc, Proc
  <1> QED
    BY <1>1, <1>2, <1>3, <1>4

LEMMA NextJobs ==
  /\ Idle.pc = "free" /\ Idle.op = "none"
  /\ Cycle.pc = "cycle" /\ Cycle.op = job.op
  /\ ToHeal.pc = "heal" /\ ToHeal.op = job.op
  BY DEF Idle, Cycle, ToHeal

LEMMA WithoutProcs ==
  ASSUME TypeOK, NEW pids
  PROVE  Without(pids) \in [Pids -> Proc]
  BY DEF TypeOK, Without, NoProc, Proc

LEMMA StopTypes ==
  ASSUME TypeOK, NEW r \in Export, StopTunnel(r)
  PROVE  state' \in [Keys -> State] /\ procs' \in [Pids -> Proc]
  BY WithoutProcs DEF StopTunnel, TypeOK, NoState, State

LEMMA TokensForTypes ==
  ASSUME NEW prov
  PROVE  TokensFor(prov) \subseteq Tokens \cup {None}
  BY DEF TokensFor

-----------------------------------------------------------------------------
(* Types.                                                                  *)

\* The new job is in shape, and no table has changed.
Shaped == job' \in Job /\ Named' /\ Tunnelled' /\ Room' /\ UNCHANGED tables

LEMMA BeginTypes ==
  ASSUME TypeInv, Request \/ DaemonCycle
  PROVE  TypeInv'
  <1>1. TypeOK /\ JobShape /\ HasPort /\ Idle \in Job
    BY Shapes DEF TypeInv, JobShape, TypeOK
  <1>2. AllExports \in SUBSET (Providers \cup {Direct})
    BY DEF AllExports
  <1>3. ASSUME BeginTest PROVE Shaped /\ UNCHANGED <<tunnels, view>>
    BY ZenonT(60), <1>1, <1>2, <1>3 DEF BeginTest, Running, Shaped, tables,
       Job, JobPCs, OpKinds, Idle, Named, Tunnelled, Room
  <1>4. ASSUME NEW c \in Challenges, BeginUp(c)
        PROVE  Shaped /\ UNCHANGED <<tunnels, view>>
    BY ZenonT(60), <1>1, <1>2, <1>4 DEF BeginUp, Begin, At, Shaped, tables,
       Job, JobPCs, OpKinds, Idle, Named, Tunnelled, Room
  <1>5. ASSUME NEW c \in Challenges, BeginDown(c)
        PROVE  Shaped /\ UNCHANGED <<tunnels, view>>
    BY ZenonT(60), <1>1, <1>2, <1>5 DEF BeginDown, Begin, At, Shaped, tables,
       Job, JobPCs, OpKinds, Idle, Named, Tunnelled, Room
  <1>6. ASSUME NEW c \in Challenges, BeginUnexport(c)
        PROVE  Shaped /\ UNCHANGED <<tunnels, view>>
    BY ZenonT(60), <1>1, <1>2, <1>6 DEF BeginUnexport, Begin, At, Shaped, tables,
       Job, JobPCs, OpKinds, Idle, Named, Tunnelled, Room
  <1>7. ASSUME NEW c \in Challenges, NEW scope \in {"container", "provider", "all"}, BeginRestart(c, scope)
        PROVE  Shaped /\ UNCHANGED <<tunnels, view>>
    <2>0. runtime[c].up \in BOOLEAN
      BY <1>1 DEF TypeOK, Runtime
    <2>1. job' \in Job
      <3>1. \A pc \in JobPCs, kept \in BOOLEAN :
              [Idle EXCEPT !.op = "restart", !.c = c, !.scope = scope, !.pc = pc, !.kept = kept] \in Job
        BY ZenonT(60), <1>1, <1>7 DEF Job, OpKinds, Idle
      <3> QED
        BY <1>7, <2>0, <3>1 DEF BeginRestart, JobPCs
    <2>2. Named' /\ Tunnelled' /\ Room'
      BY <1>7, <2>1 DEF BeginRestart, Idle, Named, Tunnelled, Room, tables
    <2> QED
      BY <1>7, <2>1, <2>2 DEF BeginRestart, Shaped
  <1>8. ASSUME NEW c \in Challenges, NEW provs \in SUBSET (Providers \cup {Direct}), BeginExport(c, provs)
        PROVE  Shaped /\ UNCHANGED <<tunnels, view>>
    BY ZenonT(60), <1>1, <1>2, <1>8 DEF BeginExport, HasPort, Shaped, tables,
       Job, JobPCs, OpKinds, Idle, Named, Tunnelled, Room
  <1>9. ASSUME NEW expired \in SUBSET Challenges, NEW heal \in SUBSET Challenges, BeginCycle(expired, heal)
        PROVE  Shaped /\ UNCHANGED <<tunnels, view>>
    BY ZenonT(60), <1>1, <1>2, <1>9 DEF BeginCycle, Shaped, tables,
       Job, JobPCs, OpKinds, Idle, Named, Tunnelled, Room
  <1>10. \A provs \in {AllExports} \cup {{prov} : prov \in Providers} : provs \in SUBSET (Providers \cup {Direct})
    BY <1>2
  <1>11. Shaped /\ UNCHANGED <<tunnels, view>>
    BY <1>3, <1>4, <1>5, <1>6, <1>7, <1>8, <1>9, <1>10 DEF Request, DaemonCycle
  <1> QED
    BY <1>1, <1>11 DEF TypeInv, TypeOK, JobShape, HasPort, Shaped, tables,
       tunnels

(* The runtime of a command starts and stops.                              *)
LEMMA RuntimeTypes ==
  ASSUME TypeInv, RuntimeDown \/ RuntimeUp
  PROVE  TypeInv'
  <1>1. TypeOK /\ JobShape /\ HasPort /\ Named /\ Room /\ job \in Job /\ Idle \in Job
    BY Shapes DEF TypeInv, JobShape, TypeOK
  <1>2. job.c \in Challenges
    BY <1>1 DEF Named, RuntimeDown, RuntimeUp, At
  <1>3. runtime[job.c].row \in 0 .. MaxRows /\ runtime[job.c].up \in BOOLEAN
        /\ port[job.c] \in HostPorts \cup {None}
    BY <1>1, <1>2 DEF TypeOK, Runtime
  <1>4. CASE RuntimeDown
    <2>1. job' \in Job
      BY <1>1, <1>4 DEF RuntimeDown, Job, JobPCs
    <2>2. runtime' \in [Challenges -> Runtime] /\ HasPort'
      BY <1>1, <1>2, <1>3, <1>4 DEF RuntimeDown, TypeOK, Runtime, HasPort
    <2>3. \A c \in Challenges : runtime'[c].row = runtime[c].row
      BY <1>1, <1>2, <1>4 DEF RuntimeDown, TypeOK, Runtime
    <2>4. Named' /\ Tunnelled' /\ Room'
      BY <1>1, <1>2, <1>4, <2>3 DEF RuntimeDown, At, Named, Tunnelled, Room, Job
    <2> QED
      BY <1>1, <1>4, <2>1, <2>2, <2>4 DEF RuntimeDown, TypeInv, TypeOK, JobShape, tunnels
  <1>5. CASE RuntimeUp
    <2> DEFINE c == job.c
               reuse == job.op = "restart" /\ job.kept
               next == IF job.op = "restart" /\ job.scope = "container" THEN Idle
                       ELSE [job EXCEPT !.pc = "starts", !.provs = AllExports]
    <2>1. next \in Job /\ job' \in {next, Idle}
      <3>1. AllExports \in SUBSET (Providers \cup {Direct})
        BY DEF AllExports
      <3>2. [job EXCEPT !.pc = "starts", !.provs = AllExports] \in Job
        BY <1>1, <3>1 DEF Job, JobPCs
      <3> QED
        BY <1>1, <1>5, <3>2 DEF RuntimeUp, Finish
    <2>2. CASE job' = next /\ runtime[c].up /\ UNCHANGED <<runtime, port>>
      <3>1. runtime[c].row > 0
        BY <1>1, <1>2, <2>2 DEF HasPort
      <3>2. Named' /\ Tunnelled' /\ Room'
        BY <1>1, <1>2, <2>1, <2>2, <3>1 DEF Idle, Named, Tunnelled, Room, Job
      <3> QED
        BY <1>1, <1>5, <2>1, <2>2, <3>2 DEF RuntimeUp, TypeInv, TypeOK, JobShape, HasPort, tunnels
    <2>3. ASSUME NEW p \in HostPorts, port' = [port EXCEPT ![c] = p], job' = next,
                 runtime' = [runtime EXCEPT ![c] = [row |-> IF reuse THEN @.row ELSE @.row + 1, up |-> TRUE]]
          PROVE  TypeInv'
      <3>1. reuse => runtime[c].row > 0
        BY <1>1 DEF Named
      <3>2. ~reuse => runtime[c].row < MaxRows
        BY <1>1, <1>5 DEF Room, RuntimeUp, At, Job
      <3>3. runtime'[c].row \in 1 .. MaxRows /\ runtime' \in [Challenges -> Runtime]
        BY <1>1, <1>2, <1>3, <2>3, <3>1, <3>2, RowsAssumption DEF TypeOK, Runtime
      <3>4. port' \in [Challenges -> HostPorts \cup {None}] /\ port'[c] # None
        BY <1>1, <1>2, <2>3, NoneAssumption DEF TypeOK
      <3>5. HasPort'
        <4>1. ASSUME NEW d \in Challenges, d # c PROVE runtime'[d] = runtime[d] /\ port'[d] = port[d]
          BY <1>1, <2>3, <4>1 DEF TypeOK
        <4> QED
          BY <1>1, <3>3, <3>4, <4>1 DEF HasPort
      <3>6. Named' /\ Tunnelled' /\ Room'
        BY <1>1, <1>2, <2>1, <2>3, <3>3 DEF Idle, Named, Tunnelled, Room, Job
      <3> QED
        BY <1>1, <1>5, <2>1, <2>3, <3>3, <3>4, <3>5, <3>6 DEF RuntimeUp, TypeInv, TypeOK, JobShape, tunnels
    <2>4. CASE job' = Idle /\ UNCHANGED <<runtime, port>>
      <3>1. Named' /\ Tunnelled' /\ Room'
        BY <2>4 DEF Idle, Named, Tunnelled, Room
      <3> QED
        BY <1>1, <1>5, <2>4, <3>1 DEF RuntimeUp, TypeInv, TypeOK, JobShape, HasPort, tunnels
    <2>5. \A p \in FreePorts(c) : p \in HostPorts
      BY DEF FreePorts
    <2> QED
      BY <1>5, <2>2, <2>3, <2>4, <2>5 DEF RuntimeUp, Finish
  <1> QED
    BY <1>4, <1>5

(* Tunnels start.                                                          *)
Starting == job.pc \in {"starts", "spawned", "record"}

LEMMA SkipShape ==
  ASSUME TypeInv, Starting, NEW prov, Skip(prov), UNCHANGED tables
  PROVE  Shaped
  <1>1. job \in Job /\ job.c \in Challenges /\ runtime[job.c].row > 0 /\ Named
    BY DEF TypeInv, TypeOK, JobShape, Named, Starting
  <1>2. job' \in Job
    BY <1>1, TriesNat DEF Skip, Job, JobPCs
  <1>3. Named' /\ Tunnelled' /\ Room'
    BY <1>1 DEF Skip, Named, Tunnelled, Room, Job, tables
  <1> QED
    BY <1>2, <1>3 DEF Shaped

LEMMA StartTypes ==
  ASSUME TypeInv,
         \/ StartDirect \/ Announced \/ Relaunch \/ NotAnnounced \/ Record \/ StartsDone
         \/ \E prov \in Providers : Reuse(prov) \/ Spawn(prov)
  PROVE  TypeInv'
  <1>1. TypeOK /\ JobShape /\ HasPort /\ Named /\ job \in Job
    BY DEF TypeInv, JobShape, TypeOK
  <1>2. Starting
    BY DEF Starting, At, StartDirect, Announced, Relaunch, NotAnnounced, Record, StartsDone, Reuse, Spawn
  <1>3. job.c \in Challenges /\ runtime[job.c].row > 0
    BY <1>1, <1>2 DEF Named, Starting
  <1>4. runtime[job.c].row \in 1 .. MaxRows /\ port[job.c] \in HostPorts
    <2>1. runtime[job.c].row \in 0 .. MaxRows /\ port[job.c] \in HostPorts \cup {None}
      BY <1>1, <1>3 DEF TypeOK, Runtime
    <2> QED
      BY <1>1, <1>3, <2>1, RowsAssumption DEF HasPort
  <1>5. ASSUME exports' \subseteq Export, state' \in [Keys -> State], procs' \in [Pids -> Proc],
               job' \in Job, Named', Tunnelled', Room', UNCHANGED <<runtime, port, view>>
        PROVE  TypeInv'
    BY <1>1, <1>5 DEF TypeInv, TypeOK, JobShape, HasPort
  <1>6. CASE StartDirect
    <2>1. exports' \subseteq Export
      BY <1>1, <1>3, <1>4, <1>6 DEF StartDirect, Recorded, TypeOK, Export
    <2>2. job' \in Job
      BY <1>1, <1>6 DEF StartDirect, Job
    <2>3. Named' /\ Tunnelled' /\ Room'
      BY <1>1, <1>3, <1>6 DEF StartDirect, At, Named, Tunnelled, Room, Job
    <2> QED
      BY <1>1, <1>5, <1>6, <2>1, <2>2, <2>3 DEF StartDirect, TypeOK, tunnels
  <1>7. CASE Announced
    <2>1. job.prov \in Providers /\ job.pid \in Pids /\ job.token \in Tokens \cup {None}
      BY <1>1, <1>7 DEF Announced, At, Named, Job
    <2>2. state' \in [Keys -> State]
      BY <1>1, <1>7, <2>1, Shapes DEF Announced, TypeOK
    <2>3. job' \in Job
      BY <1>1, <1>7 DEF Announced, Job, JobPCs
    <2>4. Named' /\ Tunnelled' /\ Room'
      BY <1>1, <1>3, <1>7, <2>1 DEF Announced, At, Named, Tunnelled, Room, Job, tables
    <2> QED
      BY <1>1, <1>5, <1>7, <2>2, <2>3, <2>4 DEF Announced, TypeOK, tables
  <1>8. CASE NotAnnounced
    <2>1. procs' \in [Pids -> Proc]
      BY <1>1, <1>8, WithoutProcs DEF NotAnnounced, TypeOK
    <2>2. Shaped
      BY <1>2, <1>8, SkipShape DEF NotAnnounced
    <2> QED
      BY <1>1, <1>5, <1>8, <2>1, <2>2 DEF NotAnnounced, Shaped, TypeOK, tables
  <1>9. CASE Record
    <2>1. job.prov \in Providers /\ job.pid \in Pids
      BY <1>1, <1>9 DEF Record, At, Named
    <2>2. exports' \subseteq Export
      BY <1>1, <1>3, <1>4, <1>9, <2>1 DEF Record, Recorded, TypeOK, Export
    <2>3. job' \in Job
      BY <1>1, <1>9, TriesNat DEF Record, Skip, Job, JobPCs
    <2>4. Named' /\ Tunnelled' /\ Room'
      BY <1>1, <1>3, <1>9 DEF Record, Skip, At, Named, Tunnelled, Room, Job
    <2> QED
      BY <1>1, <1>5, <1>9, <2>2, <2>3, <2>4 DEF Record, TypeOK, tunnels
  <1>10. CASE StartsDone
    <2>1. job' \in {ToHeal, Idle} /\ job' \in Job
      BY <1>1, <1>10, Shapes DEF StartsDone
    <2>2. Named' /\ Tunnelled' /\ Room'
      <3>1. job'.pc \in {"heal", "free"}
        BY <2>1, NextJobs
      <3>2. job'.op # "restart"
        BY <1>10, NextJobs DEF StartsDone
      <3> QED
        BY <3>1, <3>2 DEF Named, Tunnelled, Room
    <2> QED
      BY <1>1, <1>5, <1>10, <2>1, <2>2 DEF StartsDone, TypeOK, tables, tunnels
  <1>11. ASSUME NEW prov \in Providers, Reuse(prov)
         PROVE  TypeInv'
    <2> DEFINE k == Key(prov, job.c, port[job.c])
    <2>1. k \in Keys /\ state[k] \in State
      BY <1>1, <1>3, <1>4, KeyIn DEF TypeOK
    <2>2. state' \in [Keys -> State]
      <3>1. \A pid \in Found(prov, port[job.c]) : pid \in Pids /\ procs[pid].token \in Tokens \cup {None}
        BY <1>1 DEF Found, TypeOK, Proc
      <3>2. UNCHANGED state \/ \E s \in State : state' = [state EXCEPT ![k] = s]
        <4>1. NoState \in State /\ \A pid \in Pids, t \in Tokens \cup {None} : Saved(pid, t) \in State
          BY <1>1, Shapes
        <4> QED
          BY <1>11, <3>1, <4>1 DEF Reuse
      <3> QED
        BY <1>1, <3>2 DEF TypeOK
    <2>3. CASE Skip(prov)
      BY <1>1, <1>2, <1>5, <1>11, <2>2, <2>3, SkipShape DEF Reuse, Shaped, TypeOK, tables
    <2>4. ASSUME NEW pid \in Pids, job' = [job EXCEPT !.pc = "record", !.prov = prov, !.pid = pid]
          PROVE  TypeInv'
      <3>1. job' \in Job
        BY <1>1, <2>4 DEF Job, JobPCs
      <3>2. Named' /\ Tunnelled' /\ Room'
        BY <1>1, <1>3, <1>11, <2>4 DEF Reuse, Named, Tunnelled, Room, Job, tables
      <3> QED
        BY <1>1, <1>5, <1>11, <2>2, <3>1, <3>2 DEF Reuse, TypeOK, tables
    <2>5. IsPid(prov, state[k].pid, port[job.c]) => state[k].pid \in Pids
      BY <2>1 DEF IsPid, Alive, State
    <2>6. \A pid \in Found(prov, port[job.c]) : pid \in Pids
      BY DEF Found
    <2> QED
      BY <1>11, <2>3, <2>4, <2>5, <2>6 DEF Reuse
  <1>12. ASSUME NEW prov \in Providers, Spawn(prov)
         PROVE  TypeInv'
    <2> DEFINE k == Key(prov, job.c, port[job.c])
               ghosts == IF prov \in {"bore", "localtunnel"} THEN Found(prov, port[job.c]) ELSE {}
    <2>1. state' \in [Keys -> State]
      BY <1>1, <1>12, Shapes DEF Spawn, TypeOK
    <2>2. Without(ghosts) \in [Pids -> Proc]
      BY <1>1, WithoutProcs
    <2>3. CASE Skip(prov) /\ procs' = Without(ghosts)
      BY <1>1, <1>2, <1>5, <1>12, <2>1, <2>2, <2>3, SkipShape DEF Spawn, Shaped, TypeOK, tables
    <2>4. ASSUME NEW pid \in Pids, NEW t \in Tokens \cup {None},
                 procs' = [Without(ghosts) EXCEPT ![pid] = [prov |-> prov, port |-> port[job.c], token |-> t]],
                 job' = [job EXCEPT !.pc = "spawned", !.prov = prov, !.pid = pid, !.token = t, !.tries = 1]
          PROVE  TypeInv'
      <3>1. procs' \in [Pids -> Proc]
        BY <1>4, <2>2, <2>4 DEF Proc
      <3>2. job' \in Job
        <4>1. 1 \in 0 .. MaxAttempts
          BY AttemptsAssumption
        <4> QED
          BY <1>1, <2>4, <4>1 DEF Job, JobPCs
      <3>3. Named' /\ Tunnelled' /\ Room'
        BY <1>1, <1>3, <1>12, <2>4 DEF Spawn, Named, Tunnelled, Room, Job, tables
      <3> QED
        BY <1>1, <1>5, <1>12, <2>1, <3>1, <3>2, <3>3 DEF Spawn, TypeOK, tables
    <2>5. FreePids(ghosts) \subseteq Pids
      BY DEF FreePids
    <2>6. TokensFor(prov) \subseteq Tokens \cup {None}
      BY TokensForTypes
    <2> QED
      BY <1>12, <2>3, <2>4, <2>5, <2>6 DEF Spawn
  <1>13. CASE Relaunch
    <2>1. PICK killed \in AfterAttempt(job.prov), pid \in Pids :
            /\ pid \in FreePids(killed)
            /\ procs' = [Without(killed) EXCEPT ![pid] =
                            [prov |-> job.prov, port |-> port[job.c], token |-> job.token]]
            /\ job' = [job EXCEPT !.pid = pid, !.tries = @ + 1]
      BY <1>13 DEF Relaunch, FreePids
    <2>2. pid \in Pids
      BY DEF FreePids
    <2>3. job.prov \in Providers /\ job.token \in Tokens \cup {None} /\ job.tries + 1 \in 0 .. MaxAttempts
      BY <1>1, <1>13, TriesNat DEF Relaunch, At, Named, Job
    <2>4. procs' \in [Pids -> Proc]
      BY <1>1, <1>4, <2>1, <2>3, WithoutProcs DEF Proc
    <2>5. job' \in Job
      BY <1>1, <2>1, <2>2, <2>3 DEF Job
    <2>6. Named' /\ Tunnelled' /\ Room'
      BY <1>1, <1>3, <1>13, <2>1, <2>2, <2>3 DEF Relaunch, At, Named, Tunnelled, Room, Job, tables
    <2> QED
      BY <1>1, <1>5, <1>13, <2>4, <2>5, <2>6 DEF Relaunch, TypeOK, tables
  <1> QED
    BY <1>6, <1>7, <1>8, <1>9, <1>10, <1>11, <1>12, <1>13

(* Tunnels stop.                                                           *)
LEMMA StopsTypes ==
  ASSUME TypeInv,
         List \/ Unrecord \/ StopsDone \/ \E r \in job.todo : StopExport(r) \/ ReconcileStop(r)
  PROVE  TypeInv'
  <1>1. TypeOK /\ JobShape /\ HasPort /\ Named /\ Tunnelled /\ Room /\ job \in Job /\ job.todo \subseteq Export
    BY DEF TypeInv, JobShape, TypeOK, Job
  <1>2. ASSUME exports' \subseteq Export, state' \in [Keys -> State], procs' \in [Pids -> Proc],
               job' \in Job, Named', Tunnelled', Room', UNCHANGED <<runtime, port, view>>
        PROVE  TypeInv'
    BY <1>1, <1>2 DEF TypeInv, TypeOK, JobShape, HasPort
  <1>3. CASE List
    <2>1. job.c \in Challenges
      BY <1>1, <1>3 DEF List, At, Named
    <2>2. Listed({job.c}) \subseteq Export
      BY <1>1, <2>1, ListedRows, MissingRows DEF TypeOK
    <2>3. job' \in Job
      BY <1>1, <1>3, <2>2 DEF List, Job, JobPCs
    <2>4. Named' /\ Tunnelled' /\ Room'
      BY <1>1, <1>3, <2>1, NoneAssumption DEF List, At, Named, Tunnelled, Room, Job
    <2> QED
      BY <1>1, <1>2, <1>3, <2>2, <2>3, <2>4 DEF List, TypeOK, tunnels
  <1>4. CASE Unrecord
    <2>0. \/ job.c = None /\ job' = [job EXCEPT !.pc = "test", !.cur = {}]
          \/ job.c # None /\ job' = [job EXCEPT !.pc = "stop", !.cur = {}]
      BY <1>4 DEF Unrecord
    <2>1. job' \in Job
      <3>1. [job EXCEPT !.pc = "test", !.cur = {}] \in Job
        BY <1>1 DEF Job, JobPCs
      <3>2. [job EXCEPT !.pc = "stop", !.cur = {}] \in Job
        BY <1>1 DEF Job, JobPCs
      <3> QED
        BY <2>0, <3>1, <3>2
    <2>2. Named' /\ Tunnelled' /\ Room'
      <3>1. job.pc = "unrecord"
        BY <1>4 DEF Unrecord, At
      <3>2. CASE job.c = None
        BY <1>1, <1>4, <2>0, <3>1, <3>2, NoneAssumption DEF Unrecord, Named, Tunnelled, Room, Job
      <3>3. CASE job.c # None
        BY <1>1, <1>4, <2>0, <3>1, <3>3 DEF Unrecord, Named, Tunnelled, Room, Job
      <3> QED
        BY <3>2, <3>3
    <2> QED
      BY <1>1, <1>2, <1>4, <2>1, <2>2 DEF Unrecord, TypeOK, tunnels
  <1>5. CASE StopsDone
    <2>1. job.c \in Challenges
      BY <1>1, <1>5 DEF StopsDone, At, Named, Job
    <2>2. AllExports \in SUBSET (Providers \cup {Direct})
      BY DEF AllExports
    <2>3. CASE job.op = "restart"
      <3> DEFINE starts == [job EXCEPT !.pc = "starts", !.provs = IF port[job.c] = None THEN {} ELSE AllExports]
      <3>1. job' \in {[job EXCEPT !.pc = "down"], starts}
        BY <1>5, <2>3 DEF StopsDone
      <3>2. job' \in Job
        <4>1. \A provs \in SUBSET (Providers \cup {Direct}) : [job EXCEPT !.pc = "starts", !.provs = provs] \in Job
          BY <1>1 DEF Job, JobPCs
        <4>2. [job EXCEPT !.pc = "down"] \in Job
          BY <1>1 DEF Job, JobPCs
        <4> QED
          BY <2>2, <3>1, <4>1, <4>2
      <3>3. Named' /\ Tunnelled' /\ Room'
        BY ZenonT(60), <1>1, <1>5, <2>1, <2>3, <3>1 DEF StopsDone, At, Named, Tunnelled, Room, Job, tables
      <3> QED
        BY <1>1, <1>2, <1>5, <3>2, <3>3 DEF StopsDone, TypeOK, tables, tunnels
    <2>4. CASE job.op # "restart"
      <3> DEFINE again == [job EXCEPT !.pc = "list", !.again = TRUE]
                 sweep == [Idle EXCEPT !.op = "down", !.pc = "sweep"]
      <3>1. job' \in {again, sweep, Idle, Cycle}
        BY <1>5, <2>4 DEF StopsDone
      <3>2. again \in Job /\ sweep \in Job /\ Idle \in Job /\ Cycle \in Job
        <4>1. again \in Job
          BY <1>1 DEF Job, JobPCs
        <4>2. sweep \in Job
          BY ZenonT(60), <1>1, Shapes DEF Job, JobPCs, OpKinds
        <4> QED
          BY <1>1, <4>1, <4>2, Shapes
      <3>3. sweep.pc = "sweep" /\ sweep.op = "down"
        BY <1>1, Shapes DEF Job
      <3>4. Named' /\ Tunnelled' /\ Room'
        <4>1. CASE job' = again
          BY <1>1, <2>1, <2>4, <4>1, NoneAssumption DEF Named, Tunnelled, Room, Job
        <4>2. CASE job' \in {sweep, Idle, Cycle}
          BY <2>4, <3>3, <4>2, NextJobs DEF Named, Tunnelled, Room
        <4> QED
          BY <3>1, <4>1, <4>2
      <3> QED
        BY <1>1, <1>2, <1>5, <3>1, <3>2, <3>4 DEF StopsDone, TypeOK, tables, tunnels
    <2> QED
      BY <2>3, <2>4
  <1>6. ASSUME NEW r \in job.todo, StopExport(r)
        PROVE  TypeInv'
    <2>1. job' \in Job
      <3>1. r \in Export /\ job.todo \ {r} \in SUBSET Export
        BY <1>1, <1>6
      <3> QED
        BY ZenonT(60), <1>1, <1>6, <3>1 DEF StopExport, Job, JobPCs
    <2>2. Named' /\ Tunnelled' /\ Room'
      BY <1>1, <1>6 DEF StopExport, At, Named, Tunnelled, Room, Job, tables
    <2>3. state' \in [Keys -> State] /\ procs' \in [Pids -> Proc]
      BY <1>1, <1>6, StopTypes DEF StopExport, TypeOK, tunnels
    <2> QED
      BY <1>1, <1>2, <1>6, <2>1, <2>2, <2>3 DEF StopExport, TypeOK, tables
  <1>7. ASSUME NEW r \in job.todo, ReconcileStop(r)
        PROVE  TypeInv'
    <2>1. job' \in Job
      BY <1>1, <1>7 DEF ReconcileStop, Job
    <2>2. Named' /\ Tunnelled' /\ Room'
      BY <1>1, <1>7 DEF ReconcileStop, At, Named, Tunnelled, Room, Indirect, Job, tables
    <2>3. state' \in [Keys -> State] /\ procs' \in [Pids -> Proc]
      BY <1>1, <1>7, StopTypes DEF ReconcileStop
    <2> QED
      BY <1>1, <1>2, <1>7, <2>1, <2>2, <2>3 DEF ReconcileStop, TypeOK, tables
  <1> QED
    BY <1>3, <1>4, <1>5, <1>6, <1>7

(* The daemon cycle.                                                       *)
LEMMA CycleTypes ==
  ASSUME TypeInv,
         \/ Reconcile \/ ReconcileCommit \/ SweepRead \/ Sweep \/ TestList \/ TestDone \/ CycleEnd
         \/ \E r \in job.doomed : TestExport(r)
         \/ \E c \in Challenges : CycleStop(c) \/ Heal(c)
  PROVE  TypeInv'
  <1>1. TypeOK /\ JobShape /\ HasPort /\ Named /\ Tunnelled /\ Room /\ job \in Job
        /\ job.todo \subseteq Export /\ job.doomed \subseteq Export
    BY DEF TypeInv, JobShape, TypeOK, Job
  <1>2. ASSUME exports' \subseteq Export, state' \in [Keys -> State], procs' \in [Pids -> Proc],
               job' \in Job, Named', Tunnelled', Room', UNCHANGED <<runtime, port, view>>
        PROVE  TypeInv'
    BY <1>1, <1>2 DEF TypeInv, TypeOK, JobShape, HasPort
  <1>3. Listed(Challenges) \subseteq Export /\ \A c \in Challenges : Listed({c}) \subseteq Export
    BY <1>1, ListedRows, MissingRows DEF TypeOK
  <1>4. CASE Reconcile
    <2> DEFINE rows == Listed(Challenges)
               orphans == {r \in rows : ~RowRuns(r)}
    <2>1. PICK dead \in SUBSET (rows \ orphans) :
             job' = [job EXCEPT !.pc = "orphans", !.doomed = orphans \cup dead,
                                !.todo = {r \in orphans : r.prov # Direct}]
      BY <1>4 DEF Reconcile
    <2>2. job' \in Job
      BY <1>1, <1>3, <2>1 DEF Job, JobPCs
    <2>3. Named' /\ Tunnelled' /\ Room'
      BY <1>1, <1>4, <2>1 DEF Reconcile, At, Named, Tunnelled, Indirect, Room, Job
    <2> QED
      BY <1>1, <1>2, <1>3, <1>4, <2>2, <2>3 DEF Reconcile, TypeOK, tunnels
  <1>5. CASE ReconcileCommit
    <2>1. job' \in Job
      BY <1>1, <1>5 DEF ReconcileCommit, Job, JobPCs
    <2>2. Named' /\ Tunnelled' /\ Room'
      BY <1>1, <1>5 DEF ReconcileCommit, At, Named, Tunnelled, Room, Job
    <2> QED
      BY <1>1, <1>2, <1>5, <2>1, <2>2 DEF ReconcileCommit, TypeOK, tunnels
  <1>6. CASE SweepRead
    <2>1. Kept \subseteq Export
      BY <1>3 DEF Kept
    <2>2. job' \in Job
      BY <1>1, <1>6, <2>1 DEF SweepRead, Job, JobPCs
    <2>3. Named' /\ Tunnelled' /\ Room'
      BY <1>1, <1>6 DEF SweepRead, At, Named, Tunnelled, Room, Job
    <2> QED
      BY <1>1, <1>2, <1>3, <1>6, <2>2, <2>3 DEF SweepRead, TypeOK, tunnels
  <1>7. CASE Sweep
    <2>1. procs' \in [Pids -> Proc]
      BY <1>1, <1>7, WithoutProcs DEF Sweep
    <2>2. job' \in {Idle, ToHeal} \/ job' = [job EXCEPT !.pc = "probe", !.again = TRUE, !.keep = {}]
      BY <1>7 DEF Sweep
    <2>3. job.op # "restart"
      BY <1>1, <1>7 DEF Named, Sweep, At
    <2>4. job' \in Job
      <3>1. [job EXCEPT !.pc = "probe", !.again = TRUE, !.keep = {}] \in Job
        BY <1>1 DEF Job, JobPCs
      <3> QED
        BY <1>1, <2>2, <3>1, Shapes
    <2>5. Named' /\ Tunnelled' /\ Room'
      <3>1. job'.pc \in {"free", "heal", "probe"} /\ job'.op # "restart"
        BY <1>1, <2>2, <2>3, NextJobs DEF Job
      <3> QED
        BY <3>1 DEF Named, Tunnelled, Room
    <2> QED
      BY <1>1, <1>2, <1>7, <2>1, <2>4, <2>5 DEF Sweep, TypeOK, tables
  <1>8. CASE TestList
    <2>1. job' \in Job
      BY <1>1, <1>3, <1>8 DEF TestList, Job, JobPCs
    <2>2. Named' /\ Tunnelled' /\ Room'
      BY <1>1, <1>8 DEF TestList, At, Named, Tunnelled, Indirect, Room, Job
    <2> QED
      BY <1>1, <1>2, <1>3, <1>8, <2>1, <2>2 DEF TestList, TypeOK, tunnels
  <1>9. CASE TestDone
    <2>1. job' \in Job
      BY <1>1, <1>9 DEF TestDone, Job, JobPCs
    <2>2. Named' /\ Tunnelled' /\ Room'
      BY <1>1, <1>9 DEF TestDone, At, Named, Tunnelled, Room, Job, tables
    <2> QED
      BY <1>1, <1>2, <1>9, <2>1, <2>2 DEF TestDone, TypeOK, tables, tunnels
  <1>10. CASE CycleEnd
    <2>1. Named' /\ Tunnelled' /\ Room'
      BY <1>10, NextJobs DEF CycleEnd, Finish, Named, Tunnelled, Room
    <2> QED
      BY <1>1, <1>2, <1>10, <2>1, Shapes DEF CycleEnd, Finish, TypeOK, tables, tunnels
  <1>11. ASSUME NEW r \in job.doomed, TestExport(r)
         PROVE  TypeInv'
    <2> DEFINE next == [job EXCEPT !.doomed = @ \ {r}]
               stop == [next EXCEPT !.pc = "stop", !.todo = {r}]
    <2>1. job' \in {next, stop} /\ job.pc = "test"
      BY <1>11 DEF TestExport, At
    <2>2. r \in Export /\ job.doomed \ {r} \in SUBSET Export
      BY <1>1, <1>11
    <2>3. next \in Job
      BY <1>1, <2>2 DEF Job
    <2>4. stop \in Job
      BY <2>2, <2>3 DEF Job, JobPCs
    <2>5. Named' /\ Tunnelled' /\ Room'
      <3>1. job.op # "restart" /\ Indirect(job.doomed \ {r})
        BY <1>1, <2>1 DEF Named, Tunnelled, Indirect
      <3>2. CASE job' = next
        BY <1>1, <2>1, <3>1, <3>2 DEF Named, Tunnelled, Room, Job
      <3>3. CASE job' = stop
        BY <1>1, <2>1, <3>1, <3>3 DEF Named, Tunnelled, Room, Job
      <3> QED
        BY <2>1, <3>2, <3>3
    <2>6. state' \in [Keys -> State]
      <3>1. UNCHANGED state \/ Failed(r, TRUE) \/ Failed(r, FALSE)
        BY <1>11 DEF TestExport
      <3>2. \A f \in State, b \in BOOLEAN : [f EXCEPT !.failed = b] \in State
        BY DEF State
      <3>3. ASSUME NEW b \in BOOLEAN, Failed(r, b) PROVE state' \in [Keys -> State]
        <4>1. state' = [k \in Keys |-> IF k = Key(r.prov, r.c, r.port) THEN [state[k] EXCEPT !.failed = b] ELSE state[k]]
          BY <1>1, <3>3 DEF Failed, TypeOK
        <4> QED
          BY <1>1, <3>2, <4>1 DEF TypeOK
      <3> QED
        BY <1>1, <3>1, <3>3 DEF TypeOK
    <2> QED
      BY <1>1, <1>2, <1>11, <2>1, <2>3, <2>4, <2>5, <2>6 DEF TestExport, TypeOK, tables
  <1>12. ASSUME NEW c \in Challenges, CycleStop(c)
         PROVE  TypeInv'
    <2>1. job' \in Job
      BY <1>1, <1>12 DEF CycleStop, Job, JobPCs
    <2>2. Named' /\ Tunnelled' /\ Room'
      BY <1>1, <1>12 DEF CycleStop, At, Named, Tunnelled, Room, Job, tables
    <2> QED
      BY <1>1, <1>2, <1>12, <2>1, <2>2 DEF CycleStop, TypeOK, tables, tunnels
  <1>13. ASSUME NEW c \in Challenges, Heal(c)
         PROVE  TypeInv'
    <2> DEFINE rest == [job EXCEPT !.heal = @ \ {c}]
    <2>1. exports' \subseteq Export
      BY <1>1, <1>3, <1>13 DEF Heal, TypeOK
    <2>2. job' = rest \/ (runtime[c].up /\ job' = [rest EXCEPT !.c = c, !.pc = "starts", !.provs = AllExports])
      BY <1>13 DEF Heal
    <2>3. AllExports \in SUBSET (Providers \cup {Direct})
      BY DEF AllExports
    <2>4. job' \in Job
      <3>1. rest \in Job
        BY <1>1 DEF Job
      <3>2. [rest EXCEPT !.c = c, !.pc = "starts", !.provs = AllExports] \in Job
        BY <1>13, <2>3, <3>1 DEF Job, JobPCs
      <3> QED
        BY <2>2, <3>1, <3>2
    <2>5. Named' /\ Tunnelled' /\ Room'
      BY ZenonT(60), <1>1, <1>13, <2>2 DEF Heal, At, HasPort, Named, Tunnelled, Room, Job, tunnels
    <2> QED
      BY <1>1, <1>2, <1>13, <2>1, <2>4, <2>5 DEF Heal, TypeOK, tunnels
  <1> QED
    BY <1>4, <1>5, <1>6, <1>7, <1>8, <1>9, <1>10, <1>11, <1>12, <1>13

(* Callers without the lock, and the world around.                         *)
World ==
    \/ \E c \in Challenges : ContainerExit(c)
    \/ \E pid \in Pids : TunnelDies(pid)
    \/ \E k \in Keys : GraceEnds(k)

LEMMA OtherTypes ==
  ASSUME TypeInv, Unlocked \/ World \/ Crash
  PROVE  TypeInv'
  <1>1. TypeOK /\ JobShape /\ HasPort /\ job \in Job /\ Idle \in Job /\ NoState \in State
        /\ NoView \in View /\ NoProc \in Proc
    BY Shapes DEF TypeInv, JobShape, TypeOK
  <1>2. CASE Unlocked
    <2>1. PICK v \in Viewers :
             \/ ViewList(v) \/ ViewBackfill(v) \/ ViewResave(v) \/ \E r \in exports : ViewTest(v, r)
             \/ PsKill(v) \/ PsUnrecord(v) \/ PsClear(v)
      BY <1>2 DEF Unlocked
    <2>2. view[v] \in View
      BY <1>1 DEF TypeOK
    <2>3. UNCHANGED <<runtime, port, job>>
      BY <2>1 DEF ViewList, ViewBackfill, ViewResave, ViewTest, PsKill, PsUnrecord, PsClear, tables
    <2>4. exports' \subseteq Export
      BY <1>1, <2>1, <2>2 DEF ViewList, ViewBackfill, ViewResave, ViewTest, PsKill, PsUnrecord, PsClear,
         tables, TypeOK, View
    <2>5. procs' \in [Pids -> Proc]
      BY <1>1, <2>1 DEF ViewList, ViewBackfill, ViewResave, ViewTest, PsKill, PsUnrecord, PsClear, tunnels, TypeOK
    <2>6. state' \in [Keys -> State]
      <3>1. [view[v].read EXCEPT !.failed = FALSE] \in State
        BY <2>2 DEF View, State
      <3> QED
        BY <1>1, <2>1, <3>1 DEF ViewList, ViewBackfill, ViewResave, ViewTest, PsKill, PsUnrecord, PsClear,
           tunnels, TypeOK
    <2>7. view' \in [Viewers -> View]
      <3>1. PICK w : view' = [view EXCEPT ![v] = w]
        BY <2>1 DEF ViewList, ViewBackfill, ViewResave, ViewTest, PsKill, PsUnrecord, PsClear
      <3>2. w \in View
        <4>1. CASE ViewList(v)
          <5>1. Missing(Challenges) \in SUBSET Export
            BY <1>1, MissingRows
          <5>2. w = [NoView EXCEPT !.act = "backfill", !.rows = Missing(Challenges)]
            BY <1>1, <3>1, <4>1 DEF ViewList, TypeOK
          <5> QED
            BY <1>1, <5>1, <5>2 DEF View
        <4>2. ASSUME NEW r \in exports, ViewTest(v, r) PROVE w \in View
          <5>1. r \in Export /\ r.prov \in Providers
            BY <1>1, <4>2 DEF ViewTest, TypeOK, Export
          <5>2. Key(r.prov, r.c, r.port) \in Keys
            BY <5>1, KeyIn DEF Export
          <5>3. state[Key(r.prov, r.c, r.port)] \in State
            BY <1>1, <5>2 DEF TypeOK
          <5>4. w = [NoView EXCEPT !.act = "resave", !.key = Key(r.prov, r.c, r.port),
                                   !.read = state[Key(r.prov, r.c, r.port)]]
            BY <1>1, <3>1, <4>2 DEF ViewTest, TypeOK
          <5> QED
            BY <1>1, <5>2, <5>3, <5>4 DEF View
        <4>3. CASE ViewBackfill(v) \/ ViewResave(v) \/ PsClear(v)
          BY <1>1, <3>1, <4>3 DEF ViewBackfill, ViewResave, PsClear, TypeOK
        <4>4. CASE PsKill(v) \/ PsUnrecord(v)
          BY <1>1, <3>1, <4>4 DEF PsKill, PsUnrecord, TypeOK, View
        <4> QED
          BY <2>1, <4>1, <4>2, <4>3, <4>4
      <3> QED
        BY <1>1, <3>1, <3>2 DEF TypeOK
    <2> QED
      BY <1>1, <2>3, <2>4, <2>5, <2>6, <2>7 DEF TypeInv, TypeOK, JobShape, HasPort, Named, Tunnelled, Room
  <1>3. ASSUME NEW c \in Challenges, ContainerExit(c) PROVE TypeInv'
    <2>1. runtime[c] \in Runtime
      BY <1>1 DEF TypeOK
    <2>2. runtime' = [runtime EXCEPT ![c].up = FALSE]
      BY <1>3 DEF ContainerExit
    <2>3. runtime' \in [Challenges -> Runtime]
      BY <1>1, <2>1, <2>2 DEF TypeOK, Runtime
    <2>4. \A d \in Challenges : runtime'[d].row = runtime[d].row /\ (runtime'[d].up => runtime[d].up)
      BY <1>1, <2>2 DEF TypeOK, Runtime
    <2>5. HasPort' /\ Named' /\ Tunnelled' /\ Room'
      <3>1. job.c \in Challenges \/ job.pc \notin {"down", "list", "starts", "spawned", "record", "runtime"}
        BY <1>1 DEF JobShape, Named
      <3>2. HasPort' /\ Tunnelled'
        BY <1>1, <1>3, <2>4 DEF ContainerExit, JobShape, HasPort, Tunnelled
      <3>3. Named'
        BY <1>1, <1>3, <2>4, <3>1 DEF ContainerExit, JobShape, Named
      <3>4. Room'
        BY <1>1, <1>3, <2>4, <3>1 DEF ContainerExit, JobShape, Named, Room
      <3> QED
        BY <3>2, <3>3, <3>4
    <2> QED
      BY <1>1, <1>3, <2>3, <2>5 DEF ContainerExit, TypeInv, TypeOK, JobShape, tunnels
  <1>4. ASSUME NEW pid \in Pids, TunnelDies(pid) PROVE TypeInv'
    BY <1>1, <1>4 DEF TunnelDies, TypeInv, TypeOK, JobShape, HasPort, Named, Tunnelled, Room, tables
  <1>5. ASSUME NEW k \in Keys, GraceEnds(k) PROVE TypeInv'
    <2>1. state' \in [Keys -> State]
      BY <1>1, <1>5 DEF GraceEnds, TypeOK, State
    <2>2. view' \in [Viewers -> View]
      <3>1. ASSUME NEW v \in Viewers PROVE [view[v] EXCEPT !.read.fresh = @ /\ view[v].key # k] \in View
        <4>1. view[v] \in View /\ view[v].read \in State
          BY <1>1 DEF TypeOK, View
        <4>2. [view[v].read EXCEPT !.fresh = @ /\ view[v].key # k] \in State
          BY <4>1 DEF State
        <4> QED
          BY <4>1, <4>2 DEF View
      <3> QED
        BY <1>5, <3>1 DEF GraceEnds
    <2> QED
      BY <1>1, <1>5, <2>1, <2>2 DEF GraceEnds, TypeInv, TypeOK, JobShape, HasPort, Named, Tunnelled, Room, tables
  <1>6. CASE Crash
    <2>1. job'.pc = "free" /\ job'.op = "crashed"
      BY <1>1, <1>6, NextJobs DEF Crash, Job
    <2>2. job' \in Job
      BY <1>1, <1>6 DEF Crash, Job
    <2> QED
      BY <1>1, <1>6, <2>1, <2>2 DEF Crash, TypeInv, TypeOK, JobShape, HasPort, Named, Tunnelled, Room, tables, tunnels
  <1> QED
    BY <1>2, <1>3, <1>4, <1>5, <1>6 DEF World

LEMMA TypeNext ==
  TypeInv /\ [Next]_vars => TypeInv'
  <1> SUFFICES ASSUME TypeInv, [Next]_vars PROVE TypeInv'
    OBVIOUS
  <1>1. CASE JobStep
    BY <1>1, RuntimeTypes, StartTypes, StopsTypes, CycleTypes DEF JobStep
  <1>2. CASE Request \/ DaemonCycle
    BY <1>2, BeginTypes
  <1>3. CASE Unlocked \/ World \/ Crash
    BY <1>3, OtherTypes
  <1>4. CASE UNCHANGED vars
    BY <1>4 DEF vars, TypeInv, TypeOK, JobShape, HasPort, Named, Tunnelled, Room
  <1> QED
    BY <1>1, <1>2, <1>3, <1>4 DEF Next, World

LEMMA TypeInit ==
  Init => TypeInv
  <1> SUFFICES ASSUME Init PROVE TypeInv
    OBVIOUS
  <1>1. Idle \in Job
    BY TriesNat DEF Job, Idle, JobPCs
  <1>2. NoState \in State /\ NoView \in View /\ NoProc \in Proc
    BY <1>1, Shapes DEF Init
  <1>3. TypeOK
    BY <1>1, <1>2, RowsAssumption DEF Init, TypeOK, Runtime
  <1>4. JobShape
    BY RowsAssumption, NextJobs DEF Init, JobShape, HasPort, Named, Tunnelled, Room
  <1> QED
    BY <1>3, <1>4 DEF TypeInv

(* Rows, state files, processes and commands keep their types: a key of a  *)
(* state file is one a provider can have, an export has a runtime row and a *)
(* port, and a command uses no challenge, provider or process it lacks.    *)
THEOREM TypeCorrect == Spec => []TypeOK
  <1>1. TypeInv => TypeOK
    BY DEF TypeInv
  <1> QED
    BY <1>1, TypeInit, TypeNext, PTL DEF Spec

-----------------------------------------------------------------------------
(* The sweep.  Between its list of the exports and the kill nobody adds an *)
(* export with a process, and no runtime starts.                           *)

Pidless == \A v \in Viewers : \A r \in view[v].rows : r.pid = None
OnRecord == job.pc = "kill" => \A r \in exports : RowRuns(r) /\ r.pid # None => r \in job.keep
SweepInv == TypeInv /\ Pidless /\ OnRecord

\* The steps that change what a caller without the lock has read.
LEMMA ViewSteps ==
  ASSUME [Next]_vars
  PROVE  view' = view \/ Unlocked \/ \E k \in Keys : GraceEnds(k)
  <1>1. JobStep => view' = view
    BY DEF JobStep, RuntimeDown, RuntimeUp, StartDirect, Announced, Relaunch, NotAnnounced, Record, StartsDone, List,
       Unrecord, StopsDone, Reconcile, ReconcileCommit, SweepRead, Sweep, TestList, TestDone, CycleEnd, Reuse,
       Spawn, StopExport, ReconcileStop, TestExport, CycleStop, Heal
  <1>2. Request \/ DaemonCycle => view' = view
    BY DEF Request, DaemonCycle, BeginTest, BeginUp, BeginDown, BeginUnexport, BeginRestart, BeginExport, BeginCycle
  <1>3. Crash \/ (\E c \in Challenges : ContainerExit(c)) \/ (\E pid \in Pids : TunnelDies(pid)) => view' = view
    BY DEF Crash, ContainerExit, TunnelDies
  <1> QED
    BY <1>1, <1>2, <1>3 DEF Next, vars

LEMMA ViewRows ==
  ASSUME TypeInv, [Next]_vars, NEW v \in Viewers
  PROVE  view'[v].rows \in {view[v].rows, Missing(Challenges), {}}
  <1>1. TypeOK /\ view[v] \in View
    BY DEF TypeInv, TypeOK, JobShape
  <1>2. CASE view' = view
    BY <1>2
  <1>3. CASE Unlocked
    <2>1. PICK u \in Viewers :
             \/ ViewList(u) \/ ViewBackfill(u) \/ ViewResave(u) \/ \E r \in exports : ViewTest(u, r)
             \/ PsKill(u) \/ PsUnrecord(u) \/ PsClear(u)
      BY <1>3 DEF Unlocked
    <2>2. PICK w : view' = [view EXCEPT ![u] = w]
      BY <2>1 DEF ViewList, ViewBackfill, ViewResave, ViewTest, PsKill, PsUnrecord, PsClear
    <2>3. w.rows \in {Missing(Challenges), {}}
      <3>1. view'[u] = w /\ view[u] \in View /\ NoView.rows = {} /\ NoView \in View
        BY <1>1, <2>2, Shapes DEF TypeOK, NoView
      <3>2. CASE ViewList(u)
        BY <1>1, <3>1, <3>2 DEF ViewList, TypeOK, View
      <3>3. ASSUME NEW r \in exports, ViewTest(u, r) PROVE w.rows = {}
        <4>1. PICK key, read : view'[u] = [NoView EXCEPT !.act = "resave", !.key = key, !.read = read]
          BY <1>1, <3>3 DEF ViewTest, TypeOK
        <4> QED
          BY <3>1, <4>1 DEF View
      <3>4. CASE ViewBackfill(u) \/ ViewResave(u) \/ PsKill(u) \/ PsUnrecord(u) \/ PsClear(u)
        BY <1>1, <3>1, <3>4 DEF ViewBackfill, ViewResave, PsKill, PsUnrecord, PsClear, TypeOK, View
      <3> QED
        BY <2>1, <3>2, <3>3, <3>4
    <2> QED
      BY <1>1, <2>2, <2>3 DEF TypeOK
  <1>4. ASSUME NEW k \in Keys, GraceEnds(k) PROVE view'[v].rows = view[v].rows
    BY <1>1, <1>4 DEF GraceEnds, View
  <1> QED
    BY <1>2, <1>3, <1>4, ViewSteps

LEMMA PidlessStep ==
  ASSUME TypeInv, Pidless, [Next]_vars
  PROVE  Pidless'
  <1>1. \A r \in Missing(Challenges) : r.pid = None
    BY MissingRows DEF TypeInv, JobShape
  <1> QED
    BY <1>1, ViewRows DEF Pidless

LEMMA OnlySweepRead ==
  ASSUME TypeInv, JobStep \/ Request \/ DaemonCycle \/ Crash, job'.pc = "kill"
  PROVE  SweepRead
  <1>1. job \in Job /\ Idle \in Job
    BY Shapes DEF TypeInv, TypeOK
  <1>2. ~Request /\ ~DaemonCycle /\ ~Crash
    <2>1. ~Crash
      BY <1>1, NextJobs DEF Crash, Job
    <2>2. ~DaemonCycle /\ ~BeginTest
      BY <1>1 DEF DaemonCycle, BeginCycle, BeginTest, Job
    <2>3. ASSUME NEW c \in Challenges
          PROVE  /\ ~BeginUp(c) /\ ~BeginDown(c) /\ ~BeginUnexport(c)
                 /\ \A scope : ~BeginRestart(c, scope)
                 /\ \A provs : ~BeginExport(c, provs)
      BY <1>1 DEF BeginUp, BeginDown, BeginUnexport, BeginRestart, BeginExport, Job
    <2> QED
      BY <2>1, <2>2, <2>3 DEF Request
  <1>3. ~RuntimeDown /\ ~RuntimeUp
    BY <1>1, NextJobs DEF RuntimeDown, RuntimeUp, Finish, Job
  <1>4. ~StartDirect /\ ~Announced /\ ~Relaunch /\ ~NotAnnounced /\ ~Record /\ ~StartsDone
        /\ \A prov : ~Reuse(prov) /\ ~Spawn(prov)
    <2>1. ~Relaunch
      BY <1>1 DEF Relaunch, At, Job
    <2>2. ~StartDirect /\ ~Announced /\ ~NotAnnounced /\ ~Record /\ ~StartsDone
      BY <1>1, NextJobs DEF StartDirect, Announced, NotAnnounced, Record, StartsDone, Skip, At, Job
    <2>3. ASSUME NEW prov PROVE ~Reuse(prov) /\ ~Spawn(prov)
      BY ZenonT(60), <1>1 DEF Reuse, Spawn, Skip, Job
    <2> QED
      BY <2>1, <2>2, <2>3
  <1>5. ~List /\ ~Unrecord /\ \A r : ~StopExport(r) /\ ~ReconcileStop(r)
    BY <1>1 DEF List, Unrecord, StopExport, ReconcileStop, At, Job
  <1>6. ~StopsDone
    BY <1>1, NextJobs DEF StopsDone, Job
  <1>7. ~Reconcile /\ ~ReconcileCommit /\ ~TestList /\ ~TestDone /\ ~CycleEnd
    BY <1>1, NextJobs DEF Reconcile, ReconcileCommit, TestList, TestDone, CycleEnd, Finish, Job
  <1>8. ~Sweep
    BY <1>1, NextJobs DEF Sweep, Job
  <1>9. \A r : ~TestExport(r)
    BY <1>1 DEF TestExport, At, Job
  <1>10. \A c : ~CycleStop(c) /\ ~Heal(c)
    BY <1>1 DEF CycleStop, Heal, At, Job
  <1> QED
    BY <1>2, <1>3, <1>4, <1>5, <1>6, <1>7, <1>8, <1>9, <1>10 DEF JobStep

LEMMA OnRecordStep ==
  ASSUME SweepInv, [Next]_vars
  PROVE  OnRecord'
  <1>1. TypeOK /\ HasPort /\ job \in Job /\ TypeInv
    BY DEF SweepInv, TypeInv, TypeOK, JobShape
  <1>2. SUFFICES ASSUME job'.pc = "kill", NEW r \in exports', RowRuns(r)', r.pid # None
                 PROVE  r \in job'.keep
    BY DEF OnRecord
  <1>3. CASE SweepRead
    BY <1>1, <1>2, <1>3 DEF SweepRead, Kept, RowRuns, Job
  <1>4. CASE Unlocked
    <2>1. UNCHANGED <<runtime, job>>
      BY <1>4 DEF Unlocked, ViewList, ViewBackfill, ViewResave, ViewTest, PsKill, PsUnrecord, PsClear, tables
    <2>2. \A s \in exports' : s \in exports \/ s.pid = None
      BY <1>4 DEF Unlocked, ViewList, ViewBackfill, ViewResave, ViewTest, PsKill, PsUnrecord, PsClear, tables,
         SweepInv, Pidless
    <2> QED
      BY <1>2, <2>1, <2>2 DEF SweepInv, OnRecord, RowRuns
  <1>5. CASE World
    <2>1. UNCHANGED <<exports, job>>
      BY <1>5 DEF World, ContainerExit, TunnelDies, GraceEnds, tables
    <2>2. RowRuns(r)
      <3>1. CASE runtime' = runtime
        BY <1>2, <3>1 DEF RowRuns
      <3>2. ASSUME NEW c \in Challenges, ContainerExit(c) PROVE RowRuns(r)
        BY <1>1, <1>2, <2>1, <3>2 DEF ContainerExit, RowRuns, TypeOK, Runtime, Export
      <3> QED
        BY <1>5, <3>1, <3>2 DEF World, TunnelDies, GraceEnds, tables
    <2> QED
      BY <1>2, <2>1, <2>2 DEF SweepInv, OnRecord
  <1>6. CASE UNCHANGED vars
    BY <1>2, <1>6 DEF vars, SweepInv, OnRecord, RowRuns
  <1> QED
    BY <1>1, <1>2, <1>3, <1>4, <1>5, <1>6, OnlySweepRead DEF Next, World

LEMMA SweptSpares ==
  ASSUME SweepInv, Sweep, NEW r \in exports, RowRuns(r), Alive(r.pid)
  PROVE  \E p \in Pids : Alive(p)' /\ SameTunnel(p, r.pid)
  <1> DEFINE kept == {p \in {s.pid : s \in job.keep} : Alive(p)}
  <1>1. r.pid \in kept
    BY DEF SweepInv, OnRecord, Sweep, At, Alive
  <1>2. kept \subseteq Pids
    BY NoneAssumption DEF SweepInv, TypeInv, TypeOK, Job, Export, Alive
  <1>3. PICK spared \in Firsts(kept) : \A p \in spared : p \in Pids => procs'[p] = procs[p]
    BY DEF Sweep, Without
  <1>4. PICK q \in spared : SameTunnel(r.pid, q)
    BY <1>1, <1>3 DEF Firsts
  <1>5. q \in kept /\ q \in Pids /\ procs'[q] = procs[q]
    BY <1>2, <1>3, <1>4 DEF Firsts
  <1> QED
    BY <1>4, <1>5 DEF SameTunnel, Alive

LEMMA SweepNext ==
  SweepInv /\ [Next]_vars => SweepInv'
  BY TypeNext, PidlessStep, OnRecordStep DEF SweepInv

LEMMA SweepInit ==
  Init => SweepInv
  <1> SUFFICES ASSUME Init PROVE SweepInv
    OBVIOUS
  <1>1. Pidless
    BY DEF Init, Pidless, NoView
  <1>2. OnRecord
    BY NextJobs DEF Init, OnRecord
  <1> QED
    BY <1>1, <1>2, TypeInit DEF SweepInv

(* A sweep kills no tunnel that an active export of a running challenge     *)
(* names, unless another one for the same provider and port survives:       *)
(* whatever fails, crashes, is reused or is written without the lock.      *)
THEOREM SweepSpares == Spec => SweepSparesRecorded
  <1>1. SweepInv /\ [Next]_vars =>
          [Sweep => \A r \in exports : RowRuns(r) /\ Alive(r.pid) =>
                      \E p \in Pids : Alive(p)' /\ SameTunnel(p, r.pid)]_vars
    BY SweptSpares
  <1> QED
    BY <1>1, SweepInit, SweepNext, PTL DEF Spec, SweepSparesRecorded

-----------------------------------------------------------------------------
(* Ports.  An export of the latest runtime has its port: a restart that may *)
(* change the port and keeps the row has stopped every export before.      *)

\* A row is marked inactive when its export is stopped.
RowsMarked == "row" \notin Faults

NoRows == \A v \in Viewers : view[v].rows = {}
Aged ==
    \A r \in exports :
        /\ r.row <= runtime[r.c].row
        /\ r.row = runtime[r.c].row => r.port = port[r.c]

Clearing == job.op = "restart" /\ job.scope = "all"
Left == IF job.pc = "stop" THEN job.todo ELSE job.todo \cup job.cur
Cleared ==
    /\ job.op = "restart" /\ job.pc \in {"down", "runtime"} => job.scope # "provider"
    /\ Clearing /\ job.pc \in {"down", "runtime"} => \A r \in exports : r.c # job.c
    /\ Clearing /\ job.pc \in {"stop", "unrecord"} =>
         \A r \in exports : r.c = job.c => \E s \in Left : SamePlace(r, s)

PortInv == TypeInv /\ NoRows /\ Aged /\ Cleared

LEMMA NoRowsStep ==
  ASSUME TypeInv, NoRows, [Next]_vars, Viewers = {} \/ ~BaseIp
  PROVE  NoRows'
  <1>1. ~BaseIp => Missing(Challenges) = {}
    BY DEF Missing
  <1> QED
    BY <1>1, ViewRows DEF NoRows

\* The steps that change runtimes, ports or exports.
LEMMA TableSteps ==
  ASSUME [Next]_vars
  PROVE  \/ UNCHANGED <<runtime, port, exports>>
         \/ RuntimeDown \/ RuntimeUp \/ \E c \in Challenges : ContainerExit(c)
         \/ StartDirect \/ Record \/ List \/ Reconcile \/ SweepRead \/ TestList \/ \E c \in Challenges : Heal(c)
         \/ Unrecord \/ ReconcileCommit \/ Unlocked
  <1>1. CASE JobStep
    BY <1>1 DEF JobStep, Announced, Relaunch, NotAnnounced, StartsDone, StopsDone, Sweep, TestDone, CycleEnd, Reuse,
       Spawn, StopExport, ReconcileStop, TestExport, CycleStop, tables
  <1>2. CASE Request \/ DaemonCycle
    BY <1>2 DEF Request, DaemonCycle, BeginTest, BeginUp, BeginDown, BeginUnexport, BeginRestart, BeginExport,
       BeginCycle, tables
  <1>3. CASE Crash \/ (\E pid \in Pids : TunnelDies(pid)) \/ \E k \in Keys : GraceEnds(k)
    BY <1>3 DEF Crash, TunnelDies, GraceEnds, tables
  <1>4. CASE UNCHANGED vars
    BY <1>4 DEF vars
  <1> QED
    BY <1>1, <1>2, <1>3, <1>4 DEF Next

LEMMA AgedStep ==
  ASSUME PortInv, [Next]_vars
  PROVE  Aged'
  <1>1. TypeOK /\ HasPort /\ Named /\ TypeInv /\ job \in Job
    BY DEF PortInv, TypeInv, TypeOK, JobShape
  <1>2. ASSUME UNCHANGED <<runtime, port>>,
               \A r \in exports' : r \in exports \/ (r.row = runtime[r.c].row /\ r.port = port[r.c] /\ r \in Export)
        PROVE  Aged'
    <2>1. \A r \in Export : runtime[r.c].row \in Nat
      BY <1>1, RowsAssumption DEF TypeOK, Runtime, Export
    <2> QED
      BY <1>2, <2>1 DEF PortInv, Aged
  <1>3. \A cs \in SUBSET Challenges : \A r \in Listed(cs) :
          r \in exports \/ (r.row = runtime[r.c].row /\ r.port = port[r.c] /\ r \in Export)
    BY <1>1, ListedRows, MissingRows
  <1>4. CASE UNCHANGED <<runtime, port, exports>>
    BY <1>2, <1>4
  <1>5. CASE StartDirect \/ Record
    <2>1. job.c \in Challenges
      BY <1>1, <1>5 DEF StartDirect, Record, At, Named
    <2>2. exports' \subseteq Export
      BY <1>1, <1>5, StartTypes DEF TypeInv, TypeOK
    <2> QED
      BY <1>2, <1>5, <2>2 DEF StartDirect, Record, Recorded
  <1>6. CASE List \/ Reconcile \/ SweepRead \/ TestList \/ \E c \in Challenges : Heal(c)
    <2>1. List => {job.c} \in SUBSET Challenges
      BY <1>1 DEF List, At, Named
    <2> QED
      BY <1>2, <1>3, <1>6, <2>1 DEF List, Reconcile, SweepRead, TestList, Heal
  <1>7. CASE Unrecord \/ ReconcileCommit
    BY <1>2, <1>7 DEF Unrecord, ReconcileCommit
  <1>8. CASE Unlocked
    BY <1>2, <1>8 DEF Unlocked, ViewList, ViewBackfill, ViewResave, ViewTest, PsKill, PsUnrecord, PsClear, tables,
       PortInv, NoRows
  <1>9. ASSUME NEW c \in Challenges, runtime' = [runtime EXCEPT ![c].up = FALSE], UNCHANGED <<port, exports>>
        PROVE  Aged'
    <2>1. \A d \in Challenges : runtime'[d].row = runtime[d].row
      BY <1>1, <1>9 DEF TypeOK, Runtime
    <2>2. \A r \in exports : r.c \in Challenges
      BY <1>1 DEF TypeOK, Export
    <2> QED
      BY <1>9, <2>1, <2>2 DEF PortInv, Aged
  <1>10. CASE RuntimeUp
    <2> DEFINE c == job.c
               reuse == job.op = "restart" /\ job.kept
    <2>1. c \in Challenges /\ exports' = exports /\ \A r \in exports : r.c \in Challenges /\ r.row \in Nat
      BY <1>1, <1>10, RowsAssumption DEF RuntimeUp, At, Named, TypeOK, Export
    <2>2. ASSUME NEW p \in HostPorts, port' = [port EXCEPT ![c] = p],
                 reuse /\ job.scope = "container" => p = port[c],
                 runtime' = [runtime EXCEPT ![c] = [row |-> IF reuse THEN @.row ELSE @.row + 1, up |-> TRUE]]
          PROVE  Aged'
      <3>1. \A d \in Challenges : d # c => runtime'[d] = runtime[d] /\ port'[d] = port[d]
        BY <1>1, <2>2 DEF TypeOK
      <3>2. port'[c] = p /\ runtime[c].row \in Nat
            /\ runtime'[c].row = IF reuse THEN runtime[c].row ELSE runtime[c].row + 1
        BY <1>1, <2>1, <2>2, RowsAssumption DEF TypeOK, Runtime
      <3>3. ASSUME NEW r \in exports, r.c = c
            PROVE  r.row <= runtime'[c].row /\ (r.row = runtime'[c].row => r.port = port'[c])
        <4>1. r.row <= runtime[c].row /\ (r.row = runtime[c].row => r.port = port[c])
          BY <3>3 DEF PortInv, Aged
        <4>2. reuse => job.scope = "container"
          BY <1>1, <1>10, <3>3 DEF PortInv, Cleared, Clearing, RuntimeUp, At, Job
        <4> QED
          BY <2>1, <2>2, <3>2, <4>1, <4>2
      <3> QED
        BY <2>1, <3>1, <3>3 DEF PortInv, Aged
    <2>3. \A p \in FreePorts(c) : p \in HostPorts
      BY DEF FreePorts
    <2> QED
      BY <1>4, <1>10, <2>1, <2>2, <2>3 DEF RuntimeUp
  <1>11. CASE RuntimeDown
    BY <1>1, <1>9, <1>11 DEF RuntimeDown, At, Named
  <1>12. CASE \E c \in Challenges : ContainerExit(c)
    BY <1>9, <1>12 DEF ContainerExit
  <1> QED
    BY <1>4, <1>5, <1>6, <1>7, <1>8, <1>10, <1>11, <1>12, TableSteps

\* Where a restart is on its way to the runtime, and the steps that bring it there.
OnItsWay == job.op = "restart" /\ job.pc \in {"stop", "unrecord", "down", "runtime"}

LEMMA WaySteps ==
  ASSUME TypeInv, [Next]_vars, OnItsWay'
  PROVE  \/ List \/ Unrecord \/ StopsDone \/ RuntimeDown \/ \E r \in job.todo : StopExport(r)
         \/ \E c \in Challenges, scope \in {"container", "provider", "all"} : BeginRestart(c, scope)
         \/ UNCHANGED <<job, exports>> \/ Unlocked
  <1>1. job \in Job /\ Idle \in Job /\ Named
    BY Shapes DEF TypeInv, TypeOK, JobShape
  <1>2. ~StartDirect /\ ~Announced /\ ~Relaunch /\ ~NotAnnounced /\ ~Record /\ ~StartsDone /\ ~RuntimeUp
        /\ \A prov : ~Reuse(prov) /\ ~Spawn(prov)
    <2>1. ~RuntimeUp /\ ~StartsDone
      <3>1. RuntimeUp => job'.pc \in {"free", "starts"}
        BY <1>1, NextJobs DEF RuntimeUp, Finish, Job
      <3>2. StartsDone => job'.pc \in {"free", "heal"}
        BY <1>1, NextJobs DEF StartsDone
      <3> QED
        BY <3>1, <3>2 DEF OnItsWay
    <2>2. ~StartDirect /\ ~Announced /\ ~Relaunch /\ ~NotAnnounced /\ ~Record
      BY ZenonT(60), <1>1 DEF StartDirect, Announced, Relaunch, NotAnnounced, Record, Skip, At, OnItsWay, Job
    <2>3. ASSUME NEW prov PROVE ~Reuse(prov) /\ ~Spawn(prov)
      <3>1. Reuse(prov) => job'.pc \in {"record", "starts"}
        BY <1>1 DEF Reuse, Skip, Job
      <3>2. Spawn(prov) => job'.pc \in {"spawned", "starts"}
        BY ZenonT(60), <1>1 DEF Spawn, Skip, Job
      <3> QED
        BY <3>1, <3>2 DEF OnItsWay
    <2> QED
      BY <2>1, <2>2, <2>3
  <1>3. \A r \in job.todo : ~ReconcileStop(r)
    BY <1>1 DEF ReconcileStop, At, OnItsWay, Job
  <1>4. ~Reconcile /\ ~ReconcileCommit /\ ~TestList /\ ~TestDone /\ ~CycleEnd /\ ~SweepRead /\ ~Sweep
    BY ZenonT(60), <1>1, NextJobs DEF Reconcile, ReconcileCommit, TestList, TestDone, CycleEnd, Finish, SweepRead, Sweep,
       OnItsWay, Job
  <1>5. \A r : ~TestExport(r)
    BY ZenonT(60), <1>1 DEF TestExport, At, Named, OnItsWay, Job
  <1>6. \A c : ~CycleStop(c) /\ ~Heal(c)
    BY ZenonT(60), <1>1 DEF CycleStop, Heal, At, Named, OnItsWay, Job
  <1>7. CASE JobStep
    BY <1>2, <1>3, <1>4, <1>5, <1>6, <1>7 DEF JobStep
  <1>8. CASE Request
    <2>1. ~BeginTest
      BY <1>1 DEF BeginTest, OnItsWay, Job
    <2>2. \A c : ~BeginUp(c) /\ ~BeginDown(c) /\ ~BeginUnexport(c) /\ \A provs : ~BeginExport(c, provs)
      BY ZenonT(60), <1>1 DEF BeginUp, BeginDown, BeginUnexport, BeginExport, OnItsWay, Job
    <2> QED
      BY <1>8, <2>1, <2>2 DEF Request
  <1>9. ~DaemonCycle /\ ~Crash
    BY ZenonT(60), <1>1, NextJobs DEF DaemonCycle, BeginCycle, Crash, OnItsWay, Job
  <1>10. World \/ UNCHANGED vars => UNCHANGED <<job, exports>>
    BY DEF World, ContainerExit, TunnelDies, GraceEnds, tables, vars
  <1> QED
    BY <1>7, <1>8, <1>9, <1>10 DEF Next, World

LEMMA ClearedStep ==
  ASSUME PortInv, NoRows', [Next]_vars, RowsMarked
  PROVE  Cleared'
  <1>1. TypeOK /\ HasPort /\ Named /\ TypeInv /\ job \in Job /\ Cleared
    BY DEF PortInv, TypeInv, TypeOK, JobShape
  <1>2. CASE UNCHANGED job /\ exports' \subseteq exports
    BY <1>1, <1>2 DEF Cleared, Clearing, Left
  <1>3. CASE ~OnItsWay'
    BY <1>3 DEF OnItsWay, Cleared, Clearing
  <1>4. CASE List
    BY <1>1, <1>4 DEF List, Cleared, Clearing, Left, SamePlace, Job
  <1>5. CASE Unrecord
    <2>1. job.pc = "unrecord" /\ job'.pc \in {"test", "stop"} /\ job'.todo = job.todo
          /\ job'.op = job.op /\ job'.scope = job.scope /\ job'.c = job.c
      BY <1>1, <1>5 DEF Unrecord, At, Job
    <2>2. exports' = {r \in exports : \A s \in job.cur : ~SamePlace(r, s)}
      BY <1>5 DEF Unrecord, RowsMarked
    <2> QED
      BY <1>1, <2>1, <2>2 DEF Cleared, Clearing, Left
  <1>6. CASE StopsDone
    <2>1. job.pc = "stop" /\ job.todo = {} /\ exports' = exports
      BY <1>6 DEF StopsDone, At, tables
    <2>2. CASE job.op = "restart"
      <3>1. \/ job.scope = "all" /\ job' = [job EXCEPT !.pc = "down"]
            \/ job'.pc = "starts"
        BY <1>1, <1>6, <2>2 DEF StopsDone, Job
      <3> QED
        BY <1>1, <2>1, <2>2, <3>1 DEF Cleared, Clearing, Left, Job
    <2>3. CASE job.op # "restart"
      <3>1. job'.op # "restart"
        BY <1>1, <1>6, <2>3, NextJobs, Shapes DEF StopsDone, Job
      <3> QED
        BY <3>1 DEF Cleared, Clearing
    <2> QED
      BY <2>2, <2>3
  <1>7. CASE RuntimeDown
    BY <1>1, <1>7 DEF RuntimeDown, At, Cleared, Clearing, Job
  <1>8. ASSUME NEW r \in job.todo, StopExport(r) PROVE Cleared'
    <2>1. job.pc = "stop" /\ exports' = exports
          /\ job' = [job EXCEPT !.pc = "unrecord", !.todo = @ \ {r}, !.cur = {r}]
      BY <1>8 DEF StopExport, At, tables
    <2> QED
      BY <1>1, <2>1 DEF Cleared, Clearing, Left, Job
  <1>9. ASSUME NEW c \in Challenges, NEW scope \in {"container", "provider", "all"}, BeginRestart(c, scope)
        PROVE  Cleared'
    BY <1>9, <1>1, Shapes DEF BeginRestart, Cleared, Clearing, Job
  <1>10. Unlocked => UNCHANGED job /\ exports' \subseteq exports
    BY DEF Unlocked, ViewList, ViewBackfill, ViewResave, ViewTest, PsKill, PsUnrecord, PsClear, tables, PortInv, NoRows
  <1> QED
    BY <1>1, <1>2, <1>3, <1>4, <1>5, <1>6, <1>7, <1>8, <1>9, <1>10, WaySteps

(* Every export of a running challenge leads to its own port, whatever      *)
(* commands, restarts, failures and crashes follow each other, as long as   *)
(* the row of an export that is stopped is marked, and unless base_ip is    *)
(* configured and callers without the lock list exports: one that has seen  *)
(* a direct export missing may write it after a restart.                    *)
THEOREM ExportsAtHome == RowsMarked /\ (Viewers = {} \/ ~BaseIp) => (Spec => []NoStrayExport)
  <1> SUFFICES ASSUME RowsMarked, Viewers = {} \/ ~BaseIp PROVE Spec => []NoStrayExport
    OBVIOUS
  <1>1. Init => PortInv
    <2> SUFFICES ASSUME Init PROVE PortInv
      OBVIOUS
    <2>1. TypeInv
      BY TypeInit
    <2>2. NoRows /\ Aged
      BY DEF Init, NoRows, NoView, Aged
    <2>3. Cleared
      BY NextJobs DEF Init, Cleared, Clearing
    <2> QED
      BY <2>1, <2>2, <2>3 DEF PortInv
  <1>2. PortInv /\ [Next]_vars => PortInv'
    BY TypeNext, NoRowsStep, AgedStep, ClearedStep DEF PortInv
  <1>3. PortInv => NoStrayExport
    BY DEF PortInv, Aged, NoStrayExport, RowRuns
  <1> QED
    BY <1>1, <1>2, <1>3, PTL DEF Spec

-----------------------------------------------------------------------------
(* What is on record is true as long as process ids do not come back: the  *)
(* process that a row, a state file or a reader names serves that provider, *)
(* that port and that account, or has ended.                               *)

NoReuse == "reuse" \notin Faults

Fits(ps, pid, prov, p) == pid \in Pids /\ ps[pid] # NoProc => ps[pid].prov = prov /\ ps[pid].port = p
Pays(ps, pid, token) == pid \in Pids /\ ps[pid] # NoProc /\ token # None => ps[pid].token = token

RowsTrue == \A r \in exports : Fits(procs, r.pid, r.prov, r.port)
FilesTrue ==
    \A k \in Keys : Fits(procs, state[k].pid, k[1], k[3]) /\ Pays(procs, state[k].pid, state[k].token)
ReadsTrue ==
    \A v \in Viewers :
        /\ view[v].act = "resave" => view[v].key \in Keys
        /\ view[v].key \in Keys =>
             /\ Fits(procs, view[v].read.pid, view[v].key[1], view[v].key[3])
             /\ Pays(procs, view[v].read.pid, view[v].read.token)
JobTrue ==
    /\ job.pc \in {"spawned", "record"} => Fits(procs, job.pid, job.prov, port[job.c])
    /\ job.pc = "spawned" => Pays(procs, job.pid, job.token)
KeepTrue == job.pc = "kill" => \A r \in job.keep : Fits(procs, r.pid, r.prov, r.port)

TruthInv == TypeInv /\ Pidless /\ RowsTrue /\ FilesTrue /\ ReadsTrue /\ JobTrue /\ KeepTrue

OnFile(pid) ==
    \/ \E r \in exports : r.pid = pid
    \/ \E k \in Keys : state[k].pid = pid
    \/ \E v \in Viewers : view[v].read.pid = pid

LEMMA ProcSteps ==
  ASSUME TypeInv, [Next]_vars
  PROVE  Relaunch \/ (\E prov \in Providers : Spawn(prov)) \/ \A pid \in Pids : procs'[pid] \in {procs[pid], NoProc}
  <1>1. CASE JobStep
    <2>1. CASE UNCHANGED procs
      BY <2>1
    <2>2. ASSUME NEW r, StopTunnel(r) PROVE \A pid \in Pids : procs'[pid] \in {procs[pid], NoProc}
      BY <2>2 DEF StopTunnel, Without
    <2>3. CASE NotAnnounced \/ Sweep
      BY <2>3 DEF NotAnnounced, Sweep, Without
    <2>4. UNCHANGED procs \/ (\E r : StopTunnel(r)) \/ NotAnnounced \/ Sweep \/ Relaunch
          \/ \E prov \in Providers : Spawn(prov)
      BY <1>1 DEF JobStep, RuntimeDown, RuntimeUp, StartDirect, Announced, Record, StartsDone, List,
         Unrecord, StopsDone, Reconcile, ReconcileCommit, SweepRead, TestList, TestDone, CycleEnd, Reuse,
         StopExport, ReconcileStop, TestExport, CycleStop, Heal, tunnels
    <2> QED
      BY <2>1, <2>2, <2>3, <2>4
  <1>2. CASE Request \/ DaemonCycle
    BY <1>2 DEF Request, DaemonCycle, BeginTest, BeginUp, BeginDown, BeginUnexport, BeginRestart, BeginExport,
       BeginCycle, tunnels
  <1>3. CASE Crash \/ Unlocked \/ World
    BY <1>3 DEF Crash, World, ContainerExit, TunnelDies, GraceEnds, tunnels, Unlocked, ViewList, ViewBackfill,
       ViewResave, ViewTest, PsKill, PsUnrecord, PsClear, TypeInv, TypeOK
  <1>4. CASE UNCHANGED vars
    BY <1>4 DEF vars
  <1> QED
    BY <1>1, <1>2, <1>3, <1>4 DEF Next, World

\* A process on record goes on as it is, or ends.
LEMMA OnFileSame ==
  ASSUME TypeInv, [Next]_vars, NoReuse, NEW pid \in Pids, OnFile(pid)
  PROVE  procs'[pid] \in {procs[pid], NoProc}
  <1>1. ASSUME NEW prov \in Providers, Spawn(prov) PROVE procs'[pid] \in {procs[pid], NoProc}
    <2>1. PICK ghosts : \/ procs' = Without(ghosts)
                        \/ \E q \in FreePids(ghosts) : \E new : procs' = [Without(ghosts) EXCEPT ![q] = new]
      BY <1>1 DEF Spawn
    <2>2. \A q \in FreePids(ghosts) : q # pid
      BY DEF FreePids, OnFile, NoReuse
    <2> QED
      BY <2>1, <2>2 DEF Without
  <1>2. CASE Relaunch
    <2>1. PICK killed : \E q \in FreePids(killed) : \E new : procs' = [Without(killed) EXCEPT ![q] = new]
      BY ZenonT(60), <1>2 DEF Relaunch
    <2>2. \A q \in FreePids(killed) : q # pid
      BY DEF FreePids, OnFile, NoReuse
    <2> QED
      BY <2>1, <2>2 DEF Without
  <1> QED
    BY <1>1, <1>2, ProcSteps

LEMMA RowsTrueStep ==
  ASSUME TruthInv, [Next]_vars, NoReuse
  PROVE  RowsTrue'
  <1>1. TypeOK /\ HasPort /\ Named /\ TypeInv /\ job \in Job
    BY DEF TruthInv, TypeInv, TypeOK, JobShape
  <1>2. ASSUME NEW r \in exports PROVE Fits(procs', r.pid, r.prov, r.port)
    BY <1>1, OnFileSame DEF TruthInv, RowsTrue, Fits, OnFile
  <1>3. ASSUME NEW r, r.pid = None PROVE Fits(procs', r.pid, r.prov, r.port)
    BY <1>3, NoneAssumption DEF Fits
  <1>4. ASSUME Record PROVE \A r \in exports' : r \in exports \/ Fits(procs', r.pid, r.prov, r.port)
    BY <1>1, <1>4 DEF Record, Recorded, At, TruthInv, JobTrue, tunnels
  <1>5. \A r \in exports' : r \in exports \/ r.pid = None \/ Record
    <2>1. \A cs \in SUBSET Challenges : \A r \in Listed(cs) : r \in exports \/ r.pid = None
      BY <1>1, ListedRows, MissingRows
    <2>2. CASE List \/ Reconcile \/ SweepRead \/ TestList \/ \E c \in Challenges : Heal(c)
      <3>1. CASE List
        <4>1. {job.c} \in SUBSET Challenges
          BY <1>1, <3>1 DEF List, At, Named
        <4> QED
          BY <2>1, <3>1, <4>1 DEF List
      <3>2. ASSUME NEW c \in Challenges, Heal(c) PROVE \A r \in exports' : r \in exports \/ r.pid = None
        <4>1. {c} \in SUBSET Challenges /\ exports' \in {exports, Listed({c})}
          BY <3>2 DEF Heal
        <4> QED
          BY <2>1, <4>1
      <3>3. CASE Reconcile \/ SweepRead \/ TestList
        BY <2>1, <3>3 DEF Reconcile, SweepRead, TestList
      <3> QED
        BY <2>2, <3>1, <3>2, <3>3
    <2>3. CASE StartDirect
      BY <2>3 DEF StartDirect, Recorded
    <2>4. CASE Unlocked
      BY <2>4 DEF Unlocked, ViewList, ViewBackfill, ViewResave, ViewTest, PsKill, PsUnrecord, PsClear, tables,
         TruthInv, Pidless
    <2>5. CASE RuntimeDown \/ RuntimeUp \/ (\E c \in Challenges : ContainerExit(c)) \/ Unrecord \/ ReconcileCommit
      BY <2>5 DEF RuntimeDown, RuntimeUp, ContainerExit, Unrecord, ReconcileCommit
    <2> QED
      BY <2>2, <2>3, <2>4, <2>5, TableSteps
  <1> QED
    BY <1>2, <1>3, <1>4, <1>5 DEF RowsTrue

LEMMA SpawnSteps ==
  ASSUME TypeInv, [Next]_vars, job'.pc \in {"spawned", "record"}
  PROVE  \/ \E prov \in Providers : Reuse(prov) \/ Spawn(prov)
         \/ Announced \/ Relaunch
         \/ UNCHANGED <<job, port>>
  <1>1. job \in Job /\ Idle \in Job
    BY Shapes DEF TypeInv, TypeOK
  <1>2. ~StartDirect /\ ~NotAnnounced /\ ~Record
    BY <1>1 DEF StartDirect, NotAnnounced, Record, Skip, At, Job
  <1>3. ~RuntimeUp /\ ~StartsDone /\ ~RuntimeDown
    <2>1. RuntimeUp => job'.pc \in {"free", "starts"}
      BY <1>1, NextJobs DEF RuntimeUp, Finish, Job
    <2>2. StartsDone => job'.pc \in {"free", "heal"}
      BY <1>1, NextJobs DEF StartsDone
    <2>3. RuntimeDown => job'.pc \in {"runtime", "list"}
      BY <1>1 DEF RuntimeDown, Job
    <2> QED
      BY <2>1, <2>2, <2>3
  <1>4. ~List /\ ~Unrecord /\ \A r : ~StopExport(r) /\ ~ReconcileStop(r)
    BY <1>1 DEF List, Unrecord, StopExport, ReconcileStop, At, Job
  <1>5. ~StopsDone
    BY ZenonT(60), <1>1, NextJobs DEF StopsDone, Job
  <1>6. ~Reconcile /\ ~ReconcileCommit /\ ~TestList /\ ~TestDone /\ ~CycleEnd /\ ~SweepRead /\ ~Sweep
    BY ZenonT(60), <1>1, NextJobs DEF Reconcile, ReconcileCommit, TestList, TestDone, CycleEnd, Finish, SweepRead, Sweep, Job
  <1>7. \A r : ~TestExport(r)
    BY <1>1 DEF TestExport, At, Job
  <1>8. \A c : ~CycleStop(c) /\ ~Heal(c)
    BY ZenonT(60), <1>1 DEF CycleStop, Heal, At, Job
  <1>9. CASE JobStep
    BY <1>2, <1>3, <1>4, <1>5, <1>6, <1>7, <1>8, <1>9 DEF JobStep
  <1>10. ~DaemonCycle /\ ~Crash /\ ~Request
    <2>1. ~DaemonCycle /\ ~Crash /\ ~BeginTest
      BY ZenonT(60), <1>1, NextJobs DEF DaemonCycle, BeginCycle, Crash, BeginTest, Job
    <2>2. ASSUME NEW c \in Challenges
          PROVE  /\ ~BeginUp(c) /\ ~BeginDown(c) /\ ~BeginUnexport(c)
                 /\ \A scope : ~BeginRestart(c, scope)
                 /\ \A provs : ~BeginExport(c, provs)
      BY ZenonT(60), <1>1 DEF BeginUp, BeginDown, BeginUnexport, BeginRestart, BeginExport, Job
    <2> QED
      BY <2>1, <2>2 DEF Request
  <1>11. Unlocked \/ World \/ UNCHANGED vars => UNCHANGED <<job, port>>
    BY DEF Unlocked, ViewList, ViewBackfill, ViewResave, ViewTest, PsKill, PsUnrecord, PsClear, tables,
       World, ContainerExit, TunnelDies, GraceEnds, vars
  <1> QED
    BY <1>9, <1>10, <1>11 DEF Next, World

LEMMA JobTrueStep ==
  ASSUME TruthInv, [Next]_vars
  PROVE  JobTrue'
  <1>1. TypeOK /\ TypeInv /\ job \in Job /\ Named /\ HasPort
    BY DEF TruthInv, TypeInv, TypeOK, JobShape
  <1>2. SUFFICES ASSUME job'.pc \in {"spawned", "record"} PROVE JobTrue'
    BY DEF JobTrue
  <1>3. ASSUME NEW prov \in Providers, Spawn(prov) PROVE JobTrue'
    <2>1. ~Skip(prov)
      BY <1>1, <1>2 DEF Skip, Job
    <2>2. PICK pid \in Pids : \E ghosts, t :
             /\ procs' = [Without(ghosts) EXCEPT ![pid] = [prov |-> prov, port |-> port[job.c], token |-> t]]
             /\ job' = [job EXCEPT !.pc = "spawned", !.prov = prov, !.pid = pid, !.token = t, !.tries = 1]
      <3>1. \A ghosts : FreePids(ghosts) \subseteq Pids
        BY DEF FreePids
      <3> QED
        BY <1>3, <2>1, <3>1 DEF Spawn
    <2>3. port' = port /\ job'.pid = pid /\ job'.prov = prov /\ job'.c = job.c
          /\ procs'[pid] = [prov |-> prov, port |-> port[job.c], token |-> job'.token]
      BY <1>1, <1>3, <2>2 DEF Spawn, tables, Without, Job
    <2> QED
      BY <2>3 DEF JobTrue, Fits, Pays
  <1>4. CASE Announced
    BY <1>1, <1>4 DEF Announced, At, tables, TruthInv, JobTrue, Job
  <1>5. ASSUME NEW prov \in Providers, Reuse(prov) PROVE JobTrue'
    <2> DEFINE k == Key(prov, job.c, port[job.c])
    <2>1. job.c \in Challenges /\ runtime[job.c].row > 0
      BY <1>1, <1>5 DEF Reuse, At, Named
    <2>2. k \in Keys /\ k[1] = prov /\ k[3] = port[job.c]
      BY <1>1, <2>1, KeyIn DEF HasPort, TypeOK, Key
    <2>3. PICK pid : /\ job' = [job EXCEPT !.pc = "record", !.prov = prov, !.pid = pid]
                     /\ pid = state[k].pid \/ pid \in Found(prov, port[job.c])
      BY <1>1, <1>2, <1>5 DEF Reuse, Skip, Job
    <2>4. Fits(procs, pid, prov, port[job.c])
      BY <2>2, <2>3 DEF TruthInv, FilesTrue, Found, Fits
    <2>5. procs' = procs /\ port' = port /\ job'.pid = pid /\ job'.prov = prov /\ job'.c = job.c /\ job'.pc = "record"
      BY <1>1, <1>5, <2>3 DEF Reuse, tables, Job
    <2> QED
      BY <2>4, <2>5 DEF JobTrue
  <1>6. CASE Relaunch
    <2>1. PICK killed \in AfterAttempt(job.prov), pid \in Pids :
            /\ procs' = [Without(killed) EXCEPT ![pid] =
                            [prov |-> job.prov, port |-> port[job.c], token |-> job.token]]
            /\ job' = [job EXCEPT !.pid = pid, !.tries = @ + 1]
      BY <1>6 DEF Relaunch, FreePids
    <2>2. pid \in Pids
      BY DEF FreePids
    <2>3. port' = port /\ job'.pid = pid /\ job'.prov = job.prov /\ job'.c = job.c /\ job'.token = job.token
          /\ procs'[pid] = [prov |-> job.prov, port |-> port[job.c], token |-> job.token]
      BY <1>1, <1>6, <2>1, <2>2 DEF Relaunch, tables, Without, Job
    <2> QED
      BY <2>3 DEF JobTrue, Fits, Pays
  <1>7. CASE UNCHANGED <<job, port>>
    <2>1. ~Relaunch /\ ~ \E prov \in Providers : Spawn(prov)
      <3>1. \A prov : ~Spawn(prov)
        BY <1>1, <1>2, <1>7 DEF Spawn, At
      <3>2. ~Relaunch
        BY <1>1, <1>7, TriesNat DEF Relaunch, Job
      <3> QED
        BY <3>1, <3>2
    <2>2. \A pid \in Pids : procs'[pid] \in {procs[pid], NoProc}
      BY <1>1, <2>1, ProcSteps
    <2> QED
      BY <1>7, <2>2 DEF TruthInv, JobTrue, Fits, Pays
  <1> QED
    BY <1>1, <1>2, <1>3, <1>4, <1>5, <1>6, <1>7, SpawnSteps

LEMMA KeepTrueStep ==
  ASSUME TruthInv, [Next]_vars, NoReuse
  PROVE  KeepTrue'
  <1>1. TypeInv
    BY DEF TruthInv
  <1>2. SUFFICES ASSUME job'.pc = "kill", NEW r \in job'.keep PROVE Fits(procs', r.pid, r.prov, r.port)
    BY DEF KeepTrue
  <1>3. CASE SweepRead
    <2>1. r \in Kept /\ procs' = procs
      BY <1>1, <1>2, <1>3 DEF SweepRead, tunnels, TypeInv, TypeOK, Job
    <2>2. r \in exports
      BY <1>1, <2>1, ListedRows, MissingRows DEF Kept, TypeInv, JobShape
    <2> QED
      BY <2>1, <2>2 DEF TruthInv, RowsTrue
  <1>4. CASE job' = job
    <2>1. ~Relaunch /\ ~ \E prov \in Providers : Spawn(prov)
      BY <1>2, <1>4 DEF Spawn, Relaunch, At
    <2>2. \A pid \in Pids : procs'[pid] \in {procs[pid], NoProc}
      BY <1>1, <2>1, ProcSteps
    <2> QED
      BY <1>2, <1>4, <2>2 DEF TruthInv, KeepTrue, Fits
  <1>5. Unlocked \/ World \/ UNCHANGED vars => job' = job
    BY DEF Unlocked, ViewList, ViewBackfill, ViewResave, ViewTest, PsKill, PsUnrecord, PsClear,
       World, ContainerExit, TunnelDies, GraceEnds, vars
  <1> QED
    BY <1>1, <1>2, <1>3, <1>4, <1>5, OnlySweepRead DEF Next, World

\* What a step may do to a state file.
LEMMA FileSteps ==
  ASSUME TypeInv, [Next]_vars, NEW k \in Keys
  PROVE  \/ state'[k].pid = state[k].pid /\ state'[k].token = state[k].token
         \/ state'[k] = NoState
         \/ Announced \/ (\E prov \in Providers : Reuse(prov)) \/ \E v \in Viewers : ViewResave(v)
  <1>1. state \in [Keys -> State] /\ state[k] \in State
    BY DEF TypeInv, TypeOK
  <1>2. CASE state' = state
    BY <1>2
  <1>3. ASSUME NEW x, state' = [state EXCEPT ![x] = NoState] PROVE state'[k] \in {state[k], NoState}
    BY <1>1, <1>3
  <1>4. ASSUME NEW x, NEW b, state' = [state EXCEPT ![x].failed = b] \/ state' = [state EXCEPT ![x].fresh = b]
        PROVE  state'[k].pid = state[k].pid /\ state'[k].token = state[k].token
    BY <1>1, <1>4 DEF State
  <1>5. CASE JobStep
    <2>1. \/ state' = state
          \/ \E r : StopTunnel(r)
          \/ \E r : TestExport(r)
          \/ Announced \/ \E prov \in Providers : Reuse(prov) \/ Spawn(prov)
      BY <1>5 DEF JobStep, RuntimeDown, RuntimeUp, StartDirect, Relaunch, NotAnnounced, Record, StartsDone, List,
         Unrecord, StopsDone, Reconcile, ReconcileCommit, SweepRead, Sweep, TestList, TestDone, CycleEnd,
         StopExport, ReconcileStop, CycleStop, Heal, tunnels
    <2>2. ASSUME NEW r, StopTunnel(r) PROVE state'[k] \in {state[k], NoState}
      BY <1>3, <2>2 DEF StopTunnel
    <2>3. ASSUME NEW r, TestExport(r) PROVE state'[k].pid = state[k].pid /\ state'[k].token = state[k].token
      <3>1. state' = state \/ Failed(r, TRUE) \/ Failed(r, FALSE)
        BY <2>3 DEF TestExport
      <3> QED
        BY <1>4, <3>1 DEF Failed
    <2>4. ASSUME NEW prov \in Providers, Spawn(prov) PROVE state'[k] \in {state[k], NoState}
      BY <1>3, <2>4 DEF Spawn
    <2> QED
      BY <2>1, <2>2, <2>3, <2>4
  <1>6. CASE Request \/ DaemonCycle \/ Crash \/ UNCHANGED vars
    BY <1>6 DEF Request, DaemonCycle, BeginTest, BeginUp, BeginDown, BeginUnexport, BeginRestart, BeginExport,
       BeginCycle, Crash, vars, tunnels
  <1>7. CASE World
    <2>1. state' = state \/ \E x \in Keys : state' = [state EXCEPT ![x].fresh = FALSE]
      BY <1>7 DEF World, ContainerExit, TunnelDies, GraceEnds, tunnels
    <2> QED
      BY <1>4, <2>1
  <1>8. CASE Unlocked
    <2>1. state' = state \/ (\E v \in Viewers : ViewResave(v)) \/ state' = [x \in Keys |-> NoState]
      BY <1>8 DEF Unlocked, ViewList, ViewBackfill, ViewTest, PsKill, PsUnrecord, PsClear, tunnels
    <2> QED
      BY <2>1
  <1> QED
    BY <1>5, <1>6, <1>7, <1>8 DEF Next, World

LEMMA FilesTrueStep ==
  ASSUME TruthInv, [Next]_vars, NoReuse
  PROVE  FilesTrue'
  <1>1. TypeOK /\ TypeInv /\ job \in Job /\ Named /\ HasPort
    BY DEF TruthInv, TypeInv, TypeOK, JobShape
  <1>2. SUFFICES ASSUME NEW k \in Keys
                 PROVE  Fits(procs', state'[k].pid, k[1], k[3]) /\ Pays(procs', state'[k].pid, state'[k].token)
    BY DEF FilesTrue
  <1>3. Fits(procs', state[k].pid, k[1], k[3]) /\ Pays(procs', state[k].pid, state[k].token)
    BY <1>1, OnFileSame DEF OnFile, TruthInv, FilesTrue, Fits, Pays
  <1>4. CASE state'[k] = NoState
    BY <1>4, NoneAssumption DEF NoState, Fits, Pays
  <1>5. CASE Announced
    <2>1. job.c \in Challenges /\ runtime[job.c].row > 0 /\ job.prov \in Providers
      BY <1>1, <1>5 DEF Announced, At, Named
    <2>2. port[job.c] \in HostPorts
      BY <1>1, <2>1 DEF HasPort, TypeOK
    <2> DEFINE x == Key(job.prov, job.c, port[job.c])
    <2>3. x \in Keys /\ x[1] = job.prov /\ x[3] = port[job.c]
      BY <2>1, <2>2, KeyIn DEF Key
    <2>4. Fits(procs, job.pid, job.prov, port[job.c]) /\ Pays(procs, job.pid, job.token)
      BY <1>5 DEF Announced, At, TruthInv, JobTrue
    <2>5. state' = [state EXCEPT ![x] = Saved(job.pid, job.token)] /\ procs' = procs
      BY <1>5 DEF Announced
    <2>6. Saved(job.pid, job.token).pid = job.pid /\ Saved(job.pid, job.token).token = job.token
      BY DEF Saved
    <2> QED
      BY <1>1, <1>3, <2>3, <2>4, <2>5, <2>6 DEF TypeOK
  <1>6. ASSUME NEW prov \in Providers, Reuse(prov)
        PROVE  Fits(procs', state'[k].pid, k[1], k[3]) /\ Pays(procs', state'[k].pid, state'[k].token)
    <2> DEFINE x == Key(prov, job.c, port[job.c])
    <2>1. job.c \in Challenges /\ runtime[job.c].row > 0
      BY <1>1, <1>6 DEF Reuse, At, Named
    <2>2. x \in Keys /\ x[1] = prov /\ x[3] = port[job.c]
      BY <1>1, <2>1, KeyIn DEF HasPort, TypeOK, Key
    <2>3. procs' = procs
      BY <1>6 DEF Reuse
    <2>4. ASSUME NEW pid \in Found(prov, port[job.c]), state' = [state EXCEPT ![x] = Saved(pid, procs[pid].token)]
          PROVE  Fits(procs', state'[k].pid, k[1], k[3]) /\ Pays(procs', state'[k].pid, state'[k].token)
      <3>1. Saved(pid, procs[pid].token).pid = pid /\ Saved(pid, procs[pid].token).token = procs[pid].token
        BY DEF Saved
      <3>2. Fits(procs, pid, prov, port[job.c]) /\ Pays(procs, pid, procs[pid].token)
        BY <2>4 DEF Found, Fits, Pays
      <3> QED
        BY <1>1, <1>3, <2>2, <2>3, <2>4, <3>1, <3>2 DEF TypeOK
    <2>5. CASE state' = [state EXCEPT ![x] = NoState]
      BY <1>1, <1>3, <1>4, <2>5 DEF TypeOK
    <2> QED
      BY <1>3, <1>6, <2>4, <2>5 DEF Reuse
  <1>7. ASSUME NEW v \in Viewers, ViewResave(v)
        PROVE  Fits(procs', state'[k].pid, k[1], k[3]) /\ Pays(procs', state'[k].pid, state'[k].token)
    <2>1. view[v].key \in Keys /\ view[v].read \in State /\ procs' = procs
          /\ state' = [state EXCEPT ![view[v].key] = [view[v].read EXCEPT !.failed = FALSE]]
      BY <1>1, <1>7 DEF ViewResave, TruthInv, ReadsTrue, TypeOK, View
    <2>2. \A f \in State : [f EXCEPT !.failed = FALSE].pid = f.pid /\ [f EXCEPT !.failed = FALSE].token = f.token
      BY DEF State
    <2> QED
      BY <1>1, <1>3, <2>1, <2>2 DEF TruthInv, ReadsTrue, TypeOK
  <1>8. CASE state'[k].pid = state[k].pid /\ state'[k].token = state[k].token
    BY <1>3, <1>8
  <1> QED
    BY <1>1, <1>4, <1>5, <1>6, <1>7, <1>8, FileSteps

LEMMA ReadsTrueStep ==
  ASSUME TruthInv, [Next]_vars, NoReuse
  PROVE  ReadsTrue'
  <1>1. TypeOK /\ TypeInv /\ \A v \in Viewers : view[v] \in View
    BY DEF TruthInv, TypeInv, TypeOK
  <1>2. \A v \in Viewers : view[v].key \in Keys =>
          /\ Fits(procs', view[v].read.pid, view[v].key[1], view[v].key[3])
          /\ Pays(procs', view[v].read.pid, view[v].read.token)
    BY <1>1, OnFileSame DEF OnFile, TruthInv, ReadsTrue, Fits, Pays
  <1>3. CASE view' = view
    BY <1>2, <1>3 DEF TruthInv, ReadsTrue
  <1>4. NoView.act = "none" /\ NoView.read = NoState /\ NoView \in View /\ NoState.pid \notin Pids
    BY <1>1, NoneAssumption, Shapes DEF NoView, NoState, TypeOK
  <1>5. CASE Unlocked
    <2>1. PICK u \in Viewers :
             \/ ViewList(u) \/ ViewBackfill(u) \/ ViewResave(u) \/ \E r \in exports : ViewTest(u, r)
             \/ PsKill(u) \/ PsUnrecord(u) \/ PsClear(u)
      BY <1>5 DEF Unlocked
    <2>2. PICK w : view' = [view EXCEPT ![u] = w]
      BY <2>1 DEF ViewList, ViewBackfill, ViewResave, ViewTest, PsKill, PsUnrecord, PsClear
    <2>3. view'[u] = w /\ \A v \in Viewers : v # u => view'[v] = view[v]
      BY <1>1, <2>2 DEF TypeOK
    <2>4. CASE w.act # "resave" /\ w.read = NoState
      BY <1>2, <1>4, <2>3, <2>4 DEF TruthInv, ReadsTrue, Fits, Pays
    <2>5. ASSUME NEW r \in exports, ViewTest(u, r) PROVE ReadsTrue'
      <3> DEFINE k == Key(r.prov, r.c, r.port)
      <3>1. k \in Keys
        BY <1>1, <2>5, KeyIn DEF ViewTest, TypeOK, Export
      <3>2. w = [NoView EXCEPT !.act = "resave", !.key = k, !.read = state[k]] /\ procs' = procs
        BY <1>1, <2>3, <2>5 DEF ViewTest, TypeOK, tunnels
      <3>3. w.key = k /\ w.read = state[k]
        BY <1>4, <3>2 DEF View
      <3> QED
        BY <1>2, <2>3, <3>1, <3>2, <3>3 DEF TruthInv, ReadsTrue, FilesTrue
    <2>6. CASE ViewList(u) \/ PsKill(u) \/ PsUnrecord(u)
      <3>1. \/ w = [NoView EXCEPT !.act = "backfill", !.rows = Missing(Challenges)]
            \/ w = [NoView EXCEPT !.act = "unrecord"]
            \/ w = [NoView EXCEPT !.act = "clear"]
        <4>1. ViewList(u) => w = [NoView EXCEPT !.act = "backfill", !.rows = Missing(Challenges)]
          BY <1>1, <2>3 DEF ViewList, TypeOK
        <4>2. PsKill(u) => w = [NoView EXCEPT !.act = "unrecord"]
          BY <1>1, <2>3 DEF PsKill, TypeOK
        <4>3. PsUnrecord(u) => w = [NoView EXCEPT !.act = "clear"]
          BY <1>1, <2>3 DEF PsUnrecord, TypeOK
        <4> QED
          BY <2>6, <4>1, <4>2, <4>3
      <3> QED
        BY <1>4, <2>4, <3>1 DEF View
    <2>7. CASE ViewBackfill(u) \/ ViewResave(u) \/ PsClear(u)
      BY <1>1, <1>4, <2>3, <2>4, <2>7 DEF ViewBackfill, ViewResave, PsClear, TypeOK
    <2> QED
      BY <2>1, <2>5, <2>6, <2>7
  <1>6. ASSUME NEW k \in Keys, GraceEnds(k) PROVE ReadsTrue'
    <2>1. ASSUME NEW v \in Viewers
          PROVE  view'[v].act = view[v].act /\ view'[v].key = view[v].key
                 /\ view'[v].read.pid = view[v].read.pid /\ view'[v].read.token = view[v].read.token
      BY <1>1, <1>6 DEF GraceEnds, View, State
    <2> QED
      BY <1>2, <2>1 DEF TruthInv, ReadsTrue
  <1> QED
    BY <1>3, <1>5, <1>6, ViewSteps

LEMMA TruthNext ==
  ASSUME NoReuse, TruthInv, [Next]_vars
  PROVE  TruthInv'
  <1>1. TypeInv' /\ Pidless'
    BY TypeNext, PidlessStep DEF TruthInv
  <1> QED
    BY <1>1, RowsTrueStep, FilesTrueStep, ReadsTrueStep, JobTrueStep, KeepTrueStep DEF TruthInv

LEMMA TruthInit ==
  Init => TruthInv
  <1> SUFFICES ASSUME Init PROVE TruthInv
    OBVIOUS
  <1>1. TypeInv /\ Pidless
    BY TypeInit, SweepInit DEF SweepInv
  <1>2. RowsTrue /\ FilesTrue
    BY DEF Init, RowsTrue, FilesTrue, Fits, Pays
  <1>3. ReadsTrue
    BY DEF Init, ReadsTrue, NoView, Fits, Pays
  <1>4. JobTrue /\ KeepTrue
    BY NextJobs DEF Init, JobTrue, KeepTrue
  <1> QED
    BY <1>1, <1>2, <1>3, <1>4 DEF TruthInv

LEMMA SweptClean ==
  ASSUME TruthInv, Sweep, NEW p \in Pids, Alive(p)'
  PROVE  \E r \in job.keep : procs'[p].port = r.port
  <1> DEFINE kept == {q \in {r.pid : r \in job.keep} : Alive(q)}
             named(q) == \E r \in job.keep : r.prov = procs[q].prov /\ r.port = procs[q].port
  <1>1. PICK spared \in Firsts(kept) :
           procs' = Without({q \in Pids : Alive(q) /\ q \notin spared /\ (named(q) \/ q \notin kept)})
    BY DEF Sweep
  <1>2. procs'[p] = procs[p] /\ Alive(p)
    BY <1>1 DEF Without, Alive
  <1>3. p \in kept
    BY <1>1, <1>2 DEF Without, Alive, Firsts
  <1>4. PICK r \in job.keep : r.pid = p
    BY <1>3
  <1>5. Fits(procs, r.pid, r.prov, r.port)
    BY DEF TruthInv, KeepTrue, Sweep, At
  <1> QED
    BY <1>2, <1>4, <1>5 DEF Fits, Alive

(* `down` with its sweep leaves no tunnel behind but those to the ports of  *)
(* challenges that ran when it listed the exports, as long as process ids  *)
(* do not come back: with ids that do, a row may name another's process.   *)
THEOREM DownSweeps == NoReuse => (Spec => DownSweepsClean)
  <1> SUFFICES ASSUME NoReuse PROVE Spec => DownSweepsClean
    OBVIOUS
  <1>1. TruthInv /\ [Next]_vars =>
          [Sweep /\ job.op = "down" =>
             \A p \in Pids : Alive(p)' => \E r \in job.keep : procs'[p].port = r.port]_vars
    BY SweptClean
  <1>2. TruthInv /\ [Next]_vars => TruthInv'
    BY TruthNext
  <1> QED
    BY <1>1, <1>2, TruthInit, PTL DEF Spec, DownSweepsClean

-----------------------------------------------------------------------------
(* Accounts.  What a start counts (Sessions) is at least what runs: every   *)
(* process of an account is in a state file that names the account, or its  *)
(* command line is read.                                                   *)

LEMMA KeysFinite ==
  IsFiniteSet(Keys)
  <1> DEFINE three == (Providers \X (Challenges \cup {None})) \X HostPorts
             key == [x \in three |-> <<x[1][1], x[1][2], x[2]>>]
             all == Providers \X (Challenges \cup {None}) \X HostPorts
  <1>1. IsFiniteSet(Providers)
    <2>1. IsFiniteSet({"bore", "localtunnel", "pinggy", "ngrok"})
      <3>1. IsFiniteSet({"bore"} \cup {"localtunnel"}) /\ IsFiniteSet({"pinggy"} \cup {"ngrok"})
        BY FS_Singleton, FS_Union
      <3>2. {"bore", "localtunnel", "pinggy", "ngrok"} = ({"bore"} \cup {"localtunnel"}) \cup ({"pinggy"} \cup {"ngrok"})
        OBVIOUS
      <3>3. IsFiniteSet(({"bore"} \cup {"localtunnel"}) \cup ({"pinggy"} \cup {"ngrok"}))
        BY <3>1, FS_Union
      <3> QED
        BY <3>2, <3>3
    <2> QED
      BY <2>1, ProvidersAssumption, FS_Subset
  <1>2. IsFiniteSet(Challenges \cup {None})
    BY FiniteAssumption, FS_AddElement
  <1>3. IsFiniteSet(three)
    BY <1>1, <1>2, FiniteAssumption, FS_Product
  <1>4. key \in Surjection(three, all)
    <2>1. key \in [three -> all]
      OBVIOUS
    <2>2. ASSUME NEW y \in all PROVE \E x \in three : key[x] = y
      <3>1. <<<<y[1], y[2]>>, y[3]>> \in three
        OBVIOUS
      <3> QED
        BY <3>1
    <2> QED
      BY <2>1, <2>2 DEF Surjection
  <1>5. IsFiniteSet(all)
    BY <1>3, <1>4, FS_Surjection
  <1> QED
    BY <1>5, FS_Subset DEF Keys

LEMMA SessionsCount ==
  ASSUME TruthInv, NEW prov, NEW t \in Tokens
  PROVE  Cardinality(Using(prov, t)) <= Sessions(prov, t) /\ Sessions(prov, t) \in Nat
  <1> DEFINE noted == NotedIn(prov)
             others == {p \in Pids : procs[p].prov = prov} \ {state[k].pid : k \in noted}
             files == {k \in noted : state[k].token = t}
             lines == {p \in others : procs[p].token = t}
             named == {state[k].pid : k \in files}
  <1>1. IsFiniteSet(files) /\ Cardinality(files) \in Nat
    BY KeysFinite, FS_Subset, FS_CardinalityType DEF NotedIn
  <1>2. IsFiniteSet(lines) /\ Cardinality(lines) \in Nat
    BY FiniteAssumption, FS_Subset, FS_CardinalityType
  <1>3. IsFiniteSet(named) /\ Cardinality(named) <= Cardinality(files) /\ Cardinality(named) \in Nat
    <2>1. [k \in files |-> state[k].pid] \in Surjection(files, named)
      BY DEF Surjection
    <2> QED
      BY <1>1, <2>1, FS_Surjection, FS_CardinalityType
  <1>4. Using(prov, t) \subseteq named \cup lines
    <2>1. SUFFICES ASSUME NEW p \in Using(prov, t), p \notin others PROVE p \in named
      BY DEF Using
    <2>2. PICK k \in noted : state[k].pid = p
      BY <2>1 DEF Using
    <2>3. k \in Keys /\ state[k].token # None /\ procs[p] # NoProc /\ p \in Pids
      BY <2>1, <2>2 DEF NotedIn, IsPid, Alive, Using
    <2>4. state[k].token = t
      BY <2>1, <2>2, <2>3 DEF TruthInv, FilesTrue, Pays, Using
    <2> QED
      BY <2>2, <2>4
  <1>5. Cardinality(named \cup lines) <= Cardinality(named) + Cardinality(lines)
        /\ IsFiniteSet(named \cup lines)
    <2>1. IsFiniteSet(named \cap lines) /\ Cardinality(named \cap lines) \in Nat
      BY <1>2, FS_Intersection, FS_CardinalityType
    <2>2. Cardinality(named \cup lines) = Cardinality(named) + Cardinality(lines) - Cardinality(named \cap lines)
          /\ IsFiniteSet(named \cup lines)
      BY <1>2, <1>3, FS_Union
    <2> QED
      BY <1>2, <1>3, <2>1, <2>2
  <1>6. Cardinality(Using(prov, t)) <= Cardinality(named \cup lines) /\ Cardinality(Using(prov, t)) \in Nat
        /\ Cardinality(named \cup lines) \in Nat
    BY <1>4, <1>5, FS_Subset, FS_CardinalityType
  <1>7. Sessions(prov, t) = Cardinality(files) + Cardinality(lines)
    BY DEF Sessions
  <1> HIDE DEF noted, others, files, lines, named
  <1> QED
    BY <1>1, <1>2, <1>3, <1>5, <1>6, <1>7

\* The start at work has booked one session, and one more for every further
\* attempt that may have left its process.
Attempts == IF job.prov = "pinggy" /\ "attempt" \in Faults THEN job.tries - 1 ELSE 0
StartCounted ==
    job.pc = "spawned" =>
        /\ job.tries >= 1
        /\ job.prov \in Tokenized /\ job.token \in Tokens =>
             Cardinality(Using(job.prov, job.token) \ {job.pid}) <= MaxSessions - 1 + Attempts
BookedInv == TruthInv /\ WithinLimit /\ StartCounted

\* The account of every process is one that is configured.
LEMMA UsingFinite ==
  ASSUME NEW prov, NEW t
  PROVE  /\ IsFiniteSet(Using(prov, t)) /\ Cardinality(Using(prov, t)) \in Nat
         /\ \A S : S \subseteq Using(prov, t) =>
              IsFiniteSet(S) /\ Cardinality(S) \in Nat /\ Cardinality(S) <= Cardinality(Using(prov, t))
  <1>1. IsFiniteSet(Using(prov, t)) /\ Cardinality(Using(prov, t)) \in Nat
    BY FiniteAssumption, FS_Subset, FS_CardinalityType DEF Using
  <1> QED
    BY <1>1, FS_Subset, FS_CardinalityType

\* One process more is at most one session more.
LEMMA OneMore ==
  ASSUME NEW S, IsFiniteSet(S), NEW x, NEW T, T \subseteq S \cup {x}
  PROVE  /\ IsFiniteSet(T) /\ Cardinality(T) \in Nat /\ Cardinality(S) \in Nat
         /\ Cardinality(T) <= Cardinality(S) + 1
  <1>1. IsFiniteSet(S \cup {x}) /\ Cardinality(S) \in Nat
        /\ Cardinality(S \cup {x}) = IF x \in S THEN Cardinality(S) ELSE Cardinality(S) + 1
    BY FS_AddElement, FS_CardinalityType
  <1>2. IsFiniteSet(T) /\ Cardinality(T) \in Nat /\ Cardinality(T) <= Cardinality(S \cup {x})
    BY <1>1, FS_Subset, FS_CardinalityType
  <1> QED
    BY <1>1, <1>2

\* A first launch is on an account that had a session left.
LEMMA SpawnCounts ==
  ASSUME TruthInv, NEW q \in Providers, Spawn(q), NEW prov \in Tokenized, NEW t \in Tokens
  PROVE  \/ Using(prov, t)' \subseteq Using(prov, t)
         \/ /\ Cardinality(Using(prov, t)) < MaxSessions
            /\ \E pid \in Pids : Using(prov, t)' \subseteq Using(prov, t) \cup {pid}
  <1>1. NoProc.token \notin Tokens
    BY NoneAssumption DEF NoProc
  <1>2. CASE \E ghosts : procs' = Without(ghosts)
    BY <1>1, <1>2 DEF Using, Without
  <1>3. ASSUME NEW pid \in Pids, NEW u \in TokensFor(q), NEW ghosts,
               procs' = [Without(ghosts) EXCEPT ![pid] = [prov |-> q, port |-> port[job.c], token |-> u]]
        PROVE  \/ Using(prov, t)' \subseteq Using(prov, t)
               \/ /\ Cardinality(Using(prov, t)) < MaxSessions
                  /\ Using(prov, t)' \subseteq Using(prov, t) \cup {pid}
    <2>1. \A p \in Pids : p # pid => procs'[p] \in {procs[p], NoProc}
      BY <1>3 DEF Without
    <2>2. procs'[pid].prov = q /\ procs'[pid].token = u
      BY <1>3 DEF Without
    <2>3. CASE ~(q = prov /\ u = t)
      BY <1>1, <2>1, <2>2, <2>3 DEF Using
    <2>4. CASE q = prov /\ u = t
      <3>1. Sessions(prov, t) < MaxSessions
        BY <1>3, <2>4, NoneAssumption DEF TokensFor
      <3>2. Cardinality(Using(prov, t)) < MaxSessions
        BY <3>1, UsingFinite, SessionsCount, SessionsAssumption
      <3>3. Using(prov, t)' \subseteq Using(prov, t) \cup {pid}
        BY <1>1, <2>1 DEF Using
      <3> QED
        BY <3>2, <3>3
    <2> QED
      BY <2>3, <2>4
  <1>4. \A ghosts : FreePids(ghosts) \subseteq Pids
    BY DEF FreePids
  <1> QED
    BY <1>2, <1>3, <1>4 DEF Spawn

\* A further attempt is on the account of the first.
LEMMA RelaunchCounts ==
  ASSUME BookedInv, Relaunch, NEW prov \in Tokenized, NEW t \in Tokens
  PROVE  \/ ~(prov = job.prov /\ t = job.token) /\ Using(prov, t)' \subseteq Using(prov, t)
         \/ /\ prov = job.prov /\ t = job.token
            /\ Cardinality(Using(prov, t)') <= MaxSessions + Attempts'
            /\ Cardinality(Using(prov, t)' \ {job'.pid}) <= MaxSessions - 1 + Attempts'
  <1>1. TypeInv /\ job \in Job /\ job.pc = "spawned" /\ job.tries \in Nat
    BY AttemptsAssumption DEF BookedInv, TruthInv, TypeInv, TypeOK, Relaunch, At, Job
  <1>2. PICK killed \in AfterAttempt(job.prov), pid \in Pids :
          /\ pid \in FreePids(killed)
          /\ procs' = [Without(killed) EXCEPT ![pid] =
                          [prov |-> job.prov, port |-> port[job.c], token |-> job.token]]
          /\ job' = [job EXCEPT !.pid = pid, !.tries = @ + 1]
    BY DEF Relaunch, FreePids
  <1>3. pid \in Pids /\ NoProc.token \notin Tokens
    BY NoneAssumption DEF FreePids, NoProc
  <1>4. \A p \in Pids : p # pid => procs'[p] \in {procs[p], NoProc}
    BY <1>2 DEF Without
  <1>5. procs'[pid].prov = job.prov /\ procs'[pid].token = job.token
    BY <1>2, <1>3 DEF Without
  <1>6. CASE ~(job.prov = prov /\ job.token = t)
    BY <1>3, <1>4, <1>5, <1>6 DEF Using
  <1>7. CASE job.prov = prov /\ job.token = t
    <2> DEFINE before == Using(prov, t)
               other == before \ {job.pid}
    <2>1. IsFiniteSet(other) /\ Cardinality(other) \in Nat /\ Cardinality(other) <= MaxSessions - 1 + Attempts
          /\ job.tries >= 1
      BY <1>1, <1>7, UsingFinite DEF BookedInv, StartCounted
    <2>2. job'.pid = pid /\ job'.prov = job.prov /\ job'.tries = job.tries + 1
      BY <1>1, <1>2 DEF Job
    <2>3. Using(prov, t)' \ {pid} \subseteq before /\ Using(prov, t)' \subseteq (Using(prov, t)' \ {pid}) \cup {pid}
      BY <1>3, <1>4 DEF Using
    <2>4. IsFiniteSet(Using(prov, t)' \ {pid}) /\ Cardinality(Using(prov, t)' \ {pid}) \in Nat
          /\ Cardinality(Using(prov, t)' \ {pid}) <= MaxSessions - 1 + Attempts'
      <3>1. CASE job.pid \in killed
        <4>1. Using(prov, t)' \ {pid} \subseteq other
          BY <1>2, <1>3, <3>1 DEF Using, Without
        <4>2. IsFiniteSet(Using(prov, t)' \ {pid}) /\ Cardinality(Using(prov, t)' \ {pid}) \in Nat
              /\ Cardinality(Using(prov, t)' \ {pid}) <= Cardinality(other)
          BY <2>1, <4>1, FS_Subset, FS_CardinalityType
        <4>3. Attempts \in Int /\ Attempts' \in Int /\ Attempts <= Attempts'
          BY <1>1, <2>1, <2>2 DEF Attempts
        <4> QED
          BY <2>1, <4>2, <4>3, SessionsAssumption
      <3>2. CASE job.pid \notin killed
        <4>1. job.prov = "pinggy" /\ "attempt" \in Faults
          BY <1>2, <3>2 DEF AfterAttempt, Relaunch, Retries, LeavesBehind
        <4>2. Using(prov, t)' \ {pid} \subseteq other \cup {job.pid}
          BY <2>3
        <4>3. IsFiniteSet(Using(prov, t)' \ {pid}) /\ Cardinality(Using(prov, t)' \ {pid}) \in Nat
              /\ Cardinality(Using(prov, t)' \ {pid}) <= Cardinality(other) + 1
          BY <2>1, <4>2, OneMore
        <4>4. Attempts = job.tries - 1 /\ Attempts' = job.tries
          BY <1>1, <2>2, <4>1 DEF Attempts
        <4> QED
          BY <1>1, <2>1, <4>3, <4>4, SessionsAssumption
      <3> QED
        BY <3>1, <3>2
    <2>5. Cardinality(Using(prov, t)') \in Nat
          /\ Cardinality(Using(prov, t)') <= Cardinality(Using(prov, t)' \ {pid}) + 1
      BY <2>3, <2>4, OneMore
    <2>6. Attempts' \in Int
      BY <1>1, <2>2 DEF Attempts
    <2> QED
      BY <1>7, <2>2, <2>4, <2>5, <2>6, SessionsAssumption
  <1> QED
    BY <1>6, <1>7

\* What a step may do to an account.
LEMMA AccountSteps ==
  ASSUME BookedInv, [Next]_vars, NEW prov \in Tokenized, NEW t \in Tokens
  PROVE  \/ Using(prov, t)' \subseteq Using(prov, t)
         \/ /\ \E q \in Providers : Spawn(q)
            /\ Cardinality(Using(prov, t)) < MaxSessions
            /\ \E pid \in Pids : Using(prov, t)' \subseteq Using(prov, t) \cup {pid}
         \/ /\ Relaunch /\ prov = job.prov /\ t = job.token
            /\ Cardinality(Using(prov, t)') <= MaxSessions + Attempts'
            /\ Cardinality(Using(prov, t)' \ {job'.pid}) <= MaxSessions - 1 + Attempts'
  <1>1. TruthInv /\ TypeInv
    BY DEF BookedInv, TruthInv
  <1>2. CASE \A pid \in Pids : procs'[pid] \in {procs[pid], NoProc}
    <2>1. NoProc.token \notin Tokens
      BY NoneAssumption DEF NoProc
    <2> QED
      BY <1>2, <2>1 DEF Using
  <1>3. CASE Relaunch
    BY <1>3, RelaunchCounts
  <1>4. ASSUME NEW q \in Providers, Spawn(q)
        PROVE  \/ Using(prov, t)' \subseteq Using(prov, t)
               \/ /\ Cardinality(Using(prov, t)) < MaxSessions
                  /\ \E pid \in Pids : Using(prov, t)' \subseteq Using(prov, t) \cup {pid}
    BY <1>1, <1>4, SpawnCounts
  <1> QED
    BY <1>1, <1>2, <1>3, <1>4, ProcSteps

LEMMA ExcessNat ==
  ASSUME NEW prov
  PROVE  Excess(prov) \in Nat
  BY AttemptsAssumption DEF Excess

LEMMA LimitStep ==
  ASSUME BookedInv, [Next]_vars, TypeInv', NEW prov \in Tokenized, NEW t \in Tokens
  PROVE  Cardinality(Using(prov, t)') <= MaxSessions + Excess(prov)
  <1>1. IsFiniteSet(Using(prov, t)) /\ Cardinality(Using(prov, t)) \in Nat
        /\ Cardinality(Using(prov, t)) <= MaxSessions + Excess(prov)
    BY UsingFinite DEF BookedInv, WithinLimit
  <1>2. CASE Using(prov, t)' \subseteq Using(prov, t)
    <2>1. Cardinality(Using(prov, t)') \in Nat /\ Cardinality(Using(prov, t)') <= Cardinality(Using(prov, t))
      BY <1>2, UsingFinite
    <2> QED
      BY <1>1, <2>1, ExcessNat, SessionsAssumption
  <1>3. ASSUME NEW pid, Cardinality(Using(prov, t)) < MaxSessions, Using(prov, t)' \subseteq Using(prov, t) \cup {pid}
        PROVE  Cardinality(Using(prov, t)') <= MaxSessions + Excess(prov)
    <2>1. Cardinality(Using(prov, t)') \in Nat /\ Cardinality(Using(prov, t)') <= Cardinality(Using(prov, t)) + 1
      BY <1>1, <1>3, OneMore
    <2> QED
      BY <1>1, <1>3, <2>1, ExcessNat, SessionsAssumption
  <1>4. CASE Relaunch /\ prov = job.prov /\ t = job.token /\ Cardinality(Using(prov, t)') <= MaxSessions + Attempts'
    <2>1. job' \in Job /\ job'.prov = job.prov
      BY <1>4 DEF Relaunch, BookedInv, TruthInv, TypeInv, TypeOK, Job
    <2>2. Attempts' \in Int /\ Attempts' <= Excess(prov)
      BY <1>4, <2>1, AttemptsAssumption DEF Attempts, Excess, Job
    <2>3. Cardinality(Using(prov, t)') \in Nat
      BY FiniteAssumption, FS_Subset, FS_CardinalityType DEF Using
    <2> QED
      BY <1>4, <2>2, <2>3, ExcessNat, SessionsAssumption
  <1> QED
    BY <1>2, <1>3, <1>4, AccountSteps

LEMMA StartCountedStep ==
  ASSUME BookedInv, [Next]_vars, TypeInv'
  PROVE  StartCounted'
  <1>1. TruthInv /\ TypeInv /\ job \in Job /\ job' \in Job
    BY DEF BookedInv, TruthInv, TypeInv, TypeOK
  <1>2. SUFFICES ASSUME job'.pc = "spawned" PROVE StartCounted'
    BY DEF StartCounted
  <1>3. ASSUME NEW q \in Providers, Spawn(q) PROVE StartCounted'
    <2>1. ~Skip(q)
      BY <1>1, <1>2 DEF Skip, Job
    <2>2. PICK pid \in Pids, u \in TokensFor(q) : \E ghosts :
             /\ procs' = [Without(ghosts) EXCEPT ![pid] = [prov |-> q, port |-> port[job.c], token |-> u]]
             /\ job' = [job EXCEPT !.pc = "spawned", !.prov = q, !.pid = pid, !.token = u, !.tries = 1]
      <3>1. \A ghosts : FreePids(ghosts) \subseteq Pids
        BY DEF FreePids
      <3> QED
        BY <1>3, <2>1, <3>1 DEF Spawn
    <2>3. job'.pid = pid /\ job'.prov = q /\ job'.token = u /\ job'.tries = 1
      BY <1>1, <2>2 DEF Job
    <2>4. ASSUME u \in Tokens PROVE Cardinality(Using(q, u)' \ {pid}) <= MaxSessions - 1 + Attempts'
      <3>1. Sessions(q, u) < MaxSessions
        BY <2>2, <2>4, NoneAssumption DEF TokensFor
      <3>2. Cardinality(Using(q, u)) < MaxSessions /\ Cardinality(Using(q, u)) \in Nat
        BY <1>1, <2>4, <3>1, UsingFinite, SessionsCount, SessionsAssumption
      <3>3. Using(q, u)' \ {pid} \subseteq Using(q, u)
        BY <2>2, <2>4, NoneAssumption DEF Using, Without, NoProc
      <3>4. Cardinality(Using(q, u)' \ {pid}) \in Nat
            /\ Cardinality(Using(q, u)' \ {pid}) <= Cardinality(Using(q, u))
        BY <3>3, UsingFinite
      <3>5. Attempts' = 0
        BY <2>3 DEF Attempts
      <3> QED
        BY <3>2, <3>4, <3>5, SessionsAssumption
    <2> QED
      BY <2>3, <2>4 DEF StartCounted
  <1>4. CASE Relaunch
    <2>1. job'.prov = job.prov /\ job'.token = job.token /\ job'.tries >= 1
      BY <1>1, <1>4, TriesNat DEF Relaunch, Job
    <2>2. ASSUME NEW prov \in Tokenized, NEW t \in Tokens, prov = job.prov, t = job.token
          PROVE  Cardinality(Using(prov, t)' \ {job'.pid}) <= MaxSessions - 1 + Attempts'
      BY <1>4, <2>2, RelaunchCounts
    <2> QED
      BY <2>1, <2>2 DEF StartCounted, Using
  <1>5. CASE UNCHANGED <<job, port>>
    <2>1. ~Relaunch /\ \A q : ~Spawn(q)
      <3>1. ~Relaunch
        BY <1>1, <1>5, TriesNat DEF Relaunch, Job
      <3> QED
        BY <1>1, <1>2, <1>5, <3>1 DEF Spawn, At, Job
    <2>2. \A pid \in Pids : procs'[pid] \in {procs[pid], NoProc}
      BY <1>1, <2>1, ProcSteps
    <2>3. ASSUME job.prov \in Tokenized, job.token \in Tokens
          PROVE  Cardinality(Using(job.prov, job.token)' \ {job.pid}) <= MaxSessions - 1 + Attempts
      <3> DEFINE other == Using(job.prov, job.token) \ {job.pid}
      <3>1. IsFiniteSet(other) /\ Cardinality(other) \in Nat /\ Cardinality(other) <= MaxSessions - 1 + Attempts
        BY <1>2, <1>5, <2>3, UsingFinite DEF BookedInv, StartCounted
      <3>2. Using(job.prov, job.token)' \ {job.pid} \subseteq other
        BY <1>5, <2>2, <2>3, NoneAssumption DEF Using, NoProc
      <3>3. Cardinality(Using(job.prov, job.token)' \ {job.pid}) \in Nat
            /\ Cardinality(Using(job.prov, job.token)' \ {job.pid}) <= Cardinality(other)
        BY <3>1, <3>2, FS_Subset, FS_CardinalityType
      <3>4. Attempts \in Int
        BY <1>1 DEF Attempts, Job
      <3> QED
        BY <3>1, <3>3, <3>4, SessionsAssumption
    <2>4. job.pc = "spawned" /\ job.tries >= 1
      BY <1>2, <1>5 DEF BookedInv, StartCounted
    <2> QED
      BY <1>5, <2>3, <2>4 DEF StartCounted, Attempts
  <1>6. ~Announced /\ \A q : ~Reuse(q)
    BY <1>1, <1>2 DEF Announced, Reuse, Skip, Job
  <1> QED
    BY <1>1, <1>2, <1>3, <1>4, <1>5, <1>6, SpawnSteps

(* An account gets more tunnels than it may have only through the further   *)
(* attempts of a start of pinggy that raised, and by no more than these     *)
(* attempts, counting the tunnels that a crash, a failed start or a lost    *)
(* state file has left on no record, as long as process ids do not come     *)
(* back.                                                                   *)
THEOREM AccountsNotOverbooked == NoReuse => (Spec => TokensNotOverbooked)
  <1> SUFFICES ASSUME NoReuse PROVE Spec => TokensNotOverbooked
    OBVIOUS
  <1>1. Init => BookedInv
    <2> SUFFICES ASSUME Init PROVE BookedInv
      OBVIOUS
    <2>1. ASSUME NEW prov \in Tokenized, NEW t \in Tokens
          PROVE  Cardinality(Using(prov, t)) <= MaxSessions + Excess(prov)
      <3>1. Using(prov, t) = {}
        BY NoneAssumption DEF Init, Using, NoProc
      <3> QED
        BY <3>1, FS_EmptySet, ExcessNat, SessionsAssumption
    <2>2. StartCounted
      BY NextJobs DEF Init, StartCounted
    <2> QED
      BY <2>1, <2>2, TruthInit DEF BookedInv, WithinLimit
  <1>2. BookedInv /\ [Next]_vars => BookedInv'
    <2> SUFFICES ASSUME BookedInv, [Next]_vars PROVE BookedInv'
      OBVIOUS
    <2>1. TruthInv' /\ TypeInv'
      BY TruthNext DEF BookedInv, TruthInv
    <2>2. WithinLimit'
      BY <2>1, LimitStep DEF WithinLimit, Excess
    <2> QED
      BY <2>1, <2>2, StartCountedStep DEF BookedInv
  <1>3. BookedInv => WithinLimit
    BY DEF BookedInv
  <1>4. BookedInv /\ BookedInv' /\ [Next]_vars =>
          [\A prov \in Tokenized, t \in Tokens :
             \/ Cardinality(Using(prov, t)') <= MaxSessions
             \/ Cardinality(Using(prov, t)') <= Cardinality(Using(prov, t))
             \/ prov = "pinggy" /\ "attempt" \in Faults /\ At("spawned")]_vars
    <2> SUFFICES ASSUME BookedInv, BookedInv', [Next]_vars, NEW prov \in Tokenized, NEW t \in Tokens
                 PROVE  \/ Cardinality(Using(prov, t)') <= MaxSessions
                        \/ Cardinality(Using(prov, t)') <= Cardinality(Using(prov, t))
                        \/ prov = "pinggy" /\ "attempt" \in Faults /\ At("spawned")
      OBVIOUS
    <2>1. CASE Using(prov, t)' \subseteq Using(prov, t)
      BY <2>1, UsingFinite
    <2>2. ASSUME NEW pid, Cardinality(Using(prov, t)) < MaxSessions, Using(prov, t)' \subseteq Using(prov, t) \cup {pid}
          PROVE  Cardinality(Using(prov, t)') <= MaxSessions
      <3>1. IsFiniteSet(Using(prov, t)) /\ Cardinality(Using(prov, t)) \in Nat
        BY UsingFinite
      <3>2. Cardinality(Using(prov, t)') \in Nat /\ Cardinality(Using(prov, t)') <= Cardinality(Using(prov, t)) + 1
        BY <2>2, <3>1, OneMore
      <3> QED
        BY <2>2, <3>1, <3>2, SessionsAssumption
    <2>3. ASSUME Relaunch, prov = job.prov, Cardinality(Using(prov, t)') <= MaxSessions + Attempts',
                 ~(prov = "pinggy" /\ "attempt" \in Faults)
          PROVE  Cardinality(Using(prov, t)') <= MaxSessions
      <3>1. job'.prov = job.prov
        BY <2>3 DEF Relaunch, BookedInv, TruthInv, TypeInv, TypeOK, Job
      <3>2. Attempts' = 0
        BY <2>3, <3>1 DEF Attempts
      <3> QED
        BY <2>3, <3>2, SessionsAssumption
    <2>4. Relaunch => At("spawned")
      BY DEF Relaunch
    <2> QED
      BY <2>1, <2>2, <2>3, <2>4, AccountSteps
  <1> QED
    BY <1>1, <1>2, <1>3, <1>4, PTL DEF Spec, TokensNotOverbooked
=============================================================================
