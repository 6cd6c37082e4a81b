------------------------- MODULE NamedTunnel_proofs -------------------------
(***************************************************************************)
(* Theorems about NamedTunnel, for any ports, hostnames and process ids,   *)
(* with all commands and faults, process ids that come back among them,    *)
(* but the one each theorem names.                                         *)
(***************************************************************************)
EXTENDS NamedTunnel, FiniteSetTheorems, TLAPS

-----------------------------------------------------------------------------
(* Types.                                                                  *)

\* From the collected mappings to the rows that name the new process.
Busy == {"pending", "rewrite", "halt", "spawn", "weed", "sync", "pids"}
\* The steps of a start or a stop.
Working == Busy \cup {"lookup", "plan", "collect", "record", "forget", "unrecord"}

\* A start gives its port a hostname, a stop takes it away.
Placed(j) ==
    /\ j.pc \in Working => j.p \in Ports
    /\ j.pc \notin Working => j.p = None
    /\ j.pc \in {"lookup", "plan", "pending", "record"} => j.kind = "start"
    /\ j.pc \in {"collect", "forget", "unrecord"} => j.kind = "stop"
    /\ j.pc \in Busy => IF j.kind = "start" THEN j.new[j.p] = j.host /\ j.host # None ELSE j.new[j.p] = None

JobShape ==
    /\ Placed(job)
    /\ job.op # "cycle" =>
         job.phase = "free" /\ job.pc \notin {"reconcile", "orphans", "test", "heal"}

TypeInv == TypeOK /\ JobShape

LEMMA Shapes ==
  /\ Idle \in Job /\ NoMapping \in Mapping /\ NoRow \in Row /\ NoFile \in File
  /\ Idle.pc = "free" /\ Idle.phase = "free" /\ Idle.p = None /\ ~Idle.back /\ Idle.kind = "start"
  /\ Idle.todo = {} /\ Idle.dead = {}
  <1>1. NoMapping \in Mapping
    BY DEF NoMapping, Mapping
  <1>2. Idle \in Job
    BY <1>1 DEF Idle, Job, PCs
  <1> QED
    BY <1>1, <1>2 DEF Idle, NoRow, Row, NoFile, File

LEMMA PlacedIdle ==
  ASSUME NEW j, j.pc \notin Working, j.p = None
  PROVE  Placed(j)
  BY DEF Placed, Working, Busy

LEMMA PlacedFirst ==
  ASSUME NEW j, j.p \in Ports, (j.pc = "lookup" /\ j.kind = "start") \/ (j.pc = "collect" /\ j.kind = "stop")
  PROVE  Placed(j)
  BY DEF Placed, Working, Busy

\* What is left of a command that is done with a port, and of one that failed.
LEMMA Endings ==
  ASSUME TypeInv, NEW j \in {Return, Failed}, job.p \in Ports
  PROVE  /\ j \in Job /\ ~j.back /\ j.phase = job.phase
         /\ j.pc \in {"free", "orphans", "test", "heal", "collect"}
         /\ j.kind \in {"start", "stop"}
         /\ j.kind = "start" => j.p = None /\ j.pc # "collect"
         /\ Placed(j)
         /\ j.kind = "stop" => j.pc = "collect" /\ j.p = job.p /\ j.op = "down" /\ j.phase = "free"
         /\ j.op = "cycle" \/ (j.phase = "free" /\ j.pc \in {"free", "collect"})
         /\ j.phase # "free" => j.op = "cycle"
         /\ j.phase # "free" => j.todo = job.todo /\ j.dead = job.dead /\ j.pc = j.phase
  <1>1. job \in Job /\ Idle \in Job /\ (job.op # "cycle" => job.phase = "free")
    BY Shapes DEF TypeInv, TypeOK, JobShape
  <1>2. job.phase \in {"free", "orphans", "test", "heal"} /\ job.phase \in PCs
    BY <1>1 DEF Job, PCs
  <1>3. CASE j = Return
    <2>1. /\ j \in Job /\ ~j.back /\ j.phase = job.phase /\ j.pc \in {"free", "orphans", "test", "heal"}
          /\ j.kind = "start" /\ j.p = None /\ (j.op = "cycle" \/ (j.phase = "free" /\ j.pc = "free"))
          /\ (j.phase # "free" => j.op = "cycle" /\ j.todo = job.todo /\ j.dead = job.dead /\ j.pc = j.phase)
      BY ZenonT(60), <1>1, <1>2, <1>3, Shapes DEF Return, Job
    <2> QED
      BY <2>1, PlacedIdle DEF Working, Busy
  <1>4. CASE j # Return
    <2>1. job.op = "down" /\ j = Stop([Idle EXCEPT !.op = "down", !.again = TRUE], job.p)
      BY <1>4 DEF Failed
    <2>2. [Idle EXCEPT !.op = "down", !.again = TRUE] \in Job
      BY <1>1 DEF Job, OpKinds
    <2>3. /\ j \in Job /\ j.op = "down" /\ j.pc = "collect" /\ j.kind = "stop" /\ j.p = job.p
          /\ j.phase = Idle.phase /\ j.back = Idle.back
      BY <2>1, <2>2 DEF Stop, Job, PCs
    <2> QED
      BY <1>1, <2>1, <2>3, Shapes, PlacedFirst
  <1> QED
    BY <1>3, <1>4

LEMMA CollectedTypes ==
  ASSUME TypeOK, NEW S, NEW c \in Collected(S)
  PROVE  c.map \in Mapping /\ c.stale \subseteq S
  BY DEF Collected, Mapping, TypeOK, Row, File, RowHost, FileHost, Chosen

LEMMA KillTypes ==
  ASSUME TypeOK, NEW pids, Kill(pids)
  PROVE  procs' \in [Pids -> Mapping] /\ row' \in [Ports -> Row] /\ file' \in [Ports -> File]
  BY ZenonT(60), Shapes DEF Kill, TypeOK, Scrubbed, Row, File

LEMMA ForgottenTypes ==
  ASSUME TypeOK, NEW ps
  PROVE  Forgotten(ps) \in [Ports -> File]
  BY Shapes DEF Forgotten, TypeOK

\* A command is given.
Request == BeginCycle \/ \E p \in Ports : BeginUp(p) \/ BeginDown(p) \/ BeginUnexport(p)

LEMMA BeginTypes ==
  ASSUME TypeInv, Request
  PROVE  TypeInv'
  <1>1. TypeOK /\ Idle \in Job /\ Idle.phase = "free" /\ up \subseteq Ports /\ row \in [Ports -> Row]
    BY Shapes DEF TypeInv, TypeOK
  <1>2. job' \in Job /\ Placed(job') /\ job'.phase = "free"
        /\ (job'.op # "cycle" => job'.pc \notin {"reconcile", "orphans", "test", "heal"})
    <2>1. ASSUME NEW p \in Ports, BeginUp(p) PROVE job' \in Job /\ Placed(job') /\ job'.phase = "free" /\ job'.pc = "lookup"
      BY <1>1, <2>1, PlacedFirst DEF BeginUp, Start, Job, PCs, OpKinds
    <2>2. ASSUME NEW p \in Ports, BeginDown(p)
          PROVE  /\ job' \in Job /\ Placed(job') /\ job'.phase = "free"
                 /\ job'.pc \in {"free", "collect"}
      <3>1. job' = Idle \/ job' = Stop([Idle EXCEPT !.op = "down"], p)
        BY <2>2 DEF BeginDown
      <3>2. CASE job' = Idle
        BY <3>2, Shapes, PlacedIdle DEF Working, Busy
      <3>3. CASE job' = Stop([Idle EXCEPT !.op = "down"], p)
        BY <1>1, <3>3, PlacedFirst DEF Stop, Job, PCs, OpKinds
      <3> QED
        BY <3>1, <3>2, <3>3
    <2>3. ASSUME NEW p \in Ports, BeginUnexport(p)
          PROVE  job' \in Job /\ Placed(job') /\ job'.phase = "free" /\ job'.pc = "collect"
      BY <1>1, <2>3, PlacedFirst DEF BeginUnexport, Stop, Job, PCs, OpKinds
    <2>4. CASE BeginCycle
      <3>1. job' \in Job /\ job'.pc = "reconcile" /\ job'.op = "cycle" /\ job'.p = None /\ job'.phase = "free"
        BY ZenonT(60), <1>1, <2>4, Shapes DEF BeginCycle, Job, PCs, OpKinds
      <3> QED
        BY <3>1, PlacedIdle DEF Working, Busy
    <2> QED
      BY <2>1, <2>2, <2>3, <2>4 DEF Request
  <1>3. up' \subseteq Ports /\ row' \in [Ports -> Row] /\ UNCHANGED <<file, config, procs>>
    BY ZenonT(60), <1>1 DEF Request, BeginUp, BeginDown, BeginUnexport, BeginCycle, Row
  <1> QED
    BY <1>1, <1>2, <1>3 DEF TypeInv, TypeOK, JobShape

\* The steps of a daemon cycle between two stops or starts.
CycleStep ==
    \/ Reconcile \/ Tested \/ CycleEnd \/ \E phase \in {"test", "heal"} : OrphansDone(phase)
    \/ \E p \in job.todo : Orphan(p) \/ Test(p) \/ Heal(p)

LEMMA CycleTypes ==
  ASSUME TypeInv, CycleStep
  PROVE  TypeInv'
  <1>1. /\ TypeOK /\ Idle \in Job /\ Idle.phase = "free" /\ job \in Job /\ up \subseteq Ports
        /\ job.todo \subseteq Ports /\ job.p = None
        /\ row \in [Ports -> Row] /\ job.op = "cycle"
    <2>1. job.pc \in {"reconcile", "orphans", "test", "heal"}
      BY DEF CycleStep, Reconcile, Orphan, OrphansDone, Test, Tested, Heal, CycleEnd, At
    <2> QED
      BY <2>1, Shapes DEF TypeInv, TypeOK, JobShape, Job, Placed, Working, Busy
  <1>2. row' \in [Ports -> Row] /\ UNCHANGED <<up, file, config, procs>>
    BY <1>1, Shapes DEF CycleStep, Reconcile, Orphan, OrphansDone, Test, Tested, Heal, CycleEnd
  <1>3. /\ job' \in Job /\ Placed(job')
        /\ (job'.op # "cycle" => job' = Idle)
    <2>1. CASE Reconcile
      <3>1. job' \in Job /\ job'.pc = "orphans" /\ job'.op = "cycle" /\ job'.p = None
        BY ZenonT(60), <1>1, <2>1 DEF Reconcile, Job, PCs
      <3> QED
        BY <3>1, PlacedIdle DEF Working, Busy
    <2>2. ASSUME NEW p \in Ports, Orphan(p)
          PROVE  job' \in Job /\ Placed(job') /\ (job'.op # "cycle" => job' = Idle)
      <3>1. PICK j : j = [job EXCEPT !.todo = @ \ {p}] /\ job' = Stop(j, p)
        BY <2>2 DEF Orphan
      <3>2. j \in Job /\ j.op = "cycle"
        BY <1>1, <3>1 DEF Job
      <3> QED
        <4>1. job' = Stop(j, p)
          BY <3>1
        <4> QED
          BY <3>2, <4>1, PlacedFirst DEF Stop, Job, PCs
    <2>3. ASSUME NEW phase \in {"test", "heal"}, OrphansDone(phase)
          PROVE  job' \in Job /\ Placed(job') /\ (job'.op # "cycle" => job' = Idle)
      <3>1. PICK todo \in SUBSET Ports :
              job' = [Idle EXCEPT !.op = "cycle", !.pc = phase, !.phase = phase, !.todo = todo]
        <4>1. PICK todo \in IF phase = "test" THEN {{p \in Ports : row'[p].host # None}} ELSE Healable :
                job' = [Idle EXCEPT !.op = "cycle", !.pc = phase, !.phase = phase, !.todo = todo]
          BY <2>3 DEF OrphansDone
        <4>2. todo \in SUBSET Ports
          BY <1>1, <4>1 DEF Healable, TypeOK, TypeInv
        <4> QED
          BY <4>1, <4>2
      <3> QED
        <4>1. job' \in Job /\ job'.pc = phase /\ job'.op = "cycle" /\ job'.p = None
          BY <1>1, <3>1, Shapes DEF Job, PCs, OpKinds
        <4> QED
          BY <4>1, PlacedIdle DEF Working, Busy
    <2>4. ASSUME NEW p \in Ports, Test(p)
          PROVE  job' \in Job /\ Placed(job') /\ (job'.op # "cycle" => job' = Idle)
      <3>1. PICK j : j = [job EXCEPT !.todo = @ \ {p}] /\ (job' = j \/ job' = Stop(j, p))
        BY <2>4 DEF Test
      <3>2. j \in Job /\ j.pc = "test" /\ j.op = "cycle" /\ j.p = None
        BY <1>1, <2>4, <3>1 DEF Test, At, Job
      <3>3. CASE job' = j
        BY <3>2, <3>3, PlacedIdle DEF Working, Busy
      <3>4. CASE job' = Stop(j, p)
        BY ZenonT(60), <3>2, <3>4, PlacedFirst DEF Stop, Job, PCs
      <3> QED
        BY <3>1, <3>3, <3>4
    <2>5. CASE Tested
      <3>1. job' \in Job /\ job'.pc = "heal" /\ job'.op = "cycle" /\ job'.p = None
        <4>1. PICK heal \in Healable : job' = [job EXCEPT !.pc = "heal", !.phase = "heal", !.todo = heal]
          BY <2>5 DEF Tested
        <4>2. heal \in SUBSET Ports
          BY <1>1, <4>1 DEF Healable
        <4> QED
          BY ZenonT(60), <1>1, <4>1, <4>2 DEF Job, PCs
      <3> QED
        BY <3>1, PlacedIdle DEF Working, Busy
    <2>6. ASSUME NEW p \in Ports, Heal(p)
          PROVE  job' \in Job /\ Placed(job') /\ (job'.op # "cycle" => job' = Idle)
      <3>1. PICK j : j = [job EXCEPT !.todo = @ \ {p}] /\ (job' = j \/ job' = Start(j, p))
        BY <2>6 DEF Heal
      <3>2. j \in Job /\ j.pc = "heal" /\ j.op = "cycle" /\ j.p = None
        BY <1>1, <2>6, <3>1 DEF Heal, At, Job
      <3>3. CASE job' = j
        BY <3>2, <3>3, PlacedIdle DEF Working, Busy
      <3>4. CASE job' = Start(j, p)
        BY ZenonT(60), <3>2, <3>4, PlacedFirst DEF Start, Job, PCs
      <3> QED
        BY <3>1, <3>3, <3>4
    <2>7. CASE CycleEnd
      BY <1>1, <2>7, Shapes, PlacedIdle DEF CycleEnd, Working, Busy
    <2> QED
      BY <1>1, <2>1, <2>2, <2>3, <2>4, <2>5, <2>6, <2>7 DEF CycleStep
  <1> QED
    BY <1>1, <1>2, <1>3, Shapes DEF TypeInv, TypeOK, JobShape

\* The steps of a start or a stop.
WorkStep ==
    \/ Lookup \/ Plan \/ Collect \/ Pending \/ Rewrite \/ Halt \/ Spawn \/ Weed \/ Sync
    \/ UpdatePids \/ Record \/ Forget \/ Unrecord

LEMMA StepTypes ==
  ASSUME TypeInv, WorkStep
  PROVE  TypeInv'
  <1>1. /\ TypeOK /\ job \in Job /\ job.p \in Ports
        /\ up \subseteq Ports /\ row \in [Ports -> Row] /\ file \in [Ports -> File]
        /\ config \in Mapping /\ procs \in [Pids -> Mapping]
        /\ (job.op # "cycle" => job.phase = "free") /\ Placed(job) /\ job.pc \in Working
    <2>1. job.pc \in Working
      BY DEF WorkStep, Lookup, Plan, Collect, Pending, Rewrite, Halt, Spawn, Weed, Sync, UpdatePids, Record,
         Forget, Unrecord, At, Working, Busy
    <2> QED
      BY <2>1 DEF TypeInv, TypeOK, JobShape, Placed
  <1>2. /\ Target \in Mapping /\ job.host \in Hosts \cup {None} /\ job.pid \in Pids \cup {None}
        /\ job.new \in Mapping /\ OwnedPids \subseteq Pids
    <2>1. OwnedPids \subseteq Pids
      BY <1>1 DEF OwnedPids, Alive, Row, File
    <2> QED
      BY <1>1, <2>1 DEF Target, Job
  <1>3. ASSUME NEW j \in {Return, Failed}, job' = j
        PROVE  job' \in Job /\ JobShape'
    <2>1. /\ j \in Job /\ Placed(j)
          /\ j.op = "cycle" \/ (j.phase = "free" /\ j.pc \in {"free", "collect"})
      BY <1>1, Endings DEF Working, Busy
    <2> QED
      BY <1>3, <2>1 DEF JobShape
  <1>4. ASSUME job' \in Job, job'.pc \in Working, job'.p = job.p, job'.kind = job.kind, job'.op = job.op,
               job'.phase = job.phase,
               job'.pc \in Busy => job.pc \in Busy /\ job'.new = job.new /\ job'.host = job.host,
               job'.pc \in {"lookup", "plan", "pending", "record"} => job.kind = "start",
               job'.pc \in {"collect", "forget", "unrecord"} => job.kind = "stop"
        PROVE  JobShape'
    <2>1. Placed(job')
      BY <1>1, <1>4 DEF Placed
    <2>2. job'.pc \notin {"reconcile", "orphans", "test", "heal"}
      BY <1>4 DEF Working, Busy
    <2> QED
      BY <1>1, <2>1, <2>2, <1>4 DEF JobShape
  <1>5. CASE Lookup
    <2>1. job' \in Job /\ JobShape'
      <3>1. PICK r \in {file[job.p], row[job.p]} :
              \/ job' = [job EXCEPT !.pc = "record", !.host = r.host, !.pid = r.pid]
              \/ job' = [job EXCEPT !.pc = "plan"]
        BY <1>5 DEF Lookup, Goto
      <3>2. r.host \in Hosts \cup {None} /\ r.pid \in Pids \cup {None}
        BY <1>1 DEF Row, File
      <3>3. /\ job' \in Job /\ job'.pc \in {"record", "plan"} /\ job'.p = job.p /\ job'.kind = job.kind
            /\ job'.op = job.op /\ job'.phase = job.phase
        <4>1. CASE job' = [job EXCEPT !.pc = "record", !.host = r.host, !.pid = r.pid]
          BY <1>1, <3>2, <4>1 DEF Job, PCs
        <4>2. CASE job' = [job EXCEPT !.pc = "plan"]
          BY <1>1, <4>2 DEF Job, PCs
        <4> QED
          BY <3>1, <4>1, <4>2
      <3>4. job.kind = "start"
        BY <1>1, <1>5 DEF Lookup, At, Placed
      <3> QED
        BY <1>4, <3>3, <3>4 DEF Working, Busy
    <2>2. file' \in [Ports -> File] /\ UNCHANGED <<up, row, config, procs>>
      <3>1. \/ file' = file \/ file' = Forgotten({job.p})
            \/ file' = [file EXCEPT ![job.p] = [host |-> row[job.p].host, pid |-> row[job.p].pid, fresh |-> TRUE]]
        BY <1>5 DEF Lookup
      <3>2. [host |-> row[job.p].host, pid |-> row[job.p].pid, fresh |-> TRUE] \in File
        BY <1>1 DEF Row, File
      <3> QED
        BY <1>1, <1>5, <3>1, <3>2, ForgottenTypes DEF Lookup
    <2> QED
      BY <1>1, <2>1, <2>2 DEF TypeInv, TypeOK
  <1>6. CASE Plan
    <2>1. PICK c \in Collected(Ports \ {job.p}) :
            /\ file' = Forgotten(c.stale)
            /\ \/ \E h \in Hosts \ HostsOf(c.map) :
                    job' = [job EXCEPT !.pc = "pending", !.host = h, !.prev = c.map,
                                       !.new = [c.map EXCEPT ![job.p] = h], !.pids = OwnedPids]
               \/ job' = Failed
      BY <1>6 DEF Plan
    <2>2. file' \in [Ports -> File] /\ UNCHANGED <<up, row, config, procs>> /\ c.map \in Mapping
      BY <1>1, <1>6, <2>1, ForgottenTypes, CollectedTypes DEF Plan
    <2>3. ASSUME NEW h \in Hosts,
                 job' = [job EXCEPT !.pc = "pending", !.host = h, !.prev = c.map,
                                    !.new = [c.map EXCEPT ![job.p] = h], !.pids = OwnedPids]
          PROVE  job' \in Job /\ JobShape'
      <3>1. [c.map EXCEPT ![job.p] = h] \in Mapping
        BY <1>1, <2>2 DEF Mapping
      <3> QED
        <4>1. /\ job' \in Job /\ job'.pc = "pending" /\ job'.p = job.p /\ job'.kind = job.kind /\ job'.op = job.op
              /\ job'.phase = job.phase /\ job'.host = h /\ job'.new[job'.p] = h
          BY <1>1, <1>2, <2>2, <2>3, <3>1 DEF Job, PCs, Mapping
        <4>2. job.kind = "start" /\ h # None
          BY <1>1, <1>6, NoneAssumption DEF Plan, At, Placed
        <4> QED
          BY <1>1, <4>1, <4>2 DEF JobShape, Placed, Working, Busy
    <2> QED
      BY <1>1, <1>3, <2>1, <2>2, <2>3 DEF TypeInv, TypeOK
  <1>7. CASE Collect
    <2>1. PICK c \in Collected(Ports), pc \in {"halt", "rewrite"} :
            /\ file' = Forgotten(c.stale)
            /\ job' = [job EXCEPT !.pc = pc, !.prev = c.map, !.new = [c.map EXCEPT ![job.p] = None],
                                  !.pids = OwnedPids]
      BY <1>7 DEF Collect
    <2>2. file' \in [Ports -> File] /\ UNCHANGED <<up, row, config, procs>> /\ c.map \in Mapping
      BY <1>1, <1>7, <2>1, ForgottenTypes, CollectedTypes DEF Collect
    <2>3. [c.map EXCEPT ![job.p] = None] \in Mapping
      BY <1>1, <2>2 DEF Mapping
    <2>4. job' \in Job /\ JobShape'
      <3>1. /\ job' \in Job /\ job'.pc = pc /\ job'.p = job.p /\ job'.kind = job.kind /\ job'.op = job.op
            /\ job'.phase = job.phase /\ job'.new[job'.p] = None
        BY <1>1, <1>2, <2>1, <2>2, <2>3 DEF Job, PCs, Mapping
      <3>2. job.kind = "stop"
        BY <1>1, <1>7 DEF Collect, At, Placed
      <3> QED
        BY <1>1, <3>1, <3>2 DEF JobShape, Placed, Working, Busy
    <2> QED
      BY <1>1, <2>2, <2>4 DEF TypeInv, TypeOK
  <1>8. CASE Pending \/ Rewrite
    <2>1. /\ file' \in [Ports -> File] /\ config' \in Mapping /\ UNCHANGED <<up, row, procs>>
      <3>1. [host |-> job.host, pid |-> None, fresh |-> TRUE] \in File
        BY <1>2 DEF File
      <3> QED
        BY <1>1, <1>2, <1>8, <3>1 DEF Pending, Rewrite
    <2>2. job' \in Job /\ JobShape'
      <3>1. PICK pc \in {"rewrite", "halt"} : job' = [job EXCEPT !.pc = pc] /\ job.pc \in Busy
        BY <1>8 DEF Pending, Rewrite, Goto, At, Busy
      <3> QED
        BY <1>1, <1>4, <3>1 DEF Job, PCs, Working, Busy
    <2> QED
      BY <1>1, <2>1, <2>2 DEF TypeInv, TypeOK
  <1>9. ASSUME job' = Unwind, job.pc \in Busy PROVE job' \in Job /\ JobShape'
    <2>1. CASE job' = [job EXCEPT !.back = TRUE, !.pc = "halt", !.pid = None]
      <3>1. /\ job' \in Job /\ job'.pc = "halt" /\ job'.p = job.p /\ job'.kind = job.kind /\ job'.op = job.op
            /\ job'.phase = job.phase /\ job'.new = job.new /\ job'.host = job.host
        BY <1>1, <2>1 DEF Job, PCs
      <3> QED
        BY <1>4, <1>9, <3>1 DEF Working, Busy
    <2> QED
      BY <1>3, <1>9, <2>1 DEF Unwind
  \* On to another step with the same port, kind, mappings and hostname.
  <1>16. ASSUME NEW pc \in Working, job' = [job EXCEPT !.pc = pc], pc \in Busy => job.pc \in Busy,
                pc \notin {"lookup", "plan", "pending", "collect"}, pc = "record" => job.kind = "start",
                pc \in {"forget", "unrecord"} => job.kind = "stop"
         PROVE  job' \in Job /\ JobShape'
    <2>1. /\ job' \in Job /\ job'.pc = pc /\ job'.p = job.p /\ job'.kind = job.kind /\ job'.op = job.op
          /\ job'.phase = job.phase /\ job'.new = job.new /\ job'.host = job.host
      BY <1>1, <1>16 DEF Job, PCs, Working, Busy
    <2> QED
      BY <1>4, <1>16, <2>1
  <1>10. CASE Halt
    <2>1. procs' \in [Pids -> Mapping] /\ row' \in [Ports -> Row] /\ file' \in [Ports -> File]
          /\ UNCHANGED <<up, config>>
      BY <1>1, <1>10, KillTypes DEF Halt
    <2>2. /\ job.pc = "halt"
          /\ \/ job' = Failed
             \/ job' = [job EXCEPT !.pc = "spawn"]
             \/ job' = [job EXCEPT !.pc = "forget"] /\ Target = NoMapping /\ ~job.back
      BY <1>10 DEF Halt, At
    <2>3. Target = NoMapping /\ ~job.back => job.kind = "stop"
      <3> SUFFICES ASSUME job.new = NoMapping PROVE job.kind = "stop"
        BY DEF Target
      <3>1. job.new[job.p] = None
        BY <1>1 DEF NoMapping
      <3> QED
        BY <1>1, <2>2, <3>1 DEF Placed, Job, Busy
    <2> QED
      BY <1>1, <1>3, <1>16, <2>1, <2>2, <2>3 DEF TypeInv, TypeOK, Working, Busy
  <1>11. CASE Spawn
    <2>1. /\ procs' \in [Pids -> Mapping] /\ config' \in Mapping /\ UNCHANGED <<up, row, file>>
      BY <1>1, <1>2, <1>11 DEF Spawn
    <2>2. job' = Unwind \/ \E pid \in Pids : job' = [job EXCEPT !.pc = "weed", !.pid = pid]
      BY <1>11 DEF Spawn
    <2>3. job.pc = "spawn"
      BY <1>11 DEF Spawn, At
    <2>4. ASSUME NEW pid \in Pids, job' = [job EXCEPT !.pc = "weed", !.pid = pid] PROVE job' \in Job /\ JobShape'
      <3>1. /\ job' \in Job /\ job'.pc = "weed" /\ job'.p = job.p /\ job'.kind = job.kind /\ job'.op = job.op
            /\ job'.phase = job.phase /\ job'.new = job.new /\ job'.host = job.host
        BY <1>1, <2>4 DEF Job, PCs
      <3> QED
        BY <1>4, <2>3, <3>1 DEF Working, Busy
    <2> QED
      BY <1>1, <1>9, <2>1, <2>2, <2>3, <2>4 DEF TypeInv, TypeOK, Busy
  <1>12. CASE Weed
    <2>1. /\ procs' \in [Pids -> Mapping] /\ row' \in [Ports -> Row] /\ file' \in [Ports -> File]
          /\ UNCHANGED <<up, config>>
      BY <1>1, <1>12, KillTypes DEF Weed
    <2>2. job.pc = "weed" /\ (job' = Unwind \/ job' = [job EXCEPT !.pc = "sync"])
      BY <1>12 DEF Weed, Goto, At
    <2> QED
      BY <1>1, <1>9, <1>16, <2>1, <2>2 DEF TypeInv, TypeOK, Working, Busy
  <1>13. CASE Sync
    <2>1. file' \in [Ports -> File] /\ UNCHANGED <<up, row, config, procs>>
      BY <1>1, <1>2, <1>13 DEF Sync, File, Mapping
    <2>2. job.pc = "sync" /\ job' = [job EXCEPT !.pc = "pids"]
      BY <1>13 DEF Sync, Goto, At
    <2> QED
      BY <1>1, <1>16, <2>1, <2>2 DEF TypeInv, TypeOK, Working, Busy
  <1>14. CASE UpdatePids
    <2>1. row' \in [Ports -> Row] /\ UNCHANGED <<up, file, config, procs>>
      BY <1>1, <1>2, <1>14 DEF UpdatePids, Row
    <2>2. \/ job' = Failed
          \/ job' = [job EXCEPT !.pc = "record"] /\ job.kind = "start"
          \/ job' = [job EXCEPT !.pc = "forget"] /\ job.kind # "start"
      BY <1>14 DEF UpdatePids
    <2>3. job.kind \in {"start", "stop"}
      BY <1>1 DEF Job
    <2> QED
      BY <1>1, <1>3, <1>16, <2>1, <2>2, <2>3 DEF TypeInv, TypeOK, Working, Busy
  <1>15. CASE Record \/ Unrecord \/ Forget
    <2>1. row' \in [Ports -> Row] /\ file' \in [Ports -> File] /\ UNCHANGED <<up, config, procs>>
      <3>1. [host |-> job.host, pid |-> job.pid, live |-> job.p \in up] \in Row
        BY <1>2 DEF Row
      <3> QED
        BY <1>1, <1>15, <3>1, ForgottenTypes, Shapes DEF Record, Unrecord, Forget
    <2>2. job' = Return \/ (job' = [job EXCEPT !.pc = "unrecord"] /\ job.pc = "forget")
      BY <1>15 DEF Record, Unrecord, Forget, At
    <2>3. job.pc = "forget" => job.kind = "stop"
      BY <1>1 DEF Placed
    <2> QED
      BY <1>1, <1>3, <1>16, <2>1, <2>2, <2>3 DEF TypeInv, TypeOK, Working, Busy
  <1> QED
    BY <1>5, <1>6, <1>7, <1>8, <1>10, <1>11, <1>12, <1>13, <1>14, <1>15 DEF WorkStep

\* What no command does.
World ==
    \/ \E p \in Ports : ContainerExit(p) \/ GraceEnds(p)
    \/ \E pid \in Pids : TunnelDies(pid)

LEMMA WorldTypes ==
  ASSUME TypeInv, World \/ Crash \/ UNCHANGED vars
  PROVE  TypeInv'
  <1>1. /\ TypeOK /\ JobShape /\ job \in Job /\ Idle \in Job
        /\ up \subseteq Ports /\ row \in [Ports -> Row] /\ file \in [Ports -> File]
    BY Shapes DEF TypeInv, TypeOK
  <1>2. ASSUME NEW p \in Ports, ContainerExit(p) PROVE TypeInv'
    BY <1>1, <1>2 DEF ContainerExit, TypeInv, TypeOK, JobShape, Row
  <1>3. ASSUME NEW p \in Ports, GraceEnds(p) PROVE TypeInv'
    BY <1>1, <1>3 DEF GraceEnds, TypeInv, TypeOK, JobShape, File
  <1>4. ASSUME NEW pid \in Pids, TunnelDies(pid) PROVE TypeInv'
    <2>1. /\ job' \in Job /\ job'.op = job.op /\ job'.pc = job.pc /\ job'.p = job.p /\ job'.phase = job.phase
          /\ job'.kind = job.kind /\ job'.new = job.new /\ job'.host = job.host
      BY <1>1, <1>4 DEF TunnelDies, Job, Scrubbed
    <2>2. procs' \in [Pids -> Mapping] /\ row' \in [Ports -> Row] /\ file' \in [Ports -> File]
          /\ UNCHANGED <<up, config>>
      BY <1>1, <1>4, KillTypes DEF TunnelDies
    <2> QED
      BY <1>1, <2>1, <2>2 DEF TypeInv, TypeOK, JobShape, Placed
  <1>5. CASE Crash
    <2>1. job' \in Job /\ job'.pc = "free" /\ job'.phase = "free" /\ job'.p = None
      BY <1>1, <1>5, Shapes DEF Crash, Job
    <2>2. Placed(job')
      BY <2>1, PlacedIdle DEF Working, Busy
    <2> QED
      BY <1>1, <1>5, <2>1, <2>2 DEF Crash, TypeInv, TypeOK, JobShape
  <1>6. CASE UNCHANGED vars
    BY <1>1, <1>6 DEF vars, TypeInv, TypeOK, JobShape
  <1> QED
    BY <1>2, <1>3, <1>4, <1>5, <1>6 DEF World

LEMMA Steps ==
  [Next]_vars => WorkStep \/ CycleStep \/ Request \/ World \/ Crash \/ UNCHANGED vars
  BY DEF Next, JobStep, WorkStep, CycleStep, Request, World

LEMMA TypeInit ==
  Init => TypeInv
  BY Shapes, PlacedIdle DEF Init, TypeInv, TypeOK, JobShape, Working, Busy

LEMMA TypeNext ==
  TypeInv /\ [Next]_vars => TypeInv'
  BY Steps, BeginTypes, CycleTypes, StepTypes, WorldTypes

(* Rows, state files, configuration, processes and the command at work keep *)
(* their types; a start or a stop has a port, and a cycle its phase.        *)
THEOREM TypeCorrect == Spec => []TypeOK
  <1>1. TypeInv => TypeOK
    BY DEF TypeInv
  <1> QED
    BY <1>1, TypeInit, TypeNext, PTL DEF Spec

-----------------------------------------------------------------------------
(* One process.  Whoever is about to kill has the live process on record   *)
(* (Halting), since it is the process the configuration and the state      *)
(* files of the ports it serves are about (Serving); whoever starts one    *)
(* has left none alive (Spawning).                                         *)

Serves(q) ==
    /\ config = procs[q]
    /\ \A p \in Ports : procs[q][p] # None => file[p].pid = q /\ file[p].host = procs[q][p]

Forward == job.pc \notin {"halt", "spawn", "weed", "sync", "pids"} => ~job.back
OneLives == \A q1, q2 \in Live : q1 = q2
Serving == job.pc \notin Busy \/ job.pc = "pids" => \A q \in Live : Serves(q)
Halting == job.pc \in {"pending", "rewrite", "halt"} => IF job.back THEN Live = {} ELSE Live \subseteq job.pids
Spawning == job.pc = "spawn" => Live = {} /\ Target # NoMapping
Spawned ==
    job.pc \in {"weed", "sync", "pids"} =>
        Live \subseteq {job.pid} /\ Target # NoMapping /\ \A q \in Live : procs[q] = Target /\ config = Target
Unmapped == job.pc \in {"plan", "forget"} => \A q \in Live : procs[q][job.p] = None

ProcInv == /\ TypeInv /\ Forward /\ OneLives /\ Serving /\ Halting /\ Spawning /\ Spawned /\ Unmapped

\* Every live process is in the state file of a port.
LEMMA ServedPort ==
  ASSUME TypeOK, NEW q \in Live, Serves(q)
  PROVE  q \in OwnedPids /\ \E p \in Ports : procs[q][p] # None /\ file[p].pid = q
  <1>1. q \in Pids /\ Alive(q) /\ procs[q] \in Mapping /\ procs[q] # NoMapping
    BY DEF Live, Alive, TypeOK
  <1>2. PICK p \in Ports : procs[q][p] # None
    BY <1>1 DEF Mapping, NoMapping
  <1>3. file[p].pid = q
    BY <1>2 DEF Serves
  <1> QED
    BY <1>1, <1>2, <1>3 DEF OwnedPids

LEMMA KillLive ==
  ASSUME TypeOK, NEW pids, Kill(pids)
  PROVE  /\ Live' = Live \ pids /\ \A q \in Live' : procs'[q] = procs[q]
         /\ \A p \in Ports : /\ file'[p].host = file[p].host /\ row'[p].host = row[p].host
                             /\ row'[p].live = row[p].live /\ file'[p].pid \in {file[p].pid, None}
                             /\ file'[p].fresh = file[p].fresh
                             /\ (file[p].pid \notin pids => file'[p].pid = file[p].pid)
  <1>1. \A q \in Pids : procs'[q] = IF q \in pids THEN NoMapping ELSE procs[q]
    BY DEF Kill
  <1>2. Live' = Live \ pids /\ \A q \in Live' : procs'[q] = procs[q]
    BY <1>1, NoneAssumption DEF Live, Alive
  <1> QED
    BY <1>2 DEF Kill, Scrubbed, TypeOK, File, Row

\* A step between two waits that leaves files and processes alone.
LEMMA ProcSame ==
  ASSUME ProcInv, TypeInv', job.pc \notin Busy \/ Live = {}, UNCHANGED <<config, procs>>,
         \A p \in Ports : file'[p].host = file[p].host /\ file'[p].pid = file[p].pid,
         job'.pc \notin Busy \cup {"plan", "forget"}, ~job'.back
  PROVE  ProcInv'
  <1>1. Live' = Live
    BY DEF Live, Alive
  <1>2. \A q \in Live : Serves(q)
    BY DEF ProcInv, Serving
  <1>3. \A q \in Live' : Serves(q)'
    BY <1>1, <1>2 DEF Serves
  <1> QED
    BY <1>1, <1>3 DEF ProcInv, Forward, OneLives, Serving, Halting, Spawning, Spawned, Unmapped, Busy

\* A start or a stop that ends with nobody alive.
LEMMA ProcNone ==
  ASSUME TypeInv', Live' = {}, job'.pc \notin Busy, ~job'.back
  PROVE  ProcInv'
  BY DEF ProcInv, Forward, OneLives, Serving, Halting, Spawning, Spawned, Unmapped, Busy

LEMMA EndingsLeave ==
  ASSUME TypeInv, job' \in {Return, Failed}, job.p \in Ports
  PROVE  job'.pc \notin Busy \cup {"plan", "forget"} /\ ~job'.back
  <1>1. job' = Return \/ job' = Failed
    OBVIOUS
  <1> QED
    BY <1>1, Endings DEF Busy

LEMMA ProcBegin ==
  ASSUME ProcInv, Request \/ CycleStep \/ Record \/ Unrecord
  PROVE  ProcInv'
  <1>1. /\ TypeInv /\ TypeInv' /\ job \in Job /\ Forward
    BY BeginTypes, CycleTypes, StepTypes DEF ProcInv, WorkStep, TypeInv, TypeOK
  <1>2. job.pc \notin Busy /\ UNCHANGED <<file, config, procs>>
    BY DEF Request, CycleStep, BeginUp, BeginDown, BeginUnexport, BeginCycle, Begin, Reconcile, Tested, CycleEnd,
       OrphansDone, Orphan, Test, Heal, Record, Unrecord, At, Busy
  <1>3. job'.pc \notin Busy \cup {"plan", "forget"} /\ ~job'.back
    <2>1. ~job.back
      BY <1>1, <1>2 DEF Forward, Busy
    <2>2. CASE Request
      <3>1. ASSUME NEW p \in Ports, BeginUp(p) \/ BeginUnexport(p) PROVE job'.pc \in {"lookup", "collect"} /\ job'.back = Idle.back
        BY <3>1, Shapes DEF BeginUp, BeginUnexport, Start, Stop, Job
      <3>2. ASSUME NEW p \in Ports, BeginDown(p) PROVE job'.pc \in {"free", "collect"} /\ job'.back = Idle.back
        <4>1. job' = Idle \/ job' = Stop([Idle EXCEPT !.op = "down"], p)
          BY <3>2 DEF BeginDown
        <4>2. job' = Stop([Idle EXCEPT !.op = "down"], p) => job'.pc = "collect" /\ job'.back = Idle.back
          BY Shapes DEF Stop, Job
        <4> QED
          BY <4>1, <4>2, Shapes
      <3>3. BeginCycle => job'.pc = "reconcile" /\ job'.back = Idle.back
        BY Shapes DEF BeginCycle, Job
      <3> QED
        BY <2>2, <3>1, <3>2, <3>3, Shapes DEF Request, Busy
    <2>3. CASE CycleStep
      <3>1. ASSUME NEW p, Orphan(p) PROVE job'.pc = "collect" /\ ~job'.back
        BY <1>1, <2>1, <3>1 DEF Orphan, Stop, Job
      <3>2. ASSUME NEW p, Test(p) PROVE job'.pc \in {"test", "collect"} /\ ~job'.back
        BY <1>1, <2>1, <3>2 DEF Test, At, Stop, Job
      <3>3. ASSUME NEW p, Heal(p) PROVE job'.pc \in {"heal", "lookup"} /\ ~job'.back
        BY <1>1, <2>1, <3>3 DEF Heal, At, Start, Job
      <3>4. ASSUME NEW phase \in {"test", "heal"}, OrphansDone(phase) PROVE job'.pc = phase /\ ~job'.back
        BY <3>4, Shapes DEF OrphansDone, Job
      <3>5. Reconcile \/ Tested \/ CycleEnd => job'.pc \in {"orphans", "heal", "free"} /\ ~job'.back
        BY ZenonT(60), <1>1, <2>1, Shapes DEF Reconcile, Tested, CycleEnd, Job
      <3> QED
        BY <2>3, <3>1, <3>2, <3>3, <3>4, <3>5 DEF CycleStep, Busy
    <2>4. CASE Record \/ Unrecord
      <3>1. job.p \in Ports /\ job' = Return
        BY <1>1, <2>4 DEF Record, Unrecord, At, TypeInv, JobShape, Placed, Working
      <3> QED
        BY <1>1, <3>1, EndingsLeave
    <2> QED
      BY <2>2, <2>3, <2>4
  <1> QED
    BY <1>1, <1>2, <1>3, ProcSame

\* What a step relies on, spelled out.
LEMMA ProcFacts ==
  ASSUME ProcInv
  PROVE  /\ TypeInv /\ TypeOK /\ job \in Job /\ procs \in [Pids -> Mapping] /\ file \in [Ports -> File]
         /\ config \in Mapping /\ (job.pc \in Working => job.p \in Ports) /\ Placed(job)
         /\ \A q \in Pids : q \in Live <=> procs[q] # NoMapping
         /\ Live \subseteq Pids
  BY NoneAssumption DEF ProcInv, TypeInv, TypeOK, JobShape, Live, Alive, Placed

LEMMA ProcLookup ==
  ASSUME ProcInv, Lookup
  PROVE  ProcInv'
  <1>1. TypeInv' /\ job.pc = "lookup" /\ job.p \in Ports /\ ~job.back /\ UNCHANGED <<config, procs>>
    BY ProcFacts, StepTypes DEF WorkStep, Lookup, At, ProcInv, Forward, Working
  <1>2. \A q \in Live : Serves(q)
    BY <1>1 DEF ProcInv, Serving, Busy
  <1>3. Live' = Live /\ \A q \in Live : procs'[q] = procs[q]
    BY <1>1 DEF Live, Alive
  <1>4. \A q \in Live : procs[q][job.p] # None =>
          Alive(file[job.p].pid) /\ config[job.p] = file[job.p].host /\ file' = file /\ job'.pc = "record"
    <2> SUFFICES ASSUME NEW q \in Live, procs[q][job.p] # None
                 PROVE  Alive(file[job.p].pid) /\ config[job.p] = file[job.p].host /\ file' = file /\ job'.pc = "record"
      OBVIOUS
    <2>1. Alive(file[job.p].pid) /\ config[job.p] = file[job.p].host
      BY <1>1, <1>2 DEF Serves, Live
    <2>2. file' = file /\ job' = [job EXCEPT !.pc = "record", !.host = file[job.p].host, !.pid = file[job.p].pid]
      BY <2>1 DEF Lookup
    <2> QED
      BY <2>1, <2>2, ProcFacts DEF Job
  <1>5. job'.pc \in {"record", "plan"} /\ job'.p = job.p /\ ~job'.back
    <2>1. \/ \E r \in {file[job.p], row[job.p]} : job' = [job EXCEPT !.pc = "record", !.host = r.host, !.pid = r.pid]
          \/ job' = [job EXCEPT !.pc = "plan"]
      BY DEF Lookup, Goto
    <2> QED
      BY <1>1, <2>1, ProcFacts DEF Job
  <1>6. \A p \in Ports \ {job.p} : file'[p] = file[p]
    BY ProcFacts DEF Lookup, Forgotten
  <1>7. \A q \in Live' : Serves(q)'
    <2> SUFFICES ASSUME NEW q \in Live', NEW p \in Ports, procs'[q][p] # None
                 PROVE  file'[p].pid = q /\ file'[p].host = procs'[q][p]
      BY <1>1, <1>2, <1>3 DEF Serves
    <2>1. file[p].pid = q /\ file[p].host = procs[q][p]
      BY <1>2, <1>3 DEF Serves
    <2>2. file'[p] = file[p]
      BY <1>3, <1>4, <1>6
    <2> QED
      BY <1>3, <2>1, <2>2
  <1>8. job'.pc = "plan" => \A q \in Live' : procs'[q][job'.p] = None
    BY <1>3, <1>4, <1>5
  <1>9. OneLives'
    BY <1>3 DEF ProcInv, OneLives
  <1> QED
    BY <1>1, <1>5, <1>7, <1>8, <1>9
    DEF ProcInv, Forward, Serving, Halting, Spawning, Spawned, Unmapped, Busy

\* The rows and files that are collected.
RowsOf(S) == {p \in S : row[p].host # None /\ row[p].live}
FilesOf(S, R) == {p \in S \ R : file[p].host \notin {row[r].host : r \in R} \cup {None}}
ValidOf(S, R) == {p \in FilesOf(S, R) : Alive(file[p].pid) \/ p \in up}

LEMMA CollectedFrom ==
  ASSUME NEW S, NEW c \in Collected(S)
  PROVE  \E R \in Chosen(RowsOf(S), RowHost) : \E F \in Chosen(ValidOf(S, R), FileHost) :
           /\ c.map = [p \in Ports |-> IF p \in R THEN row[p].host ELSE IF p \in F THEN file[p].host ELSE None]
           /\ c.stale = FilesOf(S, R) \ ValidOf(S, R)
  <1> DEFINE Of(R, F) == [map |-> [p \in Ports |-> IF p \in R THEN row[p].host
                                                   ELSE IF p \in F THEN file[p].host ELSE None],
                          stale |-> FilesOf(S, R) \ ValidOf(S, R)]
  <1>1. Collected(S) = UNION {{Of(R, F) : F \in Chosen(ValidOf(S, R), FileHost)} : R \in Chosen(RowsOf(S), RowHost)}
    BY Zenon DEF Collected, RowsOf, FilesOf, ValidOf
  <1>2. PICK R \in Chosen(RowsOf(S), RowHost) : c \in {Of(R, F) : F \in Chosen(ValidOf(S, R), FileHost)}
    BY <1>1
  <1>3. PICK F \in Chosen(ValidOf(S, R), FileHost) : c = Of(R, F)
    BY <1>2
  <1> QED
    BY <1>3

\* The files of the ports that are served are not stale.
LEMMA StaleFiles ==
  ASSUME NEW S, NEW c \in Collected(S), NEW p \in c.stale
  PROVE  p \in S /\ ~Alive(file[p].pid) /\ p \notin up
  <1>1. PICK R \in Chosen(RowsOf(S), RowHost) : c.stale = FilesOf(S, R) \ ValidOf(S, R)
    BY CollectedFrom
  <1> QED
    BY <1>1 DEF FilesOf, ValidOf

LEMMA ProcPlan ==
  ASSUME ProcInv, Plan \/ Collect
  PROVE  ProcInv'
  <1>1. /\ TypeInv' /\ job.pc \in {"plan", "collect"} /\ job.p \in Ports /\ ~job.back
        /\ UNCHANGED <<config, procs>> /\ Forgotten({}) = file
    BY ProcFacts, StepTypes DEF WorkStep, Plan, Collect, At, ProcInv, Forward, Working, Forgotten
  <1>2. PICK S \in {Ports, Ports \ {job.p}} : \E c \in Collected(S) : file' = Forgotten(c.stale)
    BY DEF Plan, Collect
  <1>20. PICK c \in Collected(S) : file' = Forgotten(c.stale)
    BY <1>2
  <1>3. Live' = Live /\ (\A q \in Live : procs'[q] = procs[q]) /\ \A q \in Live : Serves(q)
    BY <1>1 DEF Live, Alive, ProcInv, Serving, Busy
  <1>4. \A q \in Live' : Serves(q)'
    <2> SUFFICES ASSUME NEW q \in Live', NEW p \in Ports, procs'[q][p] # None
                 PROVE  file'[p].pid = q /\ file'[p].host = procs'[q][p]
      BY <1>1, <1>3 DEF Serves
    <2>1. file[p].pid = q /\ file[p].host = procs[q][p] /\ Alive(q)
      BY <1>3 DEF Serves, Live
    <2>2. p \notin c.stale
      BY <1>20, <2>1, ProcFacts, StaleFiles
    <2> QED
      BY <1>3, <1>20, <2>1, <2>2 DEF Forgotten
  <1>5. Live' \subseteq OwnedPids
    BY <1>3, ProcFacts, ServedPort
  <1>6. OneLives'
    BY <1>3 DEF ProcInv, OneLives
  <1>7. CASE job' = Failed
    BY <1>1, <1>4, <1>6, <1>7, EndingsLeave, ProcFacts
    DEF ProcInv, Forward, Serving, Halting, Spawning, Spawned, Unmapped, Busy
  <1>8. CASE job' # Failed
    <2>1. /\ job'.pc \in {"pending", "halt", "rewrite"} /\ job'.pids = OwnedPids /\ ~job'.back
      <3>1. CASE Plan
        <4>1. PICK d \in Collected(Ports \ {job.p}), h \in Hosts :
                job' = [job EXCEPT !.pc = "pending", !.host = h, !.prev = d.map,
                                   !.new = [d.map EXCEPT ![job.p] = h], !.pids = OwnedPids]
          BY <1>8, <3>1 DEF Plan
        <4> QED
          BY <1>1, <4>1, ProcFacts DEF Job
      <3>2. CASE Collect
        <4>1. PICK d \in Collected(Ports), pc \in {"halt", "rewrite"} :
                job' = [job EXCEPT !.pc = pc, !.prev = d.map, !.new = [d.map EXCEPT ![job.p] = None],
                                   !.pids = OwnedPids]
          BY <3>2 DEF Collect
        <4> QED
          BY <1>1, <4>1, ProcFacts DEF Job
      <3> QED
        BY <3>1, <3>2
    <2> QED
      BY <1>1, <1>4, <1>5, <1>6, <2>1
      DEF ProcInv, Forward, Serving, Halting, Spawning, Spawned, Unmapped, Busy
  <1> QED
    BY <1>7, <1>8

LEMMA ProcHalt ==
  ASSUME ProcInv, Pending \/ Rewrite \/ Halt
  PROVE  ProcInv'
  <1>1. TypeInv' /\ job.p \in Ports /\ job.pc \in {"pending", "rewrite", "halt"}
    BY ProcFacts, StepTypes DEF WorkStep, Pending, Rewrite, Halt, At, Working, Busy
  <1>2. IF job.back THEN Live = {} ELSE Live \subseteq job.pids
    BY <1>1 DEF ProcInv, Halting
  <1>3. CASE Pending \/ Rewrite
    <2>1. ~job.back /\ Live' = Live
      BY <1>3 DEF Pending, Rewrite, At, ProcInv, Forward, Live, Alive
    <2>2. job'.pc \in {"rewrite", "halt"} /\ ~job'.back /\ job'.pids = job.pids
      BY <1>3, <2>1, ProcFacts DEF Pending, Rewrite, Goto, Job
    <2> QED
      BY <1>1, <1>2, <2>1, <2>2
      DEF ProcInv, Forward, OneLives, Serving, Halting, Spawning, Spawned, Unmapped, Busy
  <1>4. CASE Halt
    <2>1. Live' = {}
      BY <1>2, <1>4, KillLive, ProcFacts DEF Halt
    <2>2. CASE job' = Failed
      BY <1>1, <2>1, <2>2, ProcNone, EndingsLeave, ProcFacts
    <2>3. CASE job' # Failed
      <3>1. \/ job' = [job EXCEPT !.pc = "spawn"] /\ Target # NoMapping
            \/ job' = [job EXCEPT !.pc = "forget"] /\ ~job.back
        BY <1>4, <2>3 DEF Halt
      <3>2. \/ job'.pc = "spawn" /\ Target' # NoMapping
            \/ job'.pc = "forget" /\ ~job'.back
        BY <3>1, ProcFacts DEF Job, Target
      <3> QED
        BY <1>1, <2>1, <3>2
        DEF ProcInv, Forward, OneLives, Serving, Halting, Spawning, Spawned, Unmapped, Busy
    <2> QED
      BY <2>2, <2>3
  <1> QED
    BY <1>3, <1>4

\* A process that has not come up leaves nobody alive.
LEMMA ProcUnwind ==
  ASSUME ProcInv, TypeInv', job.p \in Ports, Live' = {}, job' = Unwind
  PROVE  ProcInv'
  <1>1. CASE job' = Failed
    BY <1>1, ProcNone, EndingsLeave, ProcFacts
  <1>2. CASE job' # Failed
    <2>1. job' = [job EXCEPT !.back = TRUE, !.pc = "halt", !.pid = None]
      BY <1>2 DEF Unwind
    <2>2. job'.pc = "halt" /\ job'.back
      BY <2>1, ProcFacts DEF Job
    <2> QED
      BY <2>2 DEF ProcInv, Forward, OneLives, Serving, Halting, Spawning, Spawned, Unmapped, Busy
  <1> QED
    BY <1>1, <1>2

LEMMA ProcSpawn ==
  ASSUME ProcInv, Spawn
  PROVE  ProcInv'
  <1>1. TypeInv' /\ job.p \in Ports /\ Live = {} /\ Target # NoMapping /\ config' = Target
    BY ProcFacts, StepTypes DEF WorkStep, Spawn, At, Working, Busy, ProcInv, Spawning
  <1>2. CASE job' = Unwind /\ procs' = procs
    BY <1>1, <1>2, ProcUnwind DEF Live, Alive
  <1>3. ASSUME NEW pid \in Pids \ Live, procs' = [procs EXCEPT ![pid] = Target],
               job' = [job EXCEPT !.pc = "weed", !.pid = pid]
        PROVE  ProcInv'
    <2>1. Live' = {pid} /\ procs'[pid] = Target
      BY <1>1, <1>3, ProcFacts, NoneAssumption DEF Live, Alive
    <2>2. job'.pc = "weed" /\ job'.pid = pid /\ Target' = Target
      BY <1>3, ProcFacts DEF Job, Target
    <2> QED
      BY <1>1, <2>1, <2>2
      DEF ProcInv, Forward, OneLives, Serving, Halting, Spawning, Spawned, Unmapped, Busy
  <1> QED
    BY <1>2, <1>3 DEF Spawn

LEMMA ProcWeed ==
  ASSUME ProcInv, Weed
  PROVE  ProcInv'
  <1>1. /\ TypeInv' /\ job.p \in Ports /\ Live \subseteq {job.pid} /\ Target # NoMapping /\ config' = config
        /\ \A q \in Live : procs[q] = Target /\ config = Target
    BY ProcFacts, StepTypes DEF WorkStep, Weed, At, Working, Busy, ProcInv, Spawned
  <1>2. CASE ~Alive(job.pid)
    <2>1. Live = {} /\ Live' = Live
      BY <1>1, <1>2 DEF Weed, Live, Alive
    <2> QED
      BY <1>1, <1>2, <2>1, ProcUnwind DEF Weed
  <1>3. CASE Alive(job.pid)
    <2>1. PICK pids : Kill(pids) /\ job' = [job EXCEPT !.pc = "sync"]
      BY <1>3 DEF Weed, Goto
    <2>2. Live' \subseteq Live /\ \A q \in Live' : procs'[q] = procs[q]
      BY <2>1, KillLive, ProcFacts
    <2>3. job'.pc = "sync" /\ job'.pid = job.pid /\ Target' = Target
      BY <2>1, ProcFacts DEF Job, Target
    <2> QED
      BY <1>1, <2>2, <2>3
      DEF ProcInv, Forward, OneLives, Serving, Halting, Spawning, Spawned, Unmapped, Busy
  <1> QED
    BY <1>2, <1>3

\* No command is cut short, and what serves is noted in files and rows.
NoCrash == "crash" \notin Faults
NotedAll == "save" \notin Faults

\* What is noted then.
LEMMA Noted ==
  ASSUME NotedAll
  PROVE  /\ Sync => file' = [p \in Ports |-> IF Target[p] = None THEN file[p]
                                             ELSE [host |-> Target[p], pid |-> job.pid, fresh |-> TRUE]]
         /\ UpdatePids =>
              row' = [p \in Ports |-> IF p \in PortsOf(Target) \ (IF job.kind = "start" /\ ~job.back THEN {job.p} ELSE {})
                                         /\ row[p].live
                                      THEN [row[p] EXCEPT !.pid = job.pid] ELSE row[p]]
  BY DEF NotedAll, Sync, UpdatePids

LEMMA ProcSync ==
  ASSUME NotedAll, ProcInv, Sync
  PROVE  ProcInv'
  <1>1. /\ TypeInv' /\ job.p \in Ports /\ Live \subseteq {job.pid} /\ Target # NoMapping
        /\ \A q \in Live : procs[q] = Target /\ config = Target
    BY ProcFacts, StepTypes DEF WorkStep, Sync, At, Working, Busy, ProcInv, Spawned
  <1>2. Live' = Live /\ UNCHANGED <<config, procs>>
    BY DEF Sync, Live, Alive
  <1>3. job'.pc = "pids" /\ job'.pid = job.pid /\ Target' = Target
    BY ProcFacts DEF Sync, Goto, Job, Target
  <1>4. \A q \in Live' : Serves(q)'
    <2> SUFFICES ASSUME NEW q \in Live, NEW p \in Ports, procs[q][p] # None
                 PROVE  file'[p].pid = q /\ file'[p].host = procs[q][p]
      BY <1>1, <1>2 DEF Serves
    <2>1. Target[p] # None /\ q = job.pid /\ procs[q] = Target
      BY <1>1
    <2> QED
      BY <2>1, Noted
  <1>5. OneLives'
    BY <1>2 DEF ProcInv, OneLives
  <1> QED
    BY <1>1, <1>2, <1>3, <1>4, <1>5
    DEF ProcInv, Forward, Serving, Halting, Spawning, Spawned, Unmapped, Busy

LEMMA ProcPids ==
  ASSUME ProcInv, UpdatePids
  PROVE  ProcInv'
  <1>1. /\ TypeInv' /\ job.p \in Ports /\ job.pc = "pids" /\ Live \subseteq {job.pid}
        /\ (\A q \in Live : procs[q] = Target) /\ \A q \in Live : Serves(q)
    BY ProcFacts, StepTypes DEF WorkStep, UpdatePids, At, Working, Busy, ProcInv, Spawned, Serving
  <1>2. Live' = Live /\ UNCHANGED <<file, config, procs>>
    BY DEF UpdatePids, Live, Alive
  <1>3. \A q \in Live' : Serves(q)'
    BY <1>1, <1>2 DEF Serves
  <1>4. OneLives'
    BY <1>2 DEF ProcInv, OneLives
  <1>5. CASE job' = Failed
    BY <1>1, <1>3, <1>4, <1>5, EndingsLeave, ProcFacts
    DEF ProcInv, Forward, Serving, Halting, Spawning, Spawned, Unmapped, Busy
  <1>6. CASE job' # Failed
    <2>1. ~job.back /\ job' = [job EXCEPT !.pc = IF job.kind = "start" THEN "record" ELSE "forget"]
      BY <1>6 DEF UpdatePids
    <2>2. /\ job'.pc = IF job.kind = "start" THEN "record" ELSE "forget"
          /\ ~job'.back /\ job'.p = job.p
      BY <2>1, ProcFacts DEF Job
    <2>3. job'.pc = "forget" => \A q \in Live : procs[q][job.p] = None
      BY <1>1, <2>1, <2>2, ProcFacts DEF Placed, Busy, Target
    <2> QED
      BY <1>1, <1>2, <1>3, <1>4, <2>2, <2>3
      DEF ProcInv, Forward, Serving, Halting, Spawning, Spawned, Unmapped, Busy
  <1> QED
    BY <1>5, <1>6

LEMMA ProcForget ==
  ASSUME ProcInv, Forget
  PROVE  ProcInv'
  <1>1. /\ TypeInv' /\ job.p \in Ports /\ job.pc = "forget" /\ ~job.back
        /\ (\A q \in Live : procs[q][job.p] = None) /\ \A q \in Live : Serves(q)
    BY ProcFacts, StepTypes DEF WorkStep, Forget, At, Working, Busy, ProcInv, Forward, Unmapped, Serving
  <1>2. Live' = Live /\ UNCHANGED <<config, procs>>
    BY DEF Forget, Live, Alive
  <1>3. \A q \in Live' : Serves(q)'
    BY <1>1, <1>2 DEF Serves, Forget, Forgotten
  <1>4. OneLives'
    BY <1>2 DEF ProcInv, OneLives
  <1>5. job'.pc \notin Busy \cup {"plan", "forget"} /\ ~job'.back
    <2>1. CASE job' = Return
      BY <1>1, <2>1, EndingsLeave, ProcFacts
    <2>2. CASE job' # Return
      <3>1. job' = [job EXCEPT !.pc = "unrecord"]
        BY <2>2 DEF Forget
      <3> QED
        BY <1>1, <3>1, ProcFacts DEF Job, Busy
    <2> QED
      BY <2>1, <2>2
  <1> QED
    BY <1>1, <1>3, <1>4, <1>5 DEF ProcInv, Forward, Serving, Halting, Spawning, Spawned, Unmapped, Busy

LEMMA ProcWorld ==
  ASSUME ProcInv, World \/ UNCHANGED vars
  PROVE  ProcInv'
  <1>1. TypeInv'
    BY WorldTypes DEF ProcInv
  <1>2. ASSUME Live' = Live, UNCHANGED <<config, procs, job>>,
               \A p \in Ports : file'[p].host = file[p].host /\ file'[p].pid = file[p].pid
        PROVE  ProcInv'
    <2>1. Target' = Target /\ \A q \in Live : Serves(q) => Serves(q)'
      BY <1>2 DEF Target, Serves
    <2> QED
      BY <1>1, <1>2, <2>1 DEF ProcInv, Forward, OneLives, Serving, Halting, Spawning, Spawned, Unmapped
  <1>3. ASSUME NEW p \in Ports, ContainerExit(p) \/ GraceEnds(p) PROVE ProcInv'
    <2>1. UNCHANGED <<config, procs, job>> /\ Live' = Live
      BY <1>3 DEF ContainerExit, GraceEnds, Live, Alive
    <2>2. \A r \in Ports : file'[r].host = file[r].host /\ file'[r].pid = file[r].pid
      BY <1>3, ProcFacts DEF ContainerExit, GraceEnds, File
    <2> QED
      BY <1>2, <2>1, <2>2
  <1>4. CASE UNCHANGED vars
    <2>1. UNCHANGED <<file, config, procs, job>> /\ Live' = Live
      BY <1>4 DEF vars, Live, Alive
    <2> QED
      BY <1>2, <2>1
  <1>5. ASSUME NEW pid \in Pids, TunnelDies(pid) PROVE ProcInv'
    <2>1. /\ Live' = Live \ {pid} /\ (\A q \in Live' : procs'[q] = procs[q]) /\ config' = config
          /\ \A p \in Ports : /\ file'[p].host = file[p].host
                              /\ (file[p].pid # pid => file'[p].pid = file[p].pid)
      BY <1>5, KillLive, ProcFacts DEF TunnelDies
    <2>2. /\ job'.pc = job.pc /\ job'.p = job.p /\ job'.back = job.back /\ job'.kind = job.kind
          /\ job'.pids = job.pids /\ Target' = Target /\ (job.pid # pid => job'.pid = job.pid)
      BY <1>5, ProcFacts DEF TunnelDies, Scrubbed, Job, Target
    <2>3. \A q \in Live' : Serves(q) => Serves(q)'
      BY <2>1 DEF Serves
    <2>4. Forward' /\ OneLives' /\ Serving' /\ Halting' /\ Unmapped'
      BY <2>1, <2>2, <2>3 DEF ProcInv, Forward, OneLives, Serving, Halting, Unmapped
    <2>5. Spawning' /\ Spawned'
      <3>1. \A q \in Live' : q # pid
        BY <2>1
      <3> QED
        BY <2>1, <2>2, <3>1 DEF ProcInv, Spawning, Spawned
    <2> QED
      BY <1>1, <2>4, <2>5 DEF ProcInv
  <1> QED
    BY <1>3, <1>4, <1>5 DEF World

LEMMA ProcNext ==
  NoCrash /\ NotedAll /\ ProcInv /\ [Next]_vars => ProcInv'
  <1> SUFFICES ASSUME NoCrash, NotedAll, ProcInv, [Next]_vars PROVE ProcInv'
    OBVIOUS
  <1>1. ~Crash
    BY DEF NoCrash, Crash
  <1> QED
    BY <1>1, Steps, ProcBegin, ProcLookup, ProcPlan, ProcHalt, ProcSpawn, ProcWeed, ProcSync, ProcPids,
       ProcForget, ProcWorld DEF WorkStep

LEMMA ProcInit ==
  Init => ProcInv
  <1> SUFFICES ASSUME Init PROVE ProcInv
    OBVIOUS
  <1>1. Live = {}
    BY DEF Init, Live, Alive
  <1> QED
    BY <1>1, TypeInit, Shapes DEF Init, ProcInv, Forward, OneLives, Serving, Halting, Spawning, Spawned,
       Unmapped, Busy

(* One cloudflared process at a time, whatever processes die, do not start *)
(* or come back under an old id, and whatever is rolled back, as long as no *)
(* command is cut short and no note of a process is lost: one on no record *)
(* is not stopped, and the next command starts another one beside it.       *)
THEOREM AtMostOne == NoCrash /\ NotedAll => (Spec => []OneProcess)
  <1> SUFFICES ASSUME NoCrash, NotedAll PROVE Spec => []OneProcess
    OBVIOUS
  <1>1. ProcInv => OneProcess
    <2> SUFFICES ASSUME ProcInv PROVE OneProcess
      OBVIOUS
    <2>1. CASE Live = {}
      BY <2>1, FS_EmptySet DEF OneProcess
    <2>2. CASE Live # {}
      <3>1. PICK q \in Live : TRUE
        BY <2>2
      <3>2. Live = {q}
        BY <3>1 DEF ProcInv, OneLives
      <3>3. Cardinality(Live) = 1
        BY <3>2, FS_Singleton
      <3> QED
        BY <3>3 DEF OneProcess
    <2> QED
      BY <2>1, <2>2
  <1>2. ProcInv /\ [Next]_vars => ProcInv'
    BY ProcNext
  <1> QED
    BY <1>1, <1>2, ProcInit, PTL DEF Spec

-----------------------------------------------------------------------------
(* Hostnames.  The mappings are collected from rows and from the state     *)
(* files of running challenges without a row (Waits): such a file must not *)
(* have the hostname of a row that is live, of another such file or of the *)
(* file of a live process (Fine).                                          *)

Inj(m) == \A p, q \in Ports : m[p] = m[q] /\ m[p] # None => p = q

\* A start of its own is at work; a daemon cycle will come to it.
Starting(s) == job.p = s /\ job.kind = "start"
Healing(s) == job.phase \in {"test", "heal"} /\ (job.phase = "heal" => s \in job.todo)
Bare(s) == s \in up /\ ~row[s].live /\ ~Starting(s)
Waits(s) == Bare(s) /\ ~Healing(s)

Fine(s) ==
    \A t \in Ports \ {s} :
        /\ row[t].live => file[s].host # row[t].host
        /\ Bare(t) /\ file[s].host # None => file[t].host # file[s].host
        /\ job.pc \notin Busy /\ Alive(file[t].pid) /\ ~(job.pc = "forget" /\ t = job.p) =>
             file[t].host # file[s].host

WaitsFine == \A s \in Ports : Waits(s) => Fine(s)

\* No live process serves its hostname, and none is about to.
Exposed(r) ==
    /\ row[r].live /\ \A q \in Live : procs[q][r] # row[r].host
    /\ ~(job.p = r /\ job.pc \in {"record", "forget", "unrecord"})
ExposedSafe ==
    job.pc \notin Busy =>
        \A r, s \in Ports : r # s /\ Exposed(r) /\ Alive(file[s].pid) => file[s].host # row[r].host

RowsApart ==
    \A r \in Ports : row[r].live =>
        /\ row[r].host # None /\ r \in up
        /\ \A s \in Ports \ {r} : row[s].live => row[s].host # row[r].host
FilesNamed == \A p \in Ports : file[p].pid # None => file[p].host # None
OneToOne == \A q \in Live : Inj(procs[q])
OwnHosts == \A q \in Live : \A r \in Ports : row[r].live => \A s \in Ports \ {r} : procs[q][s] # row[r].host

\* Where a cycle stands; whom it starts and stops has no live row.
Phases ==
    /\ job.pc \in {"free", "orphans", "test", "heal"} => job.phase = job.pc
    /\ job.pc = "reconcile" => job.phase = "free"
HealsDown == job.kind = "start" /\ job.phase # "free" /\ job.p \in Ports => ~row[job.p].live
Orphaned ==
    job.phase = "orphans" =>
        /\ job.p \in Ports => job.kind = "stop" /\ ~row[job.p].live
        /\ \A s \in job.todo : ~row[s].live
Turns == Phases /\ HealsDown /\ Orphaned

Clear == job.pc \in {"plan", "unrecord"} \/ (job.pc = "pending" /\ job.kind = "start") => file[job.p].host = None

\* What a start has found or planned is its own.
Recording ==
    job.pc = "record" =>
        /\ job.host # None
        /\ \A q \in Live : procs[q][job.p] = job.host
        /\ \A r \in Ports \ {job.p} : row[r].live => row[r].host # job.host
        /\ \A s \in Ports : Waits(s) => file[s].host # job.host

\* The mappings that were collected, as long as they are used.
Mapped(prev) ==
    /\ \A r \in Ports : row[r].live =>
         /\ ~Starting(r) => prev[r] = row[r].host
         /\ \A s \in Ports \ {r} : prev[s] # row[r].host
    /\ Inj(prev)
    /\ \A s \in Ports :
         /\ Waits(s) => prev[s] = file[s].host
         /\ Bare(s) /\ prev[s] # None => prev[s] = file[s].host
         /\ ~Starting(s) /\ prev[s] = None => file[s].host \in HostsOf(prev) \cup {None}
    /\ \A s, t \in Ports :
         Waits(s) /\ t # s /\ ~Starting(t) /\ prev[t] = None /\ file[t].host # None => file[t].host # file[s].host

Planned ==
    job.pc \in Busy =>
        /\ Mapped(job.prev)
        /\ \A s \in Ports \ {job.p} : job.new[s] = job.prev[s]
        /\ job.kind = "start" =>
             /\ job.prev[job.p] = None /\ job.host \notin HostsOf(job.prev)
             /\ job.pc # "pending" => file[job.p].host = job.host
             /\ job.pc # "pids" \/ job.back => file[job.p].pid = None

HostInv == /\ ProcInv /\ RowsApart /\ FilesNamed /\ OneToOne /\ OwnHosts /\ WaitsFine /\ ExposedSafe
           /\ Turns /\ Clear /\ Recording /\ Planned


\* What most steps do: live rows, pids of files and processes go, none comes.
Fades ==
    /\ \A p \in Ports : row'[p].live => row[p].live /\ row'[p].host = row[p].host /\ p \in up'
    /\ \A p \in Ports : file'[p].pid # None => file'[p].pid = file[p].pid /\ file'[p].host = file[p].host
    /\ Live' = {} \/ Live' = Live
    /\ \A q \in Live' : procs'[q] = procs[q]

\* A file that comes to wait is fine, and so are the others beside it.
WaitsOn ==
    \A s \in Ports :
        /\ Bare(s) /\ Bare(s)' => file'[s].host \in {file[s].host, None}
        /\ Waits(s)' => Waits(s) \/ Fine(s)'
        /\ Bare(s)' => Bare(s) \/ \A t \in Ports \ {s} :
                                    Waits(t)' /\ file'[t].host # None => file'[s].host # file'[t].host

\* No process, or the same before and after a step outside of Busy.
Settled ==
    \/ job'.pc \in Busy
    \/ Live' = {}
    \/ /\ job.pc \notin Busy
       /\ job.pc = "forget" => (job'.pc = "forget" /\ job'.p = job.p) \/ file'[job.p].pid = None
       /\ job.pc \in {"record", "forget", "unrecord"} =>
            (job'.pc \in {"record", "forget", "unrecord"} /\ job'.p = job.p) \/ ~row'[job.p].live

LEMMA HostFacts ==
  ASSUME HostInv
  PROVE  /\ ProcInv /\ TypeInv /\ TypeOK /\ job \in Job /\ procs \in [Pids -> Mapping] /\ file \in [Ports -> File]
         /\ row \in [Ports -> Row] /\ up \subseteq Ports /\ config \in Mapping
         /\ (job.pc \in Working => job.p \in Ports) /\ (job.pc \notin Working => job.p = None) /\ Placed(job)
         /\ Live \subseteq Pids /\ RowsApart /\ FilesNamed /\ OneToOne /\ OwnHosts
  BY ProcFacts DEF HostInv, TypeInv, TypeOK, Placed

LEMMA FadesKeep ==
  ASSUME HostInv, Fades
  PROVE  RowsApart' /\ FilesNamed' /\ OneToOne' /\ OwnHosts'
  <1>1. RowsApart'
    BY DEF HostInv, Fades, RowsApart
  <1>2. FilesNamed'
    BY DEF HostInv, Fades, FilesNamed
  <1>3. OneToOne'
    BY DEF HostInv, Fades, OneToOne, Inj
  <1>4. OwnHosts'
    BY DEF HostInv, Fades, OwnHosts
  <1> QED
    BY <1>1, <1>2, <1>3, <1>4

\* A file with no hostname is in nobody's way.
LEMMA FineNone ==
  ASSUME RowsApart', FilesNamed', NEW s \in Ports, file'[s].host = None
  PROVE  Fine(s)'
  BY DEF Fine, RowsApart, FilesNamed, Alive

\* A file that goes on waiting stays fine, as far as live processes let it.
LEMMA WaitsStay ==
  ASSUME HostInv, Fades, WaitsOn,
         \A s, t \in Ports : /\ Waits(s) /\ Waits(s)' /\ t # s /\ job'.pc \notin Busy /\ Alive(file[t].pid)'
                            /\ ~(job'.pc = "forget" /\ t = job'.p)
                            => file'[t].host # file'[s].host
  PROVE  WaitsFine'
  <1>1. RowsApart /\ WaitsFine
    BY DEF HostInv
  <1> SUFFICES ASSUME NEW s \in Ports, Waits(s)', Waits(s) PROVE Fine(s)'
    BY DEF WaitsOn, WaitsFine
  <1>2. Fine(s) /\ file'[s].host \in {file[s].host, None}
    BY <1>1 DEF WaitsFine, Waits, WaitsOn
  <1>3. ASSUME NEW t \in Ports \ {s}, row'[t].live PROVE file'[s].host # row'[t].host
    BY <1>1, <1>2, <1>3 DEF Fine, Fades, RowsApart
  <1>4. ASSUME NEW t \in Ports \ {s}, Bare(t)', file'[s].host # None PROVE file'[t].host # file'[s].host
    <2>1. CASE Bare(t)
      <3>1. file'[t].host \in {file[t].host, None} /\ file'[s].host = file[s].host /\ file[t].host # file[s].host
        BY <1>2, <1>4, <2>1 DEF WaitsOn, Fine
      <3> QED
        BY <1>4, <3>1
    <2>2. CASE ~Bare(t)
      BY <1>4, <2>2 DEF WaitsOn
    <2> QED
      BY <2>1, <2>2
  <1> QED
    BY <1>3, <1>4 DEF Fine

LEMMA WaitsKeep ==
  ASSUME HostInv, Fades, WaitsOn, Settled
  PROVE  WaitsFine' /\ ExposedSafe'
  <1>1. RowsApart /\ FilesNamed /\ WaitsFine /\ ExposedSafe
    BY DEF HostInv
  <1>2. \A p \in Ports : Alive(file[p].pid)' =>
          /\ Live' = Live /\ Live' # {} /\ Alive(file[p].pid) /\ file'[p].host = file[p].host /\ file[p].host # None
    <2> SUFFICES ASSUME NEW p \in Ports, Alive(file[p].pid)'
                 PROVE  /\ Live' = Live /\ Live' # {} /\ Alive(file[p].pid)
                        /\ file'[p].host = file[p].host /\ file[p].host # None
      OBVIOUS
    <2>1. file'[p].pid # None
      BY DEF Alive
    <2> QED
      BY <1>1, <2>1, HostFacts DEF Fades, Alive, Live, FilesNamed, File
  <1>3. WaitsFine'
    <2>1. ASSUME NEW s \in Ports, NEW t \in Ports, Waits(s), Waits(s)', t # s, job'.pc \notin Busy,
                 Alive(file[t].pid)', ~(job'.pc = "forget" /\ t = job'.p)
          PROVE  file'[t].host # file'[s].host
      <3>1. Live' # {} /\ Alive(file[t].pid) /\ file'[t].host = file[t].host /\ file[t].host # None /\ file'[t].pid # None
        BY <1>2, <2>1 DEF Alive
      <3>2. job.pc \notin Busy /\ ~(job.pc = "forget" /\ t = job.p)
        BY <2>1, <3>1 DEF Settled
      <3>3. Fine(s) /\ file'[s].host \in {file[s].host, None}
        BY <1>1, <2>1 DEF WaitsFine, Waits, WaitsOn
      <3>4. file[t].host # file[s].host
        BY <2>1, <3>1, <3>2, <3>3 DEF Fine
      <3> QED
        BY <3>1, <3>3, <3>4
    <2> QED
      BY <2>1, WaitsStay
  <1>4. ExposedSafe'
    <2> SUFFICES ASSUME job'.pc \notin Busy, NEW r \in Ports, NEW s \in Ports, r # s, Exposed(r)', Alive(file[s].pid)'
                 PROVE  file'[s].host # row'[r].host
      BY DEF ExposedSafe
    <2>1. Live' = Live /\ Live' # {} /\ Alive(file[s].pid) /\ file'[s].host = file[s].host
      BY <1>2
    <2>2. row'[r].live /\ row[r].live /\ row'[r].host = row[r].host
      BY DEF Exposed, Fades
    <2>3. Exposed(r) /\ job.pc \notin Busy
      BY <2>1, <2>2 DEF Exposed, Settled, Fades
    <2> QED
      BY <1>1, <2>1, <2>2, <2>3 DEF ExposedSafe
  <1> QED
    BY <1>3, <1>4

\* Whom a command starts, and whom a cycle will come to, before and after.
LEMMA StageSame ==
  ASSUME job'.p = job.p, job'.kind = job.kind, job'.phase = job.phase, job'.todo = job.todo
  PROVE  \A s : (Starting(s)' <=> Starting(s)) /\ (Healing(s)' <=> Healing(s))
  BY DEF Starting, Healing

LEMMA StageEnd ==
  ASSUME TypeInv, job' \in {Return, Failed}, job.p \in Ports
  PROVE  \A s \in Ports : ~Starting(s)' /\ (Healing(s)' <=> Healing(s))
  <1>1. /\ job'.phase = job.phase /\ (job'.phase # "free" => job'.todo = job.todo)
        /\ (job'.kind = "start" => job'.p = None)
    <2>1. job' = Return \/ job' = Failed
      OBVIOUS
    <2> QED
      BY <2>1, Endings
  <1> QED
    BY <1>1, NoneAssumption DEF Starting, Healing

\* What a new process is given suits every row.
LEMMA TargetFits ==
  ASSUME HostInv, job.pc \in Busy
  PROVE  /\ Inj(Target)
         /\ \A r \in Ports : row[r].live =>
              /\ \A s \in Ports \ {r} : Target[s] # row[r].host
              /\ r # job.p => Target[r] = row[r].host
         /\ \A s \in Ports : ~Starting(s) =>
              Target[s] = IF job.kind = "stop" /\ ~job.back /\ s = job.p THEN None ELSE job.prev[s]
  <1>1. /\ Mapped(job.prev) /\ job.p \in Ports /\ job.kind \in {"start", "stop"}
        /\ (\A s \in Ports \ {job.p} : job.new[s] = job.prev[s]) /\ RowsApart
        /\ (job.kind = "start" => job.new[job.p] = job.host /\ job.host # None /\ job.host \notin HostsOf(job.prev))
        /\ (job.kind = "stop" => job.new[job.p] = None)
    BY HostFacts DEF HostInv, Planned, Placed, Working, Job
  <1>2. Inj(job.prev) /\ \A s \in Ports : job.prev[s] # None => job.prev[s] \in HostsOf(job.prev)
    BY <1>1 DEF Mapped, HostsOf
  <1>3. Inj(Target)
    <2>1. Inj(job.new)
      <3> SUFFICES ASSUME NEW s \in Ports, NEW t \in Ports, job.new[s] = job.new[t], job.new[s] # None, s # t
                   PROVE  FALSE
        BY DEF Inj
      <3>1. CASE s # job.p /\ t # job.p
        BY <1>1, <1>2, <3>1 DEF Inj
      <3>2. CASE s = job.p
        BY <1>1, <1>2, <3>2
      <3>3. CASE t = job.p
        BY <1>1, <1>2, <3>3
      <3> QED
        BY <3>1, <3>2, <3>3
    <2> QED
      BY <1>2, <2>1 DEF Target
  <1>4. ASSUME NEW r \in Ports, row[r].live, NEW s \in Ports \ {r} PROVE Target[s] # row[r].host
    <2>1. job.prev[s] # row[r].host /\ row[r].host # None /\ (~Starting(r) => job.prev[r] = row[r].host)
      BY <1>1, <1>4 DEF Mapped, RowsApart
    <2>2. job.new[s] # row[r].host
      <3>1. CASE s # job.p
        BY <1>1, <2>1, <3>1
      <3>2. CASE s = job.p
        BY <1>1, <1>2, <2>1, <3>2 DEF Starting
      <3> QED
        BY <3>1, <3>2
    <2> QED
      BY <2>1, <2>2 DEF Target
  <1>5. ASSUME NEW r \in Ports, row[r].live, r # job.p PROVE Target[r] = row[r].host
    BY <1>1, <1>5 DEF Mapped, Starting, Target
  <1>6. ASSUME NEW s \in Ports, ~Starting(s)
        PROVE  Target[s] = IF job.kind = "stop" /\ ~job.back /\ s = job.p THEN None ELSE job.prev[s]
    BY <1>1, <1>6 DEF Starting, Target
  <1> QED
    BY <1>3, <1>4, <1>5, <1>6

LEMMA HostQuiet ==
  ASSUME HostInv, ProcInv', Fades, WaitsOn, Settled, Turns', job'.pc \notin Busy \cup {"plan", "unrecord", "record"}
  PROVE  HostInv'
  <1>1. Clear' /\ Recording' /\ Planned'
    BY DEF Clear, Recording, Planned, Busy
  <1> QED
    BY <1>1, FadesKeep, WaitsKeep DEF HostInv

LEMMA TurnsEnd ==
  ASSUME HostInv, job' \in {Return, Failed}, job.p \in Ports,
         \A p \in Ports : row'[p].live /\ job.phase = "orphans" => row[p].live
  PROVE  Turns'
  <1>1. /\ job'.phase = job.phase /\ (job'.phase # "free" => job'.todo = job.todo)
        /\ (job'.kind = "start" => job'.p = None) /\ (job'.kind = "stop" => job'.phase = "free" /\ job'.pc = "collect")
        /\ job'.kind \in {"start", "stop"}
    <2>1. job' = Return \/ job' = Failed
      OBVIOUS
    <2> QED
      BY <2>1, Endings, HostFacts
  <1>2. job'.pc # "reconcile" /\ (job'.pc # "collect" => job'.pc = job'.phase)
    <2>1. Return.pc = Return.phase /\ Return.pc # "reconcile"
      BY HostFacts, Shapes DEF Return, Job
    <2>2. job' = Return \/ job'.kind = "stop"
      <3>1. job' = Return \/ job' = Stop([Idle EXCEPT !.op = "down", !.again = TRUE], job.p)
        BY DEF Failed
      <3>2. Stop([Idle EXCEPT !.op = "down", !.again = TRUE], job.p).kind = "stop"
        BY Shapes DEF Stop, Job
      <3> QED
        BY <3>1, <3>2
    <2> QED
      BY <1>1, <2>1, <2>2
  <1>3. Phases' /\ HealsDown'
    BY <1>1, <1>2, NoneAssumption DEF Phases, HealsDown
  <1>4. Orphaned'
    <2>1. Orphaned /\ job.todo \subseteq Ports
      BY HostFacts DEF HostInv, Turns, Job
    <2> QED
      BY <1>1, <2>1, NoneAssumption DEF Orphaned
  <1> QED
    BY <1>3, <1>4 DEF Turns

LEMMA TurnsSame ==
  ASSUME HostInv, job'.p = job.p, job'.kind = job.kind, job'.phase = job.phase, job'.todo = job.todo,
         job'.pc = job.pc \/ job'.pc \in Working, \A p \in Ports : row'[p].live => row[p].live
  PROVE  Turns'
  <1>1. Turns /\ job.todo \subseteq Ports
    BY HostFacts DEF HostInv, Job
  <1>2. Phases'
    BY <1>1 DEF Turns, Phases, Working, Busy
  <1>3. HealsDown' /\ Orphaned'
    BY <1>1 DEF Turns, HealsDown, Orphaned
  <1> QED
    BY <1>2, <1>3 DEF Turns

LEMMA HostBegin ==
  ASSUME HostInv, Request
  PROVE  HostInv'
  <1>1. ProcInv' /\ job.pc = "free" /\ job.p = None /\ job.phase = "free"
    BY HostFacts, ProcBegin DEF Request, BeginUp, BeginDown, BeginUnexport, BeginCycle, Begin, At, Working, Busy,
       HostInv, Turns, Phases
  <1>2. UNCHANGED <<file, procs>> /\ Live' = Live
    BY DEF Request, BeginUp, BeginDown, BeginUnexport, BeginCycle, Live, Alive
  <1>3. /\ job'.phase = "free" /\ job'.pc \in {"lookup", "collect", "free", "reconcile"}
        /\ \/ \E p \in Ports : BeginUp(p) /\ job'.p = p /\ job'.kind = "start" /\ job'.pc = "lookup"
           \/ (~\E p \in Ports : BeginUp(p)) /\ (job'.kind = "start" => job'.p = None)
    <2>1. ASSUME NEW p \in Ports, BeginUp(p)
          PROVE  job'.phase = "free" /\ job'.pc = "lookup" /\ job'.p = p /\ job'.kind = "start"
      BY <2>1, Shapes DEF BeginUp, Start, Job
    <2>2. ASSUME NEW p \in Ports, BeginDown(p) \/ BeginUnexport(p)
          PROVE  job'.phase = "free" /\ job'.pc \in {"free", "collect"} /\ (job'.kind = "start" => job'.p = None)
      <3>1. PICK op : job' = Idle \/ job' = Stop([Idle EXCEPT !.op = op], p)
        BY <2>2 DEF BeginDown, BeginUnexport
      <3>2. CASE job' = Idle
        BY <3>2, Shapes
      <3>3. CASE job' = Stop([Idle EXCEPT !.op = op], p)
        BY <3>3, Shapes DEF Stop, Job
      <3> QED
        BY <3>1, <3>2, <3>3
    <2>3. BeginCycle => job'.phase = "free" /\ job'.pc = "reconcile" /\ job'.p = None
      BY Shapes DEF BeginCycle, Job
    <2> QED
      BY <2>1, <2>2, <2>3 DEF Request
  <1>4. /\ \A s \in Ports : row'[s].live => row[s].live /\ row'[s].host = row[s].host /\ s \in up'
        /\ \A s \in Ports : s \in up' /\ ~row'[s].live => Starting(s)' \/ (s \in up /\ ~row[s].live)
    <2>1. \A s \in Ports : row[s].live => s \in up
      BY DEF HostInv, RowsApart
    <2>2. ASSUME NEW p \in Ports, BeginUp(p)
          PROVE  \A s \in Ports : /\ row'[s].live => row[s].live /\ row'[s].host = row[s].host /\ s \in up'
                                  /\ s \in up' /\ ~row'[s].live => s = p \/ (s \in up /\ ~row[s].live)
      BY <2>1, <2>2 DEF BeginUp
    <2>3. ASSUME NEW p \in Ports, BeginDown(p)
          PROVE  \A s \in Ports : /\ row'[s].live => row[s].live /\ row'[s].host = row[s].host /\ s \in up'
                                  /\ s \in up' /\ ~row'[s].live => s \in up /\ ~row[s].live
      BY <2>1, <2>3, HostFacts DEF BeginDown, Row
    <2>4. (\E p \in Ports : BeginUnexport(p)) \/ BeginCycle => UNCHANGED <<up, row>>
      BY DEF BeginUnexport, BeginCycle
    <2>5. ASSUME NEW p \in Ports, BeginUp(p) PROVE Starting(p)'
      BY <2>5, Shapes DEF BeginUp, Start, Job, Starting
    <2> QED
      BY <2>1, <2>2, <2>3, <2>4, <2>5 DEF Request
  <1>5. \A s \in Ports : ~Starting(s) /\ ~Healing(s) /\ ~Healing(s)'
    BY <1>1, <1>3, NoneAssumption DEF Starting, Healing
  <1>6. Fades
    BY <1>2, <1>4 DEF Fades
  <1>7. WaitsOn
    <2>1. \A s \in Ports : (Bare(s)' => Bare(s)) /\ (Waits(s)' => Waits(s))
      BY <1>4, <1>5 DEF Bare, Waits
    <2> QED
      BY <1>2, <2>1 DEF WaitsOn
  <1>8. Turns'
    BY <1>3 DEF Turns, Phases, HealsDown, Orphaned
  <1>9. Settled
    BY <1>1 DEF Settled, Busy
  <1> QED
    BY <1>1, <1>3, <1>6, <1>7, <1>8, <1>9, HostQuiet DEF Busy

\* Every running challenge is healed in every cycle.
AllHealed == AutoHeal /\ Enabled = Ports

LEMMA HealableAll ==
  ASSUME AllHealed, up \subseteq Ports, NEW heal \in Healable
  PROVE  heal = up
  BY DEF AllHealed, Healable

LEMMA HostCycle ==
  ASSUME AllHealed, HostInv, CycleStep
  PROVE  HostInv'
  <1>1. /\ ProcInv' /\ job.pc \in {"reconcile", "orphans", "test", "heal"} /\ job.p = None
        /\ UNCHANGED <<up, file, procs>> /\ Live' = Live /\ Turns /\ job.todo \subseteq Ports
        /\ \A s \in Ports : row[s].live => s \in up
    <2>1. job.pc \in {"reconcile", "orphans", "test", "heal"}
      BY DEF CycleStep, Reconcile, Orphan, OrphansDone, Test, Tested, Heal, CycleEnd, At
    <2>2. job.p = None /\ job.todo \subseteq Ports
      BY <2>1, HostFacts DEF Working, Busy, Job
    <2>3. UNCHANGED <<up, file, procs>> /\ Live' = Live
      BY DEF CycleStep, Reconcile, Orphan, OrphansDone, Test, Tested, Heal, CycleEnd, Live, Alive
    <2> QED
      BY <2>1, <2>2, <2>3, HostFacts, ProcBegin DEF HostInv, RowsApart
  <1>2. \A s \in Ports : ~Starting(s)
    BY <1>1, NoneAssumption DEF Starting
  <1>3. (job.pc \in {"orphans", "test", "heal"} => job.phase = job.pc) /\ (job.pc = "reconcile" => job.phase = "free")
    BY <1>1 DEF Turns, Phases
  <1>4. ASSUME row' = row, Turns', job'.pc \notin Busy \cup {"plan", "unrecord", "record"},
               \A s \in Ports : s \in up /\ ~row[s].live /\ Healing(s) => Healing(s)' \/ Starting(s)'
        PROVE  HostInv'
    <2>1. Fades
      BY <1>1, <1>4 DEF Fades
    <2>2. WaitsOn
      <3>1. \A s \in Ports : (Bare(s)' => Bare(s)) /\ (Waits(s)' => Waits(s))
        BY <1>1, <1>2, <1>4 DEF Bare, Waits
      <3> QED
        BY <1>1, <3>1 DEF WaitsOn
    <2>3. Settled
      BY <1>1 DEF Settled, Busy
    <2> QED
      BY <1>1, <1>4, <2>1, <2>2, <2>3, HostQuiet
  <1>5. CASE Reconcile
    <2>1. /\ job.phase = "free" /\ job'.phase = "orphans" /\ job'.pc = "orphans" /\ job'.p = None /\ row' = row
          /\ \A s \in job'.todo : ~row[s].live
      BY <1>1, <1>3, <1>5, HostFacts DEF Reconcile, At, Job
    <2>2. Turns'
      BY <2>1, NoneAssumption DEF Turns, Phases, HealsDown, Orphaned
    <2> QED
      BY <1>4, <2>1, <2>2 DEF Healing, Busy
  <1>6. ASSUME NEW p \in job.todo, Orphan(p) PROVE HostInv'
    <2>1. job.phase = "orphans" /\ p \in Ports /\ row' = row /\ ~row[p].live /\ \A s \in job.todo : ~row[s].live
      BY <1>1, <1>3, <1>6 DEF Orphan, At, Turns, Orphaned
    <2>2. /\ job'.phase = "orphans" /\ job'.pc = "collect" /\ job'.p = p /\ job'.kind = "stop"
          /\ job'.todo = job.todo \ {p}
      BY <1>6, <2>1, HostFacts DEF Orphan, Stop, Job
    <2>3. Turns'
      BY <2>1, <2>2 DEF Turns, Phases, HealsDown, Orphaned
    <2> QED
      BY <1>4, <2>1, <2>2, <2>3 DEF Healing, Busy
  <1>7. ASSUME NEW p \in job.todo, Test(p) PROVE HostInv'
    <2>1. job.phase = "test" /\ row' = row
      BY <1>3, <1>7 DEF Test, At
    <2>2. PICK j : j = [job EXCEPT !.todo = @ \ {p}] /\ (job' = j \/ job' = Stop(j, p))
      BY <1>7 DEF Test
    <2>3. j \in Job /\ j.phase = "test" /\ j.pc = "test" /\ j.p = None
      BY <1>1, <1>7, <2>1, <2>2, HostFacts DEF Job, Test, At
    <2>4. job'.phase = "test" /\ ((job'.pc = "test" /\ job'.p = None) \/ (job'.pc = "collect" /\ job'.kind = "stop"))
      <3>1. CASE job' = j
        BY <2>3, <3>1
      <3>2. CASE job' = Stop(j, p)
        BY <2>3, <3>2 DEF Stop, Job
      <3> QED
        BY <2>2, <3>1, <3>2
    <2>5. Turns'
      BY <2>4, NoneAssumption DEF Turns, Phases, HealsDown, Orphaned
    <2> QED
      BY <1>4, <2>1, <2>4, <2>5 DEF Healing, Busy
  <1>8. CASE Tested
    <2>1. job'.phase = "heal" /\ job'.pc = "heal" /\ job'.p = None /\ job'.todo = up /\ row' = row
      <3>1. PICK heal \in Healable : job' = [job EXCEPT !.pc = "heal", !.phase = "heal", !.todo = heal] /\ row' = row
        BY <1>8 DEF Tested
      <3> QED
        BY <1>1, <3>1, HealableAll, HostFacts DEF Job
    <2>2. Turns'
      BY <2>1, NoneAssumption DEF Turns, Phases, HealsDown, Orphaned
    <2> QED
      BY <1>4, <2>1, <2>2 DEF Healing, Busy
  <1>9. ASSUME NEW p \in job.todo, Heal(p) PROVE HostInv'
    <2>1. job.phase = "heal" /\ row' = row /\ p \in Ports
      BY <1>1, <1>3, <1>9 DEF Heal, At
    <2>2. PICK j : /\ j = [job EXCEPT !.todo = @ \ {p}]
                   /\ \/ job' = j /\ ~(p \in up /\ ~row[p].live)
                      \/ job' = Start(j, p) /\ ~row[p].live
      BY <1>9 DEF Heal
    <2>3. j \in Job /\ j.phase = "heal" /\ j.pc = "heal" /\ j.p = None /\ j.todo = job.todo \ {p}
      BY <1>1, <1>9, <2>1, <2>2, HostFacts DEF Job, Heal, At
    <2>4. /\ job'.phase = "heal" /\ job'.todo = job.todo \ {p}
          /\ \/ job'.pc = "heal" /\ job'.p = None /\ ~(p \in up /\ ~row[p].live)
             \/ job'.pc = "lookup" /\ job'.kind = "start" /\ job'.p = p /\ ~row[p].live
      <3>1. CASE job' = j
        BY <2>2, <2>3, <3>1 DEF Start, Job
      <3>2. CASE job' = Start(j, p) /\ ~row[p].live
        BY <2>3, <3>2 DEF Start, Job
      <3> QED
        BY <2>2, <3>1, <3>2
    <2>5. Turns'
      BY <2>1, <2>4, NoneAssumption DEF Turns, Phases, HealsDown, Orphaned
    <2> QED
      BY <1>4, <2>1, <2>4, <2>5 DEF Healing, Starting, Busy
  <1>10. CASE CycleEnd
    <2>1. job' = Idle /\ row' = row /\ job.todo = {} /\ job.phase = "heal"
      BY <1>3, <1>10 DEF CycleEnd, At
    <2>2. Turns' /\ job'.pc = "free"
      BY <2>1, Shapes, NoneAssumption DEF Turns, Phases, HealsDown, Orphaned
    <2> QED
      BY <1>4, <2>1, <2>2 DEF Healing, Busy
  <1>11. ASSUME NEW phase \in {"test", "heal"}, OrphansDone(phase) PROVE HostInv'
    <2>1. PICK todo \in SUBSET Ports :
            /\ job' = [Idle EXCEPT !.op = "cycle", !.pc = phase, !.phase = phase, !.todo = todo]
            /\ phase = "heal" => todo = up
      <3>1. PICK todo \in IF phase = "test" THEN {{p \in Ports : row'[p].host # None}} ELSE Healable :
              job' = [Idle EXCEPT !.op = "cycle", !.pc = phase, !.phase = phase, !.todo = todo]
        BY <1>11 DEF OrphansDone
      <3>2. todo \in SUBSET Ports /\ (phase = "heal" => todo = up)
        BY <3>1, HealableAll, HostFacts
      <3> QED
        BY <3>1, <3>2
    <2>2. job'.phase = phase /\ job'.pc = phase /\ job'.p = None /\ (phase = "heal" => job'.todo = up)
      BY <2>1, Shapes DEF Job
    <2>3. \A s \in Ports : row'[s] = row[s] \/ row'[s] = NoRow
      BY <1>11 DEF OrphansDone
    <2>4. Fades
      BY <1>1, <2>3 DEF Fades, NoRow
    <2>5. WaitsOn
      <3>1. \A s \in Ports : ~Waits(s)'
        BY <1>1, <2>2 DEF Waits, Bare, Healing
      <3> QED
        BY <1>1, <3>1 DEF WaitsOn
    <2>6. Turns'
      BY <2>2, NoneAssumption DEF Turns, Phases, HealsDown, Orphaned
    <2>7. Settled
      BY <1>1 DEF Settled, Busy
    <2> QED
      BY <1>1, <2>2, <2>4, <2>5, <2>6, <2>7, HostQuiet DEF Busy
  <1> QED
    BY <1>5, <1>6, <1>7, <1>8, <1>9, <1>10, <1>11 DEF CycleStep

\* What is collected when rows have hostnames of their own: all live rows, the
\* files that are valid and have a hostname nobody else has.
LEMMA CollectedFacts ==
  ASSUME HostInv, NEW S \in SUBSET Ports, NEW c \in Collected(S)
  PROVE  /\ \A p \in Ports : p \notin S => c.map[p] = None
         /\ \A p \in S : row[p].live => c.map[p] = row[p].host
         /\ \A p \in Ports : ~row[p].live /\ c.map[p] # None =>
              c.map[p] = file[p].host /\ p \in S /\ p \notin c.stale /\ (Alive(file[p].pid) \/ p \in up)
         /\ Inj(c.map)
         /\ \A p \in c.stale : p \in S /\ ~row[p].live /\ ~Alive(file[p].pid) /\ p \notin up
         /\ \A p \in S \ c.stale : ~row[p].live /\ file[p].host # None =>
              /\ file[p].host \in HostsOf(c.map)
              /\ (\E r \in S : row[r].live /\ row[r].host = file[p].host) \/ Alive(file[p].pid) \/ p \in up
  <1>1. PICK R \in Chosen(RowsOf(S), RowHost) : \E F \in Chosen(ValidOf(S, R), FileHost) :
           /\ c.map = [p \in Ports |-> IF p \in R THEN row[p].host ELSE IF p \in F THEN file[p].host ELSE None]
           /\ c.stale = FilesOf(S, R) \ ValidOf(S, R)
    BY CollectedFrom
  <1>2. PICK F \in Chosen(ValidOf(S, R), FileHost) :
           /\ c.map = [p \in Ports |-> IF p \in R THEN row[p].host ELSE IF p \in F THEN file[p].host ELSE None]
           /\ c.stale = FilesOf(S, R) \ ValidOf(S, R)
    BY <1>1
  <1>3. R = {p \in S : row[p].live}
    <2>1. R \subseteq RowsOf(S) /\ \A p \in RowsOf(S) : \E q \in R : row[p].host = row[q].host
      BY DEF Chosen, RowsOf, RowHost
    <2>2. RowsOf(S) = {p \in S : row[p].live}
      BY HostFacts DEF RowsOf, RowsApart
    <2>3. \A p, q \in RowsOf(S) : row[p].host = row[q].host => p = q
      BY <2>2, HostFacts DEF RowsApart
    <2> QED
      BY <2>1, <2>2, <2>3
  <1>4. /\ F \subseteq ValidOf(S, R) /\ \A p, q \in F : file[p].host = file[q].host => p = q
        /\ \A p \in ValidOf(S, R) : \E q \in F : file[p].host = file[q].host
    BY DEF Chosen, ValidOf, FilesOf, FileHost
  <1>5. \A p \in F : p \in S /\ p \notin R /\ ~row[p].live /\ file[p].host # None /\ (Alive(file[p].pid) \/ p \in up)
                     /\ \A r \in R : file[p].host # row[r].host
    BY <1>3, <1>4 DEF ValidOf, FilesOf
  <1>6. \A p \in Ports : p \notin S => c.map[p] = None
    BY <1>2, <1>3, <1>5
  <1>7. \A p \in S : row[p].live => c.map[p] = row[p].host
    BY <1>2, <1>3
  <1>8. \A p \in Ports : ~row[p].live /\ c.map[p] # None =>
          c.map[p] = file[p].host /\ p \in S /\ p \notin c.stale /\ (Alive(file[p].pid) \/ p \in up)
    BY <1>2, <1>3, <1>4, <1>5
  <1>9. Inj(c.map)
    <2> SUFFICES ASSUME NEW p \in Ports, NEW q \in Ports, c.map[p] = c.map[q], c.map[p] # None PROVE p = q
      BY DEF Inj
    <2>1. p \in R \cup F /\ q \in R \cup F
      BY <1>2
    <2>2. CASE p \in R /\ q \in R
      <3>1. row[p].live /\ row[q].live /\ row[p].host = row[q].host
        BY <1>2, <1>3, <2>2
      <3> QED
        BY <3>1, HostFacts DEF RowsApart
    <2>3. CASE p \in R /\ q \notin R
      BY <1>2, <1>5, <2>1, <2>3
    <2>4. CASE p \notin R /\ q \in R
      BY <1>2, <1>5, <2>1, <2>4
    <2>5. CASE p \notin R /\ q \notin R
      BY <1>2, <1>4, <2>1, <2>5
    <2> QED
      BY <2>2, <2>3, <2>4, <2>5
  <1>10. \A p \in c.stale : p \in S /\ ~row[p].live /\ ~Alive(file[p].pid) /\ p \notin up
    BY <1>2, <1>3 DEF FilesOf, ValidOf
  <1>11. ASSUME NEW p \in S \ c.stale, ~row[p].live, file[p].host # None
         PROVE  /\ file[p].host \in HostsOf(c.map)
                /\ (\E r \in S : row[r].live /\ row[r].host = file[p].host) \/ Alive(file[p].pid) \/ p \in up
    <2>1. CASE \E r \in R : row[r].host = file[p].host
      <3>1. PICK r \in R : row[r].host = file[p].host
        BY <2>1
      <3>2. r \in Ports /\ r \in S /\ row[r].live /\ c.map[r] = file[p].host
        BY <1>2, <1>3, <3>1
      <3> QED
        BY <1>11, <3>1, <3>2 DEF HostsOf
    <2>2. CASE ~\E r \in R : row[r].host = file[p].host
      <3>1. p \in FilesOf(S, R)
        BY <1>3, <1>11, <2>2 DEF FilesOf
      <3>2. p \in ValidOf(S, R)
        BY <1>2, <1>11, <3>1
      <3>3. PICK q \in F : file[p].host = file[q].host
        BY <1>4, <3>2
      <3>4. q \in Ports /\ c.map[q] = file[p].host
        BY <1>2, <1>5, <3>3
      <3> QED
        BY <1>11, <3>2, <3>4 DEF HostsOf, ValidOf
    <2> QED
      BY <2>1, <2>2
  <1> QED
    BY <1>6, <1>7, <1>8, <1>9, <1>10, <1>11

\* A mapping that has just been collected suits rows and files.
LEMMA PlanMaps ==
  ASSUME HostInv, NEW S \in SUBSET Ports, NEW c \in Collected(S), S = {s \in Ports : ~Starting(s)},
         job.pc \in {"plan", "collect"}, file' = Forgotten(c.stale), UNCHANGED <<up, row>>,
         job'.p = job.p, job'.kind = job.kind, job'.phase = job.phase, job'.todo = job.todo
  PROVE  Mapped(c.map)'
  <1>1. /\ WaitsFine /\ ExposedSafe /\ RowsApart /\ Turns /\ job.p \in Ports /\ job.pc \notin Busy
        /\ (job.pc = "collect" => job.kind = "stop") /\ job.pc # "forget"
    BY HostFacts DEF HostInv, Placed, Working, Busy
  <1>2. \A s \in Ports : /\ (Starting(s)' <=> Starting(s)) /\ (Healing(s)' <=> Healing(s))
                         /\ (Bare(s)' <=> Bare(s)) /\ (Waits(s)' <=> Waits(s))
    BY StageSame DEF Bare, Waits
  <1>3. /\ \A p \in Ports : p \notin S => c.map[p] = None
        /\ \A p \in S : row[p].live => c.map[p] = row[p].host
        /\ \A p \in Ports : ~row[p].live /\ c.map[p] # None =>
             c.map[p] = file[p].host /\ p \in S /\ p \notin c.stale /\ (Alive(file[p].pid) \/ p \in up)
        /\ Inj(c.map)
        /\ \A p \in c.stale : p \in S /\ ~row[p].live /\ ~Alive(file[p].pid) /\ p \notin up
        /\ \A p \in S \ c.stale : ~row[p].live /\ file[p].host # None =>
             /\ file[p].host \in HostsOf(c.map)
             /\ (\E r \in S : row[r].live /\ row[r].host = file[p].host) \/ Alive(file[p].pid) \/ p \in up
    BY CollectedFacts
  <1>4. \A p \in Ports : file'[p] = IF p \in c.stale THEN NoFile ELSE file[p]
    BY DEF Forgotten
  \* A file that is valid has no hostname of another file that waits.
  <1>5. \A s, t \in Ports : Waits(s) /\ t # s /\ t \in S /\ ~row[t].live /\ file[t].host # None
                            /\ (Alive(file[t].pid) \/ t \in up) => file[t].host # file[s].host
    BY <1>1 DEF WaitsFine, Fine, Bare, Waits
  <1>6. \A s \in Ports : Waits(s) => \A r \in Ports : row[r].live => r # s /\ row[r].host # file[s].host
    BY <1>1 DEF WaitsFine, Fine, Bare, Waits
  <1>7. ASSUME NEW r \in Ports, row[r].live, NEW s \in Ports \ {r} PROVE c.map[s] # row[r].host
    <2>1. CASE r \in S
      BY <1>1, <1>3, <1>7, <2>1 DEF Inj, RowsApart
    <2>2. CASE r \notin S /\ row[s].live
      <3>1. c.map[s] = None \/ c.map[s] = row[s].host
        BY <1>3, <2>2
      <3> QED
        BY <1>1, <1>7, <2>2, <3>1 DEF RowsApart
    <2>3. CASE r \notin S /\ ~row[s].live
      <3>1. job.p = r /\ job.kind = "start" /\ job.pc = "plan"
        BY <1>1, <2>3 DEF Starting
      <3> SUFFICES ASSUME c.map[s] # None PROVE c.map[s] # row[r].host
        BY <1>1, <1>7 DEF RowsApart
      <3>2. c.map[s] = file[s].host /\ s \in S /\ (Alive(file[s].pid) \/ s \in up)
        BY <1>3, <2>3
      <3>3. job.phase = "free"
        BY <1>1, <1>7, <3>1 DEF Turns, HealsDown
      <3>4. CASE s \in up
        <4>1. Waits(s)
          BY <2>3, <3>2, <3>3, <3>4 DEF Waits, Bare, Healing
        <4> QED
          BY <1>6, <1>7, <3>2, <4>1
      <3>5. CASE Alive(file[s].pid)
        <4>1. \A q \in Live : procs[q][r] # row[r].host
          BY <1>1, <1>7, <3>1 DEF HostInv, ProcInv, Unmapped, RowsApart
        <4>2. Exposed(r)
          BY <1>7, <3>1, <4>1 DEF Exposed
        <4> QED
          BY <1>1, <3>2, <3>5, <4>2 DEF ExposedSafe
      <3> QED
        BY <3>2, <3>4, <3>5
    <2> QED
      BY <2>1, <2>2, <2>3
  <1>8. ASSUME NEW s \in Ports, Waits(s) PROVE c.map[s] = file'[s].host /\ file'[s] = file[s]
    <2>1. s \in S /\ s \in up /\ ~row[s].live /\ s \notin c.stale
      BY <1>3, <1>8 DEF Waits, Bare
    <2>2. CASE c.map[s] # None
      BY <1>3, <1>4, <2>1, <2>2
    <2>3. CASE c.map[s] = None
      <3> SUFFICES ASSUME file[s].host # None PROVE FALSE
        BY <1>4, <2>1, <2>3
      <3>1. PICK t \in Ports : c.map[t] = file[s].host
        BY <1>3, <2>1 DEF HostsOf
      <3>2. t # s /\ c.map[t] # None
        BY <2>3, <3>1
      <3>3. CASE row[t].live
        <4>1. c.map[t] = row[t].host
          BY <1>3, <3>2, <3>3
        <4> QED
          BY <1>6, <1>8, <3>1, <3>3, <4>1
      <3>4. CASE ~row[t].live
        <4>1. c.map[t] = file[t].host /\ t \in S /\ (Alive(file[t].pid) \/ t \in up)
          BY <1>3, <3>2, <3>4
        <4> QED
          BY <1>5, <1>8, <3>1, <3>2, <3>4, <4>1
      <3> QED
        BY <3>3, <3>4
    <2> QED
      BY <1>4, <2>1, <2>2, <2>3
  <1>9. ASSUME NEW s \in Ports, Bare(s), c.map[s] # None PROVE c.map[s] = file'[s].host
    BY <1>3, <1>4, <1>9 DEF Bare
  <1>10. ASSUME NEW s \in Ports, ~Starting(s), c.map[s] = None PROVE file'[s].host \in HostsOf(c.map) \cup {None}
    <2>1. CASE s \in c.stale
      BY <1>4, <2>1 DEF NoFile
    <2>2. CASE s \notin c.stale
      <3>1. ~row[s].live
        BY <1>1, <1>3, <1>10 DEF RowsApart
      <3> QED
        BY <1>3, <1>4, <1>10, <2>2, <3>1
    <2> QED
      BY <2>1, <2>2
  <1>11. ASSUME NEW s \in Ports, NEW t \in Ports, Waits(s), t # s, ~Starting(t), c.map[t] = None, file'[t].host # None
         PROVE  file'[t].host # file'[s].host
    <2>1. t \notin c.stale /\ file'[t].host = file[t].host
      BY <1>4, <1>11 DEF NoFile
    <2>2. ~row[t].live /\ t \in S
      BY <1>1, <1>3, <1>11 DEF RowsApart
    <2>3. file'[s].host = file[s].host
      BY <1>8, <1>11
    <2>4. (\E r \in S : row[r].live /\ row[r].host = file[t].host) \/ Alive(file[t].pid) \/ t \in up
      BY <1>3, <1>11, <2>1, <2>2
    <2> QED
      BY <1>5, <1>6, <1>11, <2>1, <2>2, <2>3, <2>4
  <1> QED
    <2>1. Inj(c.map)
      BY <1>3
    <2>2. \A r \in Ports : row'[r].live => (~Starting(r)' => c.map[r] = row'[r].host) /\ \A s \in Ports \ {r} : c.map[s] # row'[r].host
      BY <1>2, <1>3, <1>7
    <2>3. \A s \in Ports :
            /\ Waits(s)' => c.map[s] = file'[s].host
            /\ Bare(s)' /\ c.map[s] # None => c.map[s] = file'[s].host
            /\ ~Starting(s)' /\ c.map[s] = None => file'[s].host \in HostsOf(c.map) \cup {None}
      BY <1>2, <1>8, <1>9, <1>10
    <2>4. \A s, t \in Ports : Waits(s)' /\ t # s /\ ~Starting(t)' /\ c.map[t] = None /\ file'[t].host # None =>
            file'[t].host # file'[s].host
      BY <1>2, <1>11
    <2> QED
      BY <2>1, <2>2, <2>3, <2>4 DEF Mapped

\* Rows, the running challenges and the stage of the command stay: no new
\* file waits, unless a start ends.
LEMMA QuietWaits ==
  ASSUME HostInv, UNCHANGED up, \A s \in Ports : row'[s].live = row[s].live,
         \A s \in Ports : (Starting(s)' <=> Starting(s)) /\ (Healing(s)' <=> Healing(s)),
         \A s \in Ports : ~Starting(s) => file'[s].host \in {file[s].host, None}
  PROVE  WaitsOn /\ \A s \in Ports : (Bare(s)' <=> Bare(s)) /\ (Waits(s)' <=> Waits(s))
  <1>1. \A s \in Ports : (Bare(s)' <=> Bare(s)) /\ (Waits(s)' <=> Waits(s))
    BY DEF Bare, Waits
  <1> QED
    BY <1>1 DEF WaitsOn, Bare

\* The end of a start or a stop; a start that ends must leave its file fine.
LEMMA EndWaits ==
  ASSUME HostInv, UNCHANGED up, \A s \in Ports : row'[s].live = row[s].live,
         NEW p \in Ports, job.p = p, job' \in {Return, Failed},
         \A s \in Ports \ {p} : file'[s].host \in {file[s].host, None},
         job.kind = "stop" => file'[p].host \in {file[p].host, None},
         job.kind = "start" => /\ Fine(p)'
                               /\ \A t \in Ports \ {p} : Waits(t)' /\ file'[t].host # None =>
                                    file'[p].host # file'[t].host
  PROVE  WaitsOn
  <1>1. \A s \in Ports : ~Starting(s)' /\ (Healing(s)' <=> Healing(s)) /\ (Starting(s) => s = p /\ job.kind = "start")
    BY StageEnd, HostFacts DEF Starting
  <1>2. job.kind \in {"start", "stop"}
    BY HostFacts DEF Job
  <1>3. ASSUME NEW s \in Ports, ~Starting(s)
        PROVE  file'[s].host \in {file[s].host, None} /\ (Bare(s)' => Bare(s)) /\ (Waits(s)' => Waits(s))
    <2>1. file'[s].host \in {file[s].host, None}
      BY <1>2, <1>3 DEF Starting
    <2> QED
      BY <1>1, <1>3, <2>1 DEF Bare, Waits
  <1>4. ASSUME NEW s \in Ports, Starting(s)
        PROVE  ~Bare(s) /\ Fine(s)' /\ \A t \in Ports \ {s} : Waits(t)' /\ file'[t].host # None => file'[s].host # file'[t].host
    BY <1>1, <1>4 DEF Bare
  <1> QED
    BY <1>3, <1>4 DEF WaitsOn

LEMMA HostLookup ==
  ASSUME HostInv, Lookup
  PROVE  HostInv'
  <1>1. /\ ProcInv' /\ job.pc = "lookup" /\ job.p \in Ports /\ job.kind = "start" /\ UNCHANGED <<up, row, config, procs>>
        /\ Live' = Live /\ \A q \in Live : Serves(q)
    <2>1. job.pc = "lookup" /\ UNCHANGED <<up, row, config, procs>>
      BY DEF Lookup, At
    <2>2. Live' = Live
      BY <2>1 DEF Live, Alive
    <2> QED
      BY <2>1, <2>2, HostFacts, ProcLookup DEF Placed, Working, Busy, ProcInv, Serving
  <1> DEFINE byFile == Alive(file[job.p].pid) /\ config[job.p] = file[job.p].host
  <1>2. \/ byFile /\ job' = [job EXCEPT !.pc = "record", !.host = file[job.p].host, !.pid = file[job.p].pid] /\ file' = file
        \/ job' = [job EXCEPT !.pc = "plan"] /\ file' = Forgotten({job.p})
    <2>1. CASE byFile
      BY <2>1 DEF Lookup
    <2>2. CASE ~byFile /\ row[job.p].live /\ Alive(row[job.p].pid) /\ config[job.p] = row[job.p].host
      <3>1. row[job.p].pid \in Live /\ row[job.p].host # None
        BY <1>1, <2>2, HostFacts DEF Live, Alive, Row, RowsApart
      <3>2. file[job.p].pid = row[job.p].pid /\ file[job.p].host = config[job.p]
        BY <1>1, <2>2, <3>1 DEF Serves
      <3> QED
        BY <2>2, <3>2
    <2>3. CASE ~byFile /\ ~(row[job.p].live /\ Alive(row[job.p].pid) /\ config[job.p] = row[job.p].host)
      BY <2>3 DEF Lookup, Goto
    <2> QED
      BY <2>1, <2>2, <2>3
  <1>3. /\ job'.p = job.p /\ job'.kind = job.kind /\ job'.phase = job.phase /\ job'.todo = job.todo
        /\ job'.pc \in {"record", "plan"}
        /\ (job'.pc = "record" => byFile /\ job'.host = file[job.p].host /\ file' = file)
        /\ (job'.pc = "plan" => file' = Forgotten({job.p}))
    <2>1. CASE byFile /\ job' = [job EXCEPT !.pc = "record", !.host = file[job.p].host, !.pid = file[job.p].pid] /\ file' = file
      BY <2>1, HostFacts DEF Job
    <2>2. CASE job' = [job EXCEPT !.pc = "plan"] /\ file' = Forgotten({job.p})
      BY <2>2, HostFacts DEF Job
    <2> QED
      BY <1>2, <2>1, <2>2
  <1>4. \A p \in Ports : file'[p] = file[p] \/ (p = job.p /\ file'[p] = NoFile)
    BY <1>3 DEF Forgotten
  <1>5. Fades
    <2>1. \A p \in Ports : row[p].live => p \in up'
      BY <1>1, HostFacts DEF RowsApart
    <2> QED
      BY <1>1, <1>4, <2>1 DEF Fades, NoFile
  <1>6. WaitsOn /\ \A s \in Ports : (Bare(s)' <=> Bare(s)) /\ (Waits(s)' <=> Waits(s))
    <2>1. \A s \in Ports : ~Starting(s) => file'[s].host \in {file[s].host, None}
      BY <1>4 DEF NoFile
    <2> QED
      BY <1>1, <1>3, <2>1, StageSame, QuietWaits
  <1>7. Settled
    BY <1>1 DEF Settled, Busy
  <1>8. Turns'
    BY <1>1, <1>3, TurnsSame DEF Working
  <1>9. Clear'
    <2>1. job'.pc = "plan" => file'[job.p].host = None
      BY <1>1, <1>3 DEF Forgotten, NoFile
    <2> QED
      BY <1>3, <2>1 DEF Clear
  <1>10. Recording'
    <2> SUFFICES ASSUME job'.pc = "record"
                 PROVE  /\ job'.host # None
                        /\ \A q \in Live' : procs'[q][job'.p] = job'.host
                        /\ \A r \in Ports \ {job'.p} : row'[r].live => row'[r].host # job'.host
                        /\ \A s \in Ports : Waits(s)' => file'[s].host # job'.host
      BY DEF Recording
    <2>1. byFile /\ job'.host = file[job.p].host /\ file' = file /\ job'.p = job.p
      BY <1>3
    <2>2. file[job.p].pid \in Live /\ file[job.p].host # None
      BY <1>1, <2>1, HostFacts DEF Live, Alive, File, FilesNamed
    <2>3. \A q \in Live : procs[q][job.p] = file[job.p].host
      BY <1>1, <2>1 DEF Serves
    <2>4. \A r \in Ports \ {job.p} : row[r].live => row[r].host # file[job.p].host
      BY <1>1, <2>2, <2>3, HostFacts DEF OwnHosts
    <2>5. ASSUME NEW s \in Ports, Waits(s) PROVE file[s].host # file[job.p].host
      <3>1. s # job.p /\ Fine(s)
        BY <1>1, <2>5 DEF Waits, Bare, Starting, HostInv, WaitsFine
      <3> QED
        BY <1>1, <2>1, <3>1 DEF Fine, Busy
    <2> QED
      BY <1>1, <1>6, <2>1, <2>2, <2>3, <2>4, <2>5
  <1>11. Planned'
    BY <1>3 DEF Planned, Busy
  <1> QED
    BY <1>1, <1>5, <1>6, <1>7, <1>8, <1>9, <1>10, <1>11, FadesKeep, WaitsKeep DEF HostInv

LEMMA HostPlan ==
  ASSUME HostInv, Plan
  PROVE  HostInv'
  <1>1. /\ ProcInv' /\ job.pc = "plan" /\ job.p \in Ports /\ job.kind = "start" /\ UNCHANGED <<up, row, config, procs>>
        /\ Live' = Live
    <2>1. job.pc = "plan" /\ UNCHANGED <<up, row, config, procs>>
      BY DEF Plan, At
    <2>2. Live' = Live
      BY <2>1 DEF Live, Alive
    <2> QED
      BY <2>1, <2>2, HostFacts, ProcPlan DEF Placed, Working, Busy
  <1> DEFINE S == Ports \ {job.p}
  <1>2. PICK c \in Collected(S) :
          /\ file' = Forgotten(c.stale)
          /\ \/ \E h \in Hosts \ HostsOf(c.map) :
                 job' = [job EXCEPT !.pc = "pending", !.host = h, !.prev = c.map,
                                    !.new = [c.map EXCEPT ![job.p] = h], !.pids = OwnedPids]
             \/ job' = Failed
    BY DEF Plan
  <1>3. \A p \in Ports : file'[p] = file[p] \/ file'[p] = NoFile
    BY <1>2 DEF Forgotten
  <1>4. Fades
    <2>1. \A p \in Ports : row[p].live => p \in up'
      BY <1>1, HostFacts DEF RowsApart
    <2> QED
      BY <1>1, <1>3, <2>1 DEF Fades, NoFile
  <1>5. file[job.p].host = None /\ file'[job.p].host = None /\ file'[job.p].pid = None
    <2>1. file[job.p].host = None
      BY <1>1 DEF HostInv, Clear
    <2>2. file'[job.p].host = None
      BY <1>1, <1>3, <2>1 DEF NoFile
    <2> QED
      BY <1>1, <1>4, <2>1, <2>2, FadesKeep DEF FilesNamed
  <1>6. Settled
    BY <1>1 DEF Settled, Busy
  <1>7. CASE job' = Failed
    <2> SUFFICES ASSUME NEW p \in Ports, p = job.p PROVE HostInv'
      BY <1>1
    <2>1. Fine(p)'
      BY <1>5, <1>4, FadesKeep, FineNone
    <2>2. WaitsOn
      <3>1. \A s \in Ports : file'[s].host \in {file[s].host, None}
        BY <1>3 DEF NoFile
      <3> QED
        BY <1>1, <1>5, <1>7, <2>1, <3>1, EndWaits
    <2>3. Turns'
      BY <1>1, <1>7, TurnsEnd
    <2>4. job'.pc \notin Busy \cup {"plan", "unrecord", "record"}
      BY <1>1, <1>7, Endings, HostFacts DEF Busy
    <2> QED
      BY <1>1, <1>4, <1>6, <2>2, <2>3, <2>4, HostQuiet
  <1>8. ASSUME NEW h \in Hosts \ HostsOf(c.map),
               job' = [job EXCEPT !.pc = "pending", !.host = h, !.prev = c.map,
                                  !.new = [c.map EXCEPT ![job.p] = h], !.pids = OwnedPids]
        PROVE  HostInv'
    <2>1. /\ job'.p = job.p /\ job'.kind = job.kind /\ job'.phase = job.phase /\ job'.todo = job.todo
          /\ job'.pc = "pending" /\ job'.host = h /\ job'.prev = c.map /\ job'.new = [c.map EXCEPT ![job.p] = h]
      BY <1>8, HostFacts DEF Job
    <2>2. c.map \in Mapping /\ S \in SUBSET Ports /\ S = {s \in Ports : ~Starting(s)}
      BY <1>1, HostFacts, CollectedTypes DEF Starting
    <2>3. Mapped(c.map)'
      BY <1>1, <1>2, <2>1, <2>2, PlanMaps
    <2>4. c.map[job.p] = None /\ \A s \in S : job'.new[s] = c.map[s]
      <3>1. c.map[job.p] = None
        BY <1>1, <2>2, CollectedFacts
      <3> QED
        BY <2>1, <2>2, <3>1 DEF Mapping
    <2>5. Mapped(job.prev)'
      BY <2>1, <2>3 DEF Mapped
    <2>6. Planned'
      BY <1>1, <1>5, <1>8, <2>1, <2>4, <2>5 DEF Planned, HostsOf
    <2>7. WaitsOn
      <3>1. \A s \in Ports : file'[s].host \in {file[s].host, None}
        BY <1>3 DEF NoFile
      <3> QED
        BY <1>1, <2>1, <3>1, StageSame, QuietWaits
    <2>8. Turns'
      BY <1>1, <2>1, TurnsSame DEF Working, Busy
    <2>9. Clear' /\ Recording'
      BY <1>5, <2>1 DEF Clear, Recording
    <2> QED
      BY <1>1, <1>4, <1>6, <2>6, <2>7, <2>8, <2>9, FadesKeep, WaitsKeep DEF HostInv
  <1> QED
    BY <1>2, <1>7, <1>8

LEMMA HostCollect ==
  ASSUME HostInv, Collect
  PROVE  HostInv'
  <1>1. /\ ProcInv' /\ job.pc = "collect" /\ job.p \in Ports /\ job.kind = "stop" /\ UNCHANGED <<up, row, config, procs>>
        /\ Live' = Live
    <2>1. job.pc = "collect" /\ UNCHANGED <<up, row, config, procs>>
      BY DEF Collect, At
    <2>2. Live' = Live
      BY <2>1 DEF Live, Alive
    <2> QED
      BY <2>1, <2>2, HostFacts, ProcPlan DEF Placed, Working, Busy
  <1>2. PICK c \in Collected(Ports), pc \in {"halt", "rewrite"} :
          /\ file' = Forgotten(c.stale)
          /\ job' = [job EXCEPT !.pc = pc, !.prev = c.map, !.new = [c.map EXCEPT ![job.p] = None], !.pids = OwnedPids]
    BY DEF Collect
  <1>3. \A p \in Ports : file'[p] = file[p] \/ file'[p] = NoFile
    BY <1>2 DEF Forgotten
  <1>4. Fades
    <2>1. \A p \in Ports : row[p].live => p \in up'
      BY <1>1, HostFacts DEF RowsApart
    <2> QED
      BY <1>1, <1>3, <2>1 DEF Fades, NoFile
  <1>5. /\ job'.p = job.p /\ job'.kind = job.kind /\ job'.phase = job.phase /\ job'.todo = job.todo
        /\ job'.pc \in {"halt", "rewrite"} /\ job'.prev = c.map /\ job'.new = [c.map EXCEPT ![job.p] = None]
    BY <1>2, HostFacts DEF Job
  <1>6. c.map \in Mapping /\ Ports \in SUBSET Ports /\ Ports = {s \in Ports : ~Starting(s)}
    BY <1>1, HostFacts, CollectedTypes DEF Starting
  <1>7. Mapped(c.map)'
    BY <1>1, <1>2, <1>5, <1>6, PlanMaps
  <1>8. Mapped(job.prev)'
    BY <1>5, <1>7 DEF Mapped
  <1>9. Planned'
    BY <1>1, <1>5, <1>6, <1>8 DEF Planned, Mapping
  <1>10. WaitsOn
    <2>1. \A s \in Ports : file'[s].host \in {file[s].host, None}
      BY <1>3 DEF NoFile
    <2> QED
      BY <1>1, <1>5, <2>1, StageSame, QuietWaits
  <1>11. Turns'
    BY <1>1, <1>5, TurnsSame DEF Working, Busy
  <1>12. Clear' /\ Recording'
    BY <1>5, <1>1 DEF Clear, Recording
  <1>13. Settled
    BY <1>1 DEF Settled, Busy
  <1> QED
    BY <1>1, <1>4, <1>9, <1>10, <1>11, <1>12, <1>13, FadesKeep, WaitsKeep DEF HostInv

LEMMA PlannedKeep ==
  ASSUME HostInv, job.pc \in Busy, job'.pc \in Busy,
         job'.p = job.p, job'.kind = job.kind, job'.phase = job.phase, job'.todo = job.todo,
         job'.host = job.host, job'.prev = job.prev, job'.new = job.new,
         \A s \in Ports : row'[s].live => row[s].live /\ row'[s].host = row[s].host,
         \A s \in Ports : (Bare(s)' => Bare(s)) /\ (Waits(s)' => Waits(s)),
         \A s \in Ports : ~Starting(s) /\ (Bare(s) \/ job.prev[s] = None) => file'[s].host = file[s].host,
         job.kind = "start" =>
           /\ job'.pc # "pending" => file'[job.p].host = job.host
           /\ job'.pc # "pids" \/ job'.back => file'[job.p].pid = None
  PROVE  Planned'
  <1>1. /\ Mapped(job.prev) /\ \A s \in Ports \ {job.p} : job.new[s] = job.prev[s]
        /\ (job.kind = "start" => job.prev[job.p] = None /\ job.host \notin HostsOf(job.prev))
    BY DEF HostInv, Planned
  <1>2. \A s \in Ports : Starting(s)' <=> Starting(s)
    BY StageSame
  <1>3. Inj(job.prev)
    BY <1>1 DEF Mapped
  <1>4. \A r \in Ports : row'[r].live =>
          /\ ~Starting(r)' => job.prev[r] = row'[r].host
          /\ \A s \in Ports \ {r} : job.prev[s] # row'[r].host
    BY <1>1, <1>2 DEF Mapped
  <1>5. \A s \in Ports :
          /\ Waits(s)' => job.prev[s] = file'[s].host
          /\ Bare(s)' /\ job.prev[s] # None => job.prev[s] = file'[s].host
          /\ ~Starting(s)' /\ job.prev[s] = None => file'[s].host \in HostsOf(job.prev) \cup {None}
    BY <1>1, <1>2 DEF Mapped, Waits, Bare
  <1>6. ASSUME NEW s \in Ports, NEW t \in Ports, Waits(s)', t # s, ~Starting(t)', job.prev[t] = None, file'[t].host # None
        PROVE  file'[t].host # file'[s].host
    <2>1. Waits(s) /\ ~Starting(s) /\ Bare(s)
      BY <1>6 DEF Waits, Bare
    <2>2. file'[s].host = file[s].host /\ file'[t].host = file[t].host
      BY <1>2, <1>6, <2>1
    <2>3. file[t].host # file[s].host
      BY <1>1, <1>2, <1>6, <2>1, <2>2 DEF Mapped
    <2> QED
      BY <2>2, <2>3
  <1>7. Mapped(job.prev)'
    BY <1>3, <1>4, <1>5, <1>6 DEF Mapped, Inj, HostsOf
  <1> QED
    BY <1>1, <1>7 DEF Planned, HostsOf

\* A step within Busy.
LEMMA HostBusy ==
  ASSUME HostInv, ProcInv', job.pc \in Busy, job'.pc \in Busy \ {"pending"},
         job'.p = job.p, job'.kind = job.kind, job'.phase = job.phase, job'.todo = job.todo,
         job'.host = job.host, job'.prev = job.prev, job'.new = job.new,
         UNCHANGED up, \A s \in Ports : row'[s].live = row[s].live /\ row'[s].host = row[s].host,
         \A s \in Ports : ~Starting(s) /\ (Bare(s) \/ job.prev[s] = None) => file'[s].host = file[s].host,
         job.kind = "start" =>
           /\ file'[job.p].host = job.host
           /\ job'.pc # "pids" \/ job'.back => file'[job.p].pid = None,
         FilesNamed', OneToOne', OwnHosts'
  PROVE  HostInv'
  <1>1. \A s \in Ports : /\ (Starting(s)' <=> Starting(s)) /\ (Healing(s)' <=> Healing(s))
                         /\ (Bare(s)' <=> Bare(s)) /\ (Waits(s)' <=> Waits(s))
    BY StageSame DEF Bare, Waits
  <1>2. Planned'
    BY <1>1, PlannedKeep
  <1>3. RowsApart'
    BY HostFacts DEF RowsApart
  <1>4. WaitsFine'
    <2> SUFFICES ASSUME NEW s \in Ports, Waits(s)' PROVE Fine(s)'
      BY DEF WaitsFine
    <2>1. Waits(s) /\ Fine(s) /\ file'[s].host = file[s].host
      BY <1>1 DEF HostInv, WaitsFine, Waits, Bare
    <2>2. \A t \in Ports : Bare(t)' => Bare(t) /\ file'[t].host = file[t].host
      BY <1>1 DEF Bare
    <2> QED
      BY <2>1, <2>2 DEF Fine
  <1>5. ExposedSafe' /\ Recording' /\ Clear'
    BY DEF ExposedSafe, Recording, Clear, Busy
  <1>6. Turns'
    BY TurnsSame DEF Working
  <1> QED
    BY <1>2, <1>3, <1>4, <1>5, <1>6 DEF HostInv

\* What a failed start leaves is fine: its hostname was nobody's.
LEMMA FailWaits ==
  ASSUME HostInv, job.pc \in Busy \ {"pending"}, job' \in {Return, Failed}, UNCHANGED up,
         \A s \in Ports : row'[s].live = row[s].live /\ row'[s].host = row[s].host,
         \A s \in Ports : file'[s].host = file[s].host,
         \A t \in Ports \ {job.p} : Alive(file[t].pid)' => file[t].host \in HostsOf(job.prev) \cup {None}
  PROVE  WaitsOn
  <1> SUFFICES ASSUME NEW p \in Ports, p = job.p PROVE WaitsOn
    BY HostFacts DEF Working
  <1>1. \A s \in Ports : ~Starting(s)' /\ (Healing(s)' <=> Healing(s))
    BY StageEnd, HostFacts
  <1>2. ASSUME job.kind = "start"
        PROVE  /\ Fine(p)'
               /\ \A t \in Ports \ {p} : Waits(t)' /\ file'[t].host # None => file'[p].host # file'[t].host
    <2>1. file'[p].host = job.host /\ job.host # None /\ job.host \notin HostsOf(job.prev) /\ Mapped(job.prev)
      BY <1>2, HostFacts DEF HostInv, Planned, Placed
    <2>2. \A s \in Ports : job.prev[s] # None => job.prev[s] \in HostsOf(job.prev)
      BY DEF HostsOf
    <2>3. \A t \in Ports \ {p} : /\ ~Starting(t) /\ (Bare(t)' => Bare(t))
                                 /\ row'[t].live => row'[t].host \in HostsOf(job.prev)
      BY <2>1, <2>2, <1>1, HostFacts DEF Starting, Bare, Mapped, RowsApart
    <2>4. \A t \in Ports \ {p} : Bare(t) => file'[t].host \in HostsOf(job.prev) \cup {None}
      <3> SUFFICES ASSUME NEW t \in Ports \ {p}, Bare(t) PROVE file[t].host \in HostsOf(job.prev) \cup {None}
        OBVIOUS
      <3>1. CASE job.prev[t] # None
        BY <2>1, <2>2, <3>1 DEF Mapped
      <3>2. CASE job.prev[t] = None
        BY <2>1, <2>3, <3>2 DEF Mapped
      <3> QED
        BY <3>1, <3>2
    <2>5. Fine(p)'
      BY <2>1, <2>3, <2>4 DEF Fine
    <2>6. ASSUME NEW t \in Ports \ {p}, Waits(t)', file'[t].host # None PROVE file'[p].host # file'[t].host
      <3>1. Bare(t)
        BY <2>3, <2>6 DEF Waits
      <3> QED
        BY <2>1, <2>4, <2>6, <3>1
    <2> QED
      BY <2>5, <2>6
  <1> QED
    BY <1>2, EndWaits

LEMMA HostPending ==
  ASSUME HostInv, Pending \/ Rewrite
  PROVE  HostInv'
  <1>1. /\ ProcInv' /\ job.pc \in {"pending", "rewrite"} /\ job.p \in Ports /\ UNCHANGED <<up, row, procs>>
        /\ Live' = Live /\ (job.pc = "pending" => Pending /\ job.kind = "start") /\ (job.pc = "rewrite" => Rewrite)
    <2>1. job.pc \in {"pending", "rewrite"} /\ UNCHANGED <<up, row, procs>>
          /\ (job.pc = "pending" => Pending) /\ (job.pc = "rewrite" => Rewrite)
      BY DEF Pending, Rewrite, At
    <2>2. Live' = Live
      BY <2>1 DEF Live, Alive
    <2> QED
      BY <2>1, <2>2, HostFacts, ProcHalt DEF Placed, Working, Busy
  <1>2. /\ job'.p = job.p /\ job'.kind = job.kind /\ job'.phase = job.phase /\ job'.todo = job.todo
        /\ job'.host = job.host /\ job'.prev = job.prev /\ job'.new = job.new
        /\ job'.pc \in {"rewrite", "halt"} /\ job'.back = job.back
    BY HostFacts DEF Pending, Rewrite, Goto, Job
  <1>3. \A s \in Ports : file'[s] = file[s] \/ (s = job.p /\ job.kind = "start")
    BY <1>1, HostFacts DEF Pending, Rewrite
  <1>4. job.kind = "start" => file'[job.p].host = job.host /\ file'[job.p].pid = None
    <2>1. CASE job.pc = "pending"
      BY <1>1, <2>1, HostFacts DEF Pending
    <2>2. CASE job.pc = "rewrite"
      BY <1>1, <2>2 DEF Rewrite, HostInv, Planned, Busy
    <2> QED
      BY <1>1, <2>1, <2>2
  <1>5. FilesNamed' /\ OneToOne' /\ OwnHosts'
    <2>1. FilesNamed'
      BY <1>3, <1>4, HostFacts DEF FilesNamed
    <2>2. OneToOne' /\ OwnHosts'
      BY <1>1, HostFacts DEF OneToOne, OwnHosts, Inj
    <2> QED
      BY <2>1, <2>2
  <1>6. \A s \in Ports : ~Starting(s) => file'[s] = file[s]
    BY <1>3 DEF Starting
  <1> QED
    BY <1>1, <1>2, <1>4, <1>5, <1>6, HostBusy DEF Busy

\* Processes are killed within Busy, or it ends with none.
LEMMA HostUnwind ==
  ASSUME HostInv, ProcInv', job.pc \in {"spawn", "weed"}, UNCHANGED <<up, row, file>>, Live' = {}, job' = Unwind
  PROVE  HostInv'
  <1>1. job.p \in Ports /\ FilesNamed /\ RowsApart
    BY HostFacts DEF Working, Busy
  <1>2. Fades
    BY <1>1 DEF Fades, RowsApart
  <1>3. CASE job' = Failed
    <2>1. \A t \in Ports : ~Alive(file[t].pid)'
      <3>1. \A q \in Pids : q \notin Live'
        OBVIOUS
      <3> QED
        BY <3>1, HostFacts DEF Live, Alive, File
    <2>2. WaitsOn
      BY <1>1, <1>3, <2>1, FailWaits DEF Busy
    <2>3. Turns'
      BY <1>1, <1>3, TurnsEnd
    <2>4. job'.pc \notin Busy \cup {"plan", "unrecord", "record"}
      BY <1>1, <1>3, Endings, HostFacts DEF Busy
    <2>5. Settled
      BY DEF Settled
    <2> QED
      BY <1>2, <2>2, <2>3, <2>4, <2>5, HostQuiet
  <1>4. CASE job' # Failed
    <2>1. job' = [job EXCEPT !.back = TRUE, !.pc = "halt", !.pid = None]
      BY <1>4 DEF Unwind
    <2>2. /\ job'.p = job.p /\ job'.kind = job.kind /\ job'.phase = job.phase /\ job'.todo = job.todo
          /\ job'.host = job.host /\ job'.prev = job.prev /\ job'.new = job.new /\ job'.pc = "halt"
      BY <2>1, HostFacts DEF Job
    <2>3. job.kind = "start" => file[job.p].host = job.host /\ file[job.p].pid = None
      BY DEF HostInv, Planned, Busy
    <2>4. FilesNamed' /\ OneToOne' /\ OwnHosts'
      BY <1>2, FadesKeep
    <2> QED
      BY <2>2, <2>3, <2>4, HostBusy DEF Busy
  <1> QED
    BY <1>3, <1>4

\* Killing takes away pids and processes and no more.
LEMMA KillFades ==
  ASSUME HostInv, NEW pids, Kill(pids), UNCHANGED up
  PROVE  /\ Fades
         /\ \A s \in Ports : row'[s].live = row[s].live /\ row'[s].host = row[s].host /\ file'[s].host = file[s].host
         /\ \A s \in Ports : file[s].pid = None => file'[s].pid = None
  <1>1. /\ Live' = Live \ pids /\ \A q \in Live' : procs'[q] = procs[q]
        /\ \A p \in Ports : /\ file'[p].host = file[p].host /\ row'[p].host = row[p].host
                            /\ row'[p].live = row[p].live /\ file'[p].pid \in {file[p].pid, None}
    BY KillLive, HostFacts
  <1>2. Live' = {} \/ Live' = Live
    BY <1>1 DEF HostInv, ProcInv, OneLives
  <1>3. \A p \in Ports : row[p].live => p \in up'
    BY HostFacts DEF RowsApart
  <1> QED
    BY <1>1, <1>2, <1>3 DEF Fades

LEMMA HostHalt ==
  ASSUME HostInv, Halt
  PROVE  HostInv'
  <1>1. ProcInv' /\ job.pc = "halt" /\ job.p \in Ports /\ UNCHANGED up
    BY HostFacts, ProcHalt DEF Halt, At, Working, Busy
  <1>2. PICK pids : Kill(pids) /\ pids = IF job.back THEN OwnedPids ELSE job.pids
    BY DEF Halt
  <1>3. /\ Fades
        /\ \A s \in Ports : row'[s].live = row[s].live /\ row'[s].host = row[s].host /\ file'[s].host = file[s].host
        /\ \A s \in Ports : file[s].pid = None => file'[s].pid = None
    BY <1>1, <1>2, KillFades
  <1>4. Live' = {}
    <2>1. IF job.back THEN Live = {} ELSE Live \subseteq job.pids
      BY <1>1 DEF HostInv, ProcInv, Halting
    <2>2. Live' = Live \ pids
      BY <1>2, KillLive, HostFacts
    <2> QED
      BY <1>2, <2>1, <2>2
  <1>5. Settled
    BY <1>4 DEF Settled
  <1>6. CASE job' = Failed
    <2>1. \A t \in Ports : ~Alive(file[t].pid)'
      <3>1. \A t \in Ports : Alive(file[t].pid)' => file'[t].pid \in Live'
        BY <1>1 DEF HostInv, ProcInv, TypeInv, TypeOK, File, Live, Alive
      <3> QED
        BY <1>4, <3>1
    <2>2. WaitsOn
      BY <1>1, <1>3, <1>6, <2>1, FailWaits DEF Busy
    <2>3. Turns'
      BY <1>1, <1>3, <1>6, TurnsEnd
    <2>4. job'.pc \notin Busy \cup {"plan", "unrecord", "record"}
      BY <1>1, <1>6, Endings, HostFacts DEF Busy
    <2> QED
      BY <1>1, <1>3, <1>5, <2>2, <2>3, <2>4, HostQuiet
  <1>7. CASE job' # Failed
    <2>1. PICK pc \in {"spawn", "forget"} : job' = [job EXCEPT !.pc = pc]
      BY <1>7 DEF Halt
    <2>2. /\ job'.p = job.p /\ job'.kind = job.kind /\ job'.phase = job.phase /\ job'.todo = job.todo
          /\ job'.host = job.host /\ job'.prev = job.prev /\ job'.new = job.new /\ job'.pc = pc /\ job'.back = job.back
      BY <2>1, HostFacts DEF Job
    <2>3. CASE pc = "spawn"
      <3>1. job.kind = "start" => file'[job.p].host = job.host /\ file'[job.p].pid = None
        BY <1>1, <1>3 DEF HostInv, Planned, Busy
      <3>2. FilesNamed' /\ OneToOne' /\ OwnHosts'
        BY <1>3, FadesKeep
      <3> QED
        BY <1>1, <1>3, <2>2, <2>3, <3>1, <3>2, HostBusy DEF Busy
    <2>4. CASE pc = "forget"
      <3>1. WaitsOn
        BY <1>1, <1>3, <2>2, StageSame, QuietWaits
      <3>2. Turns'
        BY <1>3, <2>2, <2>4, TurnsSame DEF Working
      <3> QED
        BY <1>1, <1>3, <1>5, <2>2, <2>4, <3>1, <3>2, HostQuiet DEF Busy
    <2> QED
      BY <2>3, <2>4
  <1> QED
    BY <1>6, <1>7

LEMMA HostSpawn ==
  ASSUME HostInv, Spawn
  PROVE  HostInv'
  <1>1. ProcInv' /\ job.pc = "spawn" /\ job.p \in Ports /\ UNCHANGED <<up, row, file>> /\ Live = {}
    BY HostFacts, ProcSpawn DEF Spawn, At, Working, Busy, HostInv, ProcInv, Spawning
  <1>2. CASE job' = Unwind /\ procs' = procs
    <2>1. Live' = {}
      BY <1>1, <1>2 DEF Live, Alive
    <2> QED
      BY <1>1, <1>2, <2>1, HostUnwind
  <1>3. ASSUME NEW pid \in Pids \ Live, procs' = [procs EXCEPT ![pid] = Target],
               job' = [job EXCEPT !.pc = "weed", !.pid = pid]
        PROVE  HostInv'
    <2>1. /\ job'.p = job.p /\ job'.kind = job.kind /\ job'.phase = job.phase /\ job'.todo = job.todo
          /\ job'.host = job.host /\ job'.prev = job.prev /\ job'.new = job.new /\ job'.pc = "weed"
      BY <1>3, HostFacts DEF Job
    <2>2. \A q \in Live' : procs'[q] = Target
      BY <1>1, <1>3, HostFacts, NoneAssumption DEF Live, Alive
    <2>3. /\ Inj(Target)
          /\ \A r \in Ports : row[r].live => \A s \in Ports \ {r} : Target[s] # row[r].host
      BY <1>1, TargetFits DEF Busy
    <2>4. FilesNamed' /\ OneToOne' /\ OwnHosts'
      <3>1. FilesNamed'
        BY <1>1, HostFacts DEF FilesNamed
      <3>2. OneToOne'
        BY <2>2, <2>3 DEF OneToOne, Inj
      <3>3. OwnHosts'
        BY <1>1, <2>2, <2>3 DEF OwnHosts
      <3> QED
        BY <3>1, <3>2, <3>3
    <2>5. job.kind = "start" => file[job.p].host = job.host /\ file[job.p].pid = None
      BY <1>1 DEF HostInv, Planned, Busy
    <2> QED
      BY <1>1, <2>1, <2>4, <2>5, HostBusy DEF Busy
  <1> QED
    BY <1>2, <1>3 DEF Spawn

LEMMA HostWeed ==
  ASSUME HostInv, Weed
  PROVE  HostInv'
  <1>1. ProcInv' /\ job.pc = "weed" /\ job.p \in Ports /\ UNCHANGED up /\ Live \subseteq {job.pid}
    BY HostFacts, ProcWeed DEF Weed, At, Working, Busy, HostInv, ProcInv, Spawned
  <1>2. CASE ~Alive(job.pid)
    <2>1. UNCHANGED <<row, file, procs>> /\ job' = Unwind /\ Live' = {}
      BY <1>1, <1>2 DEF Weed, Live, Alive
    <2> QED
      BY <1>1, <2>1, HostUnwind
  <1>3. CASE Alive(job.pid)
    <2>1. PICK pids : Kill(pids) /\ job' = [job EXCEPT !.pc = "sync"]
      BY <1>3 DEF Weed, Goto
    <2>2. /\ job'.p = job.p /\ job'.kind = job.kind /\ job'.phase = job.phase /\ job'.todo = job.todo
          /\ job'.host = job.host /\ job'.prev = job.prev /\ job'.new = job.new /\ job'.pc = "sync"
      BY <2>1, HostFacts DEF Job
    <2>3. /\ Fades
          /\ \A s \in Ports : row'[s].live = row[s].live /\ row'[s].host = row[s].host /\ file'[s].host = file[s].host
          /\ \A s \in Ports : file[s].pid = None => file'[s].pid = None
      BY <1>1, <2>1, KillFades
    <2>4. job.kind = "start" => file'[job.p].host = job.host /\ file'[job.p].pid = None
      BY <1>1, <2>3 DEF HostInv, Planned, Busy
    <2>5. FilesNamed' /\ OneToOne' /\ OwnHosts'
      BY <2>3, FadesKeep
    <2> QED
      BY <1>1, <2>2, <2>3, <2>4, <2>5, HostBusy DEF Busy
  <1> QED
    BY <1>2, <1>3

LEMMA HostSync ==
  ASSUME NotedAll, HostInv, Sync
  PROVE  HostInv'
  <1>1. ProcInv' /\ job.pc = "sync" /\ job.p \in Ports /\ UNCHANGED <<up, row, procs>> /\ Live' = Live
    BY HostFacts, ProcSync DEF Sync, At, Working, Busy, Live, Alive
  <1>2. /\ job'.p = job.p /\ job'.kind = job.kind /\ job'.phase = job.phase /\ job'.todo = job.todo
        /\ job'.host = job.host /\ job'.prev = job.prev /\ job'.new = job.new /\ job'.pc = "pids" /\ job'.back = job.back
    BY HostFacts DEF Sync, Goto, Job
  <1>3. \A s \in Ports : /\ Target[s] = None => file'[s] = file[s]
                         /\ Target[s] # None => file'[s].host = Target[s] /\ file'[s].pid = job.pid
    BY Noted
  <1>4. /\ Mapped(job.prev) /\ (job.kind = "start" => /\ job.prev[job.p] = None /\ file[job.p].host = job.host
                                                      /\ file[job.p].pid = None)
        /\ (job.kind = "start" => job.new[job.p] = job.host)
    BY <1>1, HostFacts DEF HostInv, Planned, Placed, Busy
  <1>5. ASSUME NEW s \in Ports, ~Starting(s), Bare(s) \/ job.prev[s] = None PROVE file'[s].host = file[s].host
    <2>1. Target[s] = None \/ Target[s] = job.prev[s]
      BY <1>1, <1>5, TargetFits DEF Busy
    <2>2. CASE Target[s] = None
      BY <1>3, <2>2
    <2>3. CASE Target[s] # None
      <3>1. Bare(s) /\ job.prev[s] # None
        BY <1>5, <2>1, <2>3
      <3>2. job.prev[s] = file[s].host
        BY <1>4, <3>1 DEF Mapped
      <3> QED
        BY <1>3, <2>1, <2>3, <3>2
    <2> QED
      BY <2>2, <2>3
  <1>6. job.kind = "start" => file'[job.p].host = job.host /\ (job'.back => file'[job.p].pid = None)
    BY <1>1, <1>2, <1>3, <1>4 DEF Target
  <1>7. FilesNamed' /\ OneToOne' /\ OwnHosts'
    <2>1. FilesNamed'
      BY <1>3, HostFacts DEF FilesNamed
    <2>2. OneToOne' /\ OwnHosts'
      BY <1>1, HostFacts DEF OneToOne, OwnHosts, Inj
    <2> QED
      BY <2>1, <2>2
  <1> QED
    BY <1>1, <1>2, <1>5, <1>6, <1>7, HostBusy DEF Busy

LEMMA HostPids ==
  ASSUME NotedAll, HostInv, UpdatePids
  PROVE  HostInv'
  <1>1. /\ ProcInv' /\ job.pc = "pids" /\ job.p \in Ports /\ UNCHANGED <<up, file, procs>> /\ Live' = Live
        /\ Live \subseteq {job.pid} /\ \A q \in Live : procs[q] = Target /\ Serves(q)
    BY HostFacts, ProcPids DEF UpdatePids, At, Working, Busy, Live, Alive, HostInv, ProcInv, Spawned, Serving
  <1>2. \A s \in Ports : row'[s].live = row[s].live /\ row'[s].host = row[s].host
    BY HostFacts DEF UpdatePids, Row
  <1>3. /\ Mapped(job.prev) /\ Inj(job.prev) /\ RowsApart /\ FilesNamed /\ job.kind \in {"start", "stop"}
        /\ (job.kind = "start" =>
              /\ job.prev[job.p] = None /\ job.host \notin HostsOf(job.prev) /\ file[job.p].host = job.host
              /\ job.new[job.p] = job.host /\ job.host # None
              /\ (job.back => file[job.p].pid = None))
        /\ (job.kind = "stop" => job.new[job.p] = None)
        /\ \A s \in Ports \ {job.p} : job.new[s] = job.prev[s]
    BY <1>1, HostFacts DEF HostInv, Planned, Placed, Busy, Mapped, Job
  <1>4. \A s \in Ports : job.prev[s] # None => job.prev[s] \in HostsOf(job.prev)
    BY DEF HostsOf
  <1>5. Fades
    BY <1>1, <1>2, <1>3 DEF Fades, RowsApart
  <1>6. \A t \in Ports : Alive(file[t].pid) =>
          file[t].pid \in Live /\ file[t].host # None /\ (Target[t] # None => file[t].host = Target[t])
    <2> SUFFICES ASSUME NEW t \in Ports, Alive(file[t].pid)
                 PROVE  file[t].pid \in Live /\ file[t].host # None /\ (Target[t] # None => file[t].host = Target[t])
      OBVIOUS
    <2>1. file[t].pid \in Live /\ file[t].host # None
      BY <1>3, HostFacts DEF Live, Alive, File, FilesNamed
    <2> QED
      BY <1>1, <2>1 DEF Serves
  <1>7. \/ job' = Failed /\ job.back
        \/ /\ ~job.back /\ job'.p = job.p /\ job'.kind = job.kind /\ job'.phase = job.phase /\ job'.todo = job.todo
           /\ job'.host = job.host /\ job'.pc = IF job.kind = "start" THEN "record" ELSE "forget"
    <2>1. CASE job.back
      BY <2>1 DEF UpdatePids
    <2>2. CASE ~job.back
      <3>1. PICK pc \in {"record", "forget"} :
              job' = [job EXCEPT !.pc = pc] /\ pc = IF job.kind = "start" THEN "record" ELSE "forget"
        BY <2>2 DEF UpdatePids
      <3> QED
        BY <2>2, <3>1, HostFacts DEF Job
    <2> QED
      BY <2>1, <2>2
  <1>8. WaitsOn /\ Turns'
    <2>1. CASE job' = Failed /\ job.back
      <3>1. ASSUME NEW t \in Ports \ {job.p}, Alive(file[t].pid)' PROVE file[t].host \in HostsOf(job.prev) \cup {None}
        <4>1. Alive(file[t].pid) /\ Target[t] = job.prev[t] /\ ~Starting(t)
          BY <1>1, <2>1, <3>1 DEF Alive, Target, Starting
        <4>2. CASE job.prev[t] # None
          BY <1>4, <1>6, <4>1, <4>2
        <4>3. CASE job.prev[t] = None
          BY <1>3, <4>1, <4>3 DEF Mapped
        <4> QED
          BY <4>2, <4>3
      <3> QED
        BY <1>1, <1>2, <2>1, <3>1, FailWaits, TurnsEnd DEF Busy
    <2>2. CASE ~(job' = Failed /\ job.back)
      <3>1. job'.pc \in Working
        BY <1>7, <2>2 DEF Working, Busy
      <3>2. WaitsOn
        BY <1>1, <1>2, <1>7, <2>2, StageSame, QuietWaits
      <3> QED
        BY <1>2, <1>7, <2>2, <3>1, <3>2, TurnsSame
    <2> QED
      BY <2>1, <2>2
  <1>9. job'.pc \notin Busy \cup {"plan", "unrecord"} /\ (job'.pc \in {"record", "forget"} => ~job.back /\ job'.p = job.p)
    <2>1. CASE job' = Failed /\ job.back
      BY <1>1, <2>1, Endings, HostFacts DEF Busy
    <2>2. CASE ~(job' = Failed /\ job.back)
      BY <1>7, <2>2 DEF Busy
    <2> QED
      BY <2>1, <2>2
  <1>10. WaitsFine'
    <2>1. ASSUME NEW s \in Ports, NEW t \in Ports, Waits(s), t # s,
                 Alive(file[t].pid)', ~(job'.pc = "forget" /\ t = job'.p)
          PROVE  file[t].host # file[s].host
      <3>1. ~Starting(s) /\ file[s].host = job.prev[s]
        BY <1>3, <2>1 DEF Waits, Bare, Mapped
      <3>2. Alive(file[t].pid) /\ file[t].host # None
        BY <1>1, <1>6, <2>1 DEF Alive
      <3>3. CASE Target[t] # None
        <4>1. file[t].host = Target[t]
          BY <1>6, <3>2, <3>3
        <4>2. CASE job.kind = "stop" /\ ~job.back /\ s = job.p
          BY <1>3, <2>1, <3>1, <3>3, <4>1, <4>2 DEF Target, Inj
        <4>3. CASE ~(job.kind = "stop" /\ ~job.back /\ s = job.p)
          <5>1. Target[s] = job.prev[s] /\ Inj(Target)
            BY <1>1, <3>1, <4>3, TargetFits DEF Busy
          <5> QED
            BY <2>1, <3>1, <3>3, <4>1, <5>1 DEF Inj
        <4> QED
          BY <4>2, <4>3
      <3>4. CASE Target[t] = None
        <4>1. ~Starting(t)
          <5> SUFFICES ASSUME Starting(t) PROVE FALSE
            OBVIOUS
          <5>1. job.back
            BY <1>3, <3>4 DEF Starting, Target
          <5> QED
            BY <1>3, <3>2, <5>1 DEF Starting, Alive
        <4>2. job.prev[t] = None
          <5>1. CASE job.kind = "stop" /\ ~job.back /\ t = job.p
            <6>1. job'.pc = "forget" /\ job'.p = job.p
              BY <1>7, <5>1
            <6> QED
              BY <2>1, <5>1, <6>1
          <5>2. CASE ~(job.kind = "stop" /\ ~job.back /\ t = job.p)
            BY <1>1, <3>4, <4>1, <5>2, TargetFits DEF Busy
          <5> QED
            BY <5>1, <5>2
        <4> QED
          BY <1>3, <2>1, <3>2, <4>1, <4>2 DEF Mapped
      <3> QED
        BY <3>3, <3>4
    <2> QED
      BY <1>1, <1>5, <1>8, <2>1, WaitsStay
  <1>11. ExposedSafe'
    <2> SUFFICES ASSUME NEW r \in Ports, NEW s \in Ports, r # s, Exposed(r)', Alive(file[s].pid)'
                 PROVE  file'[s].host # row'[r].host
      BY DEF ExposedSafe
    <2>1. Alive(file[s].pid) /\ row[r].live /\ row[r].host # None
      BY <1>1, <1>2, <1>3 DEF Exposed, Alive, RowsApart
    <2>2. Target[r] # row[r].host
      <3>1. file[s].pid \in Live /\ procs[file[s].pid] = Target
        BY <1>1, <1>6, <2>1
      <3> QED
        BY <1>1, <1>2, <3>1 DEF Exposed
    <2>3. r = job.p
      BY <1>1, <2>1, <2>2, TargetFits DEF Busy
    <2>4. job.back
      <3> SUFFICES ASSUME ~job.back PROVE FALSE
        OBVIOUS
      <3>1. job'.p = r /\ job'.pc \in {"record", "forget", "unrecord"}
        BY <1>7, <2>3
      <3> QED
        BY <3>1 DEF Exposed
    <2>5. job.kind = "start"
      BY <1>3, <2>1, <2>2, <2>4 DEF Mapped, Starting, Target
    <2>6. row[r].host \notin HostsOf(job.prev)
      BY <1>3, <2>1, <2>3, <2>5 DEF Mapped, HostsOf
    <2>7. file[s].host \in HostsOf(job.prev) \cup {None}
      <3>1. CASE Target[s] # None
        BY <1>4, <1>6, <2>1, <2>4, <3>1 DEF Target
      <3>2. CASE Target[s] = None
        BY <1>3, <2>3, <2>4, <3>2 DEF Target, Starting, Mapped
      <3> QED
        BY <3>1, <3>2
    <2> QED
      BY <1>1, <1>2, <2>1, <2>6, <2>7
  <1>12. Recording'
    <2> SUFFICES ASSUME job'.pc = "record"
                 PROVE  /\ job'.host # None
                        /\ \A q \in Live' : procs'[q][job'.p] = job'.host
                        /\ \A r \in Ports \ {job'.p} : row'[r].live => row'[r].host # job'.host
                        /\ \A s \in Ports : Waits(s)' => file'[s].host # job'.host
      BY DEF Recording
    <2>1. /\ ~job.back /\ job'.p = job.p /\ job'.kind = job.kind /\ job'.phase = job.phase /\ job'.todo = job.todo
          /\ job'.host = job.host /\ job.kind = "start"
      <3>1. job' # Failed
        <4> SUFFICES ASSUME job' = Failed PROVE FALSE
          OBVIOUS
        <4>1. job'.pc \in {"free", "orphans", "test", "heal", "collect"}
          BY <1>1, Endings, HostFacts
        <4> QED
          BY <4>1
      <3> QED
        BY <1>7, <3>1
    <2>2. \A q \in Live' : procs'[q][job.p] = job.host
      BY <1>1, <1>3, <2>1 DEF Target
    <2>3. \A r \in Ports \ {job.p} : row[r].live => row[r].host # job.host
      BY <1>3, <1>4, <2>1 DEF Mapped, Starting, RowsApart
    <2>4. ASSUME NEW s \in Ports, Waits(s)' PROVE file[s].host # job.host
      <3>1. Waits(s)
        BY <1>1, <1>2, <2>1, <2>4, StageSame DEF Waits, Bare
      <3>2. file[s].host = job.prev[s]
        BY <1>3, <3>1 DEF Mapped
      <3> QED
        BY <1>3, <1>4, <2>1, <3>2
    <2> QED
      BY <1>1, <1>2, <1>3, <2>1, <2>2, <2>3, <2>4
  <1>13. Clear' /\ Planned'
    BY <1>9 DEF Clear, Planned, Busy
  <1> QED
    BY <1>1, <1>5, <1>8, <1>10, <1>11, <1>12, <1>13, FadesKeep DEF HostInv

LEMMA HostRecord ==
  ASSUME HostInv, Record
  PROVE  HostInv'
  <1>1. /\ ProcInv' /\ job.pc = "record" /\ job.p \in Ports /\ job.kind = "start" /\ job' = Return
        /\ UNCHANGED <<up, file, procs>> /\ Live' = Live
    <2>1. job.pc = "record" /\ UNCHANGED <<up, file, procs>> /\ job' = Return
      BY DEF Record, At
    <2>2. Live' = Live
      BY <2>1 DEF Live, Alive
    <2> QED
      BY <2>1, <2>2, HostFacts, ProcBegin DEF Placed, Working, Busy
  <1> SUFFICES ASSUME NEW p \in Ports, p = job.p PROVE HostInv'
    BY <1>1
  <1>2. /\ row'[p].host = job.host /\ (row'[p].live <=> p \in up) /\ \A r \in Ports \ {p} : row'[r] = row[r]
    BY HostFacts DEF Record
  <1>3. /\ job.host # None /\ (\A q \in Live : procs[q][p] = job.host)
        /\ (\A r \in Ports \ {p} : row[r].live => row[r].host # job.host)
        /\ \A s \in Ports : Waits(s) => file[s].host # job.host
    BY <1>1 DEF HostInv, Recording
  <1>4. RowsApart /\ FilesNamed /\ OneToOne /\ OwnHosts /\ WaitsFine /\ ExposedSafe
    BY DEF HostInv
  <1>5. RowsApart' /\ FilesNamed'
    BY <1>1, <1>2, <1>3, <1>4 DEF RowsApart, FilesNamed
  <1>6. OneToOne' /\ OwnHosts'
    <2>1. OneToOne'
      BY <1>1, <1>4 DEF OneToOne, Inj
    <2>2. ASSUME NEW q \in Live, NEW r \in Ports, row'[r].live, NEW s \in Ports \ {r} PROVE procs[q][s] # row'[r].host
      <3>1. CASE r = p
        BY <1>2, <1>3, <1>4, <3>1 DEF OneToOne, Inj
      <3>2. CASE r # p
        BY <1>2, <1>4, <2>2, <3>2 DEF OwnHosts
      <3> QED
        BY <3>1, <3>2
    <2>3. OwnHosts'
      BY <1>1, <2>2 DEF OwnHosts
    <2> QED
      BY <2>1, <2>3
  <1>7. \A s \in Ports : ~Starting(s)' /\ (Healing(s)' <=> Healing(s)) /\ (Starting(s) <=> s = p)
    BY <1>1, StageEnd, HostFacts DEF Starting
  <1>8. \A s \in Ports : (Bare(s)' => Bare(s) /\ s # p) /\ (Waits(s)' => Waits(s))
    BY <1>1, <1>2, <1>7 DEF Bare, Waits
  <1>9. WaitsFine'
    <2> SUFFICES ASSUME NEW s \in Ports, Waits(s)' PROVE Fine(s)'
      BY DEF WaitsFine
    <2>1. Waits(s) /\ Fine(s) /\ file[s].host # job.host
      BY <1>3, <1>4, <1>8 DEF WaitsFine
    <2>2. \A t \in Ports \ {s} : row'[t].live => file[s].host # row'[t].host
      BY <1>2, <2>1 DEF Fine
    <2>3. \A t \in Ports \ {s} : Bare(t)' /\ file[s].host # None => file[t].host # file[s].host
      BY <1>8, <2>1 DEF Fine
    <2>4. \A t \in Ports \ {s} : Alive(file[t].pid) => file[t].host # file[s].host
      BY <1>1, <2>1 DEF Fine, Busy
    <2>5. \A t \in Ports : Alive(file[t].pid)' <=> Alive(file[t].pid)
      BY <1>1 DEF Alive
    <2> QED
      BY <1>1, <2>2, <2>3, <2>4, <2>5 DEF Fine
  <1>10. ExposedSafe'
    <2> SUFFICES ASSUME NEW r \in Ports, NEW s \in Ports, r # s, Exposed(r)', Alive(file[s].pid)'
                 PROVE  file'[s].host # row'[r].host
      BY DEF ExposedSafe
    <2>1. Alive(file[s].pid) /\ file[s].pid \in Live
      BY <1>1, HostFacts DEF Alive, Live, File
    <2>2. r # p
      BY <1>1, <1>2, <1>3, <2>1 DEF Exposed
    <2>3. Exposed(r)
      BY <1>1, <1>2, <2>2 DEF Exposed
    <2> QED
      BY <1>1, <1>2, <1>4, <2>1, <2>2, <2>3 DEF ExposedSafe, Busy
  <1>11. Turns'
    <2>1. job.phase # "orphans"
      BY <1>1 DEF HostInv, Turns, Orphaned
    <2> QED
      BY <1>1, <2>1, TurnsEnd
  <1>12. Clear' /\ Recording' /\ Planned'
    <2>1. job'.pc \notin Busy \cup {"plan", "unrecord", "record"}
      BY <1>1, Endings, HostFacts DEF Busy
    <2> QED
      BY <2>1 DEF Clear, Recording, Planned, Busy
  <1> QED
    BY <1>1, <1>5, <1>6, <1>9, <1>10, <1>11, <1>12 DEF HostInv

LEMMA HostForget ==
  ASSUME HostInv, Forget
  PROVE  HostInv'
  <1>1. /\ ProcInv' /\ job.pc = "forget" /\ job.p \in Ports /\ job.kind = "stop" /\ file' = Forgotten({job.p})
        /\ UNCHANGED <<up, row, procs>> /\ Live' = Live
    <2>1. job.pc = "forget" /\ UNCHANGED <<up, row, procs>> /\ file' = Forgotten({job.p})
      BY DEF Forget, At
    <2>2. Live' = Live
      BY <2>1 DEF Live, Alive
    <2> QED
      BY <2>1, <2>2, HostFacts, ProcForget DEF Placed, Working, Busy
  <1>2. /\ file'[job.p] = NoFile /\ \A s \in Ports : file'[s] = file[s] \/ file'[s] = NoFile
    BY <1>1 DEF Forgotten
  <1>3. Fades
    <2>1. \A s \in Ports : row[s].live => s \in up'
      BY <1>1, HostFacts DEF RowsApart
    <2> QED
      BY <1>1, <1>2, <2>1 DEF Fades, NoFile
  <1>4. \A s \in Ports : file'[s].host \in {file[s].host, None}
    BY <1>2 DEF NoFile
  <1>5. file'[job.p].pid = None
    BY <1>2 DEF NoFile
  <1>6. CASE job.phase = "orphans"
    <2>1. job' = Return /\ ~row'[job.p].live
      BY <1>1, <1>6 DEF Forget, HostInv, Turns, Orphaned
    <2>2. WaitsOn
      BY <1>1, <1>4, <2>1, EndWaits
    <2>3. Turns'
      BY <1>1, <2>1, TurnsEnd
    <2>4. job'.pc \notin Busy \cup {"plan", "unrecord", "record"}
      BY <1>1, <2>1, Endings, HostFacts DEF Busy
    <2>5. Settled
      BY <1>1, <1>5, <2>1 DEF Settled, Busy
    <2> QED
      BY <1>1, <1>3, <2>2, <2>3, <2>4, <2>5, HostQuiet
  <1>7. CASE job.phase # "orphans"
    <2>1. job' = [job EXCEPT !.pc = "unrecord"]
      BY <1>7 DEF Forget
    <2>2. /\ job'.p = job.p /\ job'.kind = job.kind /\ job'.phase = job.phase /\ job'.todo = job.todo
          /\ job'.pc = "unrecord"
      BY <2>1, HostFacts DEF Job
    <2>3. WaitsOn
      BY <1>1, <1>4, <2>2, StageSame, QuietWaits
    <2>4. Turns'
      BY <1>1, <2>2, TurnsSame DEF Working
    <2>5. Settled
      BY <1>1, <1>5, <2>2 DEF Settled, Busy
    <2>6. Clear' /\ Recording' /\ Planned'
      BY <1>2, <2>2 DEF Clear, Recording, Planned, Busy, NoFile
    <2> QED
      BY <1>1, <1>3, <2>3, <2>4, <2>5, <2>6, FadesKeep, WaitsKeep DEF HostInv
  <1> QED
    BY <1>6, <1>7

LEMMA HostUnrecord ==
  ASSUME HostInv, Unrecord
  PROVE  HostInv'
  <1>1. /\ ProcInv' /\ job.pc = "unrecord" /\ job.p \in Ports /\ job.kind = "stop" /\ job' = Return
        /\ UNCHANGED <<up, file, procs>> /\ Live' = Live /\ file[job.p].host = None
    <2>1. job.pc = "unrecord" /\ UNCHANGED <<up, file, procs>> /\ job' = Return
      BY DEF Unrecord, At
    <2>2. Live' = Live
      BY <2>1 DEF Live, Alive
    <2> QED
      BY <2>1, <2>2, HostFacts, ProcBegin DEF Placed, Working, Busy, HostInv, Clear
  <1> SUFFICES ASSUME NEW p \in Ports, p = job.p PROVE HostInv'
    BY <1>1
  <1>2. ~row'[p].live /\ \A r \in Ports \ {p} : row'[r] = row[r]
    BY HostFacts DEF Unrecord, NoRow
  <1>3. Fades
    <2>1. \A s \in Ports : row[s].live => s \in up'
      BY <1>1, HostFacts DEF RowsApart
    <2> QED
      BY <1>1, <1>2, <2>1 DEF Fades
  <1>4. Fine(p)'
    BY <1>1, <1>3, FadesKeep, FineNone
  <1>5. \A s \in Ports : ~Starting(s)' /\ (Healing(s)' <=> Healing(s)) /\ ~Starting(s)
    BY <1>1, StageEnd, HostFacts DEF Starting
  <1>6. \A s \in Ports \ {p} : (Bare(s)' => Bare(s)) /\ (Waits(s)' => Waits(s))
    BY <1>1, <1>2, <1>5 DEF Bare, Waits
  <1>7. WaitsOn
    BY <1>1, <1>4, <1>6 DEF WaitsOn
  <1>8. Settled
    BY <1>1, <1>2 DEF Settled, Busy
  <1>9. Turns'
    <2>1. \A s \in Ports : row'[s].live => row[s].live
      BY <1>3 DEF Fades
    <2> QED
      BY <1>1, <2>1, TurnsEnd
  <1>10. job'.pc \notin Busy \cup {"plan", "unrecord", "record"}
    BY <1>1, Endings, HostFacts DEF Busy
  <1> QED
    BY <1>1, <1>3, <1>7, <1>8, <1>9, <1>10, HostQuiet

\* Whatever happens beside the command.
LEMMA HostStill ==
  ASSUME HostInv, ProcInv', Fades, up' \subseteq up,
         \A s \in Ports : s \in up' => (row'[s].live <=> row[s].live),
         \A s \in Ports : file'[s].host = file[s].host /\ (file[s].pid = None => file'[s].pid = None),
         job'.pc = job.pc, job'.p = job.p, job'.kind = job.kind, job'.phase = job.phase, job'.todo = job.todo,
         job'.host = job.host, job'.prev = job.prev, job'.new = job.new, job'.back = job.back
  PROVE  HostInv'
  <1>1. \A s \in Ports : /\ (Starting(s)' <=> Starting(s)) /\ (Bare(s)' => Bare(s)) /\ (Waits(s)' => Waits(s))
    BY StageSame DEF Bare, Waits
  <1>2. WaitsOn
    BY <1>1 DEF WaitsOn
  <1>3. Settled
    <2>1. job.p \in Ports \/ job.pc \notin {"record", "forget", "unrecord"}
      BY HostFacts DEF Working
    <2> QED
      BY <2>1 DEF Settled
  <1>4. Turns'
    BY TurnsSame DEF Fades
  <1>5. Clear'
    <2>1. Clear /\ (job.pc \in {"plan", "unrecord", "pending"} => job.p \in Ports)
      BY HostFacts DEF HostInv, Working, Busy
    <2> QED
      BY <2>1 DEF Clear
  <1>6. Recording'
    <2>1. Recording /\ \A s \in Ports : row'[s].live => row[s].live /\ row'[s].host = row[s].host
      BY DEF HostInv, Fades
    <2>2. \A q \in Live' : q \in Live /\ procs'[q] = procs[q]
      BY DEF Fades
    <2> QED
      BY <1>1, <2>1, <2>2 DEF Recording
  <1>7. Planned'
    <2>1. CASE job.pc \notin Busy
      BY <2>1 DEF Planned
    <2>2. CASE job.pc \in Busy
      <3>1. job.p \in Ports /\ (job.kind = "start" => /\ job.pc # "pending" => file[job.p].host = job.host
                                                      /\ job.pc # "pids" \/ job.back => file[job.p].pid = None)
        BY <2>2, HostFacts DEF HostInv, Planned, Working
      <3> QED
        BY <1>1, <2>2, <3>1, PlannedKeep DEF Fades
    <2> QED
      BY <2>1, <2>2
  <1> QED
    BY <1>2, <1>3, <1>4, <1>5, <1>6, <1>7, FadesKeep, WaitsKeep DEF HostInv

LEMMA HostWorld ==
  ASSUME HostInv, World \/ UNCHANGED vars
  PROVE  HostInv'
  <1>1. ProcInv' /\ RowsApart
    BY HostFacts, ProcWorld
  <1>2. ASSUME NEW p \in Ports, ContainerExit(p) \/ GraceEnds(p) PROVE HostInv'
    <2>1. UNCHANGED <<procs, job>> /\ Live' = Live /\ up' \subseteq up
      BY <1>2 DEF ContainerExit, GraceEnds, Live, Alive
    <2>2. \A s \in Ports : file'[s].host = file[s].host /\ file'[s].pid = file[s].pid
      BY <1>2, HostFacts DEF ContainerExit, GraceEnds, File
    <2>3. \A s \in Ports : /\ row'[s].live => row[s].live /\ row'[s].host = row[s].host /\ s \in up'
                           /\ s \in up' => (row'[s].live <=> row[s].live)
      BY <1>1, <1>2, HostFacts DEF ContainerExit, GraceEnds, Row, RowsApart
    <2>4. Fades
      BY <2>1, <2>2, <2>3 DEF Fades
    <2> QED
      BY <1>1, <2>1, <2>2, <2>3, <2>4, HostStill
  <1>3. ASSUME NEW pid \in Pids, TunnelDies(pid) PROVE HostInv'
    <2>1. Kill({pid}) /\ UNCHANGED up /\ job' = [job EXCEPT !.pid = Scrubbed(@, {pid})]
      BY <1>3 DEF TunnelDies
    <2>2. /\ Fades
          /\ \A s \in Ports : row'[s].live = row[s].live /\ row'[s].host = row[s].host /\ file'[s].host = file[s].host
          /\ \A s \in Ports : file[s].pid = None => file'[s].pid = None
      BY <2>1, KillFades
    <2>3. /\ job'.pc = job.pc /\ job'.p = job.p /\ job'.kind = job.kind /\ job'.phase = job.phase /\ job'.todo = job.todo
          /\ job'.host = job.host /\ job'.prev = job.prev /\ job'.new = job.new /\ job'.back = job.back
      BY <2>1, HostFacts DEF Job
    <2> QED
      BY <1>1, <2>1, <2>2, <2>3, HostStill
  <1>4. CASE UNCHANGED vars
    <2>1. UNCHANGED <<up, row, file, procs, job>> /\ Live' = Live
      BY <1>4 DEF vars, Live, Alive
    <2>2. Fades
      BY <1>1, <2>1 DEF Fades, RowsApart
    <2> QED
      BY <1>1, <2>1, <2>2, HostStill
  <1> QED
    BY <1>2, <1>3, <1>4 DEF World

LEMMA HostNext ==
  NoCrash /\ NotedAll /\ AllHealed /\ HostInv /\ [Next]_vars => HostInv'
  <1> SUFFICES ASSUME NoCrash, NotedAll, AllHealed, HostInv, [Next]_vars PROVE HostInv'
    OBVIOUS
  <1>1. ~Crash
    BY DEF NoCrash, Crash
  <1> QED
    BY <1>1, Steps, HostBegin, HostCycle, HostLookup, HostPlan, HostCollect, HostPending, HostHalt, HostSpawn,
       HostWeed, HostSync, HostPids, HostRecord, HostForget, HostUnrecord, HostWorld DEF WorkStep

LEMMA HostInit ==
  Init => HostInv
  <1> SUFFICES ASSUME Init PROVE HostInv
    OBVIOUS
  <1>1. Live = {} /\ job = Idle /\ up = {}
    BY DEF Init, Live, Alive
  <1>2. \A p \in Ports : ~row[p].live /\ file[p].host = None /\ file[p].pid = None
    BY DEF Init, NoRow, NoFile
  <1>3. RowsApart /\ FilesNamed /\ OneToOne /\ OwnHosts /\ WaitsFine /\ ExposedSafe
    BY <1>1, <1>2 DEF RowsApart, FilesNamed, OneToOne, OwnHosts, WaitsFine, Waits, Bare, ExposedSafe, Exposed
  <1>4. Turns /\ Clear /\ Recording /\ Planned
    BY <1>1, Shapes, NoneAssumption
    DEF Turns, Phases, HealsDown, Orphaned, Clear, Recording, Planned, Busy
  <1> QED
    BY <1>3, <1>4, ProcInit DEF HostInv

(* What arrives at the hostname of a running challenge never goes to the   *)
(* port of another one, while no command is cut short, no note is lost and *)
(* every running challenge is healed: the mappings that are collected give *)
(* every running challenge on record its hostname and no other port the    *)
(* same, though files of failed starts, rows of stopped runtimes and       *)
(* rollbacks are among what is collected.  (A challenge that goes on       *)
(* without being healed keeps the state file of a start that failed; with  *)
(* three challenges its hostname may come to be another one's.)            *)
THEOREM TrafficStays == NoCrash /\ NotedAll /\ AllHealed => (Spec => []NoForeignTraffic)
  <1> SUFFICES ASSUME NoCrash, NotedAll, AllHealed PROVE Spec => []NoForeignTraffic
    OBVIOUS
  <1>1. HostInv => NoForeignTraffic
    BY DEF HostInv, OwnHosts, NoForeignTraffic
  <1>2. HostInv /\ [Next]_vars => HostInv'
    BY HostNext
  <1> QED
    BY <1>1, <1>2, HostInit, PTL DEF Spec

(* Whoever restarts the tunnel, for a start, a stop or to undo either, and *)
(* whatever fails meanwhile but what TrafficStays excludes: the other      *)
(* running challenges on record keep their hostnames, and their rows name  *)
(* the new process.                                                        *)
THEOREM RestartKeeps == NoCrash /\ NotedAll /\ AllHealed => (Spec => OthersStay)
  <1> SUFFICES ASSUME NoCrash, NotedAll, AllHealed PROVE Spec => OthersStay
    OBVIOUS
  <1>1. ASSUME HostInv, UpdatePids, Alive(job.pid), NEW p \in Ports \ {job.p}, row[p].live PROVE Routed(p)'
    <2>1. job.pc = "pids" /\ UNCHANGED procs /\ job.p \in Ports /\ job.pid \in Pids /\ job.pid # None
      BY <1>1, HostFacts DEF UpdatePids, At, Alive, Working, Busy, Job
    <2>2. procs[job.pid] = Target
      BY <1>1, <2>1 DEF HostInv, ProcInv, Spawned, Live
    <2>3. Target[p] = row[p].host /\ row[p].host # None
      BY <1>1, <2>1, TargetFits, HostFacts DEF Busy, RowsApart
    <2>4. row'[p].pid = job.pid /\ row'[p].host = row[p].host
      <3>1. row' = [r \in Ports |-> IF r \in PortsOf(Target) \ (IF job.kind = "start" /\ ~job.back THEN {job.p} ELSE {})
                                       /\ row[r].live
                                    THEN [row[r] EXCEPT !.pid = job.pid] ELSE row[r]]
        BY <1>1, Noted
      <3>2. p \in PortsOf(Target) \ (IF job.kind = "start" /\ ~job.back THEN {job.p} ELSE {}) /\ row[p].live
        BY <1>1, <2>3 DEF PortsOf
      <3> QED
        BY <3>1, <3>2, HostFacts DEF Row
    <2> QED
      BY <1>1, <2>1, <2>2, <2>3, <2>4 DEF Routed, Alive
  <1>2. HostInv => [UpdatePids /\ Alive(job.pid) => \A p \in Ports \ {job.p} : row[p].live => Routed(p)']_vars
    BY <1>1
  <1>3. HostInv /\ [Next]_vars => HostInv'
    BY HostNext
  <1> QED
    BY <1>2, <1>3, HostInit, PTL DEF Spec, OthersStay
=============================================================================
