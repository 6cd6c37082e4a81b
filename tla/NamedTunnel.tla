---------------------------- MODULE NamedTunnel ----------------------------
(***************************************************************************)
(* The named tunnel of the Cloudflare provider, scripts/exports/           *)
(* cloudflare.py: ONE cloudflared process serves all host ports.  Starting *)
(* or stopping the export of one port collects the mappings (hostname,     *)
(* port) of the others from the database and from state files, rewrites    *)
(* the configuration, kills the process and starts another one, and rolls  *)
(* back when that fails; state files and rows follow one after the other.  *)
(*                                                                         *)
(* A challenge publishes one port and keeps it, so a port stands for its   *)
(* challenge; what ports do is in Lifecycle and Exports.  Commands hold    *)
(* the LifecycleLock and changes of the tunnel a lock of their own         *)
(* (_CloudflareNamedTunnelLock): one record, job, stands for them.         *)
(***************************************************************************)
EXTENDS Naturals, FiniteSets

CONSTANTS
    Ports,   \* host ports, one of each challenge
    Hosts,   \* cloudflare_subdomains
    Pids,    \* process ids; bounds the processes that run
    Ops,     \* the commands that are given
    Faults,  \* what may go wrong, see FaultKinds
    Enabled, \* challenges that stay enabled; a sync may disable the others
    AutoHeal, \* auto_heal_exports
    None

\* spawn: cloudflared exits at once; dies: it exits later; exit: a container
\* stops and a status() call notices; crash: the command is cut short; reuse:
\* the id of a dead process comes back; save: a process that serves is not
\* noted in its state files or rows, and the command goes on.
FaultKinds == {"spawn", "dies", "exit", "crash", "reuse", "save"}

OpKinds == {"up", "down", "unexport", "cycle"}

ASSUME SwitchesAssumption ==
    Faults \subseteq FaultKinds /\ Ops \subseteq OpKinds /\ Enabled \subseteq Ports /\ AutoHeal \in BOOLEAN
ASSUME NoneAssumption == None \notin Ports \cup Hosts \cup Pids

VARIABLES
    up,     \* the challenges whose latest runtime is running
    row,    \* the active row of challenge_exports of a port
    file,   \* the state file cloudflare_<port>.json
    config, \* cloudflare_tunnel_config.yml
    procs,  \* the cloudflared processes, each with the mappings it has read
    job     \* the command that holds the locks

vars == <<up, row, file, config, procs, job>>

Mapping == [Ports -> Hosts \cup {None}]
\* live: the row belongs to a runtime that is running.
Row == [host : Hosts \cup {None}, pid : Pids \cup {None}, live : BOOLEAN]
\* A pending state has no pid; fresh: younger than the 45 seconds of grace.
File == [host : Hosts \cup {None}, pid : Pids \cup {None}, fresh : BOOLEAN]
PCs == {"free", "lookup", "plan", "collect", "pending", "rewrite", "halt", "spawn", "weed",
        "sync", "pids", "record", "forget", "unrecord", "reconcile", "orphans", "test", "heal"}
Job == [op : OpKinds \cup {"none", "crashed"}, pc : PCs, kind : {"start", "stop"},
        p : Ports \cup {None}, back : BOOLEAN, prev : Mapping, new : Mapping,
        host : Hosts \cup {None}, pids : SUBSET Pids, pid : Pids \cup {None},
        again : BOOLEAN, todo : SUBSET Ports, dead : SUBSET Ports,
        phase : {"free", "orphans", "test", "heal"}]

NoMapping == [p \in Ports |-> None]
NoRow == [host |-> None, pid |-> None, live |-> FALSE]
NoFile == [host |-> None, pid |-> None, fresh |-> FALSE]
Idle == [op |-> "none", pc |-> "free", kind |-> "start", p |-> None, back |-> FALSE,
         prev |-> NoMapping, new |-> NoMapping, host |-> None, pids |-> {}, pid |-> None,
         again |-> FALSE, todo |-> {}, dead |-> {}, phase |-> "free"]

TypeOK ==
    /\ up \subseteq Ports
    /\ row \in [Ports -> Row]
    /\ file \in [Ports -> File]
    /\ config \in Mapping
    /\ procs \in [Pids -> Mapping]
    /\ job \in Job

-----------------------------------------------------------------------------
(* Processes, and the mappings on record.                                  *)

Alive(pid) == pid # None /\ procs[pid] # NoMapping
Live == {pid \in Pids : Alive(pid)}

\* Unless ids come back, a record of a dead process is as good as one of none.
Scrubbed(pid, pids) == IF pid \in pids /\ "reuse" \notin Faults THEN None ELSE pid

Kill(pids) ==
    /\ procs' = [q \in Pids |-> IF q \in pids THEN NoMapping ELSE procs[q]]
    /\ row' = [p \in Ports |-> [row[p] EXCEPT !.pid = Scrubbed(@, pids)]]
    /\ file' = [p \in Ports |-> [file[p] EXCEPT !.pid = Scrubbed(@, pids)]]

\* (With a bug: only rows count, no pending mapping.)
HostsOnRecord(m) == {row[p].host : p \in {q \in Ports : row[q].live}}
HostsOf(m) == {m[p] : p \in Ports} \ {None}
PortsOf(m) == {p \in Ports : m[p] # None}

\* (With a bug: the state files are not asked.)
PidsOfRows == {pid \in {row[p].pid : p \in Ports} : Alive(pid)}
\* _collect_owned_named_tunnel_pids: every active row and every state file.
OwnedPids == {pid \in {row[p].pid : p \in Ports} \cup {file[p].pid : p \in Ports} : Alive(pid)}

\* Of rows or files with one hostname the first that is read counts.
Chosen(S, host) ==
    {C \in SUBSET S :
        /\ \A p, q \in C : host[p] = host[q] => p = q
        /\ \A p \in S : \E q \in C : host[p] = host[q]}

RowHost == [p \in Ports |-> row[p].host]
FileHost == [p \in Ports |-> file[p].host]

\* _collect_active_mappings: rows of running runtimes, then the state files
\* with a live process or a running challenge; the other files are deleted.
Collected(ports) ==
    LET rows == {p \in ports : row[p].host # None /\ row[p].live}
        ofRows(R) == {row[p].host : p \in R}
        files(R) == {p \in ports \ R : file[p].host \notin ofRows(R) \cup {None}}
        valid(R) == {p \in files(R) : Alive(file[p].pid) \/ p \in up}
    IN  UNION {{[map |-> [p \in Ports |-> IF p \in R THEN row[p].host
                                          ELSE IF p \in F THEN file[p].host ELSE None],
                 stale |-> files(R) \ valid(R)] :
                    F \in Chosen(valid(R), FileHost)} : R \in Chosen(rows, RowHost)}

\* (With a bug: not reset but removed.)
Removed(ports) == [p \in Ports \ ports |-> file[p]]
Forgotten(ports) == [p \in Ports |-> IF p \in ports THEN NoFile ELSE file[p]]

\* check_export_alive: a dead tunnel looks alive in its first 45 seconds.
Looks(p) == file[p].fresh \/ Alive(file[p].pid)

At(pc) == job.pc = pc
Begin(op) == op \in Ops /\ At("free")
Goto(pc) == job' = [job EXCEPT !.pc = pc]
Target == IF job.back THEN job.prev ELSE job.new

\* The command goes on with the next port of its list, or is done.
Return == IF job.op = "cycle"
          THEN [Idle EXCEPT !.op = "cycle", !.pc = job.phase, !.phase = job.phase,
                            !.todo = job.todo, !.dead = job.dead]
          ELSE Idle

Start(j, p) == [j EXCEPT !.kind = "start", !.pc = "lookup", !.p = p]
Stop(j, p) == [j EXCEPT !.kind = "stop", !.pc = "collect", !.p = p]

\* An error ends a start; a stop is tried again by `down`, which lists once
\* more, and its row is still active then.
Failed == IF job.op = "down" /\ ~job.again
          THEN Stop([Idle EXCEPT !.op = "down", !.again = TRUE], job.p)
          ELSE Return

\* A restart that fails is rolled back, once, if there is something to restore.
Unwind == IF job.back THEN Failed ELSE [job EXCEPT !.back = TRUE, !.pc = "halt", !.pid = None]

-----------------------------------------------------------------------------
(* Commands.                                                               *)

(* `nxctl up` starts a runtime unless one is running, then the tunnel.      *)
BeginUp(p) ==
    /\ Begin("up")
    /\ up' = up \cup {p}
    /\ job' = Start([Idle EXCEPT !.op = "up"], p)
    /\ UNCHANGED <<row, file, config, procs>>

(* `nxctl down` and `unexport` stop the tunnels that have a row.            *)
BeginDown(p) ==
    /\ Begin("down")
    /\ up' = up \ {p}
    /\ row' = [row EXCEPT ![p].live = FALSE]
    /\ job' = IF row[p].host = None THEN Idle ELSE Stop([Idle EXCEPT !.op = "down"], p)
    /\ UNCHANGED <<file, config, procs>>

BeginUnexport(p) ==
    /\ Begin("unexport")
    /\ p \in up /\ row[p].live
    /\ job' = Stop([Idle EXCEPT !.op = "unexport"], p)
    /\ UNCHANGED <<up, row, file, config, procs>>

BeginCycle ==
    /\ Begin("cycle")
    /\ job' = [Idle EXCEPT !.op = "cycle", !.pc = "reconcile"]
    /\ UNCHANGED <<up, row, file, config, procs>>

(* _start_named, 1: the tunnel of the state file or of the row is reused   *)
(* when its process lives and the configuration has the mapping.           *)
Lookup ==
    LET p == job.p
        byFile == Alive(file[p].pid) /\ config[p] = file[p].host
        byRow == row[p].live /\ Alive(row[p].pid) /\ config[p] = row[p].host
        reuse(r) == job' = [job EXCEPT !.pc = "record", !.host = r.host, !.pid = r.pid]
    IN
    /\ At("lookup")
    /\ IF byFile THEN reuse(file[p]) /\ UNCHANGED file
       ELSE IF byRow
       THEN /\ reuse(row[p])
            /\ file' = [file EXCEPT ![p] = [host |-> row[p].host, pid |-> row[p].pid, fresh |-> TRUE]]
       ELSE /\ Goto("plan")
            /\ file' = Forgotten({p})
    /\ UNCHANGED <<up, row, config, procs>>

(* 2 and 3: the mappings of the other ports, and a free hostname.          *)
Plan ==
    /\ At("plan")
    /\ \E c \in Collected(Ports \ {job.p}) :
         /\ file' = Forgotten(c.stale)
         /\ \/ \E h \in Hosts \ HostsOf(c.map) :
                 job' = [job EXCEPT !.pc = "pending", !.host = h, !.prev = c.map,
                                    !.new = [c.map EXCEPT ![job.p] = h], !.pids = OwnedPids]
            \/ Hosts \subseteq HostsOf(c.map) /\ job' = Failed
    /\ UNCHANGED <<up, row, config, procs>>

(* stop(), named mode.                                                     *)
Collect ==
    /\ At("collect")
    /\ \E c \in Collected(Ports) :
         /\ file' = Forgotten(c.stale)
         /\ job' = [job EXCEPT !.pc = IF PortsOf(c.map) \subseteq {job.p} THEN "halt" ELSE "rewrite",
                               !.prev = c.map, !.new = [c.map EXCEPT ![job.p] = None],
                               !.pids = OwnedPids]
    /\ UNCHANGED <<up, row, config, procs>>

Pending ==
    /\ At("pending")
    /\ file' = [file EXCEPT ![job.p] = [host |-> job.host, pid |-> None, fresh |-> TRUE]]
    /\ Goto("rewrite")
    /\ UNCHANGED <<up, row, config, procs>>

Rewrite ==
    /\ At("rewrite")
    /\ config' = job.new
    /\ Goto("halt")
    /\ UNCHANGED <<up, row, file, procs>>

(* The processes on record are stopped ...                                 *)
Halt ==
    /\ At("halt")
    /\ Kill(IF job.back THEN OwnedPids ELSE job.pids)
    /\ job' = IF Target # NoMapping THEN [job EXCEPT !.pc = "spawn"]
              ELSE IF job.back THEN Failed
              ELSE [job EXCEPT !.pc = "forget"]
    /\ UNCHANGED <<up, config>>

(* ... and one is started, with the configuration written (once more).     *)
Spawn ==
    /\ At("spawn")
    /\ config' = Target
    /\ \/ \E pid \in Pids \ Live :
            /\ procs' = [procs EXCEPT ![pid] = Target]
            /\ job' = [job EXCEPT !.pc = "weed", !.pid = pid]
       \/ /\ "spawn" \in Faults \/ Live = Pids
          /\ job' = Unwind
          /\ UNCHANGED procs
    /\ UNCHANGED <<up, row, file>>

(* After three seconds it still runs: others on record are stopped.        *)
Weed ==
    /\ At("weed")
    /\ IF Alive(job.pid)
       THEN Kill(IF job.back THEN {} ELSE OwnedPids \ {job.pid}) /\ Goto("sync")
       ELSE job' = Unwind /\ UNCHANGED <<row, file, procs>>
    /\ UNCHANGED <<up, config>>

(* _sync_mapping_states, then _update_active_db_pids.                      *)
Sync ==
    /\ At("sync")
    /\ \E lost \in SUBSET (IF "save" \in Faults THEN Ports ELSE {}) :
         file' = [p \in Ports |-> IF Target[p] = None \/ p \in lost THEN file[p]
                                  ELSE [host |-> Target[p], pid |-> job.pid, fresh |-> TRUE]]
    /\ Goto("pids")
    /\ UNCHANGED <<up, row, config, procs>>

\* (With a bug: a rollback leaves the rows alone.)
UpdatePidsForward ==
    /\ At("pids")
    /\ row' = [p \in Ports |-> IF ~job.back /\ p \in PortsOf(job.new) /\ row[p].live
                              THEN [row[p] EXCEPT !.pid = job.pid] ELSE row[p]]
    /\ job' = IF job.back THEN Failed
              ELSE [job EXCEPT !.pc = IF job.kind = "start" THEN "record" ELSE "forget"]
    /\ UNCHANGED <<up, file, config, procs>>

UpdatePids ==
    LET served == PortsOf(Target) \ (IF job.kind = "start" /\ ~job.back THEN {job.p} ELSE {}) IN
    /\ At("pids")
    /\ \/ row' = [p \in Ports |-> IF p \in served /\ row[p].live
                                  THEN [row[p] EXCEPT !.pid = job.pid] ELSE row[p]]
       \/ "save" \in Faults /\ UNCHANGED row
    /\ job' = IF job.back THEN Failed
              ELSE [job EXCEPT !.pc = IF job.kind = "start" THEN "record" ELSE "forget"]
    /\ UNCHANGED <<up, file, config, procs>>

(* _save_export_to_db, for the latest runtime.                             *)
Record ==
    /\ At("record")
    /\ row' = [row EXCEPT ![job.p] = [host |-> job.host, pid |-> job.pid, live |-> job.p \in up]]
    /\ job' = Return
    /\ UNCHANGED <<up, file, config, procs>>

(* The end of stop(), and _mark_export_inactive; reconcile marks its rows  *)
(* at the end.                                                             *)
Forget ==
    /\ At("forget")
    /\ file' = Forgotten({job.p})
    /\ job' = IF job.phase = "orphans" THEN Return ELSE [job EXCEPT !.pc = "unrecord"]
    /\ UNCHANGED <<up, row, config, procs>>

Unrecord ==
    /\ At("unrecord")
    /\ row' = [row EXCEPT ![job.p] = NoRow]
    /\ job' = Return
    /\ UNCHANGED <<up, file, config, procs>>

-----------------------------------------------------------------------------
(* _daemon_cycle: reconcile_exports stops the tunnels of runtimes that do  *)
(* not run, and marks them and the dead ones, stopped or not ...            *)
Reconcile ==
    LET rows == {p \in Ports : row[p].host # None}
        orphans == {p \in rows : ~row[p].live}
    IN
    /\ At("reconcile")
    /\ job' = [job EXCEPT !.pc = "orphans", !.phase = "orphans", !.todo = orphans,
                          !.dead = orphans \cup {p \in rows : ~Looks(p)}]
    /\ UNCHANGED <<up, row, file, config, procs>>

Orphan(p) ==
    /\ At("orphans") /\ p \in job.todo
    /\ job' = Stop([job EXCEPT !.todo = @ \ {p}], p)
    /\ UNCHANGED <<up, row, file, config, procs>>

\* What auto-heal looks at: of the running challenges those that are enabled
\* now, when auto_heal_exports says so.
Healable == {heal \in SUBSET up : IF AutoHeal THEN Enabled \cap up \subseteq heal ELSE heal = {}}

OrphansDone(phase) ==
    /\ At("orphans") /\ job.todo = {}
    /\ row' = [p \in Ports |-> IF p \in job.dead THEN NoRow ELSE row[p]]
    /\ \E todo \in IF phase = "test" THEN {{p \in Ports : row'[p].host # None}} ELSE Healable :
         job' = [Idle EXCEPT !.op = "cycle", !.pc = phase, !.phase = phase, !.todo = todo]
    /\ UNCHANGED <<up, file, config, procs>>

(* ... test_tunnel_exports, at a slower cadence, stops what is dead or has  *)
(* no mapping in the configuration ...                                      *)
Test(p) ==
    LET fine == file[p].fresh \/ (Alive(file[p].pid) /\ config[p] = row[p].host)
        rest == [job EXCEPT !.todo = @ \ {p}]
    IN
    /\ At("test") /\ p \in job.todo
    /\ job' = IF fine THEN rest ELSE Stop(rest, p)
    /\ UNCHANGED <<up, row, file, config, procs>>

(* ... and auto-heal starts what a running challenge lacks.                 *)
Tested ==
    /\ At("test") /\ job.todo = {}
    /\ \E heal \in Healable : job' = [job EXCEPT !.pc = "heal", !.phase = "heal", !.todo = heal]
    /\ UNCHANGED <<up, row, file, config, procs>>

\* (With a bug: a state file, whatever it says, passes for a tunnel.)
HealWithoutFile(p) ==
    LET rest == [job EXCEPT !.todo = @ \ {p}] IN
    /\ At("heal") /\ p \in job.todo
    /\ job' = IF p \in up /\ file[p].host = None THEN Start(rest, p) ELSE rest
    /\ UNCHANGED <<up, row, file, config, procs>>

Heal(p) ==
    LET rest == [job EXCEPT !.todo = @ \ {p}] IN
    /\ At("heal") /\ p \in job.todo
    /\ job' = IF p \in up /\ ~row[p].live THEN Start(rest, p) ELSE rest
    /\ UNCHANGED <<up, row, file, config, procs>>

CycleEnd ==
    /\ At("heal") /\ job.todo = {}
    /\ job' = Idle
    /\ UNCHANGED <<up, row, file, config, procs>>

-----------------------------------------------------------------------------
(* The world around.                                                       *)

ContainerExit(p) ==
    /\ "exit" \in Faults
    /\ p \in up
    /\ up' = up \ {p}
    /\ row' = [row EXCEPT ![p].live = FALSE]
    /\ UNCHANGED <<file, config, procs, job>>

TunnelDies(pid) ==
    /\ "dies" \in Faults
    /\ Alive(pid)
    /\ Kill({pid})
    /\ job' = [job EXCEPT !.pid = Scrubbed(@, {pid})]
    /\ UNCHANGED <<up, config>>

GraceEnds(p) ==
    /\ file[p].fresh
    /\ file' = [file EXCEPT ![p].fresh = FALSE]
    /\ UNCHANGED <<up, row, config, procs, job>>

Crash ==
    /\ "crash" \in Faults
    /\ ~At("free")
    /\ job' = [Idle EXCEPT !.op = "crashed"]
    /\ UNCHANGED <<up, row, file, config, procs>>

-----------------------------------------------------------------------------
Init ==
    /\ up = {}
    /\ row = [p \in Ports |-> NoRow]
    /\ file = [p \in Ports |-> NoFile]
    /\ config = NoMapping
    /\ procs = [pid \in Pids |-> NoMapping]
    /\ job = Idle

JobStep ==
    \/ Lookup \/ Plan \/ Collect \/ Pending \/ Rewrite \/ Halt \/ Spawn \/ Weed \/ Sync
    \/ UpdatePids \/ Record \/ Forget \/ Unrecord \/ Reconcile \/ Tested \/ CycleEnd
    \/ \E phase \in {"test", "heal"} : OrphansDone(phase)
    \/ \E p \in job.todo : Orphan(p) \/ Test(p) \/ Heal(p)

Next ==
    \/ JobStep \/ BeginCycle \/ Crash
    \/ \E p \in Ports : BeginUp(p) \/ BeginDown(p) \/ BeginUnexport(p) \/ ContainerExit(p) \/ GraceEnds(p)
    \/ \E pid \in Pids : TunnelDies(pid)

(* A command ends, 45 seconds pass, the daemon gets the lock in the end, and *)
(* time for a test comes round.                                             *)
Fairness ==
    /\ WF_vars(JobStep)
    /\ SF_vars(BeginCycle)
    /\ SF_vars(OrphansDone("test"))
    /\ \A p \in Ports : WF_vars(GraceEnds(p))

Spec == Init /\ [][Next]_vars /\ Fairness

-----------------------------------------------------------------------------
(* Safety.                                                                 *)

Routed(p) == Alive(row[p].pid) /\ procs[row[p].pid][p] = row[p].host

(* One cloudflared process at a time serves the tunnel ("single global     *)
(* process for the tunnel", cloudflare.py:144), whatever fails on the way.   *)
OneProcess == Cardinality(Live) <= 1

(* What arrives at the hostname of a running challenge never goes to the   *)
(* port of another one, whichever rows and state files earlier failures    *)
(* have left for the next collection of the mappings.  Provided that what  *)
(* runs is healed: a disabled challenge keeps the file of a failed start.  *)
NoForeignTraffic ==
    \A p \in Ports, pid \in Live :
        row[p].live => \A q \in Ports \ {p} : procs[pid][q] # row[p].host

(* Whoever restarts the tunnel, for a start, a stop or to undo either:     *)
(* every other running challenge on record keeps its hostname, and its row *)
(* names the new process ("previous mapping restored", cloudflare.py:679). *)
OthersStay ==
    [][UpdatePids /\ Alive(job.pid) =>
         \A p \in Ports \ {job.p} : row[p].live => Routed(p)']_vars

-----------------------------------------------------------------------------
(* Liveness.                                                               *)

Trouble ==
    \/ Crash
    \/ \E pid \in Pids : TunnelDies(pid)
    \/ At("spawn") /\ job' = Unwind
    \/ Sync /\ \E p \in PortsOf(Target) : file'[p].pid # job.pid
    \/ UpdatePids /\ \E p \in PortsOf(Target) : row[p].live /\ row'[p].pid # job.pid

(* Auto-heal: once processes stop failing and saves are not lost, a running *)
(* challenge gets a hostname that leads to it, unless it stops.  Provided   *)
(* that every challenge stays enabled: the start of a disabled one, cut     *)
(* short, leaves a configuration that no process has read, and the tests of *)
(* the others are fooled by it until somebody starts the tunnel anew.       *)
TunnelsHeal ==
    []<><<Trouble>>_vars \/
    \A p \in IF AutoHeal /\ Enabled = Ports THEN Ports ELSE {} :
        p \in up ~> (p \in up => row[p].live /\ \E pid \in Live : procs[pid][p] = row[p].host)
=============================================================================
