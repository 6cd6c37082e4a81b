----------------------------- MODULE Lifecycle -----------------------------
(***************************************************************************)
(* The lifecycle of challenge runtimes: nxctl/scripts/runtime_service.py   *)
(* driven by nxctl/scripts/cli/lifecycle.py, nxctl/scripts/sync_service.py *)
(* and the routes of nxctl_api.  SQLite and Docker are the two places that *)
(* hold state, and they are written one after the other: every statement   *)
(* sequence between two such writes is an action, so that a crash, a clock *)
(* tick, a dying container or an unlocked status() call may come between.  *)
(*                                                                         *)
(* All commands but status() run under the LifecycleLock (module           *)
(* LifecycleLock shows what that lock gives), so one record, job, stands   *)
(* for the command that holds it.  Exports are not part of this module.    *)
(***************************************************************************)
EXTENDS Integers, Sequences, FiniteSets

CONSTANTS
    Challenges,      \* rows of the challenges table
    HostPorts,       \* local_port_start .. local_port_end
    Internal,        \* ports every compose file publishes, {} for none
    Viewers,         \* callers of status() that hold no lock
    TTL,             \* default_ttl_minutes, in clock ticks as all of these:
    ExtendBy,        \* extend_time_minutes
    ExtendWindow,    \* extend_threshold_minutes
    ExtendCooldown,  \* extend_cooldown_seconds
    RestartCooldown, \* restart_cooldown_seconds
    CanRestart,      \* challenges whose policy allows restarts
    AutoHeal,        \* auto_heal_exports
    Legacy,          \* challenges that start running with no expiry date
    Ops,             \* the commands that are given
    Faults,          \* what may go wrong, see FaultKinds
    MaxTries,        \* runtime_start_port_attempts
    MaxTime,         \* bounds the clock
    MaxRows,         \* bounds the runtime_instances rows of a challenge
    None             \* no challenge

OpKinds == {"up", "down", "restart", "extend", "daemon", "sync", "status"}

\* build, up, down: the docker command fails; bind: the chosen host port was
\* taken meanwhile; save: the database refuses the row of what was started;
\* probe: `docker ps` fails or times out; exit: a container dies by itself;
\* crash: the process that holds the lock dies.
FaultKinds == {"build", "up", "down", "bind", "save", "probe", "exit", "crash"}

ASSUME ChallengesAssumption == None \notin Challenges
ASSUME PortsAssumption == HostPorts \subseteq Nat \ {0}
ASSUME TimesAssumption ==
    {TTL, ExtendBy, ExtendWindow, ExtendCooldown, RestartCooldown, MaxTime} \subseteq Nat
ASSUME BoundsAssumption == MaxRows \in Nat \ {0} /\ MaxTries \in Nat \ {0}
ASSUME SwitchesAssumption ==
    /\ CanRestart \subseteq Challenges /\ Legacy \subseteq Challenges
    /\ AutoHeal \in BOOLEAN /\ Ops \subseteq OpKinds /\ Faults \subseteq FaultKinds

VARIABLES
    rows,      \* runtime_instances of a challenge, ORDER BY created_at, id
    ports,     \* challenge_ports: internal port -> host port
    enabled,   \* challenges.enabled
    repo,      \* the challenge's folder in the repository cache
    container, \* what Docker runs for the compose project of the challenge
    job,       \* the command that holds the LifecycleLock
    view,      \* what a status() call without the lock is about to write
    now        \* datetime.utcnow()

vars == <<rows, ports, enabled, repo, container, job, view, now>>

Never  == -1 \* NULL in a date column
FilePort == 0 \* the compose file's own host port, no allocation made yet
NoRow == -1   \* no row in challenge_ports

Bindings == [Internal -> HostPorts \cup {FilePort, NoRow}]
Date == Nat \cup {Never}
Row == [status : {"running", "stopped"}, expires : Date, restarted : Date, extended : Date]
Container == [up : BOOLEAN, bound : Bindings]
JobPCs == {"start", "alloc", "compose", "save", "touch", "status", "mark", "down",
           "rowstop", "stamp", "pull", "register", "cycle", "free"}
Job == [op : OpKinds \cup {"none"}, c : Challenges \cup {None}, pc : JobPCs,
        force : BOOLEAN, scope : {"container", "provider", "all"},
        prefer : Bindings, keep : Date, reuse : BOOLEAN,
        failed : SUBSET (HostPorts \cup {FilePort, NoRow}), tries : Nat,
        queue : SUBSET Challenges, heal : SUBSET Challenges]
View == [c : Challenges \cup {None}, act : {"none", "ask", "stop", "backfill"}, dated : BOOLEAN]

\* No folder, or one whose nxctl.yml enables or disables the challenge.
Folder == {"absent", "on", "off"}
Present(c) == repo[c] # "absent"

FilePorts == [i \in Internal |-> FilePort]
NoRows == [i \in Internal |-> NoRow]
Down == [up |-> FALSE, bound |-> FilePorts]
Idle == [op |-> "none", c |-> None, pc |-> "free", force |-> FALSE, scope |-> "container",
         prefer |-> FilePorts, keep |-> Never, reuse |-> FALSE, failed |-> {}, tries |-> 0,
         queue |-> {}, heal |-> {}]
NoView == [c |-> None, act |-> "none", dated |-> FALSE]

TypeOK ==
    /\ rows \in [Challenges -> Seq(Row)]
    /\ ports \in [Challenges -> Bindings]
    /\ enabled \in [Challenges -> BOOLEAN]
    /\ repo \in [Challenges -> Folder]
    /\ container \in [Challenges -> Container]
    /\ job \in Job
    /\ view \in [Viewers -> View]
    /\ now \in Nat

-----------------------------------------------------------------------------
(* Reading and writing runtime_instances.                                  *)

Latest(c)  == rows[c][Len(rows[c])]
Running(c) == rows[c] # <<>> /\ Latest(c).status = "running"
RowRuns(r) == r.status = "running"
AnyRunning(c) == \E i \in DOMAIN rows[c] : RowRuns(rows[c][i])

\* r.status = 'running' AND expires_at IS NOT NULL AND expires_at < now
Overdue(r) == RowRuns(r) /\ r.expires # Never /\ r.expires < now
\* (With a bug: the closed rows of the history count too.)
ExpiredSetOfHistory ==
    {c \in Challenges : \E i \in DOMAIN rows[c] : rows[c][i].expires # Never /\ rows[c][i].expires < now}
ExpiredSet == {c \in Challenges : \E i \in DOMAIN rows[c] : Overdue(rows[c][i])}

\* (With a bug: the word Docker uses.)
WithDockerStatus(rs, s) ==
    IF rs = <<>> THEN rs ELSE [rs EXCEPT ![Len(rs)].status = IF s = "stopped" THEN "exited" ELSE s]

\* _update_runtime_status: the latest row only; no row, no effect.
WithStatus(rs, s) == IF rs = <<>> THEN rs ELSE [rs EXCEPT ![Len(rs)].status = s]

\* _update_runtime_expiry: every running row.
WithExpiry(rs, t) == [i \in DOMAIN rs |-> IF RowRuns(rs[i]) THEN [rs[i] EXCEPT !.expires = t] ELSE rs[i]]

\* update_restart_time, update_extend_time: every row of the challenge.
WithRestart(rs) == [i \in DOMAIN rs |-> [rs[i] EXCEPT !.restarted = now]]
WithExtend(rs)  == [i \in DOMAIN rs |-> [rs[i] EXCEPT !.extended = now]]

\* _save_runtime_to_db: running rows are closed, then the latest one is used
\* again or a new one inserted, whose other dates are NULL.
Saved(rs, expires, reuse) ==
    LET closed == [i \in DOMAIN rs |-> [rs[i] EXCEPT !.status = "stopped"]]
        fresh  == [status |-> "running", expires |-> expires, restarted |-> Never, extended |-> Never]
    IN  IF reuse /\ rs # <<>>
        THEN [closed EXCEPT ![Len(rs)].status = "running", ![Len(rs)].expires = expires]
        ELSE Append(closed, fresh)

SetRows(c, rs) == rows' = [rows EXCEPT ![c] = rs]

CoolingDown(since, cooldown) == since # Never /\ now - since < cooldown

-----------------------------------------------------------------------------
(* RuntimeService.status: what `docker ps` shows, then the write.          *)

\* A `docker ps` that fails looks like a container that is not running.
Seen(c) == IF "probe" \in Faults THEN {container[c].up, FALSE} ELSE {container[c].up}

\* (With a bug: a legacy row stays without a date.)
AfterStatusNoBackfill(rs, seen) ==
    IF rs # <<>> /\ ~seen THEN WithStatus(rs, "stopped") ELSE rs

\* status() finishing on a row it has read as running.
AfterStatus(rs, seen) ==
    IF rs = <<>> \/ rs[Len(rs)].status # "running" THEN rs
    ELSE IF ~seen THEN WithStatus(rs, "stopped")
    ELSE IF rs[Len(rs)].expires = Never THEN WithExpiry(rs, now + TTL)
    ELSE rs

(* A caller without the lock reads the row ...                             *)
ViewRead(v, c) ==
    /\ view[v] = NoView
    /\ Running(c)
    /\ view' = [view EXCEPT ![v] = [c |-> c, act |-> "ask", dated |-> Latest(c).expires # Never]]
    /\ UNCHANGED <<rows, ports, enabled, repo, container, job, now>>

(* ... asks Docker ...                                                      *)
ViewProbe(v) ==
    /\ view[v].act = "ask"
    /\ \E seen \in Seen(view[v].c) :
         view' = [view EXCEPT ![v] = CASE ~seen -> [@ EXCEPT !.act = "stop"]
                                       [] seen /\ ~view[v].dated -> [@ EXCEPT !.act = "backfill"]
                                       [] OTHER -> NoView]
    /\ UNCHANGED <<rows, ports, enabled, repo, container, job, now>>

(* ... and writes what it concluded, whatever happened since.              *)
ViewWrite(v) ==
    LET c == view[v].c IN
    /\ \/ /\ view[v].act = "stop"
          /\ SetRows(c, WithStatus(rows[c], "stopped"))
       \/ /\ view[v].act = "backfill"
          /\ SetRows(c, WithExpiry(rows[c], now + TTL))
    /\ view' = [view EXCEPT ![v] = NoView]
    /\ UNCHANGED <<ports, enabled, repo, container, job, now>>

-----------------------------------------------------------------------------
(* Commands: they begin when the lock is free, end by giving it back.      *)

Begin(op) == op \in Ops /\ job = Idle
At(pc) == job.pc = pc
Goto(pc) == job' = [job EXCEPT !.pc = pc]

\* The command, or one challenge of a daemon cycle or a sync, is over.
NextJob == IF job.op \in {"daemon", "sync"}
           THEN [Idle EXCEPT !.op = job.op, !.pc = "cycle", !.queue = job.queue, !.heal = job.heal]
           ELSE Idle
Finish == job' = NextJob

BeginUp(c, force) ==
    /\ Begin("up")
    /\ Len(rows[c]) < MaxRows
    /\ job' = [Idle EXCEPT !.op = "up", !.c = c, !.pc = "start", !.force = force]
    /\ UNCHANGED <<rows, ports, enabled, repo, container, view, now>>

BeginDown(c) ==
    /\ Begin("down")
    /\ job' = [Idle EXCEPT !.op = "down", !.c = c, !.pc = "mark"]
    /\ UNCHANGED <<rows, ports, enabled, repo, container, view, now>>

(* restart_challenge_lifecycle up to the first docker command.  The admin  *)
(* route forces without starting disabled challenges, the CLI does both.   *)
BeginRestart(c, force, disabledToo, scope) ==
    /\ Begin("restart")
    /\ Len(rows[c]) < MaxRows
    /\ disabledToo => force
    /\ force \/ /\ c \in CanRestart
                /\ rows[c] # <<>> => ~CoolingDown(Latest(c).restarted, RestartCooldown)
    /\ IF scope = "provider"
       THEN /\ job' = [Idle EXCEPT !.op = "restart", !.c = c, !.pc = "touch", !.scope = scope]
            /\ UNCHANGED rows
       ELSE \E seen \in Seen(c) :
            LET checked == AfterStatus(rows[c], seen)
                running == Running(c) /\ seen
            IN /\ SetRows(c, checked)
               /\ job' = [Idle EXCEPT
                    !.op = "restart", !.c = c, !.pc = "down", !.scope = scope, !.force = disabledToo,
                    !.prefer = IF running /\ scope = "container" THEN ports[c] ELSE FilePorts,
                    !.keep = IF running THEN checked[Len(checked)].expires ELSE Never,
                    !.reuse = running]
    /\ UNCHANGED <<ports, enabled, repo, container, view, now>>

\* (With a bug: an extension is granted at any time.)
BeginExtendAnytime(c) ==
    /\ Begin("extend")
    /\ Running(c)
    /\ ~CoolingDown(Latest(c).extended, ExtendCooldown)
    /\ Latest(c).expires # Never
    /\ SetRows(c, WithExpiry(rows[c], Latest(c).expires + ExtendBy))
    /\ job' = [Idle EXCEPT !.op = "extend", !.c = c, !.pc = "stamp"]
    /\ UNCHANGED <<ports, enabled, repo, container, view, now>>

(* extend_time: the checks and _update_runtime_expiry; the cooldown stamp  *)
(* is a transaction of its own.                                            *)
BeginExtend(c) ==
    /\ Begin("extend")
    /\ Running(c)
    /\ ~CoolingDown(Latest(c).extended, ExtendCooldown)
    /\ Latest(c).expires # Never
    /\ Latest(c).expires - now <= ExtendWindow
    /\ SetRows(c, WithExpiry(rows[c], Latest(c).expires + ExtendBy))
    /\ job' = [Idle EXCEPT !.op = "extend", !.c = c, !.pc = "stamp"]
    /\ UNCHANGED <<ports, enabled, repo, container, view, now>>

StampExtend ==
    /\ At("stamp")
    /\ SetRows(job.c, WithExtend(rows[job.c]))
    /\ Finish
    /\ UNCHANGED <<ports, enabled, repo, container, view, now>>

(* status() of a caller that holds the lock: the extend route, down --all. *)
LockedStatus(c) ==
    /\ Begin("status")
    /\ \E seen \in Seen(c) : SetRows(c, AfterStatus(rows[c], seen))
    /\ UNCHANGED <<ports, enabled, repo, container, job, view, now>>

-----------------------------------------------------------------------------
(* RuntimeService.start.                                                   *)

\* (With a bug: it is not asked whether the challenge runs.)
StartAnyway ==
    /\ At("start")
    /\ enabled[job.c] \/ job.force
    /\ Present(job.c)
    /\ Goto("alloc")
    /\ UNCHANGED <<rows, ports, enabled, repo, container, view, now>>

(* The checks, the image build, the check of the external networks.        *)
Start ==
    LET c == job.c IN
    /\ At("start")
    /\ \/ /\ ~enabled[c] /\ ~job.force
          /\ Finish /\ UNCHANGED rows
       \/ /\ enabled[c] \/ job.force
          /\ Running(c)
          /\ SetRows(c, AfterStatus(rows[c], TRUE))
          /\ Goto(IF job.op = "up" THEN "status" ELSE "touch")
       \/ /\ enabled[c] \/ job.force
          /\ ~Running(c)
          /\ UNCHANGED rows
          /\ \/ /\ Present(c)
                /\ Goto("alloc")
             \/ /\ ~Present(c) \/ "build" \in Faults
                /\ Finish
    /\ UNCHANGED <<ports, enabled, repo, container, view, now>>

\* (With a bug: only what is bound right now counts as taken.)
NothingReserved(c) == {}

\* _running_host_ports_from_db of the other challenges.
ReservedPorts(c) == UNION {{ports[d][i] : i \in Internal} : d \in {e \in Challenges \ {c} : Running(e)}}
\* is_port_in_use: what some container is bound to.
PortsInUse == UNION {{container[d].bound[i] : i \in Internal} : d \in {e \in Challenges : container[e].up}}

\* A container restart of a running challenge, or a sync that updates it.
Preserving == job.reuse /\ job.scope = "container"

\* (With a bug: a restart takes whatever port is free.)
FreshMappings(c) ==
    {m \in [Internal -> HostPorts] :
        /\ \A i \in Internal : m[i] \notin ReservedPorts(c) \cup PortsInUse \cup job.failed
        /\ \A i, j \in Internal : m[i] = m[j] => i = j}

\* Mappings the loop of start() may come to: the preserved one as it is, or
\* free ports, all of them different.
Mappings(c) ==
    {m \in [Internal -> HostPorts] :
        /\ Preserving => m = job.prefer
        /\ \A i \in Internal : m[i] \notin ReservedPorts(c) \cup PortsInUse \cup job.failed
        /\ \A i, j \in Internal : m[i] = m[j] => i = j}

(* Allocation, the compose file and _replace_challenge_ports.  A mapping   *)
(* that cannot be preserved, or a range without a free port, ends the      *)
(* command.                                                                *)
Allocate ==
    LET c == job.c IN
    /\ At("alloc")
    /\ \/ \E m \in Mappings(c) :
            /\ ports' = [ports EXCEPT ![c] = m]
            /\ Goto("compose")
       \/ /\ Mappings(c) = {} \/ "bind" \in Faults
          /\ Finish
          /\ UNCHANGED ports
    /\ UNCHANGED <<rows, enabled, repo, container, view, now>>

\* (With a bug: nobody cleans up after a failed start.)
NoCleanup(c) == {Down, [up |-> TRUE, bound |-> ports[c]]}

\* What _cleanup_failed_compose_start leaves: its errors are only logged.
Leftovers(c) == IF "down" \in Faults
                THEN {Down, container[c], [up |-> TRUE, bound |-> ports[c]]} ELSE {Down}

(* docker compose up.                                                      *)
ComposeUp ==
    LET c == job.c IN
    /\ At("compose")
    /\ \/ /\ container' = [container EXCEPT ![c] = [up |-> TRUE, bound |-> ports[c]]]
          /\ Goto("save")
       \/ \E left \in Leftovers(c) :
            /\ container' = [container EXCEPT ![c] = left]
            /\ \/ /\ "bind" \in Faults /\ Internal # {}
                  /\ job.tries + 1 < MaxTries
                  /\ job' = [job EXCEPT !.pc = "alloc", !.tries = @ + 1,
                                        !.failed = @ \cup {ports[c][i] : i \in Internal}]
               \/ /\ \/ "up" \in Faults
                     \/ "bind" \in Faults /\ Internal # {} /\ job.tries + 1 = MaxTries
                  /\ Finish
    /\ UNCHANGED <<rows, ports, enabled, repo, view, now>>

\* (With a bug: only what is started again gets a date.)
SaveAsKept ==
    /\ At("save")
    /\ SetRows(job.c, Saved(rows[job.c], job.keep, job.reuse))
    /\ Goto(IF job.op = "up" THEN "status" ELSE "touch")
    /\ UNCHANGED <<ports, enabled, repo, container, view, now>>

(* The expiry date and _save_runtime_to_db.                                *)
Save ==
    LET c == job.c
        expires == IF job.keep # Never THEN job.keep ELSE now + TTL
    IN
    /\ At("save")
    /\ SetRows(c, Saved(rows[c], expires, job.reuse))
    /\ Goto(IF job.op = "up" THEN "status" ELSE "touch")
    /\ UNCHANGED <<ports, enabled, repo, container, view, now>>

(* The row cannot be written: start() raises, and the container stays up.  *)
SaveFails ==
    /\ At("save") /\ "save" \in Faults
    /\ Finish
    /\ UNCHANGED <<rows, ports, enabled, repo, container, view, now>>

(* `up` asks for the status once more and reports that the challenge runs. *)
UpStatus ==
    /\ At("status")
    /\ \E seen \in Seen(job.c) : SetRows(job.c, AfterStatus(rows[job.c], seen))
    /\ Finish
    /\ UNCHANGED <<ports, enabled, repo, container, view, now>>

\* (With a bug: the lock is not given back.)
TouchForever ==
    /\ At("touch")
    /\ SetRows(job.c, WithRestart(rows[job.c]))
    /\ UNCHANGED <<ports, enabled, repo, container, job, view, now>>

(* update_restart_time.                                                    *)
Touch ==
    /\ At("touch")
    /\ SetRows(job.c, WithRestart(rows[job.c]))
    /\ Finish
    /\ UNCHANGED <<ports, enabled, repo, container, view, now>>

-----------------------------------------------------------------------------
(* RuntimeService.stop, alone in a restart or a sync, after mark_stopped   *)
(* in _stop_challenge_completely.                                          *)

\* (With a bug: the row is marked, the container forgotten.)
MarkOnly ==
    /\ At("mark")
    /\ SetRows(job.c, WithStatus(rows[job.c], "stopped"))
    /\ Finish
    /\ UNCHANGED <<ports, enabled, repo, container, view, now>>

MarkStopped ==
    /\ At("mark")
    /\ SetRows(job.c, WithStatus(rows[job.c], "stopped"))
    /\ Goto("down")
    /\ UNCHANGED <<ports, enabled, repo, container, view, now>>

\* stop() has returned: a restart goes on, `down` turns to the exports.
Stopped == IF job.op \in {"restart", "sync"} THEN Goto("start") ELSE Finish

ComposeDown ==
    LET c == job.c IN
    /\ At("down")
    /\ \/ /\ ~Present(c)
          /\ SetRows(c, WithStatus(rows[c], "stopped"))
          /\ Stopped
          /\ UNCHANGED container
       \/ /\ Present(c)
          /\ container' = [container EXCEPT ![c] = Down]
          /\ Goto("rowstop")
          /\ UNCHANGED rows
       \/ /\ Present(c) /\ "down" \in Faults
          /\ container' \in {container, [container EXCEPT ![c] = Down]}
          /\ Finish
          /\ UNCHANGED rows
    /\ UNCHANGED <<ports, enabled, repo, view, now>>

RowStopped ==
    /\ At("rowstop")
    /\ SetRows(job.c, WithStatus(rows[job.c], "stopped"))
    /\ Stopped
    /\ UNCHANGED <<ports, enabled, repo, container, view, now>>

-----------------------------------------------------------------------------
(* _daemon_cycle: the expired and the running challenges are read at once. *)
(* `nxctl status` runs the same cycle without healing when the lock is     *)
(* free.                                                                   *)
BeginCycle(healing) ==
    LET running == {c \in Challenges : AnyRunning(c) /\ enabled[c]} IN
    /\ Begin("daemon")
    /\ healing => AutoHeal
    /\ ExpiredSet # {} \/ (healing /\ running # {})
    /\ job' = [Idle EXCEPT !.op = "daemon", !.pc = "cycle", !.queue = ExpiredSet,
                           !.heal = IF healing THEN running \ ExpiredSet ELSE {}]
    /\ UNCHANGED <<rows, ports, enabled, repo, container, view, now>>

CycleStop(c) ==
    /\ At("cycle") /\ job.op = "daemon" /\ c \in job.queue
    /\ job' = [job EXCEPT !.c = c, !.pc = "mark", !.queue = @ \ {c}]
    /\ UNCHANGED <<rows, ports, enabled, repo, container, view, now>>

(* Auto-heal looks at status() before it turns to missing exports.         *)
CycleHeal(c) ==
    /\ At("cycle") /\ job.op = "daemon" /\ job.queue = {} /\ c \in job.heal
    /\ \E seen \in Seen(c) : SetRows(c, AfterStatus(rows[c], seen))
    /\ job' = [job EXCEPT !.heal = @ \ {c}]
    /\ UNCHANGED <<ports, enabled, repo, container, view, now>>

(* The end of a cycle or a sync.                                           *)
CycleEnd ==
    /\ At("cycle") /\ job.queue = {} /\ job.heal = {}
    /\ job' = Idle
    /\ UNCHANGED <<rows, ports, enabled, repo, container, view, now>>

-----------------------------------------------------------------------------
(* SyncService.sync: git pull changes the folders of some challenges ...   *)
SyncPull(changed) ==
    /\ Begin("sync")
    /\ \E pulled \in [changed -> Folder] :
         repo' = [c \in Challenges |-> IF c \in changed THEN pulled[c] ELSE repo[c]]
    /\ job' = [Idle EXCEPT !.op = "sync", !.pc = "register", !.queue = changed]
    /\ UNCHANGED <<rows, ports, enabled, container, view, now>>

\* (With a bug: the ports of running challenges are replaced as well.)
RegisterAllPorts ==
    /\ At("register")
    /\ enabled' = [c \in Challenges |-> repo[c] = "on"]
    /\ ports' = [c \in Challenges |-> IF Present(c) THEN FilePorts
                                     ELSE IF enabled[c] THEN NoRows ELSE ports[c]]
    /\ job' = [job EXCEPT !.pc = "cycle", !.queue = {c \in @ : Present(c)}]
    /\ UNCHANGED <<rows, repo, container, view, now>>

(* ... _save_challenges_to_db records what was discovered: the ports of a  *)
(* challenge with a running row stay, those of an enabled one that is gone *)
(* are deleted ...                                                         *)
SyncRegister ==
    /\ At("register")
    /\ enabled' = [c \in Challenges |-> repo[c] = "on"]
    /\ ports' = [c \in Challenges |->
                   CASE Present(c) /\ ~AnyRunning(c) -> FilePorts
                     [] ~Present(c) /\ enabled[c]    -> NoRows
                     [] OTHER                        -> ports[c]]
    /\ job' = [job EXCEPT !.pc = "cycle", !.queue = {c \in @ : Present(c)}]
    /\ UNCHANGED <<rows, repo, container, view, now>>

(* ... and _update_running_challenges restarts those that changed and run, *)
(* unless the new image does not build or the port layout changed.         *)
SyncUpdate(c) ==
    /\ At("cycle") /\ job.op = "sync" /\ c \in job.queue
    /\ \E seen \in Seen(c) :
       LET checked == AfterStatus(rows[c], seen) IN
       /\ SetRows(c, checked)
       /\ \/ /\ Running(c) /\ seen
             /\ \A i \in Internal : ports[c][i] # NoRow
             /\ job' = [job EXCEPT !.c = c, !.pc = "down", !.queue = @ \ {c}, !.prefer = ports[c],
                                   !.keep = checked[Len(checked)].expires, !.reuse = TRUE]
          \/ /\ \/ ~Running(c) \/ ~seen \/ "build" \in Faults
                \/ \E i \in Internal : ports[c][i] = NoRow
             /\ job' = [job EXCEPT !.queue = @ \ {c}]
    /\ UNCHANGED <<ports, enabled, repo, container, view, now>>

-----------------------------------------------------------------------------
(* The world around.                                                       *)

Tick ==
    /\ now < MaxTime
    /\ now' = now + 1
    /\ UNCHANGED <<rows, ports, enabled, repo, container, job, view>>

ContainerExit(c) ==
    /\ "exit" \in Faults
    /\ container[c].up
    /\ container' = [container EXCEPT ![c] = Down]
    /\ UNCHANGED <<rows, ports, enabled, repo, job, view, now>>

(* The process that holds the lock dies; the kernel releases the flock.  A *)
(* docker command it waited for may or may not have been carried out.      *)
Crash ==
    LET c == job.c
        outcomes == CASE At("compose") -> {container[c], Down, [up |-> TRUE, bound |-> ports[c]]}
                      [] At("down") /\ Present(c) -> {container[c], Down}
                      [] OTHER -> {}
    IN
    /\ "crash" \in Faults
    /\ job # Idle
    /\ \/ outcomes = {} /\ UNCHANGED container
       \/ \E o \in outcomes : container' = [container EXCEPT ![c] = o]
    /\ job' = Idle
    /\ UNCHANGED <<rows, ports, enabled, repo, view, now>>

-----------------------------------------------------------------------------
Init ==
    /\ rows = [c \in Challenges |->
                 IF c \in Legacy
                 THEN <<[status |-> "running", expires |-> Never, restarted |-> Never, extended |-> Never]>>
                 ELSE <<>>]
    /\ ports \in [Challenges -> Bindings]
    /\ \A c \in Challenges : IF c \in Legacy THEN ports[c] \in [Internal -> HostPorts] ELSE ports[c] = FilePorts
    /\ \A c, d \in Legacy, i, j \in Internal : ports[c][i] = ports[d][j] => c = d /\ i = j
    /\ container = [c \in Challenges |-> [up |-> c \in Legacy, bound |-> ports[c]]]
    /\ enabled = [c \in Challenges |-> TRUE]
    /\ repo = [c \in Challenges |-> "on"]
    /\ job = Idle
    /\ view = [v \in Viewers |-> NoView]
    /\ now = 0

\* The steps of the command that holds the lock.
JobStep ==
    \/ StampExtend \/ Start \/ Allocate \/ ComposeUp \/ Save \/ SaveFails \/ UpStatus \/ Touch
    \/ MarkStopped \/ ComposeDown \/ RowStopped \/ CycleEnd \/ SyncRegister
    \/ \E c \in Challenges : CycleStop(c) \/ CycleHeal(c) \/ SyncUpdate(c)

Request ==
    \/ \E c \in Challenges :
         \/ BeginDown(c) \/ BeginExtend(c) \/ LockedStatus(c)
         \/ \E force \in BOOLEAN : BeginUp(c, force)
         \/ \E force, disabledToo \in BOOLEAN, scope \in {"container", "provider", "all"} :
              BeginRestart(c, force, disabledToo, scope)
    \/ \E changed \in SUBSET Challenges : SyncPull(changed)

Next ==
    \/ JobStep
    \/ Request
    \/ \E healing \in BOOLEAN : BeginCycle(healing)
    \/ \E v \in Viewers : ViewProbe(v) \/ ViewWrite(v) \/ \E c \in Challenges : ViewRead(v, c)
    \/ Tick
    \/ Crash
    \/ \E c \in Challenges : ContainerExit(c)

\* Every docker command has a timeout, so a command that holds the lock goes
\* on; time passes.
Fairness == WF_vars(JobStep) /\ WF_vars(Tick)

\* The daemon asks for the lock every few seconds and blocks until it has it.
DaemonFairness == SF_vars(BeginCycle(AutoHeal))

Spec == Init /\ [][Next]_vars /\ Fairness /\ DaemonFairness

-----------------------------------------------------------------------------
(* Two running challenges never claim the same host port, whatever died,    *)
(* failed or crashed before: a row may say running long after its container *)
(* is gone and the operating system has its port back.                      *)
RunningPortsDisjoint ==
    \A c, d \in Challenges : c # d /\ Running(c) /\ Running(d) =>
        \A i, j \in Internal : ports[c][i] = ports[d][j] => ports[c][i] \notin HostPorts

(* The ports a running challenge has in the database, where its tunnels    *)
(* point, are the ports its containers are bound to, unless a command is    *)
(* at work on it.  (A sync that found the folder gone deleted them all.)    *)
PortsMatchContainer ==
    \A c \in Challenges :
        Running(c) /\ container[c].up /\ job.c # c /\ ports[c] # NoRows
            => container[c].bound = ports[c]

(* No container runs that the database does not know to be running: such a  *)
(* one has no expiry date and the daemon never stops it.                    *)
NoOrphanContainer ==
    \A c \in Challenges : container[c].up /\ job.c # c => Running(c)

\* The longest time a challenge can be given at once.
Reach == IF TTL >= ExtendWindow + ExtendBy THEN TTL ELSE ExtendWindow + ExtendBy

(* "a safety mechanism to prevent challenges from running indefinitely":    *)
(* no sequence of restarts, extensions, syncs and crashes puts the end of a *)
(* runtime further away than one TTL or one extension does.                 *)
DeadlineBounded ==
    \A c \in Challenges : Running(c) => Latest(c).expires <= now + Reach

(* The daemon selects challenges by ANY running row but stops the latest:   *)
(* it never takes down a runtime that still has time left.                  *)
NoEarlyStop ==
    \A c \in Challenges :
        /\ job.op = "daemon"
        /\ (job.pc = "cycle" /\ c \in job.queue) \/ (job.pc = "mark" /\ c = job.c)
        /\ Running(c)
        => Latest(c).expires # Never /\ Latest(c).expires < now

(* A container restart of a running challenge, and a sync that updates one, *)
(* keep its host ports, its expiry date and its row of the history through  *)
(* every step, retries included.                                            *)
RestartPreserves ==
    [][LET c == job.c IN
       /\ job.op \in {"restart", "sync"} /\ c # None
       /\ Preserving
       /\ job'.c = c
       => /\ ports'[c] = ports[c]
          /\ Len(rows'[c]) = Len(rows[c])
          /\ rows'[c][Len(rows[c])].expires = Latest(c).expires]_vars

(* "Expired challenges have both their container and active tunnel          *)
(* stopped": the container of an expired runtime goes down, unless the      *)
(* runtime gets more time.                                                  *)
ExpiredContainerStops ==
    \A c \in Challenges :
        (c \in ExpiredSet /\ container[c].up)
            ~> (~container[c].up \/ (Running(c) /\ c \notin ExpiredSet))

(* A runtime that began before expiry dates were recorded gets one, or      *)
(* stops, once the daemon heals.                                            *)
LegacyGetsDeadline ==
    \A c \in Challenges :
        (Running(c) /\ Latest(c).expires = Never)
            ~> ~(Running(c) /\ Latest(c).expires = Never)

\* What a challenge has while its latest row says running.
Leased == {c \in Challenges : Running(c)}
LeasedPorts == [c \in Challenges |-> IF Running(c) THEN ports[c] ELSE NoRows]
LeasedUntil == [c \in Challenges |-> IF Running(c) THEN Latest(c).expires ELSE Never]

Leases == INSTANCE Lease WITH
    NoPorts <- NoRows, Given <- Legacy,
    running <- Leased, ports <- LeasedPorts, until <- LeasedUntil

(* Rows, ports and commands, with all the steps between them and with       *)
(* unlocked status() calls, amount to leases: a runtime has its ports and   *)
(* its date from the moment the row says running, nothing but the loss of   *)
(* its folder changes the ports, and its date never goes away.              *)
ImplementsLease == Leases!Spec

(* Every command gives the lock back.                                       *)
LockReleased == []<>(job = Idle)
=============================================================================
