------------------------------ MODULE Exports ------------------------------
(***************************************************************************)
(* Tunnels: nxctl/scripts/exports/manager.py and the providers bore,       *)
(* localtunnel, pinggy and ngrok, as `up`, `down`, `restart`, `export`,    *)
(* `unexport`, `test` and the daemon cycle drive them.  A tunnel exists    *)
(* three times: as a row of challenge_exports, as a state file of its      *)
(* provider and as a process; each is written on its own.                  *)
(*                                                                         *)
(* Of the runtimes (module Lifecycle) this module keeps the latest row,    *)
(* whether it says running, and the host port.  A challenge publishes one  *)
(* port; the code runs the same loops over several.  The commands hold the *)
(* LifecycleLock, so one record, job, stands for them.                     *)
(***************************************************************************)
EXTENDS Naturals, FiniteSets

CONSTANTS
    Challenges,
    HostPorts,
    Providers,  \* the tunnel providers that are enabled
    Pids,       \* process ids
    Tokens,     \* the accounts of pinggy, and of ngrok, that are configured
    MaxSessions, \* the tunnels an account may have at a time
    Viewers,    \* callers without the lock: status routes, GET /test, ps --kill
    BaseIp,     \* TRUE when base_ip is configured
    Ops,        \* the commands that are given
    Faults,     \* what may go wrong, see FaultKinds
    Enabled,    \* challenges that stay enabled; a sync may disable the others
    AutoHeal,   \* auto_heal_exports
    MaxAttempts, \* the launches of one start (pinggy_startup_retries and its like)
    MaxRows,    \* bounds the runtime rows of a challenge
    None

OpKinds == {"up", "down", "restart", "export", "unexport", "test", "daemon", "ps"}

\* start: a provider fails; attempt: its start raises with the process
\* launched; row: a row is not marked inactive; runtime: a runtime fails to
\* start; exit: a container stops and a status() call notices; dies: a tunnel
\* process ends; probe: an endpoint does not answer; reuse: a new process gets
\* the pid of a dead one that is still on record; crash: the process with the
\* lock dies.
FaultKinds == {"start", "attempt", "row", "runtime", "exit", "dies", "probe", "reuse", "crash"}

\* _load_state of pinggy takes the challenge as well as the port.
ByChallenge == {"pinggy"}
\* _is_ngrok_pid looks at the name of the process only.
ChecksPort == {"bore", "localtunnel", "pinggy"}
\* _select_token: ngrok does not start without a token, pinggy has a free tier.
Tokenized == {"pinggy", "ngrok"}
FreeTier == Providers \ {"ngrok"}
\* An exception in start() passes over the kill of what it launched.
LeavesBehind == {"pinggy", "ngrok"}
\* ngrok has one attempt.
Retries == {"bore", "localtunnel", "pinggy"}

ASSUME ProvidersAssumption == Providers \subseteq {"bore", "localtunnel", "pinggy", "ngrok"}
ASSUME SwitchesAssumption ==
    /\ BaseIp \in BOOLEAN /\ AutoHeal \in BOOLEAN /\ Enabled \subseteq Challenges
    /\ Ops \subseteq OpKinds /\ Faults \subseteq FaultKinds
ASSUME NoneAssumption == None \notin Challenges \cup HostPorts \cup Pids \cup Tokens
ASSUME SessionsAssumption == MaxSessions \in Nat \ {0}
ASSUME RowsAssumption == MaxRows \in Nat
ASSUME AttemptsAssumption == MaxAttempts \in Nat \ {0}
ASSUME FiniteAssumption == IsFiniteSet(Challenges) /\ IsFiniteSet(HostPorts) /\ IsFiniteSet(Pids)

VARIABLES
    runtime, \* the latest runtime row of a challenge, and whether it runs
    port,    \* its host port in challenge_ports
    exports, \* the active rows of challenge_exports
    state,   \* the providers' state files
    procs,   \* the tunnel processes of the machine
    job,     \* the command that holds the LifecycleLock
    view     \* what a caller without the lock is about to write

vars == <<runtime, port, exports, state, procs, job, view>>
tables == <<runtime, port, exports>>
tunnels == <<state, procs>>

Direct == "base_ip"
Runtime == [row : 0 .. MaxRows, up : BOOLEAN]
Export == [c : Challenges, row : 1 .. MaxRows, prov : Providers \cup {Direct},
           port : HostPorts, pid : Pids \cup {None}]
\* fresh: younger than the 45 seconds of grace; failed: has first_failed_at.
State == [pid : Pids \cup {None}, token : Tokens \cup {None}, fresh : BOOLEAN, failed : BOOLEAN]
Proc == [prov : Providers \cup {None}, port : HostPorts \cup {None}, token : Tokens \cup {None}]
Keys == {k \in Providers \X (Challenges \cup {None}) \X HostPorts :
            k[2] # None <=> k[1] \in ByChallenge}
JobPCs == {"free", "down", "runtime", "list", "stop", "unrecord", "starts", "spawned", "record",
           "cycle", "orphans", "sweep", "kill", "probe", "test", "heal"}
Job == [op : OpKinds \cup {"none", "crashed"}, pc : JobPCs, c : Challenges \cup {None},
        scope : {"container", "provider", "all"}, kept : BOOLEAN, again : BOOLEAN,
        todo : SUBSET Export, doomed : SUBSET Export, cur : SUBSET Export,
        provs : SUBSET (Providers \cup {Direct}), prov : Providers \cup {None},
        pid : Pids \cup {None}, token : Tokens \cup {None}, tries : 0 .. MaxAttempts, keep : SUBSET Export,
        queue : SUBSET Challenges, heal : SUBSET Challenges]
View == [act : {"none", "backfill", "resave", "unrecord", "clear"}, rows : SUBSET Export,
         key : Keys \cup {None}, read : State]

NoState == [pid |-> None, token |-> None, fresh |-> FALSE, failed |-> FALSE]
Saved(pid, token) == [pid |-> pid, token |-> token, fresh |-> TRUE, failed |-> FALSE]
NoProc == [prov |-> None, port |-> None, token |-> None]
Idle == [op |-> "none", pc |-> "free", c |-> None, scope |-> "container", kept |-> FALSE,
         again |-> FALSE, todo |-> {}, doomed |-> {}, cur |-> {}, provs |-> {}, prov |-> None,
         pid |-> None, token |-> None, tries |-> 0, keep |-> {}, queue |-> {}, heal |-> {}]
NoView == [act |-> "none", rows |-> {}, key |-> None, read |-> NoState]

TypeOK ==
    /\ runtime \in [Challenges -> Runtime]
    /\ port \in [Challenges -> HostPorts \cup {None}]
    /\ exports \subseteq Export
    /\ state \in [Keys -> State]
    /\ procs \in [Pids -> Proc]
    /\ job \in Job
    /\ view \in [Viewers -> View]

-----------------------------------------------------------------------------
(* Processes and state files.                                              *)

Key(prov, c, p) == <<prov, IF prov \in ByChallenge THEN c ELSE None, p>>
StateOf(prov, c, p) == state[Key(prov, c, p)]

Alive(pid) == pid # None /\ procs[pid] # NoProc

\* _is_bore_pid and its kin.
IsPid(prov, pid, p) ==
    /\ Alive(pid)
    /\ procs[pid].prov = prov
    /\ prov \in ChecksPort => procs[pid].port = p

\* Pids a new process may get, with those of the processes dying.
FreePids(dying) ==
    {pid \in Pids : (~Alive(pid) \/ pid \in dying)
                   /\ \/ "reuse" \in Faults
                      \/ /\ \A r \in exports : r.pid # pid
                         /\ \A k \in Keys : state[k].pid # pid
                         /\ \A v \in Viewers : view[v].read.pid # pid}

\* Processes whose command line names the port.
Found(prov, p) == {pid \in Pids : procs[pid].prov = prov /\ procs[pid].port = p}

IsRunning(prov, c, p) ==
    \/ IsPid(prov, StateOf(prov, c, p).pid, p)
    \/ prov = "pinggy" /\ Found(prov, p) # {}

\* The processes after SIGTERM and SIGKILL to some of them.
Without(pids) == [p \in Pids |-> IF p \in pids THEN NoProc ELSE procs[p]]

\* Provider.stop: the process of the state file, and one orphan of pinggy.
Victims(prov, c, p) ==
    LET own == {StateOf(prov, c, p).pid} \cap {pid \in Pids : IsPid(prov, pid, p)}
        orphans == IF prov = "pinggy" THEN Found(prov, p) \ own ELSE {}
    IN  IF orphans = {} THEN {own} ELSE {own \cup {pid} : pid \in orphans}

StopTunnel(r) ==
    /\ \E pids \in Victims(r.prov, r.c, r.port) : procs' = Without(pids)
    /\ state' = [state EXCEPT ![Key(r.prov, r.c, r.port)] = NoState]

-----------------------------------------------------------------------------
(* Tokens.                                                                 *)

NotedIn(prov) == {k \in Keys : k[1] = prov /\ state[k].token # None /\ IsPid(prov, state[k].pid, k[3])}

\* (With a bug: a tunnel that has no state file has no session.)
SessionsOnFile(prov, t) == Cardinality({k \in NotedIn(prov) : state[k].token = t})

\* _used_token_counts: what the state files say, then the command lines of
\* the processes none of them accounts for.
Sessions(prov, t) ==
    LET noted == NotedIn(prov)
        others == {p \in Pids : procs[p].prov = prov} \ {state[k].pid : k \in noted}
    IN  Cardinality({k \in noted : state[k].token = t})
        + Cardinality({p \in others : procs[p].token = t})

\* _select_token: one of the least used, if one has a session left.
TokensFor(prov) ==
    LET open == {t \in Tokens : prov \in Tokenized /\ Sessions(prov, t) < MaxSessions}
    IN  IF open = {} /\ prov \in FreeTier THEN {None}
        ELSE {t \in open : \A u \in open : Sessions(prov, t) <= Sessions(prov, u)}

-----------------------------------------------------------------------------
(* Rows.                                                                   *)

RowRuns(r) == runtime[r.c].up /\ runtime[r.c].row = r.row
SamePlace(r, s) == r.c = s.c /\ r.prov = s.prov /\ r.port = s.port

\* dedupe_active_exports keeps the newest of a challenge, provider and port.
Deduped(rs) == {r \in rs : \A s \in rs : SamePlace(r, s) => s.row <= r.row}

\* (With a bug: for every challenge, running or not.)
MissingAnyway(cs) ==
    {[c |-> c, row |-> runtime[c].row, prov |-> Direct, port |-> port[c], pid |-> None] :
        c \in {d \in cs : BaseIp}} \ exports

\* _backfill_direct_exports, for the challenges cs.
Missing(cs) ==
    {[c |-> c, row |-> runtime[c].row, prov |-> Direct, port |-> port[c], pid |-> None] :
        c \in {d \in cs : BaseIp /\ runtime[d].up}} \ exports

\* list_exports without its SELECT: it writes before it reads.
Listed(cs) == Deduped(exports) \cup Missing(cs)

\* _save_export_to_db.
Recorded(r) == {s \in exports : ~SamePlace(r, s)} \cup {r}

\* check_export_alive: a dead tunnel may look alive for its first 45 seconds
\* (_load_state of ngrok is called with an argument too many, and fails).
Looks(r) ==
    IF r.prov = Direct THEN {RowRuns(r)}
    ELSE {IsRunning(r.prov, r.c, r.port)}
         \cup (IF StateOf(r.prov, r.c, r.port).fresh /\ r.prov # "ngrok" THEN {TRUE} ELSE {})

-----------------------------------------------------------------------------
(* Commands begin when the lock is free, end by giving it back.            *)

At(pc) == job.pc = pc
Begin(op) == op \in Ops /\ At("free")
Finish == job' = Idle
Cycle == [Idle EXCEPT !.op = job.op, !.pc = "cycle", !.queue = job.queue, !.heal = job.heal]
ToHeal == [Idle EXCEPT !.op = job.op, !.pc = "heal", !.heal = job.heal]
Running == {c \in Challenges : runtime[c].up}
AllExports == Providers \cup (IF BaseIp THEN {Direct} ELSE {})

BeginUp(c) ==
    /\ Begin("up")
    /\ runtime[c].row < MaxRows
    /\ job' = [Idle EXCEPT !.op = "up", !.c = c, !.pc = "runtime"]
    /\ UNCHANGED <<tables, tunnels, view>>

BeginDown(c) ==
    /\ Begin("down")
    /\ job' = [Idle EXCEPT !.op = "down", !.c = c, !.pc = "down"]
    /\ UNCHANGED <<tables, tunnels, view>>

\* (With a bug: the exports outlive a restart of the container and its ports.)
BeginRestartOnly(c, scope) ==
    /\ Begin("restart")
    /\ runtime[c].row > 0
    /\ runtime[c].up \/ runtime[c].row < MaxRows
    /\ job' = [Idle EXCEPT !.op = "restart", !.c = c, !.scope = scope,
                           !.pc = IF scope = "provider" THEN "list" ELSE "down",
                           !.kept = runtime[c].up]
    /\ UNCHANGED <<tables, tunnels, view>>

BeginRestart(c, scope) ==
    /\ Begin("restart")
    /\ runtime[c].row > 0
    /\ runtime[c].up \/ runtime[c].row < MaxRows
    /\ job' = [Idle EXCEPT !.op = "restart", !.c = c, !.scope = scope,
                           !.pc = IF scope = "container" THEN "down" ELSE "list",
                           !.kept = runtime[c].up]
    /\ UNCHANGED <<tables, tunnels, view>>

(* `nxctl export`: every provider or one.                                  *)
BeginExport(c, provs) ==
    /\ Begin("export")
    /\ runtime[c].up
    /\ job' = [Idle EXCEPT !.op = "export", !.c = c, !.pc = "starts", !.provs = provs]
    /\ UNCHANGED <<tables, tunnels, view>>

BeginUnexport(c) ==
    /\ Begin("unexport")
    /\ job' = [Idle EXCEPT !.op = "unexport", !.c = c, !.pc = "list"]
    /\ UNCHANGED <<tables, tunnels, view>>

(* `nxctl test` heals what it tests.                                       *)
BeginTest ==
    /\ Begin("test")
    /\ job' = [Idle EXCEPT !.op = "test", !.pc = "probe", !.again = TRUE,
                           !.heal = Running]
    /\ UNCHANGED <<tables, tunnels, view>>

(* The runtime: RuntimeService.stop and mark_stopped ...                    *)
RuntimeDown ==
    /\ At("down")
    /\ runtime' = [runtime EXCEPT ![job.c].up = FALSE]
    /\ job' = [job EXCEPT !.pc = IF job.op = "restart" THEN "runtime" ELSE "list"]
    /\ UNCHANGED <<port, exports, tunnels, view>>

FreePorts(c) == HostPorts \ {port[d] : d \in {e \in Challenges \ {c} : runtime[e].up}}

(* ... and RuntimeService.start.  A restart of a running challenge keeps   *)
(* its row, one of its container alone its port as well.                   *)
RuntimeUp ==
    LET c == job.c
        reuse == job.op = "restart" /\ job.kept
        usable == IF reuse /\ job.scope = "container" THEN FreePorts(c) \cap {port[c]} ELSE FreePorts(c)
        next == IF job.op = "restart" /\ job.scope = "container" THEN Idle
                ELSE [job EXCEPT !.pc = "starts", !.provs = AllExports]
    IN
    /\ At("runtime")
    /\ \/ /\ runtime[c].up
          /\ job' = next
          /\ UNCHANGED <<runtime, port>>
       \/ /\ ~runtime[c].up
          /\ \E p \in usable : port' = [port EXCEPT ![c] = p]
          /\ runtime' = [runtime EXCEPT ![c] = [row |-> IF reuse THEN @.row ELSE @.row + 1, up |-> TRUE]]
          /\ job' = next
       \/ /\ ~runtime[c].up
          /\ usable = {} \/ "runtime" \in Faults
          /\ Finish
          /\ UNCHANGED <<runtime, port>>
    /\ UNCHANGED <<exports, tunnels, view>>

-----------------------------------------------------------------------------
(* start_available_exports.                                                *)

StartDirect ==
    LET r == [c |-> job.c, row |-> runtime[job.c].row, prov |-> Direct, port |-> port[job.c], pid |-> None] IN
    /\ At("starts") /\ Direct \in job.provs
    /\ exports' = Recorded(r)
    /\ job' = [job EXCEPT !.provs = @ \ {Direct}]
    /\ UNCHANGED <<runtime, port, tunnels, view>>

\* The provider fails; the others are tried all the same.
Skip(prov) ==
    job' = [job EXCEPT !.pc = "starts", !.provs = @ \ {prov}, !.prov = None, !.pid = None, !.token = None,
                       !.tries = 0]

(* Provider.start finds the tunnel of its state file alive; or pinggy a     *)
(* process for the port, which it takes over when the log of the challenge  *)
(* names an endpoint that resolves, and fails otherwise.                    *)
Reuse(prov) ==
    LET c == job.c
        k == Key(prov, c, port[c])
        own == IsPid(prov, state[k].pid, port[c])
    IN
    /\ At("starts") /\ prov \in job.provs
    /\ \/ /\ own
          /\ job' = [job EXCEPT !.pc = "record", !.prov = prov, !.pid = state[k].pid]
          /\ UNCHANGED state
       \/ /\ prov = "pinggy" /\ ~own
          /\ \E pid \in Found(prov, port[c]) :
               /\ state' = [state EXCEPT ![k] = Saved(pid, procs[pid].token)]
               /\ job' = [job EXCEPT !.pc = "record", !.prov = prov, !.pid = pid]
       \/ /\ prov = "pinggy" /\ Found(prov, port[c]) # {}
          /\ state' = [state EXCEPT ![k] = NoState]
          /\ Skip(prov)
    /\ UNCHANGED <<tables, procs, view>>

(* It forgets a stale state file, kills ghosts, chooses a token and starts  *)
(* a process ...                                                            *)
Spawn(prov) ==
    LET c == job.c
        p == port[c]
        k == Key(prov, c, p)
        ghosts == IF prov \in {"bore", "localtunnel"} THEN Found(prov, p) ELSE {}
        cleared == Without(ghosts)
        tokens == TokensFor(prov)
    IN
    /\ At("starts") /\ prov \in job.provs
    /\ ~IsPid(prov, state[k].pid, p)
    /\ prov = "pinggy" => Found(prov, p) = {}
    /\ state' = [state EXCEPT ![k] = NoState]
    /\ \/ \E pid \in FreePids(ghosts), t \in tokens :
            /\ procs' = [cleared EXCEPT ![pid] = [prov |-> prov, port |-> p, token |-> t]]
            /\ job' = [job EXCEPT !.pc = "spawned", !.prov = prov, !.pid = pid, !.token = t,
                               !.tries = 1]
       \/ /\ "start" \in Faults \/ tokens = {}
          /\ procs' = cleared
          /\ Skip(prov)
    /\ UNCHANGED <<tables, view>>

(* ... whose address it reads from the log and saves.                       *)
Announced ==
    /\ At("spawned")
    /\ state' = [state EXCEPT ![Key(job.prov, job.c, port[job.c])] = Saved(job.pid, job.token)]
    /\ job' = [job EXCEPT !.pc = "record"]
    /\ UNCHANGED <<tables, procs, view>>

\* What a failed attempt leaves of its process: nothing when it is killed.
AfterAttempt(prov) ==
    (IF "start" \in Faults THEN {{job.pid}} ELSE {})
    \cup (IF "attempt" \in Faults /\ prov \in LeavesBehind THEN {{}} ELSE {})

(* No address in time, or an exception: the next attempt launches another  *)
(* process on the token that was chosen for the first.                     *)
Relaunch ==
    /\ At("spawned")
    /\ job.prov \in Retries /\ job.tries < MaxAttempts
    /\ \E killed \in AfterAttempt(job.prov) : \E pid \in FreePids(killed) :
         /\ procs' = [Without(killed) EXCEPT ![pid] =
                        [prov |-> job.prov, port |-> port[job.c], token |-> job.token]]
         /\ job' = [job EXCEPT !.pid = pid, !.tries = @ + 1]
    /\ UNCHANGED <<tables, state, view>>

(* No attempt is left, or a process of pinggy has an endpoint that does not *)
(* resolve: that process stays.                                            *)
NotAnnounced ==
    /\ At("spawned")
    /\ \/ \E killed \in AfterAttempt(job.prov) : procs' = Without(killed)
       \/ "start" \in Faults /\ job.prov = "pinggy" /\ UNCHANGED procs
    /\ Skip(job.prov)
    /\ UNCHANGED <<tables, state, view>>

Record ==
    LET r == [c |-> job.c, row |-> runtime[job.c].row, prov |-> job.prov,
              port |-> port[job.c], pid |-> job.pid] IN
    /\ At("record")
    /\ exports' = Recorded(r)
    /\ Skip(job.prov)
    /\ UNCHANGED <<runtime, port, tunnels, view>>

StartsDone ==
    /\ At("starts") /\ job.provs = {}
    /\ job' = IF job.op \in {"daemon", "test"} THEN ToHeal ELSE Idle
    /\ UNCHANGED <<tables, tunnels, view>>

-----------------------------------------------------------------------------
(* _stop_exports_for_challenge, unexport and the stop of what a test       *)
(* found unhealthy.                                                        *)

List ==
    LET rows == {r \in Listed({job.c}) : r.c = job.c /\ (job.op = "unexport" => r.row = runtime[job.c].row)} IN
    /\ At("list")
    /\ exports' = Listed({job.c})
    /\ job' = [job EXCEPT !.pc = "stop", !.todo = rows]
    /\ UNCHANGED <<runtime, port, tunnels, view>>

(* stop_export: Provider.stop, then the row.                               *)
StopExport(r) ==
    /\ At("stop") /\ r \in job.todo
    /\ IF r.prov = Direct THEN UNCHANGED tunnels ELSE StopTunnel(r)
    /\ job' = [job EXCEPT !.pc = "unrecord", !.todo = @ \ {r}, !.cur = {r}]
    /\ UNCHANGED <<tables, view>>

\* _mark_export_inactive: every runtime of the challenge.  When it fails, the
\* loop goes on with the next row all the same.
Unrecord ==
    /\ At("unrecord")
    /\ \/ exports' = {r \in exports : \A s \in job.cur : ~SamePlace(r, s)}
       \/ "row" \in Faults /\ UNCHANGED exports
    /\ job' = [job EXCEPT !.pc = IF job.c = None THEN "test" ELSE "stop",
                          !.cur = {}]
    /\ UNCHANGED <<runtime, port, tunnels, view>>

(* A stop lists once more for late exports, then `nxctl down` sweeps; the  *)
(* API and the daemon do not.                                              *)
StopsDone ==
    /\ At("stop") /\ job.todo = {}
    /\ job' \in
         CASE job.op \in {"down", "daemon"} /\ ~job.again -> {[job EXCEPT !.pc = "list", !.again = TRUE]}
           [] job.op = "down" /\ job.again    -> {Idle, [Idle EXCEPT !.op = "down", !.pc = "sweep"]}
           [] job.op = "daemon" /\ job.again  -> {Cycle}
           [] job.op = "restart"              ->
                {IF job.scope = "all" THEN [job EXCEPT !.pc = "down"]
                 ELSE [job EXCEPT !.pc = "starts", !.provs = IF port[job.c] = None THEN {} ELSE AllExports]}
           [] OTHER                           -> {Idle}
    /\ UNCHANGED <<tables, tunnels, view>>

-----------------------------------------------------------------------------
(* _daemon_cycle; `nxctl status` does its first half when the lock is free. *)

\* What the daemon will heal: of the running challenges those that are enabled
\* now, when auto_heal_exports says so.
Healable(expired) ==
    {heal \in SUBSET (Running \ expired) :
        IF AutoHeal THEN (Enabled \cap Running) \ expired \subseteq heal ELSE heal = {}}

BeginCycle(expired, heal) ==
    /\ Begin("daemon")
    /\ expired \subseteq Running
    /\ heal \in {{}} \cup Healable(expired)
    /\ job' = [Idle EXCEPT !.op = "daemon", !.pc = "cycle", !.queue = expired, !.heal = heal]
    /\ UNCHANGED <<tables, tunnels, view>>

CycleStop(c) ==
    /\ At("cycle") /\ c \in job.queue
    /\ job' = [job EXCEPT !.c = c, !.pc = "down", !.queue = @ \ {c}]
    /\ UNCHANGED <<tables, tunnels, view>>

\* (With a bug: the rows of dead tunnels stay.)
ReconcileOrphans ==
    LET rows == Listed(Challenges)
        orphans == {r \in rows : ~RowRuns(r)}
    IN
    /\ At("cycle") /\ job.queue = {}
    /\ exports' = rows
    /\ job' = [job EXCEPT !.pc = "orphans", !.doomed = orphans,
                          !.todo = {r \in orphans : r.prov # Direct}]
    /\ UNCHANGED <<runtime, port, tunnels, view>>

(* reconcile_exports: what the list shows of every row decides ...          *)
Reconcile ==
    LET rows == Listed(Challenges)
        orphans == {r \in rows : ~RowRuns(r)}
    IN
    /\ At("cycle") /\ job.queue = {}
    /\ exports' = rows
    /\ \E dead \in SUBSET (rows \ orphans) :
         /\ \A r \in rows \ orphans : (r \notin dead) \in Looks(r)
         /\ job' = [job EXCEPT !.pc = "orphans", !.doomed = orphans \cup dead,
                               !.todo = {r \in orphans : r.prov # Direct}]
    /\ UNCHANGED <<runtime, port, tunnels, view>>

(* ... the tunnels of runtimes that do not run are stopped ...              *)
ReconcileStop(r) ==
    /\ At("orphans") /\ r \in job.todo
    /\ StopTunnel(r)
    /\ job' = [job EXCEPT !.todo = @ \ {r}]
    /\ UNCHANGED <<tables, view>>

(* ... and the transaction is committed.                                   *)
ReconcileCommit ==
    /\ At("orphans") /\ job.todo = {}
    /\ exports' = exports \ job.doomed
    /\ job' = [job EXCEPT !.pc = "sweep", !.doomed = {}]
    /\ UNCHANGED <<runtime, port, tunnels, view>>

\* (With a bug: only what the state file confirms.)
KeptByState ==
    {r \in Listed(Challenges) :
        RowRuns(r) /\ r.pid # None /\ StateOf(r.prov, r.c, r.port).pid = r.pid}

\* sweep_orphan_tunnel_processes keeps what the rows of running runtimes name.
Kept == {r \in Listed(Challenges) : RowRuns(r) /\ r.pid # None}

SweepRead ==
    /\ At("sweep")
    /\ exports' = Listed(Challenges)
    /\ job' = [job EXCEPT !.pc = "kill", !.keep = Kept]
    /\ UNCHANGED <<runtime, port, tunnels, view>>

SameTunnel(p, q) == procs[p].prov = procs[q].prov /\ procs[p].port = procs[q].port

\* The first process of a provider and port that is kept spares no other: of
\* every such group one process survives.
Firsts(kept) ==
    {s \in SUBSET kept :
        /\ \A p, q \in s : SameTunnel(p, q) => p = q
        /\ \A p \in kept : \E q \in s : SameTunnel(p, q)}

\* (With a bug: only processes whose provider and port are on record.)
SweepDuplicates ==
    LET kept == {p \in {r.pid : r \in job.keep} : Alive(p)}
        named(p) == \E r \in job.keep : r.prov = procs[p].prov /\ r.port = procs[p].port
    IN
    /\ At("kill")
    /\ \E spared \in Firsts(kept) :
         procs' = Without({p \in Pids : Alive(p) /\ p \notin spared /\ named(p)})
    /\ job' \in IF job.op = "down" THEN {Idle}
                ELSE IF job.again THEN {ToHeal}
                ELSE {ToHeal, [job EXCEPT !.pc = "probe", !.again = TRUE, !.keep = {}]}
    /\ UNCHANGED <<tables, state, view>>

Sweep ==
    LET kept == {p \in {r.pid : r \in job.keep} : Alive(p)}
        named(p) == \E r \in job.keep : r.prov = procs[p].prov /\ r.port = procs[p].port
    IN
    /\ At("kill")
    /\ \E spared \in Firsts(kept) :
         procs' = Without({p \in Pids : Alive(p) /\ p \notin spared /\ (named(p) \/ p \notin kept)})
    /\ job' \in IF job.op = "down" THEN {Idle}
                ELSE IF job.again THEN {ToHeal}
                ELSE {ToHeal, [job EXCEPT !.pc = "probe", !.again = TRUE, !.keep = {}]}
    /\ UNCHANGED <<tables, state, view>>

(* test_tunnel_exports(mark_unhealthy=True) lists the latest runtimes ...   *)
TestList ==
    /\ At("probe")
    /\ exports' = Listed(Challenges)
    /\ job' = [job EXCEPT !.pc = "test", !.doomed =
                 {r \in Listed(Challenges) : r.prov # Direct /\ r.row = runtime[r.c].row}]
    /\ UNCHANGED <<runtime, port, tunnels, view>>

Failed(r, failed) == state' = [state EXCEPT ![Key(r.prov, r.c, r.port)].failed = failed]

(* ... a tunnel in its grace time, or one that answers, is left alone; one *)
(* that does not answer is stopped when its process is dead, nothing       *)
(* listens behind it, its cooldown is over or it has no state file to note *)
(* a cooldown in (ngrok) ...                                                *)
TestExport(r) ==
    LET s == StateOf(r.prov, r.c, r.port)
        graced == s.fresh /\ r.prov \in {"bore", "localtunnel"}
        noted == s # NoState /\ r.prov # "ngrok"
        next == [job EXCEPT !.doomed = @ \ {r}]
        stop == [next EXCEPT !.pc = "stop", !.todo = {r}]
    IN
    /\ At("test") /\ r \in job.doomed
    /\ \/ /\ graced
          /\ job' = next /\ UNCHANGED state
       \/ /\ ~graced /\ IsRunning(r.prov, r.c, r.port)
          /\ job' = next
          /\ IF noted THEN Failed(r, FALSE) ELSE UNCHANGED state
       \/ /\ ~graced /\ TRUE \in Looks(r)
          /\ "probe" \in Faults \/ ~runtime[r.c].up \/ ~IsRunning(r.prov, r.c, r.port)
          /\ \/ noted /\ job' = next /\ Failed(r, TRUE)
             \/ job' = stop /\ UNCHANGED state
       \/ /\ ~graced /\ TRUE \notin Looks(r)
          /\ job' = stop /\ UNCHANGED state
    /\ UNCHANGED <<tables, procs, view>>

(* ... and a sweep follows.                                                *)
TestDone ==
    /\ At("test") /\ job.doomed = {}
    /\ job' = [job EXCEPT !.pc = "sweep"]
    /\ UNCHANGED <<tables, tunnels, view>>

(* Auto-heal: a running challenge without a tunnel for its port.            *)
Heal(c) ==
    LET covered == \E r \in Listed({c}) : r.c = c /\ r.row = runtime[c].row /\ r.prov # Direct /\ r.port = port[c]
        rest == [job EXCEPT !.heal = @ \ {c}]
    IN
    /\ At("heal") /\ c \in job.heal
    /\ IF runtime[c].up
       THEN /\ exports' = Listed({c})
            /\ job' \in
                 IF job.op = "daemon" /\ covered THEN {rest}
                 ELSE IF job.op = "daemon" THEN {[rest EXCEPT !.c = c, !.pc = "starts", !.provs = AllExports]}
                 ELSE {rest, [rest EXCEPT !.c = c, !.pc = "starts", !.provs = AllExports]}
       ELSE job' = rest /\ UNCHANGED exports
    /\ UNCHANGED <<runtime, port, tunnels, view>>

CycleEnd ==
    /\ At("heal") /\ job.heal = {}
    /\ Finish
    /\ UNCHANGED <<tables, tunnels, view>>

-----------------------------------------------------------------------------
(* Callers without the lock.                                               *)

(* list_exports of a status route finds a running challenge without a      *)
(* direct export ...                                                        *)
ViewList(v) ==
    /\ view[v] = NoView
    /\ Missing(Challenges) # {}
    /\ view' = [view EXCEPT ![v] = [NoView EXCEPT !.act = "backfill", !.rows = Missing(Challenges)]]
    /\ UNCHANGED <<tables, tunnels, job>>

(* ... and inserts one.                                                    *)
ViewBackfill(v) ==
    /\ view[v].act = "backfill"
    /\ exports' = exports \cup view[v].rows
    /\ view' = [view EXCEPT ![v] = NoView]
    /\ UNCHANGED <<runtime, port, tunnels, job>>

(* GET /test finds an endpoint working again, reads the state file ...      *)
ViewTest(v, r) ==
    LET k == Key(r.prov, r.c, r.port) IN
    /\ view[v] = NoView
    /\ r.prov \notin {Direct, "ngrok"}
    /\ IsRunning(r.prov, r.c, r.port) /\ state[k].failed
    /\ view' = [view EXCEPT ![v] = [NoView EXCEPT !.act = "resave", !.key = k, !.read = state[k]]]
    /\ UNCHANGED <<tables, tunnels, job>>

(* ... and writes it back without first_failed_at.                         *)
ViewResave(v) ==
    /\ view[v].act = "resave"
    /\ state' = [state EXCEPT ![view[v].key] = [view[v].read EXCEPT !.failed = FALSE]]
    /\ view' = [view EXCEPT ![v] = NoView]
    /\ UNCHANGED <<tables, procs, job>>

(* `nxctl ps --kill`: processes, rows, state files.                         *)
PsKill(v) ==
    /\ "ps" \in Ops
    /\ view[v] = NoView
    /\ procs' = [p \in Pids |-> NoProc]
    /\ view' = [view EXCEPT ![v] = [NoView EXCEPT !.act = "unrecord"]]
    /\ UNCHANGED <<tables, state, job>>

PsUnrecord(v) ==
    /\ view[v].act = "unrecord"
    /\ exports' = {}
    /\ view' = [view EXCEPT ![v] = [NoView EXCEPT !.act = "clear"]]
    /\ UNCHANGED <<runtime, port, tunnels, job>>

PsClear(v) ==
    /\ view[v].act = "clear"
    /\ state' = [k \in Keys |-> NoState]
    /\ view' = [view EXCEPT ![v] = NoView]
    /\ UNCHANGED <<tables, procs, job>>

-----------------------------------------------------------------------------
(* The world around.                                                       *)

(* A container stops, and some status() call marks the row stopped.         *)
ContainerExit(c) ==
    /\ "exit" \in Faults
    /\ runtime[c].up
    /\ runtime' = [runtime EXCEPT ![c].up = FALSE]
    /\ UNCHANGED <<port, exports, tunnels, job, view>>

TunnelDies(pid) ==
    /\ "dies" \in Faults
    /\ Alive(pid)
    /\ procs' = [procs EXCEPT ![pid] = NoProc]
    /\ UNCHANGED <<tables, state, job, view>>

(* 45 seconds later, by the started_at of the file and of what was read.   *)
GraceEnds(k) ==
    /\ state[k].fresh
    /\ state' = [state EXCEPT ![k].fresh = FALSE]
    /\ view' = [v \in Viewers |->
                 [view[v] EXCEPT !.read.fresh = @ /\ view[v].key # k]]
    /\ UNCHANGED <<tables, procs, job>>

(* The process that holds the lock dies.                                   *)
Crash ==
    /\ "crash" \in Faults
    /\ ~At("free")
    /\ job' = [Idle EXCEPT !.op = "crashed"]
    /\ UNCHANGED <<tables, tunnels, view>>

-----------------------------------------------------------------------------
Init ==
    /\ runtime = [c \in Challenges |-> [row |-> 0, up |-> FALSE]]
    /\ port = [c \in Challenges |-> None]
    /\ exports = {}
    /\ state = [k \in Keys |-> NoState]
    /\ procs = [p \in Pids |-> NoProc]
    /\ job = Idle
    /\ view = [v \in Viewers |-> NoView]

JobStep ==
    \/ RuntimeDown \/ RuntimeUp \/ StartDirect \/ Announced \/ Relaunch \/ NotAnnounced \/ Record
    \/ StartsDone
    \/ List \/ Unrecord \/ StopsDone \/ Reconcile \/ ReconcileCommit \/ SweepRead \/ Sweep
    \/ TestList \/ TestDone \/ CycleEnd
    \/ \E prov \in Providers : Reuse(prov) \/ Spawn(prov)
    \/ \E r \in job.todo : StopExport(r) \/ ReconcileStop(r)
    \/ \E r \in job.doomed : TestExport(r)
    \/ \E c \in Challenges : CycleStop(c) \/ Heal(c)

Request ==
    \/ BeginTest
    \/ \E c \in Challenges :
         \/ BeginUp(c) \/ BeginDown(c) \/ BeginUnexport(c)
         \/ \E scope \in {"container", "provider", "all"} : BeginRestart(c, scope)
         \/ \E provs \in {AllExports} \cup {{prov} : prov \in Providers} : BeginExport(c, provs)

DaemonCycle == \E expired, heal \in SUBSET Challenges : BeginCycle(expired, heal)

Unlocked ==
    \E v \in Viewers :
        \/ ViewList(v) \/ ViewBackfill(v) \/ ViewResave(v) \/ \E r \in exports : ViewTest(v, r)
        \/ PsKill(v) \/ PsUnrecord(v) \/ PsClear(v)

Next ==
    \/ JobStep \/ Request \/ DaemonCycle \/ Unlocked \/ Crash
    \/ \E c \in Challenges : ContainerExit(c)
    \/ \E p \in Pids : TunnelDies(p)
    \/ \E k \in Keys : GraceEnds(k)

HealingCycle ==
    \E expired \in SUBSET Challenges : \E heal \in Healable(expired) : BeginCycle(expired, heal)

(* A command ends; 45 seconds pass; the daemon loop, which sleeps between   *)
(* its cycles and waits for the lock as everyone does, gets it in the end.  *)
Fairness ==
    /\ WF_vars(JobStep)
    /\ SF_vars(HealingCycle)
    /\ \A k \in Keys : WF_vars(GraceEnds(k))

Spec == Init /\ [][Next]_vars /\ Fairness

-----------------------------------------------------------------------------
(* Safety.                                                                 *)

HasHome(proc) == \E c \in Challenges : runtime[c].up /\ port[c] = proc.port

(* `nxctl down` with its sweep leaves no tunnel process behind but those of *)
(* challenges that ran when it listed the exports ("Stop container and      *)
(* active tunnels", README.md:174), whatever state files, rows and          *)
(* processes earlier failures have left.                                    *)
DownSweepsClean ==
    [][Sweep /\ job.op = "down" =>
         \A p \in Pids : Alive(p)' =>
            \E r \in job.keep : procs'[p].port = r.port]_vars

(* A sweep kills no tunnel that an active export of a running challenge     *)
(* names, unless another for the same provider and port survives ("Kill     *)
(* duplicate/orphan tunnel processes not represented by active export       *)
(* records", manager.py:292), though the state file may name another        *)
(* process or none by then.                                                 *)
SweepSparesRecorded ==
    [][Sweep =>
         \A r \in exports : RowRuns(r) /\ Alive(r.pid) =>
            \E p \in Pids : Alive(p)' /\ SameTunnel(p, r.pid)]_vars

(* Every export of a running challenge leads to its own port, however       *)
(* restarts, which keep the runtime row and may change the port, and the    *)
(* backfill of direct exports follow each other.                            *)
NoStrayExport == \A r \in exports : RowRuns(r) => r.port = port[r.c]

Using(prov, t) == {p \in Pids : procs[p].prov = prov /\ procs[p].token = t}

\* A launch of pinggy that raises is left, and the next attempt goes to the
\* same account, which may have no session left by then (pinggy.py:429).
Excess(prov) == IF prov = "pinggy" /\ "attempt" \in Faults THEN MaxAttempts - 1 ELSE 0

WithinLimit ==
    \A prov \in Tokenized, t \in Tokens : Cardinality(Using(prov, t)) <= MaxSessions + Excess(prov)

(* An account gets more tunnels than it may have (max_sessions_per_token)   *)
(* only through the further attempts of a start of pinggy that raised, and  *)
(* by no more than these attempts: every start counts what earlier ones,    *)
(* cut short or failed, have left on no record.                             *)
TokensNotOverbooked ==
    /\ []WithinLimit
    /\ [][\A prov \in Tokenized, t \in Tokens :
            \/ Cardinality(Using(prov, t)') <= MaxSessions
            \/ Cardinality(Using(prov, t)') <= Cardinality(Using(prov, t))
            \/ prov = "pinggy" /\ "attempt" \in Faults /\ At("spawned")]_vars

-----------------------------------------------------------------------------
(* Liveness, as long as processes do not go on dying.                       *)

Trouble == Crash \/ (\E p \in Pids : TunnelDies(p)) \/ \E v \in Viewers : PsKill(v)

(* Auto-heal: a running challenge that stays enabled gets a tunnel, or      *)
(* another one when the one it has ended, unless it stops.                  *)
TunnelsHeal ==
    []<><<Trouble>>_vars \/
    \A c \in IF AutoHeal THEN Enabled ELSE {} :
        runtime[c].up ~>
            \/ ~runtime[c].up
            \/ \E r \in exports : r.c = c /\ RowRuns(r) /\ Alive(r.pid) /\ procs[r.pid].port = port[c]

(* A tunnel to a port of no running challenge is taken down ("Expired       *)
(* challenges have both their container and active tunnel stopped",         *)
(* README.md:110), also after the command that started it was cut short.    *)
StrayTunnelsGo ==
    []<><<Trouble>>_vars \/
    \A p \in Pids : Alive(p) ~> ~Alive(p) \/ HasHome(procs[p])
=============================================================================
