# nxctl: specification, model checking and proofs

nxctl runs CTF challenges: it discovers challenge folders in a git repository,
builds and starts each one with `docker compose`, gives it host ports and an
expiry date, opens tunnels to it (Cloudflare, ngrok, pinggy, localtunnel, bore)
and takes it down when its time is over.  A CLI, a daemon and an HTTP API drive
the same services, on one SQLite database, one Docker daemon and a directory of
state files.  This directory holds TLA+ models of that system, TLC
configurations and TLAPS proofs.  Paths below are relative to `src/nxctl`.

## 1. Inventory

| Component | State it keeps | Operations | What is hard |
|---|---|---|---|
| **Lifecycle lock** `core/utils.py` LifecycleLock | an RLock per process, the descriptor and flock of `lifecycle.lock` | `__enter__` (blocking or not), `__exit__` | two locks in a row, threads of several processes, error branches between any two steps, the file removed under a holder |
| **Challenge lock** `core/utils.py` ChallengeLock | one file per challenge | as above | nested inside the lifecycle lock by exports |
| **Runtime service** `scripts/runtime_service.py`, `core/docker.py` | `runtime_instances`, `challenge_ports`, generated compose files, the containers | `start`, `stop`, `status`, `mark_stopped`, `extend_time`, cooldown stamps | database and Docker are written one after the other; either write may fail, the process may die in between; ports are checked, then used; `status` writes and takes no lock |
| **Lifecycle commands, daemon** `scripts/cli/lifecycle.py`, `nxctl_api/routes/lifecycle.py` | nothing of their own | `up`, `down`, `restart` (3 scopes), `extend`, `daemon`, `status` | values read before a stop are used after a start; the daemon acts on a list read at the beginning of its cycle |
| **Sync** `scripts/sync_service.py` | the repository cache | git pull, discovery, update of running challenges | folders vanish or change under running challenges |
| **Catalog** `scripts/challenge_service.py`, `core/challenge_config.py` | `challenges`, the folders of the cache | discovery, registration, `add`, `remove`, `prune` | remove, prune and add take no lock and change rows and files while a command is at work |
| **Export manager** `scripts/exports/manager.py`, `scripts/cli/exports.py` | `challenge_exports`, state and PID files | start, stop, list, test, reconcile, sweep, auto-heal | rows, state files and processes are three views of one tunnel; dead processes, late exports, grace times |
| **Cloudflare** `scripts/exports/cloudflare.py` | one tunnel process shared by all challenges, its configuration, mappings | start and stop (quick, named) | shared process restarted with new mappings, which it collects from rows and state files of all challenges; rollback, its own lock |
| **ngrok, pinggy, localtunnel, bore** `scripts/exports/*.py` | state files, tokens | start, stop, alive | sessions of an account counted from files and processes, output parsing |
| **Database** `core/db.py` | the schema | create, migrate | defaults of added columns |
| **API auth, access keys** `nxctl_api/auth.py`, `core/access.py` | none | check a request | pure |
| **API read routes, serializers** | none | status, lists, health | call `status()` without the lock |
| **Configuration, git, logs, rendering, shell scripts** | settings, output | | pure I/O |

How they interact.  Every command that changes a runtime takes the lifecycle
lock, calls the runtime service, then the export manager; exports take the
challenge lock as well.  The daemon loops every few seconds over cycles of its
own, blocking for the lock.  The API runs either alone or in a thread of the
daemon's process (`daemon --with-api`), so both halves of the lock matter.  Read
routes and `nxctl status` call `status()` with no lock, and `status()` writes:
it marks rows stopped and dates rows that have no expiry.

What makes the components correct:

* lock: one holder among all threads of all processes; no way out leaves a lock
  behind, but for those that are known; as long as somebody asks, somebody gets in;
* runtimes: running challenges share no host port; row, recorded ports and
  container agree when no command is at work; every running container is known
  to the database; no deadline beyond one TTL or one extension; the daemon stops
  what has expired, all of it, and nothing else; restart keeps what it says it
  keeps;
* exports: every export of a running challenge is to its own port; a challenge
  that runs gets a tunnel and one that stops loses it; the sweep kills what
  nobody owns and nothing else; nobody stops the tunnel of somebody else; no account
  has more tunnels than it may;
* named tunnel: one process; a hostname never leads to the port of another
  challenge; starting or stopping one export leaves the others as they were; a
  running challenge gets a hostname that leads to it;
* catalog: the container of a challenge is not lost when its entry or its folder
  goes, and no entry takes over what ran under another one.

## 2. Modules

| Module | What it is |
|---|---|
| `Mutex` | abstract: one holder at a time |
| `LifecycleLock` | every step of LifecycleLock, refines `Mutex` |
| `LifecycleLock_proofs` | types, exclusion, refinement, the leaks |
| `Lifecycle` | runtime service, commands, daemon, sync, unlocked status |
| `Lifecycle_proofs` | types, bound on deadlines, disjoint ports |
| `Lease` | abstract: a challenge is stopped, or it has ports of its own until a date that is near |
| `Lease_proofs` | `Lifecycle` refines `Lease` |
| `Runtime_proofs` | `Lifecycle`: ports and containers match, no orphan, no early stop, restarts preserve |
| `Exports` | tunnels: rows, state files, processes; commands and daemon as far as they touch them |
| `Exports_proofs` | types, what a sweep spares and kills, exports at home, accounts |
| `NamedTunnel` | the Cloudflare tunnel all challenges share |
| `NamedTunnel_proofs` | types, one process, no foreign traffic, the others stay |
| `Catalog` | entries, ids and folders under sync, add, remove and prune, beside up and down |
| `Catalog_proofs` | types, no inherited runtime, no lost container |
| `MCLifecycleLock`, `MCLifecycle`, `MCExports`, `MCNamedTunnel`, `MCCatalog` | instances for TLC |

The modules meet at the steps they share: `Lifecycle` has what happens inside a
start and a stop, `Exports` and `NamedTunnel` take a runtime as running or not
and add the tunnels, `Catalog` adds where the challenge and its folder come from.
`LifecycleLock` is what lets the others have one record for whatever runs under
the lock.

### LifecycleLock

`pc[t]` is where thread t stands in `__enter__`/`__exit__`: `AcquireThread` is
the RLock (lines 142-148), `OpenFile` the `open()` (150), `Flock` the flock, and
`GiveUp`, `FileBusy` and `AcquireFails` the except branches, one per way of
failing.  `__exit__` is `Unlock`, `UnlockFails` (fsync or flock) or `WriteFails`
(the metadata, which stay in the buffer: pc `dirty`), then `Release`, or
`CloseFails` when `close()` tries to write that buffer again and raises, which
skips the release of the RLock (226-231).  The except branches of `__enter__`
guard their `close()` (178-197), so `GiveUp` has no such case.  `leaked` has the
threads whose RLock nobody will release.  The lock file is an
inode number: a descriptor keeps the inode it was opened on, `Unlink` (the
cleanup of `ps --kill` and of `prune --all`) takes the name away, and the next
`open` makes another inode.  `Crash` is the death of a process, after which the
kernel drops descriptors and flocks of all its threads.  A thread never asks for
the lock while it holds it: no command does, although the RLock would let it.
The `msvcrt` branch of Windows is left out.

### Lifecycle

| Variable | In the code |
|---|---|
| `rows[c]` | rows of `runtime_instances`, oldest first |
| `ports[c]` | `challenge_ports`: internal port to host port |
| `enabled[c]` | `challenges.enabled` |
| `repo[c]` | the folder in the repository cache, and what its `nxctl.yml` says |
| `container[c]` | what Docker runs, and the ports it is bound to |
| `job` | the command that holds the lifecycle lock, with its local variables |
| `view[v]` | an unlocked `status()` between reading the row and writing it |
| `now` | `datetime.utcnow()` |

The module is written as the code between two writes to SQLite or Docker is one
action.  So `start` is `Start` (checks, image build), `Allocate` (ports, compose
file, `challenge_ports`), `ComposeUp` (with the retry loop over bind conflicts
and the cleanup of a failed start), `Save` (the row) or `SaveFails` (it cannot be
written, and the container stays), and a crash, a clock tick, a
dying container or an unlocked `status()` may come between any two of them.
`stop` is `ComposeDown`, `RowStopped`; a `down` marks the row first
(`MarkStopped`).  A restart is `BeginRestart` (cooldown, `status()`, what it
preserves), `stop`, `start`, `Touch`.  A daemon cycle reads the expired and the
running challenges (`BeginCycle`), stops the first (`CycleStop`) and looks at the
others (`CycleHeal`).  A sync is `SyncPull`, `SyncRegister`, `SyncUpdate`, then
`stop` and `start` for the challenges that changed.  The locked part is one
record and not a process per caller because `LifecycleLock` shows that there is
one holder, as long as nobody removes the lock file (section 5).

Abstractions.  `status()` of the holder of the lock is one step (its write
depends on a row nobody else but a viewer changes); that of a viewer is three.
A `docker ps` that fails looks like a dead container, as in the code.  A folder
without a compose file behaves as a build that fails.  `FilePort` stands for the
host port the compose file itself names, taken to be outside the managed range.
The three-way outcome of a failed cleanup (`Leftovers`) is chosen freely when
`down` may fail.  Exports are in a module of their own.

### Exports

| Variable | In the code |
|---|---|
| `exports` | the active rows of `challenge_exports` |
| `state[k]` | the state files of the providers: process id, token, younger than the 45 seconds of grace, `first_failed_at` |
| `procs[p]` | the tunnel processes of the machine: whose, for which port, with which token |
| `runtime[c]`, `port[c]` | of `Lifecycle`: the latest row, whether it says running, its host port |
| `job` | the command that holds the lifecycle lock |
| `view[v]` | a caller without the lock between reading and writing |

One tunnel is three things: a process, a state file and a row, written one after
the other, so a crash leaves any part of them.  The keys of `state` are those of
the code: bore, localtunnel and ngrok name a file after the host port alone,
pinggy after challenge and port.  A start is `Reuse` (the process of the state
file, or one pinggy finds) or `Spawn`, `Relaunch` for each further attempt,
`Announced` or `NotAnnounced`, `Record`.  An attempt that finds no address in time
kills its process; one that raises does not, with pinggy and ngrok
(`AfterAttempt`), and the next attempt of pinggy launches another process on the
same token (pinggy.py:332-433).
`Spawn` takes a token of ngrok or pinggy
that has a session left (`TokensFor`, by the `Sessions` that state files and, for
the rest of the processes, command lines show); without one pinggy falls back to
the free tier and ngrok fails.  A stop is `List`, `StopExport` and `Unrecord` for each row, and a second `List`
for late exports; a row that cannot be marked stays active and the stop goes on.  `Listed` is `list_exports`, which writes before it reads: it
drops duplicates and inserts direct exports that are missing.  A daemon cycle is
`CycleStop`, then `Reconcile`, `ReconcileStop`, `ReconcileCommit`, `SweepRead`,
`Sweep`, perhaps `TestList`, `TestExport`, `TestDone` and a sweep, then `Heal`.
What it heals is read at its beginning (`Healable`): of the running challenges
those that are enabled, if `auto_heal_exports` is on.  `Enabled` are the challenges
that stay enabled; the others a sync may enable and disable between any two cycles.
`Sweep` spares the first process of each provider and port that is on record,
in whatever order the system lists the processes (`Firsts`), and kills the rest.
Without the lock run `ps --kill` (`PsKill`, `PsUnrecord`, `PsClear`), GET /test
(`ViewTest`, `ViewResave`, which writes back a state file it has read before)
and the backfill of the status routes (`ViewList`, `ViewBackfill`).

Abstractions.  A challenge publishes one port; the code repeats the same loops
for several.  The runtime steps are two (`RuntimeDown`, `RuntimeUp`): what they do
inside is `Lifecycle`.  An endpoint answers or does not, by choice (`probe`);
the cooldown after a failed probe is over or not, by choice.  The loops over rows,
challenges and providers go in any order.  Signals kill: the code sends SIGTERM,
then SIGKILL.  A process gets an id no record names, unless `reuse` is among
the faults: ids do come back, but seldom.
ngrok's own configuration file, which stands in for a token, is left out.

### NamedTunnel

| Variable | In the code |
|---|---|
| `up` | the challenges whose latest runtime is running |
| `row[p]` | the active row of `challenge_exports` of a port: hostname, process id, whether its runtime is running |
| `file[p]` | `cloudflare_<port>.json`: hostname, process id (none while pending), in its grace time |
| `config` | `cloudflare_tunnel_config.yml`: port to hostname |
| `procs[q]` | the cloudflared processes, each with the configuration it has read when it started |
| `job` | the command that holds the locks, with its local variables |

A start is `Lookup` (reuse by state file or row), `Plan` (mappings of the others,
a free hostname), `Pending`, `Rewrite`, `Halt`, `Spawn`, `Weed` (the three
seconds, then other processes on record), `Sync`, `UpdatePids`, `Record`; a stop
is `Collect` and the same from `Rewrite` on, then `Forget` and `Unrecord`, and
when nothing is left it ends with `Halt`.  What fails goes through `Unwind`: the
same steps from `Halt` with the previous mapping (`back`).  `Collected` is
`_collect_active_mappings` with its rules of precedence (rows before files, one
port per hostname) and its side effect, the removal of stale files.  `Sync` and
`UpdatePids` may lose a note: both catch what a state file or the database raises
(cloudflare.py:520, 554), and the command goes on.  What a cycle heals is
`Healable`, as in `Exports`.  A daemon
cycle is `Reconcile`, `Orphan`, `OrphansDone`, `Test`, `Tested`, `Heal`,
`CycleEnd`.

Abstractions.  A port stands for the challenge that publishes it.  The
LifecycleLock and `_CloudflareNamedTunnelLock` are one record: every caller of
the tunnel takes the first, so the second is never contended, except by the
unlocked GET /test, which is in `Exports`.  What Cloudflare does at its end (DNS
records) is not modelled.  The order of rows and files in a scan is free
(`Chosen`).  Ids of dead processes are forgotten where they cannot matter
(`Scrubbed`), unless `reuse` lets them come back.

### Catalog

| Variable | In the code |
|---|---|
| `entry[n]` | the id of `challenges.name`, 0 without a row |
| `enabled` | the ids with `enabled = 1` |
| `lastId` | `sqlite_sequence` |
| `runs[i]` | the running row of `runtime_instances` with `challenge_id` i, and the name it was started under |
| `container`, `folder` | what Docker runs; what the cache holds |
| `proc["job"]` | up, down or sync, under the lifecycle lock |
| `proc["adm"]` | remove, prune or add, with no lock |
| `excused` | history: containers that run for a reason named in `Excuses` |

`up` is `BeginUp` (what `start()` asks, with the id it reads), `Compose` or
`ComposeFails` (whose cleanup may fail as well), `SaveRuntime` under the id read at
the beginning or `SaveFails`.  `down`,
`remove` and `prune` go through `_stop_challenge_completely`: `MarkStopped`, then
`stop()` as `ComposeDown` and `SaveStopped`, `StopFails`, or `StopWithoutFolder`,
which only writes the row; `StopRefused` is a `ChallengeLock` that cannot be had or
an entry that cannot be read.  Whatever raises there ends a `down`; `remove` and
`prune` log it and delete all the same (`AfterStop`).  `remove` looks its argument up (`Resolve`, the rules
of `get_challenge` for parts of a name) but stops what was typed; `remove` and
`prune` then delete folders (`DeleteFolder`) and rows (`Forget`, `ForgetFails`) by
the ids read at the beginning.  `Status` is an unlocked `status()` that takes a
running challenge for stopped, `Crash` the end of any command.  A sync is `Pull`, `Register` (one transaction that keeps the ids
of entries that are there, hands out new ones and disables the rest), `Restart`
of what changed and runs, `StartAgain`, `EndSync`.

Abstractions.  A path is the name.  The ChallengeLock is left out: `start` does
not take it, and `remove` and `prune` delete its file.  The generated compose file
is left out.  A start writes it anew; `stop` and `logs` fall back to the file in the
folder, which names the same compose project, and `status` to `docker ps`, so its
absence changes what a call may see or fail with, and these outcomes are in the
module.  `Status` is one step: what `status()` read before it writes is looked at in
`Lifecycle`.  One of `remove`, `prune` and `add` runs at a time.  `prune --all`, which empties the
database, is not modelled.

## 3. Runs

| Run | Instance | States | Shows |
|---|---|---|---|
| `lock_safe` | 3 threads, 2 processes, file stays; open, flock, write and close may fail | 7,488 | `MutualExclusion`, the refinement of `Mutex`, `SomeoneGetsIn` under weak fairness |
| `lock_unlink` | the same, file removed up to twice | 73,280 | `ThreadExclusion`, `LeaksAreKnown` hold all the same |
| `ports` | 2 challenges, 2 ports, no sync | 680,816 | `RunningPortsDisjoint`, `NoOrphanContainer`, the refinement of `Lease` |
| `single` | 1 challenge, 1 viewer, every command and fault | 4.4 million | `DeadlineBounded`, `NoEarlyStop`, `RestartPreserves`, `PortsMatchContainer` |
| `live` | 1 challenge that runs with no date at first, docker down works, folders stay | 73,696 | `ExpiredContainerStops`, `LockReleased`, `LegacyGetsDeadline`, the refinement of `Lease` with extensions and undated rows |
| `status_race` | the smallest that shows it | violation | section 5 |
| `exports` | 2 challenges, 2 ports, pinggy, one account with one session, 2 process ids, 2 attempts, every command, every fault but `reuse`, `exit` and `row` | 1.7 million | `NoStrayExport`, `TokensNotOverbooked`, `DownSweepsClean`, `SweepSparesRecorded` |
| `exports_live` | 2 challenges, 1 port, bore and direct exports, 2 process ids that come back, rows that cannot be written, a caller without the lock, one challenge that stays enabled | 236,431 | `TunnelsHeal`, `StrayTunnelsGo`, `SweepSparesRecorded` |
| `named` | 2 ports, 2 hostnames, 2 process ids that come back, every command, every fault but `crash` and `save`, what runs is healed | 278,546 | `OneProcess`, `NoForeignTraffic`, `OthersStay` |
| `named_live` | 2 ports, 2 hostnames, up and daemon, processes die, commands are cut short, notes are lost | 213,437 | `TunnelsHeal` |
| `catalog` | 2 names, one a part of the other, a fragment of both, 3 ids, all excuses | 4.5 million | `NoLostContainer`, `NoInheritedRuntime` |
| `catalog_gone` | the same without the excuse `gone` | violation | section 5 |

Bounds.  `MaxTime` bounds the clock, `MaxRows` the rows of a challenge,
`MaxInode` the inodes of the lock file, `MaxTries` is
`runtime_start_port_attempts`.  All times are one tick: three ticks let a runtime
start, be extended or restarted after its cooldown, and expire.  Two rows make a
latest and a former row, which is what the queries over ANY row and the latest
row differ on.  Two ports and two challenges are full with both running, so that
exhaustion, a port still claimed by the row of a dead container and a retry with
another port all happen.  Two attempts make one retry.  Three threads in two
processes are two that share an RLock and one that does not.

For exports, two ports let a restart move a challenge, and a challenge take over
the port another has left; one port shared by two challenges makes them meet at
it.  `MaxAttempts` is `pinggy_startup_retries`, 3 if not set; two make one further attempt.  Two
process ids are a recorded tunnel and one more: its duplicate, its
orphan, its successor.  `MaxRows` is 1: a second row of a challenge differs from
the first in nothing but the rows it leaves behind, and those of a stopped
runtime are left behind by a command that dies as well.  One account with one
session makes the second tunnel find it taken, by a tunnel on record or not.
With two process ids the bound in `TokensNotOverbooked` cannot be exceeded, and the
other half of the property, which says what step may go beyond the limit, carries
the run; with three (up, down and export alone, 44,540 states) the bound was checked
as well, and the theorem has it for any number.  `exports` identifies states up to a
permutation of challenges, ports and process ids, which are only compared; there
are no liveness properties in it.

What the runs leave out, and why.  `exports` has no `exit`, which
`exports_live` has: a command that dies after it has marked a row, and a restart
that fails, leave stopped runtimes with exports there.  It has no `reuse` and no ngrok:
`_is_ngrok_pid` does not look at the port, and with a process id that has come back
a sweep after `down` misses a tunnel.  It has no `row`: an export whose row could not
be marked stays active while a restart moves its challenge.  It has no `base_ip`: the unlocked backfill
breaks `NoStrayExport` (section 5).  `exports_live` has no `restart`: given
again between any two cycles, one of scope `provider` opens tunnels for a stopped
challenge faster than cycles close them.  `ports` has no failing `down`, no row that cannot be written, no crash and
no viewer: each of them leaves a container whose row does not run (section 5), and `NoOrphanContainer` is about everything
else; `RunningPortsDisjoint` is proved with all of them.  `single` has no legacy
rows: a viewer that read one as undated may write its date in the middle of a
restart, which moves the date `RestartPreserves` is about.  Commands that end at once
and ticks of the clock stop at `MaxTime`; `down` stays possible, so no run
disables the deadlock check.

`named` has two ports for two hostnames, so that hostnames run out when a stale
file keeps one, and two process ids, so that a process can outlive its record
beside the one that replaced it.  Its ports, hostnames and ids are only compared,
so states are identified up to a permutation.  It has no `crash`: between `Spawn`
and `Sync` the new process is on no record, a crash there leaves it running, and
neither `OneProcess` nor what follows from it holds then.  A lost note does the
same, so it has no `save`.  Its cycles heal whatever runs: a challenge that runs and
is not healed can keep a hostname in a stale file for ever (section 5).
`named_live` has crash and lost notes and one process id: what it promises is a
tunnel in the end, not a single process.  Its challenges stay enabled: the start of
one that is disabled and cut short after `Rewrite` leaves a configuration that no
process has read, which the tests of the others take for what is served.

`catalog` has an exact name, a name within a name and a fragment of both, the
cases of `Resolve`; three ids are two entries and one that is entered again.  Its
property has six excuses, each of which is a way the code does lose a container:

| Excuse | What happened |
|---|---|
| `gone` | the folder was gone when the challenge was to be stopped |
| `failed` | a stop raised, which remove and prune log before they delete the rows and `down` after it has marked the row; or the cleanup of a failed start did; or the row of a start that worked could not be written |
| `died` | a command died with the container up and no row that runs |
| `partial` | `remove` was given a part of the name |
| `race` | the challenge was started while `remove` or `prune` was deleting it |
| `status` | `status()` took a running challenge for stopped |

What it shows is that, among the steps of the module, nothing else loses one: no
overlap of commands, no id that goes, comes or is read early, no stop or start that
works.

Fairness.  In the lock, every thread that may go on does (`WF(Step(t))`): flock
and RLock waits are blocking calls.  In the lifecycle, `WF(JobStep)`: every
docker command has a timeout (build 300 s, up 180 s, down 60 s, ps 5 or 10 s);
`WF(Tick)`: time passes; `SF(BeginCycle(AutoHeal))`: the daemon asks for the lock
every few seconds and blocks until it has it.  Other commands are requests with
no fairness at all: nobody has to give one.

In exports, `WF(JobStep)`: starts, probes and stops have timeouts; `SF` of a
daemon cycle that heals at least the challenges that stay enabled
(`HealingCycle`), as above; `WF(GraceEnds)`: 45 seconds pass.  `TunnelsHeal` and
`StrayTunnelsGo` hold in behaviours where crashes, dying tunnels and `ps --kill`
end (`Trouble`): with a tunnel that dies whenever it is up there is nothing to
promise.  `TunnelsHeal` is about challenges that stay enabled, with
`auto_heal_exports`.  Their run has no failing provider, for the same reason.

In the named tunnel the same holds: `WF(JobStep)`, `SF(BeginCycle)`,
`WF(GraceEnds)`, and `SF(OrphansDone("test"))`: a cycle includes a test at least
every `export_endpoint_check_interval_seconds`.  `TunnelsHeal` is about behaviours in which
crashes, deaths, lost notes and failing starts end, with `auto_heal_exports` and
all challenges enabled.  `Catalog` states no liveness.

## 4. Proofs

All theorems are for any values of the constants that satisfy the assumptions
named in the modules: ports are positive, times are naturals, the switches are
of their kind, every thread belongs to a process, and the sets whose members are
counted (names; the challenges, ports and process ids of exports) are finite.  A
theorem that says no more holds with every command, every fault and every caller
without the lock.  One that needs a command or a fault to stay away has that as a
hypothesis in front of `Spec`, and each hypothesis is needed: TLC breaks the
property on a small instance that drops it.

| Hypothesis | Theorems | What happens without it |
|---|---|---|
| `~Unlinkable` | `Exclusion`, `Implements` | the removed lock file (section 5) |
| `NothingLost` | `NoOrphan` | each of a failing down or ps, a row that cannot be written, a crash, an unlocked status and a sync leaves a container whose row does not run |
| `AllDated` | `NoRuntimeStopsEarly`, `RestartsPreserve` | a viewer that has read a legacy row as undated writes its date after a restart or an extension |
| `RowsMarked` | `ExportsAtHome` | a stop goes on with the row active, and a restart moves the challenge |
| `Viewers = {}` or `~BaseIp` | `ExportsAtHome` | the unlocked backfill inserts the direct export of a port that a restart has left |
| `NoReuse` | `DownSweeps`, `AccountsNotOverbooked` | a row or a file names the process of another tunnel (of another account, with two accounts) |
| `NoCrash`, `NotedAll` | `AtMostOne`, `TrafficStays`, `RestartKeeps` | a new cloudflared is on no record yet, or its note is lost |
| `AllHealed` | `TrafficStays`, `RestartKeeps` | three challenges: stale files of two failed starts keep the same hostname for both (section 5) |
| `AllExcused` | `NothingLost` of `Catalog_proofs` | each excuse is a way the code does lose a container |

`LifecycleLock_proofs`: `TypeCorrect`; `ThreadsExclude` (threads of one process
exclude each other, even if the file is removed and open fails); `LeaksKnown` (only an
open or a close that failed leaks, and only the RLock of its own process); with `~Unlinkable`, `Exclusion` and `Implements` (refinement
of `Mutex`).  The invariant ties program counters to the owner of each RLock and
each flock; `SameFile` says that all descriptors are on one inode, which an
unlink is exactly what breaks.

`Lifecycle_proofs`:

* `TypeCorrect`.  `TypeOK` is not inductive: most steps write to `rows[job.c]`,
  so `Typed` adds that a command past its beginning has a challenge.
* `DeadlinesBounded`.  `RowsBounded` says it of every row and not only the
  latest running one, since a row of the history may be taken up again;
  `KeepBounded` says it of the date a restart or a sync carries from before its
  stop.  `Keeps` says once what any step but `Save` may do to the rows of a
  challenge: keep the types, keep the bound, start nothing.  `RowsStep` shows it
  of every action.
* `PortsDisjoint`.  `AllApart` is the property; `ClaimApart` says that the ports a
  command has allocated and not yet saved are in no running challenge: no
  running row reserves them, only the lock keeps a second start from taking
  them.

`Lease_proofs`: `LifecycleLeases`, every behaviour of `Lifecycle` is one of `Lease`
with `running` the challenges whose latest row says running, `ports` what
`challenge_ports` has for those, and `until` their `expires_at`.

* The invariant, `LeaseInv`, is that of deadlines and ports, with `Starting` (what
  is being started does not run yet, so that the `Save` of a start grants a lease
  to somebody who has none) and `Claimed` (its ports are allocated by then, so that
  a lease comes with ports).
* `Moves` says what any step but `Save` may do to the rows of a challenge as seen
  from outside: nothing, end the runtime, or date it no later than `now + Reach`.
  `MovesStep` shows it of every action, and `MovesLease` makes it a `Renew`, an
  `End` or a stutter.
* `SaveGrants`: `Save` is a `Grant`.  `RegisterStrips`: a sync that finds folders
  gone takes ports from runtimes that run, and does no more; that is `Strip`.

The runs check the refinement where no sync, viewer or crash is about; the theorem
is with all of them.

`Runtime_proofs`, the other half of `Lifecycle`:

* `PortsMatch`.  `RunningBound` says the property of the challenge a command is at
  work on as well.  A row is written after its container came up, so it takes
  `StartedBound`: what has come up and waits for its row is bound to the ports the
  database has.
* `NoOrphan`.  `Known` adds the two moments at which a container is up with no row
  that runs: before a `down`, whose row is marked first, and before a `save`.
  `GoneDown` says that a stop that has got to its second row write has no container
  left; `FoldersStay`, that docker compose always has the folder it needs.
* `NoRuntimeStopsEarly`.  The daemon decides by a list read at the beginning of
  its cycle.  `DoomedOverdue` says that what is on the list and still runs is
  overdue; that rests on `OnlyLatestRuns` (at most the latest row of a challenge
  runs), on `RunningDated` and on `ViewsDated` (an unlocked reader has nothing to
  backfill).  `Wanes` says once what a step other than `Save` may do to rows.
* `RestartsPreserve`.  `Kept` says that what a restart carries in its local
  variables is still what the rows and `challenge_ports` have, from `status()` to
  `Save`.

`Exports_proofs`:

* `TypeCorrect`.  `JobShape` adds what a command has at which place: a provider, a
  port, a runtime to write to, room for one more row.
* `SweepSpares`, with no hypothesis.  `OnRecord` says that the rows a sweep has read
  are all that matter when it kills: nothing that runs without the lock adds a
  row with a process id (`Pidless`).  A tunnel that is killed though it is on record
  has a twin that is spared (`Firsts`).
* `ExportsAtHome`.  `Aged`: an export of the latest runtime has its port.  A
  restart may keep the runtime and change the port; `Cleared` says that by then no
  export of the challenge is left, or only those still on its list to be stopped.
* `DownSweeps` and `AccountsNotOverbooked`.  `TruthInv` says that rows, state files
  and what commands and viewers have read of them tell the truth: a process
  they name is gone, or it is of that provider, port and token (`Fits`, `Pays`).
  The tunnels of an account are then counted: those on file and those only the
  process list shows.  `AccountsNotOverbooked` adds what the attempts of one start
  have left (at most one process each), since the start counted them once.

`NamedTunnel_proofs`:

* `TypeCorrect`, with the shape of a command: whether it starts or stops, for which
  port, and in which part of a daemon cycle.
* `AtMostOne`.  `ProcInv` follows a restart through its places: before `Halt` what
  lives is among the processes to be halted (`Halting`), at `Spawn` nothing lives
  (`Spawning`), until `Sync` only the new one (`Spawned`), afterwards what
  lives is on the record of what it serves (`Serving`), which is how the next
  command finds it.  A crash between `Spawn` and `Sync` is what breaks this.
* `TrafficStays`.  The property compares rows with what the process has read; the
  mappings come from rows and files of all challenges, among them files of starts
  that failed, rows of runtimes that stopped, and the mapping to go back to.
  `HostInv` has two halves.  One is about what lies around: hostnames of rows are
  apart (`RowsApart`); the file of a running challenge without a row (`Waits`), which
  the next start of another one takes for a mapping, has a hostname of its own
  (`WaitsFine`); no file with a live process has the hostname of a row that nobody
  serves (`ExposedSafe`).  The other half is about the command: the mappings it works
  with give each hostname to one port and have all that is on record (`Mapped`,
  `Planned`), and the row it will write agrees with them (`Recording`).
* `RestartKeeps` is an action property that follows from `HostInv`: the target of a
  restart that goes through gives every other row its hostname.

`Catalog_proofs`:

* `TypeCorrect`.  As in the lifecycle, a command past its beginning has a challenge,
  and a sync enables only what it has found (`Named`).
* `NothingInherited`.  The property looks at entries that are there; the
  invariant, `Owned`, has to speak of ids whose entry is gone.  `HandedTo(i, n)`
  says that id i comes from the sequence and belongs to no entry but n's, now and
  later; it holds of the id of every running row, and of the id a start has read
  and not yet written (that is the window in which a remove and a sync may come).
  `Handing` says once what any step does to ids: keep, drop, or take a new one
  from the sequence; `HandedStays` follows from that alone.

* `NothingLost`.  The property allows a container to be in the hands of a command
  at `save`, `stop` or `stopped`; the invariant has to say when that is enough.
  `Known`: every container without an excuse has an entry, and its row runs, or a
  start holds it under the id the entry still has, or a stop has written its
  row and not yet taken it down.  `Deleting`: what remove and prune go through has its
  entries, under the ids they have read, until `Forget`.  `Cleared`: of those
  what has been stopped does not run, or has an excuse, so that `Forget` loses
  nothing; a start in between has the excuse `race`.  `TakenDown`: a stop writes the
  row of what it took down and of nothing else, even when the entry was removed and
  added again meanwhile.  `CleanerStays` and `TakenStays` say what one of two
  commands that overlap leaves of the other's part.

Every invariant that a passing run checks, both refinements and the action
properties (`RestartPreserves`, `SweepSparesRecorded`, `DownSweepsClean`,
`OthersStay`) are proved.  Each inductive invariant was checked by TLC before it
was proved.  Only model-checked are the liveness properties: `SomeoneGetsIn`,
`ExpiredContainerStops`, `LockReleased`, `LegacyGetsDeadline`, `StrayTunnelsGo` and
`TunnelsHeal` of both modules.  They rest on fairness and so on `ENABLED`, for which
the prover has no rules here; the same goes for the absence of deadlock.

## 5. Where code and statement differ

Two runs show it:

* `status_race`: an unlocked `status()` that saw the old container gone marks the
  restarted runtime stopped.
* `catalog_gone`: `stop` of a challenge whose folder is gone, because a sync took
  it between, writes `stopped` and leaves the container; `remove` and `prune` then
  delete its entry, and nothing in the database knows of the container any more.
  Without any one of the other five excuses `NoLostContainer` fails as well.

The rest are not runs; the passing ones are set up so as not to meet them
(section 3), and the models have the steps that lead there:

* The lock file.  `ps --kill` clears the lock directory and `prune --all` the
  runtime directory without holding the lock.  The holder stays locked on the
  removed inode, the next opener makes and locks a new one: `MutualExclusion`
  fails with `Unlinkable`, `ThreadExclusion` and `LeaksAreKnown` do not.
* The `open()` of the lock file stands between the RLock and the `try` that would
  release it: when it raises, the other threads of the process wait for ever
  (`OpenFails`).  So they do when `close()` raises in `__exit__` (utils.py:226-231),
  as it does after metadata that could not be written: the release of the RLock
  comes after it (`CloseFails`).  `lock_unlink` checks that nothing else leaks,
  `SomeoneGetsIn` that other processes are not held up.
* An attempt of pinggy that raises (a state file that cannot be written, a log that
  cannot be read) leaves its process running, and the next one opens another tunnel
  on the account that was chosen for the first: the account has a tunnel too many.
* A stop marks the row stopped before `docker compose down`.  When that fails
  nothing selects the runtime again.  A start whose row cannot be written leaves its
  container as a crash does.
* `remove` and `prune` log a stop that raises and delete folder and rows with the
  container up (challenge_service.py:533, 681).
* A stop that cannot mark the row of an export goes on (lifecycle.py:161,
  manager.py:220): a restart may move the challenge, and the export leads to the port
  it had.
* A restart of scope `all` stops the exports while the row still says running; a
  status request in that time inserts the direct export of the old port again,
  and the restart keeps the row and takes another port (`ViewBackfill`).
* A challenge that gets the port of one whose container exited adopts its tunnel,
  by port; reconcile then stops that tunnel on account of the stale row.
  Auto-heal opens another one a cycle later.
* A `restart` of scope `provider` does not ask whether the challenge runs: it opens
  a tunnel to the last port of a stopped challenge, until a daemon cycle sweeps it.
* The named tunnel.  A first start that fails leaves its pending state file.  The
  start of another challenge takes it for a mapping of a running challenge and
  serves it, but there is no row: a `down` finds nothing to stop, and the hostname
  stays routed until the mappings are collected again.
* A running challenge that is disabled, or any with `auto_heal_exports` off, does not
  get its tunnel back.  With three challenges that are not healed `NoForeignTraffic`
  fails: two failed starts leave the same hostname in the pending files of two
  running challenges; one is started, its tunnel dies and it is started again, and
  the hostname, which is on its row by then, is mapped to the port of the other.
* A crash between `Spawn` and `Sync`, or a note that is lost there, leaves a
  cloudflared process on no record.

## 6. Plan

Done: the lock, the lifecycle and its leases, the exports, the named tunnel, the
catalog.  Next:

1. Proofs: what holds when a hypothesis of section 4 is dropped, such as which
   containers are orphans after a crash and which processes are off the record.
2. Pure algorithms: port specifications, cooldowns and dates in parts of a
   second.

## 7. Not modelled

* The quick mode of Cloudflare: a process and a state file for each port, as
  bore and localtunnel have in `Exports`.
* `prune --all`, which deletes the database, the generated files and the lock with
  them; only what it does to the lock file is in `LifecycleLock`.
* ChallengeLock: every command that takes it, but for remove and prune, holds the
  lifecycle lock as well.
* The rules of discovery and the inheritance of settings in `nxctl.yml`: discovery
  is any choice of folders, each enabled or not.
* The arithmetic of cooldowns in parts of a second; a cooldown is over or not.
* Migrations of the schema; the models start from an empty database of the current
  schema, and `Lifecycle` has the legacy rows without a date.
* Authentication and access keys (functions of one request), configuration, git,
  logs, rendering, shell scripts (input and output only).
