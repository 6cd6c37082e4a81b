------------------------------ MODULE Catalog ------------------------------
(***************************************************************************)
(* The catalog of challenges: sync registers what the repository holds and *)
(* disables what it no longer holds, add and remove change single entries, *)
(* prune deletes the disabled ones, up and down start and stop by name     *)
(* (scripts/challenge_service.py, sync_service.py, runtime_service.py).    *)
(*                                                                         *)
(* up, down and sync hold the LifecycleLock, so one of them runs at a time *)
(* (the process "job"); remove, prune and add take no lock and run beside  *)
(* it ("adm").  The ChallengeLock of _stop_challenge_completely is left    *)
(* out: start does not take it, and remove and prune delete its file.      *)
(* A challenge's path is its name.  Ports, expiry and exports are in       *)
(* Lifecycle and Exports.  The generated compose file is left out: stop and *)
(* status fall back to the file in the folder, of the same compose project, *)
(* and to docker ps.                                                       *)
(***************************************************************************)
EXTENDS Naturals, FiniteSets

CONSTANTS
    Names,   \* challenge names
    Typed,   \* what may be typed on a command line, the names among them
    Within,  \* <<t, n>>: n contains t
    Starts,  \* <<t, n>>: n starts with t
    MaxId,   \* bounds the ids that SQLite hands out
    Excuses, \* what the properties take as an excuse, see ExcuseKinds
    None

\* gone: the folder of the challenge was gone when it was to be stopped; failed:
\* a stop, the cleanup of a start that failed or the row of one that worked did;
\* died: a command did, with the container up and no row that runs; partial:
\* remove was given a part of the name; race: the challenge was started while
\* remove or prune was deleting it; status: status() took it for stopped.
ExcuseKinds == {"gone", "failed", "died", "partial", "race", "status"}

ASSUME TypedAssumption ==
    /\ Names \subseteq Typed
    /\ Starts \subseteq Within /\ Within \subseteq Typed \X Names
    /\ \A n \in Names : <<n, n>> \in Starts
    /\ IsFiniteSet(Names)
ASSUME BoundAssumption == MaxId \in Nat /\ Excuses \subseteq ExcuseKinds /\ None \notin Typed

VARIABLES
    entry,     \* challenges: the id of a name, 0 without an entry
    enabled,   \* the ids with enabled = 1
    lastId,    \* sqlite_sequence: the last id that was handed out
    runs,      \* the name a running runtime of an id was started under, or None
    container, \* the challenges whose container runs
    folder,    \* the challenges whose folder is in the cache
    proc,      \* the command each process executes
    excused    \* history: running containers for which there is an excuse

vars == <<entry, enabled, lastId, runs, container, folder, proc, excused>>

Ids == 1 .. MaxId
Actors == {"job", "adm"}
Proc == [op : {"none", "up", "down", "sync", "remove", "prune"},
         pc : {"free", "start", "save", "mark", "stop", "stopped", "delete", "forget",
               "register", "restart", "again"},
         t : Typed \cup {None}, n : Names \cup {None}, id : 0 .. MaxId, ids : SUBSET Ids,
         todo : SUBSET Names, on : SUBSET Names]
Idle == [op |-> "none", pc |-> "free", t |-> None, n |-> None, id |-> 0, ids |-> {},
         todo |-> {}, on |-> {}]

TypeOK ==
    /\ entry \in [Names -> 0 .. MaxId] /\ lastId \in 0 .. MaxId
    /\ \A m, n \in Names : entry[m] = entry[n] /\ m # n => entry[n] = 0
    /\ enabled \subseteq {entry[n] : n \in Names} \ {0}
    /\ runs \in [Ids -> Names \cup {None}]
    /\ container \subseteq Names /\ folder \subseteq Names
    /\ proc \in [Actors -> Proc]
    /\ excused \subseteq container

Init ==
    /\ entry = [n \in Names |-> 0] /\ enabled = {} /\ lastId = 0
    /\ runs = [i \in Ids |-> None]
    /\ container = {} /\ folder = {}
    /\ proc = [a \in Actors |-> Idle]
    /\ excused = {}

-----------------------------------------------------------------------------

Free(a) == proc[a].op = "none"
At(a, pc) == proc[a].pc = pc
Goto(a, pc) == proc' = [proc EXCEPT ![a].pc = pc]
Done(a) == proc' = [proc EXCEPT ![a] = Idle]

Entries == {n \in Names : entry[n] # 0}
Runs(n) == entry[n] # 0 /\ runs[entry[n]] # None
\* _update_runtime_status(id, "stopped"), which finds no row of a deleted id.
Stopped(id) == [i \in Ids |-> IF i = id THEN None ELSE runs[i]]
Excused(kind, n) == IF kind \in Excuses THEN {n} \cap container ELSE {}

\* get_challenge: the exact name, else the only name that contains what was
\* typed, else the only one of these that starts with it.
Resolve(t) ==
    LET part == {n \in Entries : <<t, n>> \in Within}
        prefix == {n \in part : <<t, n>> \in Starts}
        Only(S) == IF Cardinality(S) = 1 THEN CHOOSE n \in S : TRUE ELSE None
    IN  IF t \in Entries THEN t ELSE IF Cardinality(part) = 1 THEN Only(part) ELSE Only(prefix)

-----------------------------------------------------------------------------
(* up: start() of runtime_service.py.  The entry is read once.             *)

\* What start() asks before it builds.
Startable(n, force) ==
    /\ entry[n] # 0 /\ (force \/ entry[n] \in enabled)
    /\ ~Runs(n) /\ n \in folder

BeginUp(n, force) ==
    /\ Free("job") /\ Startable(n, force)
    /\ proc' = [proc EXCEPT !["job"] = [Idle EXCEPT !.op = "up", !.pc = "start", !.n = n,
                                                    !.id = entry[n]]]
    /\ UNCHANGED <<entry, enabled, lastId, runs, container, folder, excused>>

\* What follows a start or a stop that succeeded or failed: sync goes on with
\* the next changed challenge, up and down are at their end.
Onward(a) == IF proc[a].op = "sync" THEN [proc[a] EXCEPT !.pc = "restart", !.n = None, !.id = 0]
            ELSE Idle

\* The image is built and the container started, from the folder as it is by now.
Compose ==
    LET p == proc["job"]
        race == entry[p.n] # p.id \/ p.id \in proc["adm"].ids
    IN  /\ At("job", "start") /\ p.n \in folder
        /\ container' = container \cup {p.n}
        /\ excused' = (excused \ {p.n})
                      \cup (IF race /\ "race" \in Excuses THEN {p.n} ELSE {})
        /\ Goto("job", "save")
        /\ UNCHANGED <<entry, enabled, lastId, runs, folder>>

\* The build or the start fails; what was started is taken down again, unless
\* that fails too.
ComposeFails ==
    LET n == proc["job"].n IN
    /\ At("job", "start")
    /\ proc' = [proc EXCEPT !["job"] = Onward("job")]
    /\ \/ UNCHANGED <<container, excused>>
       \/ n \in folder /\ container' = container \ {n} /\ excused' = excused \ {n}
       \/ /\ n \in folder /\ container' = container \cup {n}
          /\ excused' = excused \cup (IF "failed" \in Excuses THEN {n} ELSE {})
    /\ UNCHANGED <<entry, enabled, lastId, runs, folder>>

\* The row goes under the id read at the beginning, whether it is still there
\* or not: foreign keys are not enforced.
SaveRuntime ==
    /\ At("job", "save")
    /\ runs' = [runs EXCEPT ![proc["job"].id] = proc["job"].n]
    /\ proc' = [proc EXCEPT !["job"] = Onward("job")]
    /\ UNCHANGED <<entry, enabled, lastId, container, folder, excused>>

\* The row cannot be written: nothing takes the container down again.
SaveFails ==
    /\ At("job", "save")
    /\ proc' = [proc EXCEPT !["job"] = Onward("job")]
    /\ excused' = excused \cup Excused("failed", proc["job"].n)
    /\ UNCHANGED <<entry, enabled, lastId, runs, container, folder>>

-----------------------------------------------------------------------------
(* down, remove and prune stop a challenge: _stop_challenge_completely.    *)

BeginDown(n) ==
    /\ Free("job") /\ entry[n] # 0
    /\ proc' = [proc EXCEPT !["job"] = [Idle EXCEPT !.op = "down", !.pc = "mark", !.n = n]]
    /\ UNCHANGED <<entry, enabled, lastId, runs, container, folder, excused>>

\* Where a process goes after stop(), which it does whatever came of it; a
\* sync whose stop failed does not start the challenge.
AfterStop(a, ok) ==
    CASE proc[a].op \in {"remove", "prune"} -> [proc[a] EXCEPT !.pc = "delete", !.id = 0]
      [] proc[a].op = "sync" /\ ok -> [proc[a] EXCEPT !.pc = "again", !.id = 0]
      [] OTHER -> Onward(a)

\* The ChallengeLock cannot be had or the entry not be read, and an exception
\* leaves: down ends with it, remove and prune log it and go on.
StopRefused(a) ==
    /\ At(a, "mark")
    /\ proc' = [proc EXCEPT ![a] = AfterStop(a, FALSE)]
    /\ excused' = excused \cup (IF proc[a].op = "down" THEN {}
                                ELSE Excused("failed", proc[a].n))
    /\ UNCHANGED <<entry, enabled, lastId, runs, container, folder>>

\* The row is marked, or that fails and is logged.
MarkStopped(a) ==
    /\ At(a, "mark")
    /\ runs' \in {Stopped(entry[proc[a].n]), runs}
    /\ Goto(a, "stop")
    /\ UNCHANGED <<entry, enabled, lastId, container, folder, excused>>

\* stop() with the folder in place: docker compose down, then the row.
ComposeDown(a) ==
    LET n == proc[a].n IN
    /\ At(a, "stop") /\ entry[n] # 0 /\ n \in folder
    /\ container' = container \ {n} /\ excused' = excused \ {n}
    /\ proc' = [proc EXCEPT ![a].pc = "stopped", ![a].id = entry[n]]
    /\ UNCHANGED <<entry, enabled, lastId, runs, folder>>

SaveStopped(a) ==
    /\ At(a, "stopped")
    /\ \/ /\ runs' = Stopped(proc[a].id)
          /\ proc' = [proc EXCEPT ![a] = AfterStop(a, TRUE)]
       \/ /\ UNCHANGED runs
          /\ proc' = [proc EXCEPT ![a] = AfterStop(a, FALSE)]
    /\ UNCHANGED <<entry, enabled, lastId, container, folder, excused>>

\* The entry is gone, or docker compose down or a write fails: stop() raises.
StopFails(a) ==
    LET n == proc[a].n IN
    /\ At(a, "stop")
    /\ proc' = [proc EXCEPT ![a] = AfterStop(a, FALSE)]
    /\ excused' = excused \cup (IF entry[n] # 0 /\ proc[a].op # "sync"
                                THEN Excused("failed", n) ELSE {})
    /\ UNCHANGED <<entry, enabled, lastId, runs, container, folder>>

\* stop() without the folder only marks the runtime as stopped.
StopWithoutFolder(a) ==
    LET n == proc[a].n IN
    /\ At(a, "stop") /\ entry[n] # 0 /\ n \notin folder
    /\ runs' = Stopped(entry[n])
    /\ excused' = excused \cup Excused("gone", n)
    /\ proc' = [proc EXCEPT ![a] = AfterStop(a, TRUE)]
    /\ UNCHANGED <<entry, enabled, lastId, container, folder>>

-----------------------------------------------------------------------------
(* add, remove and prune.                                                  *)

\* (With a bug: without AUTOINCREMENT SQLite takes the id after the largest one there is.)
NextFreeId ==
    LET used == {i \in 0 .. MaxId : \E n \in Names : entry[n] = i} \cup {0} IN
    1 + CHOOSE i \in used : \A j \in used : j <= i

\* AUTOINCREMENT: an id is never handed out twice.
NextId == lastId + 1

\* (With a bug: the name is not UNIQUE.)
AddTwice(n) ==
    /\ Free("adm") /\ lastId < MaxId
    /\ entry' = [entry EXCEPT ![n] = NextId]
    /\ enabled' = enabled \cup {NextId}
    /\ lastId' = NextId
    /\ UNCHANGED <<runs, container, folder, proc, excused>>

\* An entry can be added by hand, whether its folder exists or not.
Add(n) ==
    /\ Free("adm") /\ entry[n] = 0 /\ lastId < MaxId
    /\ entry' = [entry EXCEPT ![n] = NextId]
    /\ enabled' = enabled \cup {NextId}
    /\ lastId' = NextId
    /\ UNCHANGED <<runs, container, folder, proc, excused>>

\* remove looks the entry up by what was typed, and then stops what was typed:
\* a part of a name stops nothing.
BeginRemove(t) ==
    LET n == Resolve(t) IN
    /\ Free("adm") /\ n # None
    /\ proc' = [proc EXCEPT !["adm"] = [Idle EXCEPT
           !.op = "remove", !.pc = IF t = n THEN "mark" ELSE "delete",
           !.t = t, !.n = n, !.ids = {entry[n]}]]
    /\ UNCHANGED <<entry, enabled, lastId, runs, container, folder, excused>>

\* prune reads the disabled entries once, and takes the challenges one by one.
BeginPrune ==
    LET stale == {n \in Entries : entry[n] \notin enabled} IN
    /\ Free("adm") /\ stale # {}
    /\ \E n \in stale :
           proc' = [proc EXCEPT !["adm"] = [Idle EXCEPT
               !.op = "prune", !.pc = "mark", !.n = n, !.todo = stale \ {n},
               !.ids = {entry[m] : m \in stale}]]
    /\ UNCHANGED <<entry, enabled, lastId, runs, container, folder, excused>>

\* The folder in the cache is deleted.
DeleteFolder ==
    LET p == proc["adm"] IN
    /\ At("adm", "delete")
    /\ folder' = folder \ {p.n}
    /\ \/ /\ p.todo = {}
          /\ Goto("adm", "forget")
       \/ \E n \in p.todo :
              proc' = [proc EXCEPT !["adm"] = [p EXCEPT !.pc = "mark", !.n = n,
                                                        !.todo = p.todo \ {n}]]
    /\ UNCHANGED <<entry, enabled, lastId, runs, container, excused>>

\* The rows go by the ids read at the beginning, in one transaction.
Forget ==
    LET p == proc["adm"] IN
    /\ At("adm", "forget")
    /\ entry' = [n \in Names |-> IF entry[n] \in p.ids THEN 0 ELSE entry[n]]
    /\ enabled' = enabled \ p.ids
    /\ runs' = [i \in Ids |-> IF i \in p.ids THEN None ELSE runs[i]]
    /\ excused' = excused \cup (IF p.op = "remove" /\ p.t # p.n THEN Excused("partial", p.n)
                                ELSE {})
    /\ Done("adm")
    /\ UNCHANGED <<lastId, container, folder>>

\* The transaction fails and is rolled back.
ForgetFails ==
    /\ At("adm", "forget")
    /\ Done("adm")
    /\ UNCHANGED <<entry, enabled, lastId, runs, container, folder, excused>>

-----------------------------------------------------------------------------
(* sync: ChallengeSyncService.sync.                                        *)

\* The folders of the repository replace those of the cache, and the
\* challenges are discovered: on and off, as their configuration enables them.
Pull ==
    /\ Free("job")
    /\ \E found \in SUBSET Names, on \in SUBSET Names :
           /\ on \subseteq found
           /\ folder' = found
           /\ proc' = [proc EXCEPT !["job"] = [Idle EXCEPT !.op = "sync", !.pc = "register",
                                                           !.todo = found, !.on = on]]
    /\ UNCHANGED <<entry, enabled, lastId, runs, container, excused>>

\* (With a bug: INSERT OR REPLACE, which gives an entry that is there a new id.)
RegisterReplace ==
    LET p == proc["job"]
        ids == NextId .. lastId + Cardinality(p.todo)
    IN  /\ At("job", "register") /\ lastId + Cardinality(p.todo) <= MaxId
        /\ \E f \in [p.todo -> ids] :
               /\ \A m, n \in p.todo : f[m] = f[n] => m = n
               /\ entry' = [n \in Names |-> IF n \in p.todo THEN f[n] ELSE entry[n]]
        /\ enabled' = {entry'[n] : n \in p.on}
        /\ lastId' = lastId + Cardinality(p.todo)
        /\ \E changed \in SUBSET p.todo :
               proc' = [proc EXCEPT !["job"] = [p EXCEPT !.pc = "restart", !.todo = changed,
                                                         !.on = {}]]
        /\ UNCHANGED <<runs, container, folder, excused>>

\* Sorted discovery: a new challenge gets the id after those of the new ones before it.
\* One transaction inserts or updates what was discovered and disables the rest;
\* what has changed between the two revisions is then restarted if it runs.
Register ==
    LET p == proc["job"]
        new == p.todo \ Entries
        ids == NextId .. lastId + Cardinality(new)
    IN  /\ At("job", "register") /\ lastId + Cardinality(new) <= MaxId
        /\ \E f \in [new -> ids] :
               /\ \A m, n \in new : f[m] = f[n] => m = n
               /\ entry' = [n \in Names |-> IF n \in new THEN f[n] ELSE entry[n]]
        /\ enabled' = {entry'[n] : n \in p.on}
        /\ lastId' = lastId + Cardinality(new)
        /\ \E changed \in SUBSET p.todo :
               proc' = [proc EXCEPT !["job"] = [p EXCEPT !.pc = "restart", !.todo = changed,
                                                         !.on = {}]]
        /\ UNCHANGED <<runs, container, folder, excused>>

\* The transaction fails and is rolled back: the sync is over.
RegisterFails ==
    /\ At("job", "register")
    /\ Done("job")
    /\ UNCHANGED <<entry, enabled, lastId, runs, container, folder, excused>>

\* A changed challenge that runs is built again, and stopped if that works.  One
\* that status() finds stopped, rightly or because docker ps fails, is marked so.
Restart(n) ==
    LET p == proc["job"] IN
    /\ At("job", "restart") /\ n \in p.todo /\ entry[n] # 0
    /\ \/ /\ Runs(n) /\ n \in container
          /\ proc' = [proc EXCEPT !["job"] = [p EXCEPT !.pc = "stop", !.n = n,
                                                       !.todo = p.todo \ {n}]]
          /\ UNCHANGED <<runs, excused>>
       \/ /\ n \in container
          /\ proc' = [proc EXCEPT !["job"] = [p EXCEPT !.todo = p.todo \ {n}]]
          /\ UNCHANGED <<runs, excused>>
       \/ /\ runs' = Stopped(entry[n])
          /\ proc' = [proc EXCEPT !["job"] = [p EXCEPT !.todo = p.todo \ {n}]]
          /\ excused' = excused \cup Excused("status", n)
    /\ UNCHANGED <<entry, enabled, lastId, container, folder>>

\* sync starts what it has stopped: start() reads the entry anew, and refuses a
\* challenge that is disabled by now.
StartAgain ==
    LET p == proc["job"] IN
    /\ At("job", "again")
    /\ proc' = [proc EXCEPT !["job"] = IF Startable(p.n, FALSE)
                                       THEN [p EXCEPT !.pc = "start", !.id = entry[p.n]]
                                       ELSE Onward("job")]
    /\ UNCHANGED <<entry, enabled, lastId, runs, container, folder, excused>>

\* Nothing is left to restart, or the entry of a challenge is gone, which ends the sync.
EndSync ==
    LET p == proc["job"] IN
    /\ At("job", "restart")
    /\ p.todo = {} \/ \E n \in p.todo : entry[n] = 0
    /\ Done("job")
    /\ UNCHANGED <<entry, enabled, lastId, runs, container, folder, excused>>

-----------------------------------------------------------------------------

\* status(), which needs no lock, marks a row that runs: docker ps has failed, or
\* what it said is out of date by now.
Status(n) ==
    /\ Runs(n)
    /\ runs' = Stopped(entry[n])
    /\ excused' = excused \cup Excused("status", n)
    /\ UNCHANGED <<entry, enabled, lastId, container, folder, proc>>

\* A command dies.
Crash(a) ==
    LET p == proc[a] IN
    /\ ~Free(a)
    /\ Done(a)
    /\ excused' = excused \cup (IF p.pc \in {"save", "stop"} /\ ~Runs(p.n)
                                THEN Excused("died", p.n) ELSE {})
    /\ UNCHANGED <<entry, enabled, lastId, runs, container, folder>>

Next ==
    \/ \E n \in Names, force \in BOOLEAN : BeginUp(n, force)
    \/ Compose \/ ComposeFails \/ SaveRuntime \/ SaveFails
    \/ \E n \in Names : BeginDown(n) \/ Add(n) \/ Restart(n) \/ Status(n)
    \/ \E a \in Actors : StopRefused(a) \/ MarkStopped(a) \/ ComposeDown(a) \/ SaveStopped(a)
                         \/ StopFails(a) \/ StopWithoutFolder(a) \/ Crash(a)
    \/ \E t \in Typed : BeginRemove(t)
    \/ BeginPrune \/ DeleteFolder \/ Forget \/ ForgetFails
    \/ Pull \/ Register \/ RegisterFails \/ StartAgain \/ EndSync

Spec == Init /\ [][Next]_vars

-----------------------------------------------------------------------------

\* A command is between starting or stopping a container and writing that down.
AtWork(n) == \E a \in Actors : proc[a].n = n /\ proc[a].pc \in {"save", "stop", "stopped"}

\* No container is lost: unless there is an excuse, a running container has an
\* entry whose runtime is running, so that list, down and the expiry loop find
\* it (start, stop, remove_challenge, prune_disabled_challenges).
NoLostContainer == \A n \in container \ excused : Runs(n) \/ AtWork(n)

\* An entry never takes over the runtime of another one: the row that an up
\* writes for an entry that was removed meanwhile stays with the id it had
\* (_save_runtime_to_db against remove_challenge and _save_challenges_to_db).
NoInheritedRuntime == \A n \in Names : Runs(n) => runs[entry[n]] = n

=============================================================================
