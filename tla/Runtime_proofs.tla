--------------------------- MODULE Runtime_proofs ---------------------------
(***************************************************************************)
(* Theorems about Lifecycle that relate the database to Docker and the     *)
(* daemon to the rows it has read: which container a running row stands    *)
(* for, what a restart preserves, whom the daemon stops.                   *)
(***************************************************************************)
EXTENDS Lease_proofs

-----------------------------------------------------------------------------
(* What each write does to each row of a challenge.                        *)

LEMMA StatusRows ==
  ASSUME NEW rs \in Seq(Row)
  PROVE  LET new == WithStatus(rs, "stopped") IN
         /\ new \in Seq(Row) /\ Len(new) = Len(rs)
         /\ \A i \in 1 .. Len(rs) : /\ RowRuns(new[i]) <=> RowRuns(rs[i]) /\ i # Len(rs)
                                    /\ new[i].expires = rs[i].expires
  <1> DEFINE new == [rs EXCEPT ![Len(rs)].status = "stopped"]
  <1>1. Len(rs) \in Nat /\ rs \in [1 .. Len(rs) -> Row] /\ DOMAIN rs = 1 .. Len(rs)
    BY LenProperties
  <1>2. CASE rs = <<>>
    BY <1>1, <1>2, EmptySeq DEF WithStatus
  <1>3. CASE rs # <<>>
    <2>1. new \in [1 .. Len(rs) -> Row]
      BY <1>1 DEF Row
    <2>2. new \in Seq(Row) /\ Len(new) = Len(rs)
      <3> HIDE DEF new
      <3> QED
        BY <1>1, <2>1, FunctionIsSeq
    <2>3. \A i \in 1 .. Len(rs) : /\ RowRuns(new[i]) <=> RowRuns(rs[i]) /\ i # Len(rs)
                                  /\ new[i].expires = rs[i].expires
      BY <1>1 DEF RowRuns, Row
    <2>4. WithStatus(rs, "stopped") = new
      BY <1>3 DEF WithStatus
    <2> QED
      BY <2>2, <2>3, <2>4
  <1> QED
    BY <1>2, <1>3

LEMMA ExpiryRows ==
  ASSUME NEW rs \in Seq(Row), NEW t \in Date
  PROVE  LET new == WithExpiry(rs, t) IN
         /\ new \in Seq(Row) /\ Len(new) = Len(rs)
         /\ \A i \in 1 .. Len(rs) : /\ RowRuns(new[i]) <=> RowRuns(rs[i])
                                    /\ new[i].expires = IF RowRuns(rs[i]) THEN t ELSE rs[i].expires
  <1> DEFINE new == WithExpiry(rs, t)
  <1>1. Len(rs) \in Nat /\ rs \in [1 .. Len(rs) -> Row] /\ DOMAIN rs = 1 .. Len(rs)
    BY LenProperties
  <1>2. new \in [1 .. Len(rs) -> Row]
    BY <1>1 DEF WithExpiry, Row
  <1>3. \A i \in 1 .. Len(rs) : /\ RowRuns(new[i]) <=> RowRuns(rs[i])
                                /\ new[i].expires = IF RowRuns(rs[i]) THEN t ELSE rs[i].expires
    BY <1>1 DEF WithExpiry, RowRuns, Row
  <1> HIDE DEF new
  <1>4. new \in Seq(Row) /\ Len(new) = Len(rs)
    BY <1>1, <1>2, FunctionIsSeq
  <1> QED
    BY <1>3, <1>4 DEF new

LEMMA StampRows ==
  ASSUME NEW rs \in Seq(Row), NEW new, new \in {WithRestart(rs), WithExtend(rs)}, now \in Nat
  PROVE  /\ new \in Seq(Row) /\ Len(new) = Len(rs)
         /\ \A i \in 1 .. Len(rs) : /\ RowRuns(new[i]) <=> RowRuns(rs[i])
                                    /\ new[i].expires = rs[i].expires
  <1>1. Len(rs) \in Nat /\ rs \in [1 .. Len(rs) -> Row] /\ DOMAIN rs = 1 .. Len(rs)
    BY LenProperties
  <1>2. new \in [1 .. Len(rs) -> Row]
    <2>1. \A r \in Row : [r EXCEPT !.restarted = now] \in Row /\ [r EXCEPT !.extended = now] \in Row
      BY DEF Row, Date
    <2> QED
      BY <1>1, <2>1 DEF WithRestart, WithExtend
  <1>3. \A i \in 1 .. Len(rs) : /\ RowRuns(new[i]) <=> RowRuns(rs[i])
                                /\ new[i].expires = rs[i].expires
    BY <1>1 DEF WithRestart, WithExtend, RowRuns, Row
  <1> QED
    BY <1>1, <1>2, <1>3, FunctionIsSeq

LEMMA SavedRowsRun ==
  ASSUME NEW rs \in Seq(Row), NEW t \in Date, NEW reuse \in BOOLEAN
  PROVE  LET new == Saved(rs, t, reuse) IN
         /\ new \in Seq(Row)
         /\ Len(new) = IF reuse /\ rs # <<>> THEN Len(rs) ELSE Len(rs) + 1
         /\ \A i \in 1 .. Len(new) : RowRuns(new[i]) <=> i = Len(new)
         /\ new[Len(new)].expires = t
  <1> DEFINE closed == [i \in DOMAIN rs |-> [rs[i] EXCEPT !.status = "stopped"]]
             fresh  == [status |-> "running", expires |-> t, restarted |-> Never, extended |-> Never]
             again  == [closed EXCEPT ![Len(rs)].status = "running", ![Len(rs)].expires = t]
  <1>1. Len(rs) \in Nat /\ rs \in [1 .. Len(rs) -> Row] /\ DOMAIN rs = 1 .. Len(rs)
    BY LenProperties
  <1>2. closed \in [1 .. Len(rs) -> Row]
    BY <1>1 DEF Row
  <1>3. \A i \in 1 .. Len(rs) : ~RowRuns(closed[i])
    BY <1>1 DEF RowRuns, Row
  <1>4. closed \in Seq(Row) /\ Len(closed) = Len(rs)
    <2> HIDE DEF closed
    <2> QED
      BY <1>1, <1>2, FunctionIsSeq
  <1>5. CASE reuse /\ rs # <<>>
    <2>1. Len(rs) \in 1 .. Len(rs)
      BY <1>1, <1>5, LastRow
    <2>2. again \in [1 .. Len(rs) -> Row]
      BY <1>2, <2>1 DEF Row
    <2>3. \A i \in 1 .. Len(rs) : RowRuns(again[i]) <=> i = Len(rs)
      <3> HIDE DEF closed
      <3> QED
        BY <1>2, <1>3, <2>1 DEF RowRuns, Row
    <2>4. again[Len(rs)].expires = t
      BY <1>2, <2>1 DEF Row
    <2>5. Saved(rs, t, reuse) = again
      BY <1>5 DEF Saved
    <2> HIDE DEF again
    <2>6. again \in Seq(Row) /\ Len(again) = Len(rs)
      BY <1>1, <2>2, FunctionIsSeq
    <2> QED
      BY <1>5, <2>3, <2>4, <2>5, <2>6
  <1>6. CASE ~(reuse /\ rs # <<>>)
    <2> DEFINE longer == Append(closed, fresh)
    <2>1. fresh \in Row /\ RowRuns(fresh) /\ fresh.expires = t
      BY DEF Row, RowRuns, Date, Never
    <2>2. Saved(rs, t, reuse) = longer
      BY <1>6 DEF Saved
    <2> HIDE DEF closed, fresh
    <2>3. /\ longer \in Seq(Row) /\ Len(longer) = Len(rs) + 1
          /\ longer[Len(rs) + 1] = fresh
          /\ \A i \in 1 .. Len(rs) : longer[i] = closed[i]
      BY <1>4, <2>1, AppendProperties
    <2>4. \A i \in 1 .. Len(rs) + 1 : RowRuns(longer[i]) <=> i = Len(rs) + 1
      BY <1>1, <1>3, <2>1, <2>3
    <2> HIDE DEF longer
    <2> QED
      BY <1>6, <2>1, <2>2, <2>3, <2>4
  <1> QED
    BY <1>5, <1>6

-----------------------------------------------------------------------------
(* Containers.                                                             *)

\* While a command is at work no other begins.
LEMMA Busy ==
  ASSUME [Next]_vars, job # Idle
  PROVE  JobStep \/ Crash \/ UNCHANGED <<job, ports, enabled, repo>>
  BY DEF Next, vars, Request, BeginDown, BeginExtend, LockedStatus, BeginUp, BeginRestart, SyncPull,
         Begin, BeginCycle, ViewRead, ViewProbe, ViewWrite, Tick, ContainerExit

LEMMA ContainerStep ==
  [Next]_vars => \/ UNCHANGED container \/ ComposeUp \/ ComposeDown \/ Crash
                 \/ \E c \in Challenges : ContainerExit(c)
  <1> SUFFICES ASSUME [Next]_vars, ~ComposeUp, ~ComposeDown, ~Crash,
                      \A c \in Challenges : ~ContainerExit(c)
               PROVE  UNCHANGED container
    OBVIOUS
  <1>1. CASE JobStep
    BY <1>1 DEF JobStep, StampExtend, Start, Allocate, Save, SaveFails, UpStatus, Touch, MarkStopped,
                RowStopped, CycleEnd, SyncRegister, CycleStop, CycleHeal, SyncUpdate
  <1>2. CASE Request
    BY <1>2 DEF Request, BeginDown, BeginExtend, LockedStatus, BeginUp, BeginRestart, SyncPull
  <1> QED
    BY <1>1, <1>2 DEF Next, vars, BeginCycle, ViewRead, ViewProbe, ViewWrite, Tick

\* The only container that comes up is that of the challenge being started,
\* with the ports allocated to it.
LEMMA OnlyStarts ==
  ASSUME Typed, [Next]_vars, NEW c \in Challenges, container'[c] # container[c], container'[c].up
  PROVE  /\ job.pc = "compose" /\ job.c = c /\ container'[c] = [up |-> TRUE, bound |-> ports[c]]
         /\ ComposeUp \/ Crash
  <1>1. container \in [Challenges -> Container] /\ ~Down.up
    BY DEF Typed, TypeOK, Down
  <1>2. CASE ComposeUp
    <2>1. PICK new \in {[up |-> TRUE, bound |-> ports[job.c]]} \cup Leftovers(job.c) :
             container' = [container EXCEPT ![job.c] = new]
      BY <1>2 DEF ComposeUp
    <2>2. job.c = c /\ container'[c] = new
      BY <1>1, <2>1
    <2>3. new = [up |-> TRUE, bound |-> ports[c]]
      BY <1>1, <2>1, <2>2 DEF Leftovers
    <2> QED
      BY <1>2, <2>2, <2>3 DEF ComposeUp, At
  <1>3. CASE ComposeDown
    <2>1. container' \in {container, [container EXCEPT ![job.c] = Down]}
      BY <1>3 DEF ComposeDown
    <2> QED
      BY <1>1, <2>1
  <1>4. ASSUME NEW d \in Challenges, ContainerExit(d) PROVE FALSE
    BY <1>1, <1>4 DEF ContainerExit
  <1>5. CASE Crash
    <2>1. PICK new : container' = [container EXCEPT ![job.c] = new] /\
             \/ At("compose") /\ new \in {container[job.c], Down, [up |-> TRUE, bound |-> ports[job.c]]}
             \/ new \in {container[job.c], Down}
      BY <1>5 DEF Crash
    <2>2. job.c = c /\ container'[c] = new
      BY <1>1, <2>1
    <2> QED
      BY <1>1, <1>5, <2>1, <2>2 DEF At
  <1> QED
    BY <1>2, <1>3, <1>4, <1>5, ContainerStep

\* A command comes to its save by `docker compose up`.
LEMMA SaveComes ==
  ASSUME Typed, [Next]_vars, job'.pc = "save"
  PROVE  \/ UNCHANGED <<job, ports>> /\ job.pc = "save"
         \/ /\ ComposeUp /\ UNCHANGED ports /\ job'.c = job.c /\ job.c \in Challenges
            /\ container' = [container EXCEPT ![job.c] = [up |-> TRUE, bound |-> ports[job.c]]]
  <1>1. job \in Job /\ Idle.pc = "free"
    BY DEF Typed, TypeOK, Idle
  <1>2. \A pc : Goto(pc) => pc = "save" /\ job'.c = job.c
    BY <1>1 DEF Goto, Job
  <1>3. ~Finish
    <2>1. Finish => job'.pc \in {"free", "cycle"}
      BY DEF Finish, NextJob, Idle
    <2> QED
      BY <2>1
  <1>4. ~Allocate
    BY <1>2, <1>3 DEF Allocate
  <1>5. job.pc \in {"compose", "save"} /\ job'.c = job.c
    BY <1>4, ClaimStep
  <1>6. job # Idle
    BY <1>1, <1>5
  <1>7. CASE JobStep
    <2>1. ComposeUp
      <3>1. ~Save
        BY <1>2 DEF Save
      <3> QED
        BY <1>3, <1>4, <1>5, <1>7, <3>1 DEF JobStep, StampExtend, Start, SaveFails, UpStatus, Touch, MarkStopped,
           ComposeDown, RowStopped, CycleEnd, SyncRegister, CycleStop, CycleHeal, SyncUpdate, At
    <2>2. job.c \in Challenges
      BY <2>1 DEF ComposeUp, At, Typed, HasChallenge
    <2>3. job' # [job EXCEPT !.pc = "alloc", !.tries = @ + 1,
                             !.failed = @ \cup {ports[job.c][i] : i \in Internal}]
      BY <1>1 DEF Job
    <2>4. container' = [container EXCEPT ![job.c] = [up |-> TRUE, bound |-> ports[job.c]]]
      BY <1>3, <2>1, <2>3 DEF ComposeUp
    <2> QED
      BY <1>5, <2>1, <2>2, <2>4 DEF ComposeUp
  <1>8. ~Crash
    BY <1>1 DEF Crash
  <1> QED
    BY <1>6, <1>7, <1>8, Busy

-----------------------------------------------------------------------------
(* The ports of a running challenge are what its container is bound to.    *)

\* More than the property says: even of the challenge a command is at work on.
RunningBound ==
    \A c \in Challenges :
        Running(c) /\ container[c].up /\ ports[c] # NoRows => container[c].bound = ports[c]

\* A container that has come up waits for its row with the ports of the database.
StartedBound ==
    job.pc = "save" /\ container[job.c].up => container[job.c].bound = ports[job.c]

MatchInv == LeaseInv /\ RunningBound /\ StartedBound

LEMMA InitMatch == Init => MatchInv
  <1> SUFFICES ASSUME Init PROVE RunningBound /\ StartedBound
    BY InitLease DEF MatchInv
  <1> QED
    BY DEF Init, Idle, RunningBound, StartedBound

LEMMA NextMatch == MatchInv /\ [Next]_vars => MatchInv'
  <1> SUFFICES ASSUME MatchInv, [Next]_vars PROVE MatchInv'
    OBVIOUS
  <1>1. LeaseInv /\ LeaseInv' /\ Typed
    BY NextLease DEF MatchInv, LeaseInv, DeadlineInv
  <1>2. container \in [Challenges -> Container] /\ rows \in [Challenges -> Seq(Row)]
        /\ ports \in [Challenges -> Bindings]
    BY <1>1 DEF Typed, TypeOK
  <1>3. RunningBound'
    <2> SUFFICES ASSUME NEW c \in Challenges, Running(c)', container'[c].up, ports'[c] # NoRows
                 PROVE  container'[c].bound = ports'[c]
      BY DEF RunningBound, NoRows
    <2>1. CASE Save
      <3>1. UNCHANGED <<ports, container>> /\ job.pc = "save"
        BY <2>1 DEF Save, At
      <3>2. CASE c = job.c
        BY <2>1, <3>1, <3>2 DEF MatchInv, StartedBound
      <3>3. CASE c # job.c
        <4>1. Running(c)
          BY <1>1, <2>1, <3>3, SaveRows, RunsInRows
        <4> QED
          BY <3>1, <4>1 DEF MatchInv, RunningBound
      <3> QED
        BY <3>2, <3>3
    <2>2. CASE ~Save
      <3>1. Running(c)
        BY <1>1, <2>2, RowsStep, RunsInRows DEF Typed, RowsKept, Keeps
      <3>2. ~(job.c = c /\ job.pc \in {"alloc", "compose", "save"})
        BY <1>1, <3>1 DEF LeaseInv, Starting
      <3>3. container'[c] = container[c]
        BY <1>1, <3>2, OnlyStarts
      <3>4. ports'[c] = ports[c]
        <4>1. CASE Allocate
          BY <1>2, <3>2, <4>1 DEF Allocate, At
        <4>2. CASE SyncRegister
          <5>1. AnyRunning(c)
            BY <1>2, <3>1, LastRow DEF Running, Latest, AnyRunning, RowRuns
          <5> QED
            BY <4>2, <5>1 DEF SyncRegister
        <4> QED
          BY <4>1, <4>2, PortsStep
      <3> QED
        BY <3>1, <3>3, <3>4 DEF MatchInv, RunningBound
    <2> QED
      BY <2>1, <2>2
  <1>4. StartedBound'
    <2> SUFFICES ASSUME job'.pc = "save", container'[job'.c].up
                 PROVE  container'[job'.c].bound = ports'[job'.c]
      BY DEF StartedBound
    <2>1. CASE UNCHANGED <<job, ports>> /\ job.pc = "save"
      <3>1. job.c \in Challenges
        BY <1>1, <2>1 DEF Typed, HasChallenge
      <3>2. container'[job.c] = container[job.c]
        BY <1>1, <2>1, <3>1, OnlyStarts
      <3> QED
        BY <2>1, <3>2 DEF MatchInv, StartedBound
    <2>2. CASE /\ UNCHANGED ports /\ job'.c = job.c /\ job.c \in Challenges
               /\ container' = [container EXCEPT ![job.c] = [up |-> TRUE, bound |-> ports[job.c]]]
      BY <1>2, <2>2
    <2> QED
      BY <1>1, <2>1, <2>2, SaveComes
  <1> QED
    BY <1>1, <1>3, <1>4 DEF MatchInv

(* Where the database sends the tunnels of a running challenge, its         *)
(* container listens: after every start, retry, restart, sync, crash and    *)
(* stale write (start() allocates before and saves after docker compose).   *)
THEOREM PortsMatch == Spec => []PortsMatchContainer
  <1>1. MatchInv => PortsMatchContainer
    BY DEF MatchInv, RunningBound, PortsMatchContainer
  <1> QED
    BY <1>1, InitMatch, NextMatch, PTL DEF Spec

-----------------------------------------------------------------------------
(* Containers nobody knows.  Each of these leaves one behind: an unlocked   *)
(* status() writes a stale "stopped" over a start, a docker command fails   *)
(* or is killed halfway, `docker ps` fails and its answer is recorded, a    *)
(* sync removes the folder that docker compose down needs.                  *)

NothingLost ==
    Viewers = {} /\ Faults \cap {"down", "save", "probe", "crash"} = {} /\ "sync" \notin Ops

\* The row of a container is closed before it goes down, and written after it came up.
Known == \A c \in Challenges :
            container[c].up => Running(c) \/ (job.c = c /\ job.pc \in {"down", "save"})
GoneDown == job.pc = "rowstop" => ~container[job.c].up
FoldersStay == \A c \in Challenges : Present(c)

KnownInv == LeaseInv /\ Known /\ GoneDown /\ FoldersStay

LEMMA InitKnown == Init => KnownInv
  <1> SUFFICES ASSUME Init PROVE Known /\ GoneDown /\ FoldersStay
    BY InitLease DEF KnownInv
  <1>1. Known
    BY SwitchesAssumption, RunsInRows DEF Init, Known, RunsNow
  <1> QED
    BY <1>1 DEF Init, Idle, GoneDown, FoldersStay, Present

\* A status() that has seen the container leaves its row running.
LEMMA SeenUp ==
  ASSUME NEW rs \in Seq(Row), RunsNow(rs), now \in Nat
  PROVE  /\ RunsNow(AfterStatus(rs, TRUE)) /\ RunsNow(WithRestart(rs)) /\ RunsNow(WithExtend(rs))
         /\ \A t \in Date : RunsNow(WithExpiry(rs, t))
  <1>1. Len(rs) \in 1 .. Len(rs) /\ RowRuns(rs[Len(rs)]) /\ Len(rs) # 0
    BY LastRow, EmptySeq DEF RunsNow, RowRuns
  <1>2. ASSUME NEW new \in Seq(Row), Len(new) = Len(rs),
               \A i \in 1 .. Len(rs) : RowRuns(new[i]) <=> RowRuns(rs[i])
        PROVE  RunsNow(new)
    BY <1>1, <1>2, EmptySeq DEF RunsNow, RowRuns
  <1>3. ASSUME NEW t \in Date PROVE RunsNow(WithExpiry(rs, t))
    BY <1>2, ExpiryRows
  <1>4. now + TTL \in Date
    BY ReachFacts DEF Date
  <1>5. RunsNow(WithRestart(rs)) /\ RunsNow(WithExtend(rs))
    <2>1. ASSUME NEW new \in {WithRestart(rs), WithExtend(rs)} PROVE RunsNow(new)
      BY <1>2, StampRows
    <2> QED
      BY <2>1
  <1> QED
    BY <1>3, <1>4, <1>5 DEF AfterStatus

LEMMA NextKnown == NothingLost /\ KnownInv /\ [Next]_vars => KnownInv'
  <1> SUFFICES ASSUME NothingLost, KnownInv, [Next]_vars PROVE KnownInv'
    OBVIOUS
  <1>1. LeaseInv /\ LeaseInv' /\ Typed
    BY NextLease DEF KnownInv, LeaseInv, DeadlineInv
  <1>2. /\ container \in [Challenges -> Container] /\ rows \in [Challenges -> Seq(Row)]
        /\ now \in Nat /\ job \in Job /\ ~Down.up
    BY <1>1 DEF Typed, TypeOK, Down
  <1>3. ~Crash /\ \A changed : ~SyncPull(changed)
    BY DEF NothingLost, Crash, SyncPull, Begin
  <1>4. UNCHANGED repo
    <2>1. CASE JobStep
      BY <2>1 DEF JobStep, StampExtend, Start, Allocate, ComposeUp, Save, SaveFails, UpStatus, Touch,
                  MarkStopped, ComposeDown, RowStopped, CycleEnd, SyncRegister, CycleStop,
                  CycleHeal, SyncUpdate
    <2>2. CASE Request
      BY ZenonT(60), <1>3, <2>2 DEF Request, BeginDown, BeginExtend, LockedStatus, BeginUp, BeginRestart
    <2> QED
      BY <1>3, <2>1, <2>2 DEF Next, vars, BeginCycle, ViewRead, ViewProbe, ViewWrite, Tick, ContainerExit
  <1>5. FoldersStay'
    BY <1>4 DEF KnownInv, FoldersStay, Present
  <1>6. \A pc : Goto(pc) => job'.pc = pc /\ job'.c = job.c
    BY <1>2 DEF Goto, Job
  <1>7. ComposeDown => /\ container' = [container EXCEPT ![job.c] = Down] /\ Goto("rowstop")
                       /\ job.pc = "down" /\ UNCHANGED rows /\ job.c \in Challenges
    <2> SUFFICES ASSUME ComposeDown PROVE Present(job.c) /\ job.c \in Challenges
      BY DEF ComposeDown, NothingLost, At
    <2> QED
      BY <1>1 DEF ComposeDown, KnownInv, FoldersStay, Typed, HasChallenge, At
  (* A row that runs is closed by MarkStopped, on the way to docker compose *)
  (* down, or once its container is gone.                                   *)
  <1>8. ASSUME NEW c \in Challenges, Running(c), container[c].up, ~Running(c)'
        PROVE  job'.c = c /\ job'.pc = "down"
    <2>1. ASSUME NEW d, NEW new, SetRows(d, new), c = d => RunsNow(new) PROVE FALSE
      <3>1. rows'[c] = IF c = d THEN new ELSE rows[c]
        BY <1>2, <2>1 DEF SetRows
      <3> QED
        BY <1>8, <2>1, <3>1, RunsInRows
    <2>2. RunsNow(rows[c]) /\ rows[c] \in Seq(Row)
      BY <1>2, <1>8, RunsInRows
    <2>3. ASSUME NEW d, NEW seen \in Seen(d), SetRows(d, AfterStatus(rows[d], seen)) PROVE FALSE
      <3>1. c = d => seen = TRUE
        BY <1>2, <1>8 DEF Seen, NothingLost, Container
      <3> QED
        BY <1>2, <2>1, <2>2, <2>3, <3>1, SeenUp
    <2>4. ~Start /\ ~UpStatus /\ \A d : ~CycleHeal(d) /\ ~SyncUpdate(d) /\ ~LockedStatus(d)
      <3>1. ~Start
        <4>1. ~SetRows(job.c, AfterStatus(rows[job.c], TRUE))
          BY <1>2, <2>1, <2>2, SeenUp
        <4> QED
          BY <1>8, <4>1 DEF Start, Running, Latest
      <3> QED
        BY <2>3, <3>1 DEF UpStatus, CycleHeal, SyncUpdate, LockedStatus
    <2>5. \A d \in Challenges, force, disabledToo \in BOOLEAN, scope \in {"container", "provider", "all"} :
             ~BeginRestart(d, force, disabledToo, scope)
      <3> SUFFICES ASSUME NEW d \in Challenges, NEW force \in BOOLEAN, NEW disabledToo \in BOOLEAN,
                          NEW scope \in {"container", "provider", "all"},
                          BeginRestart(d, force, disabledToo, scope)
                   PROVE  FALSE
        OBVIOUS
      <3>1. UNCHANGED rows \/ \E seen \in Seen(d) : SetRows(d, AfterStatus(rows[d], seen))
        BY DEF BeginRestart
      <3> QED
        BY <1>8, <2>3, <3>1 DEF Running, Latest
    <2>6. ~StampExtend /\ ~Touch
      BY <1>2, <2>1, <2>2, SeenUp DEF StampExtend, Touch
    <2>7. \A d : ~BeginExtend(d)
      <3> SUFFICES ASSUME NEW d, BeginExtend(d) PROVE FALSE
        OBVIOUS
      <3>1. SetRows(d, WithExpiry(rows[d], Latest(d).expires + ExtendBy))
        BY DEF BeginExtend
      <3>2. ASSUME c = d PROVE RunsNow(WithExpiry(rows[d], Latest(d).expires + ExtendBy))
        <4>1. Latest(c).expires \in Nat
          BY <2>2, <3>2, LastRow DEF BeginExtend, Latest, Row, Date, Never, RunsNow
        <4>2. Latest(c).expires + ExtendBy \in Date
          BY <4>1, ReachFacts DEF Date
        <4> QED
          BY <1>2, <2>2, <3>2, <4>2, SeenUp
      <3> QED
        BY <2>1, <3>1, <3>2
    <2>8. ~Save
      <3> SUFFICES ASSUME Save PROVE FALSE
        OBVIOUS
      <3>1. job.pc = "save" /\ job.c # c
        BY <1>1, <1>8 DEF Save, At, LeaseInv, Starting
      <3> QED
        BY <1>1, <1>8, <3>1, SaveRows, RunsInRows
    <2>9. ~RowStopped
      <3> SUFFICES ASSUME RowStopped PROVE FALSE
        OBVIOUS
      <3>1. job.c # c /\ SetRows(job.c, WithStatus(rows[job.c], "stopped"))
        BY <1>8 DEF RowStopped, At, KnownInv, GoneDown
      <3> QED
        BY <2>1, <3>1
    <2>10. rows' # rows
      BY <1>8 DEF Running, Latest
    <2>11. MarkStopped
      <3>1. ~JobStep => FALSE
        BY <1>3, <2>4, <2>5, <2>7, <2>10
           DEF Next, vars, Request, BeginDown, BeginUp, BeginCycle, ViewRead, ViewProbe, ViewWrite,
               Tick, ContainerExit, NothingLost
      <3> QED
        BY <1>7, <2>4, <2>6, <2>8, <2>9, <2>10, <3>1
           DEF JobStep, Allocate, ComposeUp, SaveFails, CycleEnd, SyncRegister, CycleStop
    <2>12. job.c = c
      BY <2>1, <2>11 DEF MarkStopped
    <2> QED
      BY <1>6, <2>11, <2>12 DEF MarkStopped
  <1>9. Known'
    <2> SUFFICES ASSUME NEW c \in Challenges, container'[c].up
                 PROVE  Running(c)' \/ (job'.c = c /\ job'.pc \in {"down", "save"})
      BY DEF Known, Running, Latest
    <2>1. CASE container'[c] # container[c]
      <3>1. /\ ComposeUp /\ job.c = c /\ container'[c] = [up |-> TRUE, bound |-> ports[c]]
        BY <1>1, <1>3, <2>1, OnlyStarts
      <3>2. Goto("save")
        BY <1>2, <2>1, <3>1 DEF ComposeUp, Leftovers, NothingLost
      <3> QED
        BY <1>6, <3>1, <3>2
    <2>2. CASE container'[c] = container[c] /\ Running(c)
      BY <1>8, <2>2
    <2>3. CASE container'[c] = container[c] /\ ~Running(c)
      <3>1. job.c = c /\ job.pc \in {"down", "save"}
        BY <2>3 DEF KnownInv, Known
      <3>2. job # Idle
        BY <3>1 DEF Idle
      <3>3. CASE UNCHANGED job
        BY <3>1, <3>3
      <3>4. CASE JobStep
        <4>1. ~ComposeDown
          BY <1>2, <1>7, <2>3, <3>1
        <4>2. Save
          BY <3>1, <3>4, <4>1
             DEF JobStep, StampExtend, Start, Allocate, ComposeUp, SaveFails, NothingLost, UpStatus, Touch,
                 MarkStopped, RowStopped, CycleEnd, SyncRegister, CycleStop, CycleHeal, SyncUpdate, At
        <4>3. Running(c)'
          <5> DEFINE t == IF job.keep # Never THEN job.keep ELSE now + TTL
          <5>1. t \in Date /\ job.reuse \in BOOLEAN
            BY <1>2, ReachFacts DEF Job, Date
          <5>2. rows' = [rows EXCEPT ![c] = Saved(rows[c], t, job.reuse)]
            BY <3>1, <4>2 DEF Save, SetRows
          <5> HIDE DEF t
          <5>3. rows'[c] = Saved(rows[c], t, job.reuse)
            BY <1>2, <5>2
          <5> QED
            BY <1>2, <5>1, <5>3, SavedRuns, RunsInRows
        <4> QED
          BY <4>3
      <3> QED
        BY <1>3, <3>2, <3>3, <3>4, Busy
    <2> QED
      BY <2>1, <2>2, <2>3
  <1>10. GoneDown'
    <2> SUFFICES ASSUME job'.pc = "rowstop" PROVE ~container'[job'.c].up
      BY DEF GoneDown
    <2>1. ~Finish
      <3>1. Finish => job'.pc \in {"free", "cycle"}
        BY DEF Finish, NextJob, Idle
      <3> QED
        BY <3>1
    <2>2. \A pc : Goto(pc) => pc = "rowstop"
      BY <1>6
    <2>3. CASE ComposeDown
      BY <1>2, <1>6, <1>7, <2>3
    <2>4. CASE UNCHANGED job
      <3>1. job.c \in Challenges
        BY <1>1, <2>4 DEF Typed, HasChallenge
      <3>2. ~(container'[job.c] # container[job.c] /\ container'[job.c].up)
        BY <1>1, <2>4, <3>1, OnlyStarts
      <3> QED
        BY <2>4, <3>2 DEF KnownInv, GoneDown
    <2>5. CASE JobStep /\ ~ComposeDown
      <3>1. ~(StampExtend \/ Start \/ Allocate \/ Save \/ SaveFails \/ UpStatus \/ Touch \/ MarkStopped
              \/ RowStopped)
        <4>1. ~Goto("alloc") /\ ~Goto("compose") /\ ~Goto("touch") /\ ~Goto("status") /\ ~Goto("down")
              /\ ~Goto("start") /\ ~Goto(IF job.op = "up" THEN "status" ELSE "touch")
          BY <2>2
        <4> QED
          BY <2>1, <4>1
             DEF StampExtend, Start, Allocate, Save, SaveFails, UpStatus, Touch, MarkStopped, RowStopped, Stopped
      <3>2. ~ComposeUp
        <4>1. ~Goto("save")
          BY <2>2
        <4> QED
          BY <1>2, <2>1, <4>1 DEF ComposeUp, Job
      <3>3. ~CycleEnd /\ ~SyncRegister
        <4>1. Idle.pc = "free"
          BY DEF Idle
        <4> QED
          BY <1>2, <4>1 DEF CycleEnd, SyncRegister, Job
      <3>4. \A d : ~CycleStop(d) /\ ~CycleHeal(d)
        BY <1>2 DEF CycleStop, CycleHeal, At, Job
      <3>5. ASSUME NEW d, SyncUpdate(d) PROVE FALSE
        <4>1. At("cycle") /\ \E t : \/ job' = [job EXCEPT !.c = d, !.pc = "down", !.queue = @ \ {d},
                                                  !.prefer = ports[d], !.keep = t, !.reuse = TRUE]
                                    \/ job' = [job EXCEPT !.queue = @ \ {d}]
          BY <3>5 DEF SyncUpdate
        <4> QED
          BY <1>2, <4>1 DEF At, Job
      <3> QED
        BY <2>5, <3>1, <3>2, <3>3, <3>4, <3>5 DEF JobStep
    <2>6. CASE job = Idle
      <3>1. job'.pc # "rowstop" \/ UNCHANGED job
        <4>1. CASE Request
          <5>1. ASSUME NEW c, NEW force, NEW disabledToo, NEW scope,
                       BeginRestart(c, force, disabledToo, scope)
                PROVE  job'.pc \in {"touch", "down"}
            BY <5>1 DEF BeginRestart, Idle
          <5>2. ASSUME NEW c, BeginDown(c) \/ BeginExtend(c) \/ \E force \in BOOLEAN : BeginUp(c, force)
                PROVE  job'.pc \in {"mark", "stamp", "start"}
            BY <5>2 DEF BeginDown, BeginExtend, BeginUp, Idle
          <5> QED
            BY <1>3, <4>1, <5>1, <5>2 DEF Request, LockedStatus
        <4>2. CASE \E healing \in BOOLEAN : BeginCycle(healing)
          BY <4>2 DEF BeginCycle, Idle
        <4>3. ~JobStep
          BY <2>6 DEF JobStep, StampExtend, Start, Allocate, ComposeUp, Save, SaveFails, UpStatus, Touch, MarkStopped,
             ComposeDown, RowStopped, CycleEnd, SyncRegister, CycleStop, CycleHeal, SyncUpdate, At, Idle
        <4> QED
          BY <1>3, <4>1, <4>2, <4>3 DEF Next, vars, ViewRead, ViewProbe, ViewWrite, Tick, ContainerExit
      <3> QED
        BY <2>4, <3>1
    <2> QED
      BY <1>3, <2>3, <2>4, <2>5, <2>6, Busy
  <1> QED
    BY <1>1, <1>5, <1>9, <1>10 DEF KnownInv

(* Builds, starts and bindings that fail, retries, containers that die and  *)
(* a daemon that stops and heals leave no container up that the database    *)
(* does not know to run (start(), stop() and restart with their cleanups).  *)
THEOREM NoOrphan == NothingLost => (Spec => []NoOrphanContainer)
  <1> SUFFICES ASSUME NothingLost PROVE Spec => []NoOrphanContainer
    OBVIOUS
  <1>1. KnownInv /\ [Next]_vars => KnownInv'
    BY NextKnown
  <1>2. KnownInv => NoOrphanContainer
    BY DEF KnownInv, Known, NoOrphanContainer
  <1> QED
    BY <1>1, <1>2, InitKnown, PTL DEF Spec

-----------------------------------------------------------------------------
(* The history of a challenge: only its latest row runs, and unless some   *)
(* rows come from before expiry dates were recorded, what runs has a date. *)

\* What any step but Save does to the rows of a challenge.
Wanes(rs, new) ==
    /\ new \in Seq(Row) /\ Len(new) = Len(rs)
    /\ \A i \in 1 .. Len(rs) : RowRuns(new[i]) => /\ RowRuns(rs[i])
                                                  /\ new[i].expires \in {rs[i].expires} \cup Nat

LEMMA WaneRows ==
  ASSUME NEW rs \in Seq(Row), now \in Nat
  PROVE  /\ Wanes(rs, rs) /\ Wanes(rs, WithStatus(rs, "stopped"))
         /\ Wanes(rs, WithRestart(rs)) /\ Wanes(rs, WithExtend(rs))
         /\ \A t \in Nat : Wanes(rs, WithExpiry(rs, t))
         /\ \A seen : Wanes(rs, AfterStatus(rs, seen))
  <1>1. Wanes(rs, rs)
    BY DEF Wanes
  <1>2. Wanes(rs, WithStatus(rs, "stopped"))
    BY StatusRows DEF Wanes
  <1>3. ASSUME NEW new \in {WithRestart(rs), WithExtend(rs)} PROVE Wanes(rs, new)
    BY StampRows DEF Wanes
  <1>4. ASSUME NEW t \in Nat PROVE Wanes(rs, WithExpiry(rs, t))
    <2>1. t \in Date
      BY DEF Date
    <2> QED
      BY <2>1, ExpiryRows DEF Wanes
  <1>5. now + TTL \in Nat
    BY ReachFacts
  <1> QED
    BY <1>1, <1>2, <1>3, <1>4, <1>5 DEF AfterStatus

RowsWane == \A c \in Challenges : Wanes(rows[c], rows'[c])

LEMMA SetWanes ==
  ASSUME Typed, NEW c, NEW new, c \in Challenges => Wanes(rows[c], new), SetRows(c, new)
  PROVE  RowsWane
  <1>1. \A d \in Challenges : rows[d] \in Seq(Row) /\ Wanes(rows[d], rows[d])
    BY DEF Typed, TypeOK, Wanes
  <1>2. \A d \in Challenges : rows'[d] = IF d = c THEN new ELSE rows[d]
    BY DEF SetRows, Typed, TypeOK
  <1> QED
    BY <1>1, <1>2 DEF RowsWane

LEMMA WaneStep ==
  ASSUME Typed, [Next]_vars, ~Save
  PROVE  RowsWane
  <1>1. now \in Nat /\ now + TTL \in Nat /\ \A c \in Challenges : rows[c] \in Seq(Row)
    BY ReachFacts DEF Typed, TypeOK
  <1>2. ASSUME NEW c, NEW new, SetRows(c, new),
               \/ new \in {WithStatus(rows[c], "stopped"), WithRestart(rows[c]), WithExtend(rows[c]),
                           WithExpiry(rows[c], now + TTL)}
               \/ \E seen : new = AfterStatus(rows[c], seen)
        PROVE  RowsWane
    <2>1. c \in Challenges => Wanes(rows[c], new)
      BY <1>1, <1>2, WaneRows
    <2> QED
      BY <1>2, <2>1, SetWanes
  <1>3. ASSUME NEW c \in Challenges, BeginExtend(c) PROVE RowsWane
    <2>1. Latest(c).expires \in Nat
      BY <1>1, <1>3, LastRow DEF BeginExtend, Running, Latest, Row, Date, Never
    <2>2. Wanes(rows[c], WithExpiry(rows[c], Latest(c).expires + ExtendBy))
      BY <1>1, <2>1, ReachFacts, WaneRows
    <2> QED
      BY <1>3, <2>2, SetWanes DEF BeginExtend
  <1>4. CASE UNCHANGED rows
    BY <1>1, <1>4, WaneRows DEF RowsWane
  <1>5. ASSUME NEW c \in Challenges, NEW force, NEW disabledToo, NEW scope,
               BeginRestart(c, force, disabledToo, scope)
        PROVE  RowsWane
    BY <1>2, <1>4, <1>5 DEF BeginRestart
  <1>6. CASE JobStep
    BY <1>2, <1>4, <1>6
       DEF JobStep, StampExtend, Start, Allocate, ComposeUp, SaveFails, UpStatus, Touch, MarkStopped,
           ComposeDown, RowStopped, CycleEnd, SyncRegister, CycleStop, CycleHeal, SyncUpdate
  <1>7. CASE Request
    BY <1>2, <1>3, <1>4, <1>5, <1>7 DEF Request, BeginDown, LockedStatus, BeginUp, SyncPull
  <1>8. ASSUME NEW v \in Viewers, ViewWrite(v) PROVE RowsWane
    BY <1>2, <1>8 DEF ViewWrite
  <1> QED
    BY <1>4, <1>6, <1>7, <1>8 DEF Next, vars, BeginCycle, ViewRead, ViewProbe, Tick, Crash, ContainerExit

OnlyLatestRuns == \A c \in Challenges : \A i \in 1 .. Len(rows[c]) : RowRuns(rows[c][i]) => i = Len(rows[c])
RunningDated == \A c \in Challenges : \A i \in 1 .. Len(rows[c]) : RowRuns(rows[c][i]) => rows[c][i].expires # Never

\* No unlocked status() is about to date a row it has read without a date: by
\* then the row may be another one, and the date it has is lost.
ViewsDated == \A v \in Viewers : view[v].act # "backfill" /\ (view[v].act = "ask" => view[v].dated)

\* Dates have been recorded from the beginning, or nobody reads without the lock.
AllDated == Legacy = {} \/ Viewers = {}

HistoryInv == Typed /\ OnlyLatestRuns /\ (Legacy = {} => RunningDated) /\ (AllDated => ViewsDated)

LEMMA InitHistory == Init => HistoryInv
  <1> SUFFICES ASSUME Init PROVE HistoryInv
    OBVIOUS
  <1>1. \A v \in Viewers : view[v].act = "none"
    BY DEF Init, NoView
  <1>2. \A c \in Challenges : Len(rows[c]) \in {0, 1}
    BY DEF Init
  <1>3. \A c \in Challenges : Legacy = {} => Len(rows[c]) = 0
    BY DEF Init
  <1>4. OnlyLatestRuns
    <2>1. \A n \in {0, 1} : \A i \in 1 .. n : i = n
      OBVIOUS
    <2> QED
      BY <1>2, <2>1 DEF OnlyLatestRuns
  <1>5. Legacy = {} => RunningDated
    BY <1>3 DEF RunningDated
  <1>6. ViewsDated
    BY <1>1 DEF ViewsDated
  <1> QED
    BY <1>4, <1>5, <1>6, InitTyped DEF HistoryInv

LEMMA NextHistory == HistoryInv /\ [Next]_vars => HistoryInv'
  <1> SUFFICES ASSUME HistoryInv, [Next]_vars PROVE HistoryInv'
    OBVIOUS
  <1>1. Typed /\ Typed'
    BY NextTyped DEF HistoryInv
  <1>2. /\ now \in Nat /\ job \in Job /\ view \in [Viewers -> View]
        /\ rows \in [Challenges -> Seq(Row)] /\ Never \notin Nat
    BY <1>1 DEF Typed, TypeOK, Never
  <1>3. OnlyLatestRuns' /\ (Legacy = {} => RunningDated')
    <2>1. ASSUME NEW c \in Challenges
          PROVE  \A i \in 1 .. Len(rows'[c]) :
                    RowRuns(rows'[c][i]) => /\ i = Len(rows'[c])
                                            /\ Legacy = {} => rows'[c][i].expires # Never
      <3>1. \A i \in 1 .. Len(rows[c]) :
               RowRuns(rows[c][i]) => i = Len(rows[c]) /\ (Legacy = {} => rows[c][i].expires # Never)
        BY DEF HistoryInv, OnlyLatestRuns, RunningDated
      <3>2. CASE ~Save \/ c # job.c
        <4>1. Wanes(rows[c], rows'[c])
          BY <1>1, <1>2, <3>2, WaneStep, WaneRows, SaveRows DEF RowsWane
        <4> QED
          BY <1>2, <3>1, <4>1 DEF Wanes
      <3>3. CASE Save /\ c = job.c
        <4> DEFINE t == IF job.keep # Never THEN job.keep ELSE now + TTL
        <4>1. t \in Date /\ t # Never /\ job.reuse \in BOOLEAN
          BY <1>2, ReachFacts DEF Job, Date
        <4>2. rows' = [rows EXCEPT ![c] = Saved(rows[c], t, job.reuse)]
          BY <3>3 DEF Save, SetRows
        <4> HIDE DEF t
        <4>3. rows'[c] = Saved(rows[c], t, job.reuse)
          BY <1>2, <4>2
        <4> QED
          BY <1>2, <4>1, <4>3, SavedRowsRun
      <3> QED
        BY <3>2, <3>3
    <2> QED
      BY <2>1 DEF OnlyLatestRuns, RunningDated
  <1>4. ASSUME AllDated PROVE ViewsDated'
    <2> SUFFICES ASSUME NEW v \in Viewers
                 PROVE  view'[v].act # "backfill" /\ (view'[v].act = "ask" => view'[v].dated)
      BY DEF ViewsDated
    <2>1. view[v].act # "backfill" /\ (view[v].act = "ask" => view[v].dated) /\ RunningDated
      BY <1>4 DEF HistoryInv, ViewsDated, AllDated
    <2>2. view[v] \in View /\ NoView \in View /\ NoView.act = "none"
      BY <1>2 DEF View, NoView
    <2>3. ASSUME NEW w \in Viewers, ViewProbe(w)
          PROVE  view'[v] \in {view[v], [view[v] EXCEPT !.act = "stop"], NoView}
      <3>1. PICK seen \in Seen(view[w].c) :
              view' = [view EXCEPT ![w] = CASE ~seen -> [@ EXCEPT !.act = "stop"]
                                            [] seen /\ ~view[w].dated -> [@ EXCEPT !.act = "backfill"]
                                            [] OTHER -> NoView]
        BY <2>3 DEF ViewProbe
      <3>2. CASE w # v
        BY <1>2, <3>1, <3>2
      <3>3. CASE w = v
        <4>1. view[v].dated
          BY <2>1, <2>3, <3>3 DEF ViewProbe
        <4> QED
          BY <1>2, <3>1, <3>3, <4>1
      <3> QED
        BY <3>2, <3>3
    <2>4. ASSUME NEW w \in Viewers, ViewWrite(w) PROVE view'[v] \in {view[v], NoView}
      BY <1>2, <2>4 DEF ViewWrite
    <2>5. ASSUME NEW w \in Viewers, NEW c \in Challenges, ViewRead(w, c)
          PROVE  view'[v] = view[v] \/ (view'[v].act = "ask" /\ view'[v].dated)
      <3>1. Latest(c).expires # Never
        BY <1>2, <2>1, <2>5, LastRow DEF ViewRead, Running, Latest, RunningDated, RowRuns
      <3> QED
        BY <1>2, <2>5, <3>1 DEF ViewRead
    <2>6. CASE UNCHANGED view
      BY <2>1, <2>6
    <2>7. CASE JobStep
      BY <2>6, <2>7 DEF JobStep, StampExtend, Start, Allocate, ComposeUp, Save, SaveFails, UpStatus, Touch,
         MarkStopped, ComposeDown, RowStopped, CycleEnd, SyncRegister, CycleStop, CycleHeal, SyncUpdate
    <2>8. CASE Request
      BY ZenonT(60), <2>6, <2>8 DEF Request, BeginDown, BeginExtend, LockedStatus, BeginUp, BeginRestart, SyncPull
    <2>9. ASSUME NEW w \in Viewers, ViewProbe(w) \/ ViewWrite(w) \/ \E c \in Challenges : ViewRead(w, c)
          PROVE  view'[v].act # "backfill" /\ (view'[v].act = "ask" => view'[v].dated)
      <3>1. view'[v] \in {view[v], [view[v] EXCEPT !.act = "stop"], NoView}
            \/ (view'[v].act = "ask" /\ view'[v].dated)
        BY <2>3, <2>4, <2>5, <2>9
      <3>2. [view[v] EXCEPT !.act = "stop"].act = "stop"
        BY <2>2 DEF View
      <3> QED
        BY <2>1, <2>2, <3>1, <3>2
    <2> QED
      BY <2>6, <2>7, <2>8, <2>9 DEF Next, vars, BeginCycle, Tick, Crash, ContainerExit
  <1> QED
    BY <1>1, <1>3, <1>4 DEF HistoryInv, AllDated

-----------------------------------------------------------------------------
(* What the daemon is about to stop.                                       *)

\* A command goes on with its challenge, or ends.
Carries ==
    /\ job'.pc \notin {"free", "register", "cycle"}
    /\ job'.op = job.op /\ job'.c = job.c /\ job'.scope = job.scope /\ job'.reuse = job.reuse
    /\ job'.prefer = job.prefer /\ job'.keep = job.keep
    /\ job'.queue = job.queue /\ job'.heal = job.heal

LEMMA CarriesOn ==
  ASSUME Typed, [Next]_vars, job # Idle, job.pc \notin {"register", "cycle"}
  PROVE  UNCHANGED job \/ job' = Idle \/ Finish \/ Carries
  <1>1. job \in Job
    BY DEF Typed, TypeOK
  <1>2. ASSUME NEW pc \in JobPCs \ {"free", "register", "cycle"}, Goto(pc) PROVE Carries
    BY <1>1, <1>2 DEF Goto, Carries, Job
  <1>3. CASE JobStep
    <2>1. CASE ComposeUp
      BY <1>1, <1>2, <2>1 DEF ComposeUp, Carries, Job, JobPCs
    <2>2. CASE ~ComposeUp
      <3>1. Finish \/ \E pc \in JobPCs \ {"free", "register", "cycle"} : Goto(pc)
        BY <1>3, <2>2 DEF JobStep, StampExtend, Start, Allocate, Save, SaveFails, UpStatus, Touch, MarkStopped,
           ComposeDown, RowStopped, Stopped, CycleEnd, SyncRegister, CycleStop, CycleHeal, SyncUpdate,
           At, JobPCs
      <3> QED
        BY <1>2, <3>1
    <2> QED
      BY <2>1, <2>2
  <1> QED
    BY <1>3, Busy DEF Crash

DaemonAt == job.op = "daemon" => job.pc \in {"cycle", "mark", "down", "rowstop"}

\* More than the property says: also of those that wait while another is stopped.
Doomed(c) == job.op = "daemon" /\ (c \in job.queue \/ (job.pc = "mark" /\ c = job.c))
DoomedOverdue == \A c \in Challenges : Doomed(c) /\ Running(c) => LastDate(rows[c]) \in 0 .. now - 1

DaemonInv == HistoryInv /\ DaemonAt /\ DoomedOverdue

LEMMA InitDaemon == Init => DaemonInv
  <1> SUFFICES ASSUME Init PROVE DaemonInv
    OBVIOUS
  <1>1. job.op = "none"
    BY DEF Init, Idle
  <1> QED
    BY <1>1, InitHistory DEF DaemonInv, DaemonAt, DoomedOverdue, Doomed

LEMMA NextDaemon == AllDated /\ DaemonInv /\ [Next]_vars => DaemonInv'
  <1> SUFFICES ASSUME AllDated, DaemonInv, [Next]_vars PROVE DaemonInv'
    OBVIOUS
  <1>1. HistoryInv' /\ HistoryInv /\ Typed /\ Typed'
    BY NextHistory DEF DaemonInv, HistoryInv
  <1>2. /\ job \in Job /\ now \in Nat /\ rows \in [Challenges -> Seq(Row)]
        /\ Idle.op = "none" /\ Idle.queue = {}
    BY <1>1 DEF Typed, TypeOK, Idle
  <1>3. ASSUME job.op # "daemon", job'.op = "daemon"
        PROVE  \E healing : BeginCycle(healing)
    <2>1. job = Idle
      <3>1. ASSUME NEW d, CycleStop(d) \/ CycleHeal(d) \/ SyncUpdate(d) PROVE job'.op = job.op
        <4>1. CASE CycleStop(d) \/ CycleHeal(d)
          BY <1>2, <4>1 DEF CycleStop, CycleHeal, Job
        <4>2. CASE SyncUpdate(d)
          <5>1. \E t : \/ job' = [job EXCEPT !.c = d, !.pc = "down", !.queue = @ \ {d},
                                             !.prefer = ports[d], !.keep = t, !.reuse = TRUE]
                       \/ job' = [job EXCEPT !.queue = @ \ {d}]
            BY <4>2 DEF SyncUpdate
          <5> QED
            BY <1>2, <5>1 DEF Job
        <4> QED
          BY <3>1, <4>1, <4>2
      <3>2. SyncRegister => job'.op = job.op
        BY <1>2 DEF SyncRegister, Job
      <3>3. ~CycleEnd /\ ~Crash /\ ~UNCHANGED job
        BY <1>2, <1>3 DEF CycleEnd, Crash
      <3>4. Finish => job'.op \in {job.op, "none"}
        BY DEF Finish, NextJob, Idle
      <3>5. ~Carries
        BY <1>3 DEF Carries
      <3>6. SUFFICES ASSUME job # Idle, job.pc \in {"register", "cycle"} PROVE FALSE
        BY <1>1, <1>2, <1>3, <3>3, <3>4, <3>5, CarriesOn
      <3> QED
        BY <1>3, <3>1, <3>2, <3>3, <3>6, Busy DEF JobStep, StampExtend, Start, Allocate, ComposeUp, Save,
           SaveFails, UpStatus, Touch, MarkStopped, ComposeDown, RowStopped, At
    <2>2. ~JobStep
      BY <2>1 DEF JobStep, StampExtend, Start, Allocate, ComposeUp, Save, SaveFails, UpStatus, Touch, MarkStopped,
         ComposeDown, RowStopped, CycleEnd, SyncRegister, CycleStop, CycleHeal, SyncUpdate, At, Idle
    <2>3. ~Request
      <3>1. ASSUME NEW c, NEW force, NEW disabledToo, NEW scope,
                   BeginRestart(c, force, disabledToo, scope)
            PROVE  job'.op = "restart"
        BY <3>1 DEF BeginRestart, Idle
      <3>2. ASSUME NEW c, BeginDown(c) \/ BeginExtend(c) \/ \E force \in BOOLEAN : BeginUp(c, force)
            PROVE  job'.op \in {"down", "extend", "up"}
        BY <3>2 DEF BeginDown, BeginExtend, BeginUp, Idle
      <3>3. ASSUME NEW changed, SyncPull(changed) PROVE job'.op = "sync"
        BY <3>3 DEF SyncPull, Idle
      <3> QED
        BY <1>3, <3>1, <3>2, <3>3 DEF Request, LockedStatus
    <2> QED
      BY <1>2, <1>3, <2>2, <2>3 DEF Next, vars, Crash, ViewRead, ViewProbe, ViewWrite, Tick, ContainerExit
  <1>4. CASE job'.op # "daemon"
    BY <1>1, <1>4 DEF DaemonInv, DaemonAt, DoomedOverdue, Doomed
  <1>5. ASSUME NEW healing, BeginCycle(healing) PROVE DaemonInv'
    <2>1. job'.op = "daemon" /\ job'.pc = "cycle" /\ job'.queue = ExpiredSet /\ UNCHANGED <<rows, now>>
      BY <1>5 DEF BeginCycle, Idle
    <2>2. ASSUME NEW c \in ExpiredSet PROVE LastDate(rows[c]) \in 0 .. now - 1
      <3>1. PICK i \in DOMAIN rows[c] : Overdue(rows[c][i])
        BY DEF ExpiredSet
      <3>2. rows[c] \in Seq(Row) /\ c \in Challenges /\ i \in 1 .. Len(rows[c])
        BY <1>2, <3>1, LenProperties DEF ExpiredSet
      <3>3. i = Len(rows[c])
        BY <1>1, <3>1, <3>2 DEF HistoryInv, OnlyLatestRuns, Overdue
      <3>4. rows[c][i] \in Row
        BY <3>2, LenProperties
      <3> QED
        BY <1>2, <3>1, <3>3, <3>4 DEF Overdue, LastDate, Row, Date, Never
    <2>3. DoomedOverdue'
      BY <2>1, <2>2 DEF DoomedOverdue, Doomed
    <2> QED
      BY <1>1, <2>1, <2>3 DEF DaemonInv, DaemonAt
  <1>6. CASE job.op = "daemon" /\ job'.op = "daemon"
    <2>1. job # Idle /\ job.pc \in {"cycle", "mark", "down", "rowstop"}
      BY <1>2, <1>6 DEF DaemonInv, DaemonAt
    <2>2. Finish => job'.queue = job.queue /\ job'.pc = "cycle"
      BY <1>6 DEF Finish, NextJob, Idle
    <2>3. \A pc : Goto(pc) => job'.queue = job.queue /\ job'.pc = pc
      BY <1>2 DEF Goto, Job
    (* Whom the daemon stops is not dated again: its rows stay or end.       *)
    <2>4. ASSUME NEW d, SetRows(d, WithStatus(rows[d], "stopped")), NEW c \in Challenges
          PROVE  Running(c)' => rows'[c] = rows[c]
      <3>1. rows'[c] = IF c = d THEN WithStatus(rows[c], "stopped") ELSE rows[c]
        BY <1>2, <2>4 DEF SetRows
      <3> QED
        BY <1>2, <3>1, StatusKeeps, RunsInRows
    <2>5. ASSUME \A c \in Challenges : Doomed(c)' => Doomed(c) /\ (Running(c)' => rows'[c] = rows[c]),
                 now' \in {now, now + 1}, job'.pc \in {"cycle", "mark", "down", "rowstop"}
          PROVE  DaemonInv'
      <3>1. ASSUME NEW c \in Challenges, Doomed(c)', Running(c)'
            PROVE  LastDate(rows'[c]) \in 0 .. now' - 1
        <4>1. rows'[c] = rows[c] /\ Running(c) /\ Doomed(c)
          BY <2>5, <3>1, RunsInRows
        <4>2. LastDate(rows[c]) \in 0 .. now - 1
          BY <4>1 DEF DaemonInv, DoomedOverdue
        <4> QED
          BY <1>2, <2>5, <4>1, <4>2
      <3>2. DoomedOverdue'
        BY <3>1 DEF DoomedOverdue, LastDate, Doomed
      <3> QED
        BY <1>1, <2>5, <3>2 DEF DaemonInv, DaemonAt
    <2>6. CASE MarkStopped
      BY <1>6, <2>3, <2>4, <2>5, <2>6 DEF MarkStopped, Doomed
    <2>7. CASE RowStopped
      BY <1>6, <2>2, <2>4, <2>5, <2>7 DEF RowStopped, Stopped, Doomed
    <2>8. CASE ComposeDown
      <3>1. Finish \/ Goto("rowstop")
        BY <1>6, <2>8 DEF ComposeDown, Stopped
      <3>2. UNCHANGED rows \/ SetRows(job.c, WithStatus(rows[job.c], "stopped"))
        BY <2>8 DEF ComposeDown
      <3>3. \A c \in Challenges : Running(c)' => rows'[c] = rows[c]
        BY <2>4, <3>2
      <3>4. now' = now
        BY <2>8 DEF ComposeDown
      <3> QED
        BY <1>6, <2>2, <2>3, <2>5, <3>1, <3>3, <3>4 DEF Doomed
    <2>9. ASSUME NEW d \in Challenges, CycleStop(d) PROVE DaemonInv'
      <3>1. job'.c = d /\ job'.pc = "mark" /\ job'.queue = job.queue \ {d} /\ d \in job.queue
        BY <1>2, <2>9 DEF CycleStop, Job
      <3> QED
        BY <1>6, <2>5, <2>9, <3>1 DEF CycleStop, Doomed
    <2>10. ASSUME NEW d \in Challenges, CycleHeal(d) PROVE DaemonInv'
      <3>1. job'.pc = "cycle" /\ job'.queue = {} /\ UNCHANGED now
        BY <1>2, <2>10 DEF CycleHeal, At, Job
      <3> QED
        BY <2>5, <3>1 DEF Doomed
    <2>11. CASE UNCHANGED <<job, rows, now>>
      BY <1>2, <2>1, <2>5, <2>11 DEF Doomed
    <2>12. CASE Tick
      BY <2>1, <2>5, <2>12 DEF Tick, Doomed
    <2>13. ASSUME NEW v \in Viewers, ViewWrite(v) PROVE DaemonInv'
      <3>1. SetRows(view[v].c, WithStatus(rows[view[v].c], "stopped"))
        BY <1>1, <2>13 DEF ViewWrite, HistoryInv, ViewsDated
      <3> QED
        BY <2>1, <2>4, <2>5, <2>13, <3>1 DEF ViewWrite, Doomed
    <2>14. ~CycleEnd /\ ~Crash
      BY <1>2, <1>6 DEF CycleEnd, Crash
    <2>15. ~Request /\ \A healing : ~BeginCycle(healing)
      BY ZenonT(60), <2>1 DEF Request, BeginDown, BeginExtend, LockedStatus, BeginUp, BeginRestart, SyncPull, Begin, BeginCycle
    <2>16. JobStep => \/ MarkStopped \/ RowStopped \/ ComposeDown
                      \/ \E d \in Challenges : CycleStop(d) \/ CycleHeal(d)
      BY <1>6, <2>1, <2>14 DEF JobStep, StampExtend, Start, Allocate, ComposeUp, Save, SaveFails, UpStatus, Touch,
         SyncRegister, SyncUpdate, At
    <2>17. CASE JobStep
      BY <2>6, <2>7, <2>8, <2>9, <2>10, <2>16, <2>17
    <2>18. ASSUME NEW v \in Viewers, ViewProbe(v) \/ ViewWrite(v) \/ \E c \in Challenges : ViewRead(v, c)
           PROVE  DaemonInv'
      BY <2>11, <2>13, <2>18 DEF ViewRead, ViewProbe
    <2>19. ASSUME NEW c \in Challenges, ContainerExit(c) PROVE DaemonInv'
      BY <2>11, <2>19 DEF ContainerExit
    <2>20. UNCHANGED vars => DaemonInv'
      BY <2>11 DEF vars
    <2> QED
      BY <2>12, <2>14, <2>15, <2>17, <2>18, <2>19, <2>20 DEF Next
  <1> QED
    BY <1>3, <1>4, <1>5, <1>6

(* Whatever comes between the reading of the expired challenges and their   *)
(* stop, the daemon takes down no runtime that has time left, if dates were *)
(* recorded from the beginning or nobody reads without the lock.            *)
THEOREM NoRuntimeStopsEarly == AllDated => (Spec => []NoEarlyStop)
  <1> SUFFICES ASSUME AllDated PROVE Spec => []NoEarlyStop
    OBVIOUS
  <1>1. DaemonInv /\ [Next]_vars => DaemonInv'
    BY NextDaemon
  <1>2. DaemonInv => NoEarlyStop
    <2> SUFFICES ASSUME DaemonInv, NEW c \in Challenges, Running(c), Doomed(c)
                 PROVE  Latest(c).expires # Never /\ Latest(c).expires < now
      BY DEF NoEarlyStop, Doomed
    <2>1. LastDate(rows[c]) \in 0 .. now - 1 /\ now \in Nat
      BY DEF DaemonInv, DoomedOverdue, HistoryInv, Typed, TypeOK
    <2> QED
      BY <2>1, RunsInRows DEF Never
  <1> QED
    BY <1>1, <1>2, InitDaemon, PTL DEF Spec

-----------------------------------------------------------------------------
(* What a container restart, or a sync that updates a challenge, preserves. *)

\* Between two challenges a command has nothing in hand.
Between == job.pc \in {"free", "register", "cycle"} => ~job.reuse

\* What is to be preserved is still there while the command has stopped the challenge.
Kept == Preserving =>
            /\ rows[job.c] # <<>> /\ job.keep # Never
            /\ LastDate(rows[job.c]) = job.keep /\ ports[job.c] = job.prefer

KeptInv == HistoryInv /\ Between /\ Kept

LEMMA InitKept == Init => KeptInv
  <1> SUFFICES ASSUME Init PROVE KeptInv
    OBVIOUS
  <1>1. ~job.reuse
    BY DEF Init, Idle
  <1> QED
    BY <1>1, InitHistory DEF KeptInv, Between, Kept, Preserving

\* A status() of a running challenge leaves its latest row a date.
LEMMA CheckedRows ==
  ASSUME NEW rs \in Seq(Row), rs # <<>>, now \in Nat
  PROVE  LET new == AfterStatus(rs, TRUE) IN
         /\ RunsNow(rs) => LastDate(new) # Never /\ new # <<>>
         /\ Len(new) = Len(rs)
         /\ LastDate(rs) # Never => LastDate(new) = LastDate(rs)
  <1>1. Len(rs) \in 1 .. Len(rs) /\ Len(rs) # 0
    BY LastRow, EmptySeq
  <1>2. now + TTL \in Date /\ now + TTL # Never
    BY ReachFacts DEF Date, Never
  <1> DEFINE new == WithExpiry(rs, now + TTL)
  <1>3. /\ Len(new) = Len(rs) /\ new \in Seq(Row)
        /\ RowRuns(rs[Len(rs)]) => new[Len(rs)].expires = now + TTL
    BY <1>1, <1>2, ExpiryRows
  <1> HIDE DEF new
  <1>4. new # <<>>
    BY <1>1, <1>3, EmptySeq
  <1>5. AfterStatus(rs, TRUE) = IF RunsNow(rs) /\ LastDate(rs) = Never THEN new ELSE rs
    BY DEF AfterStatus, RunsNow, LastDate, new
  <1> QED
    BY <1>2, <1>3, <1>4, <1>5 DEF RunsNow, LastDate, RowRuns

\* The rows of c stay as many, and the latest keeps its date.
Lasts(c) ==
    Len(rows'[c]) = Len(rows[c]) /\ rows'[c] # <<>> /\ LastDate(rows'[c]) = LastDate(rows[c])

\* No step touches what is preserved, an end of the command included.
LEMMA PreserveStep ==
  ASSUME AllDated, KeptInv, [Next]_vars, Preserving, NEW c, c = job.c
  PROVE  Lasts(c) /\ ports'[c] = ports[c]
  <1>1. /\ Typed /\ job.reuse /\ job.scope = "container" /\ rows[c] # <<>>
        /\ LastDate(rows[c]) = job.keep /\ job.keep # Never /\ ports[c] = job.prefer
        /\ job.pc \notin {"free", "register", "cycle"} /\ job # Idle
    BY DEF KeptInv, HistoryInv, Kept, Preserving, Between, Idle
  <1>2. /\ c \in Challenges /\ job \in Job /\ now \in Nat
        /\ rows \in [Challenges -> Seq(Row)] /\ ports \in [Challenges -> Bindings]
    BY <1>1 DEF Typed, HasChallenge, TypeOK
  <1>3. /\ rows[c] \in Seq(Row) /\ Len(rows[c]) \in 1 .. Len(rows[c]) /\ Len(rows[c]) # 0
    BY <1>1, <1>2, LastRow, EmptySeq
  <1>4. ASSUME NEW new \in Seq(Row), rows'[c] = new, Len(new) = Len(rows[c]),
               new[Len(rows[c])].expires = rows[c][Len(rows[c])].expires
        PROVE  Lasts(c)
    BY <1>3, <1>4, EmptySeq DEF Lasts, LastDate
  <1>5. ASSUME NEW d, NEW new, SetRows(d, new) PROVE rows'[c] = IF c = d THEN new ELSE rows[c]
    BY <1>2, <1>5 DEF SetRows
  <1>6. ASSUME rows'[c] = rows[c] PROVE Lasts(c)
    BY <1>1, <1>6 DEF Lasts
  <1>7. ASSUME NEW d, SetRows(d, WithStatus(rows[d], "stopped")) PROVE Lasts(c)
    <2>1. rows'[c] \in {rows[c], WithStatus(rows[c], "stopped")}
      BY <1>5, <1>7
    <2> QED
      BY <1>3, <1>4, <1>6, <2>1, StatusRows
  <1>8. ASSUME SetRows(c, WithRestart(rows[c])) \/ SetRows(c, WithExtend(rows[c])) PROVE Lasts(c)
    <2>1. PICK new \in {WithRestart(rows[c]), WithExtend(rows[c])} : rows'[c] = new
      BY <1>5, <1>8
    <2> QED
      BY <1>2, <1>3, <1>4, <2>1, StampRows
  <1>9. ASSUME NEW seen \in BOOLEAN, SetRows(c, AfterStatus(rows[c], seen)) PROVE Lasts(c)
    <2>1. CASE seen
      <3>1. rows'[c] = AfterStatus(rows[c], TRUE)
        BY <1>5, <1>9, <2>1
      <3>2. rows'[c] = rows[c]
        BY <1>1, <3>1 DEF AfterStatus, LastDate
      <3> QED
        BY <1>6, <3>2
    <2>2. CASE ~seen
      <3>1. AfterStatus(rows[c], seen) \in {rows[c], WithStatus(rows[c], "stopped")}
        BY <2>2 DEF AfterStatus
      <3> QED
        BY <1>5, <1>6, <1>7, <1>9, <3>1
    <2> QED
      BY <2>1, <2>2
  <1>10. ASSUME Save PROVE Lasts(c)
    <2> DEFINE t == IF job.keep # Never THEN job.keep ELSE now + TTL
    <2>1. t = job.keep /\ t \in Date /\ job.reuse \in BOOLEAN
      BY <1>1, <1>2 DEF Job
    <2>2. SetRows(c, Saved(rows[c], t, job.reuse))
      BY <1>10 DEF Save
    <2> HIDE DEF t
    <2>3. rows'[c] = Saved(rows[c], t, job.reuse)
      BY <1>5, <2>2
    <2> DEFINE new == Saved(rows[c], t, job.reuse)
    <2>4. /\ new \in Seq(Row) /\ new[Len(new)].expires = t
          /\ Len(new) = IF job.reuse /\ rows[c] # <<>> THEN Len(rows[c]) ELSE Len(rows[c]) + 1
      BY <1>3, <2>1, SavedRowsRun
    <2> HIDE DEF new
    <2>5. Len(new) = Len(rows[c])
      BY <1>1, <2>4
    <2>6. rows'[c] = new
      BY <2>3 DEF new
    <2> QED
      BY <1>1, <1>4, <2>1, <2>4, <2>5, <2>6 DEF LastDate
  <1>11. ASSUME JobStep PROVE Lasts(c)
    <2>1. \A seen \in Seen(c) : seen \in BOOLEAN
      BY <1>1, <1>2 DEF Seen, Typed, TypeOK, Container
    <2>2. CASE StampExtend \/ Touch
      BY <1>8, <2>2 DEF StampExtend, Touch
    <2>3. CASE Start \/ UpStatus
      BY <1>6, <1>9, <2>1, <2>3 DEF Start, UpStatus
    <2>4. CASE MarkStopped \/ RowStopped \/ ComposeDown
      BY <1>6, <1>7, <2>4 DEF MarkStopped, RowStopped, ComposeDown
    <2>5. CASE Allocate \/ ComposeUp \/ SaveFails
      BY <1>6, <2>5 DEF Allocate, ComposeUp, SaveFails
    <2> QED
      BY <1>1, <1>10, <1>11, <2>2, <2>3, <2>4, <2>5
         DEF JobStep, CycleEnd, SyncRegister, CycleStop, CycleHeal, SyncUpdate, At
  <1>12. Lasts(c)
    <2>1. ASSUME NEW v \in Viewers, ViewWrite(v) PROVE Lasts(c)
      <3>1. SetRows(view[v].c, WithStatus(rows[view[v].c], "stopped"))
        BY <2>1 DEF ViewWrite, KeptInv, HistoryInv, ViewsDated
      <3> QED
        BY <1>7, <3>1
    <2>2. ~Request /\ \A healing : ~BeginCycle(healing)
      <3>1. \A d : ~LockedStatus(d) /\ \A force, disabledToo, scope : ~BeginRestart(d, force, disabledToo, scope)
        BY <1>1 DEF LockedStatus, BeginRestart, Begin
      <3> QED
        BY <1>1, <3>1 DEF Request, BeginDown, BeginExtend, BeginUp, SyncPull, Begin, BeginCycle
    <2>3. CASE UNCHANGED rows
      BY <1>6, <2>3
    <2>4. ASSUME NEW v \in Viewers, ViewProbe(v) \/ ViewWrite(v) \/ \E d \in Challenges : ViewRead(v, d)
          PROVE  Lasts(c)
      BY <2>1, <2>3, <2>4 DEF ViewProbe, ViewRead
    <2> QED
      BY <1>11, <2>2, <2>3, <2>4 DEF Next, vars, Tick, Crash, ContainerExit
  <1>13. ports'[c] = ports[c]
    <2>1. CASE Allocate
      <3>1. CASE UNCHANGED ports
        BY <3>1
      <3>2. ASSUME NEW m \in Mappings(c), ports' = [ports EXCEPT ![c] = m] PROVE ports'[c] = ports[c]
        <4>1. m = job.prefer
          BY DEF Mappings
        <4> QED
          BY <1>1, <1>2, <3>2, <4>1
      <3> QED
        BY <2>1, <3>1, <3>2 DEF Allocate
    <2>2. ~SyncRegister
      BY <1>1 DEF SyncRegister, At
    <2> QED
      BY <2>1, <2>2, PortsStep
  <1> QED
    BY <1>12, <1>13

\* Who has something to preserve: the command that had it before, or a restart
\* or a sync that has just read it.
LEMMA PreservingComes ==
  ASSUME KeptInv, [Next]_vars, job'.reuse
  PROVE  \/ /\ job.reuse /\ job'.c = job.c /\ job'.scope = job.scope
            /\ job'.keep = job.keep /\ job'.prefer = job.prefer
         \/ \E c \in Challenges : \E seen \in Seen(c) :
              /\ Running(c) /\ seen /\ UNCHANGED ports
              /\ SetRows(c, AfterStatus(rows[c], seen))
              /\ job'.c = c /\ job'.pc = "down" /\ job'.keep = LastDate(AfterStatus(rows[c], seen))
              /\ job'.scope = "container" => job'.prefer = ports[c]
  <1>1. Typed /\ job \in Job /\ ~Idle.reuse
    BY DEF KeptInv, HistoryInv, Typed, TypeOK, Idle
  <1>2. CASE UNCHANGED job
    BY <1>2
  <1>3. ~Finish /\ job' # Idle
    <2>1. Finish => ~job'.reuse
      BY DEF Finish, NextJob, Idle
    <2> QED
      BY <1>1, <2>1
  <1>4. ASSUME NEW c \in Challenges, SyncUpdate(c), job.pc = "cycle"
        PROVE  \E seen \in Seen(c) :
              /\ Running(c) /\ seen /\ UNCHANGED ports
              /\ SetRows(c, AfterStatus(rows[c], seen))
              /\ job'.c = c /\ job'.pc = "down" /\ job'.keep = LastDate(AfterStatus(rows[c], seen))
              /\ job'.prefer = ports[c]
    <2>1. PICK seen \in Seen(c) :
            /\ SetRows(c, AfterStatus(rows[c], seen))
            /\ \/ /\ Running(c) /\ seen
                  /\ job' = [job EXCEPT !.c = c, !.pc = "down", !.queue = @ \ {c}, !.prefer = ports[c],
                                        !.keep = LastDate(AfterStatus(rows[c], seen)), !.reuse = TRUE]
               \/ job' = [job EXCEPT !.queue = @ \ {c}]
      BY <1>4 DEF SyncUpdate, LastDate
    <2> DEFINE t == LastDate(AfterStatus(rows[c], seen))
    <2>2. job' # [job EXCEPT !.queue = @ \ {c}]
      BY <1>1, <1>4 DEF KeptInv, Between, Job
    <2>3. job' = [job EXCEPT !.c = c, !.pc = "down", !.queue = @ \ {c}, !.prefer = ports[c],
                             !.keep = t, !.reuse = TRUE]
      BY <2>1, <2>2
    <2> HIDE DEF t
    <2>4. job'.c = c /\ job'.pc = "down" /\ job'.keep = t /\ job'.prefer = ports[c]
      BY <1>1, <2>3 DEF Job
    <2> QED
      BY <1>4, <2>1, <2>2, <2>4 DEF SyncUpdate, t
  <1>5. CASE job.pc \in {"register", "cycle"}
    <2>1. job # Idle /\ ~Crash
      BY <1>3, <1>5 DEF Idle, Crash
    <2>2. ~job.reuse
      BY <1>5 DEF KeptInv, Between
    <2>3. ~SyncRegister /\ ~CycleEnd /\ \A d : ~CycleStop(d) /\ ~CycleHeal(d)
      BY <1>1, <1>3, <2>2 DEF SyncRegister, CycleEnd, CycleStop, CycleHeal, Job
    <2>4. CASE JobStep
      <3>1. PICK c \in Challenges : SyncUpdate(c)
        BY <1>5, <2>3, <2>4 DEF JobStep, StampExtend, Start, Allocate, ComposeUp, Save, SaveFails, UpStatus, Touch,
           MarkStopped, ComposeDown, RowStopped, At
      <3> QED
        BY <1>4, <3>1 DEF SyncUpdate, At
    <2> QED
      BY <1>2, <2>1, <2>4, Busy
  <1>6. CASE job = Idle
    <2>1. ~JobStep
      BY <1>6 DEF JobStep, StampExtend, Start, Allocate, ComposeUp, Save, SaveFails, UpStatus, Touch, MarkStopped,
         ComposeDown, RowStopped, CycleEnd, SyncRegister, CycleStop, CycleHeal, SyncUpdate, At, Idle
    <2>2. CASE Request
      <3>1. ASSUME NEW c \in Challenges, BeginDown(c) \/ BeginExtend(c) \/ \E force \in BOOLEAN : BeginUp(c, force)
            PROVE  FALSE
        BY <3>1 DEF BeginDown, BeginExtend, BeginUp, Idle
      <3>2. ASSUME NEW changed, SyncPull(changed) PROVE FALSE
        BY <3>2 DEF SyncPull, Idle
      <3>3. ASSUME NEW c \in Challenges, NEW force, NEW disabledToo, NEW scope,
                   BeginRestart(c, force, disabledToo, scope)
            PROVE  \E seen \in Seen(c) :
              /\ Running(c) /\ seen /\ UNCHANGED ports
              /\ SetRows(c, AfterStatus(rows[c], seen))
              /\ job'.c = c /\ job'.pc = "down" /\ job'.keep = LastDate(AfterStatus(rows[c], seen))
              /\ job'.scope = "container" => job'.prefer = ports[c]
        <4>1. scope # "provider"
          BY <3>3 DEF BeginRestart, Idle
        <4>2. PICK seen \in Seen(c) :
                LET running == Running(c) /\ seen
                    t == LastDate(AfterStatus(rows[c], seen))
                IN  /\ SetRows(c, AfterStatus(rows[c], seen))
                    /\ job' = [Idle EXCEPT
                         !.op = "restart", !.c = c, !.pc = "down", !.scope = scope, !.force = disabledToo,
                         !.prefer = IF running /\ scope = "container" THEN ports[c] ELSE FilePorts,
                         !.keep = IF running THEN t ELSE Never, !.reuse = running]
          BY <3>3, <4>1 DEF BeginRestart, LastDate
        <4> DEFINE running == Running(c) /\ seen
                   t == LastDate(AfterStatus(rows[c], seen))
        <4> HIDE DEF t
        <4>3. SetRows(c, AfterStatus(rows[c], seen)) /\
              job' = [Idle EXCEPT
                   !.op = "restart", !.c = c, !.pc = "down", !.scope = scope, !.force = disabledToo,
                   !.prefer = IF running /\ scope = "container" THEN ports[c] ELSE FilePorts,
                   !.keep = IF running THEN t ELSE Never, !.reuse = running]
          BY <4>2 DEF t
        <4>4. running
          BY <4>3 DEF Idle
        <4>5. job'.c = c /\ job'.pc = "down" /\ job'.keep = t /\ job'.scope = scope
              /\ (scope = "container" => job'.prefer = ports[c])
          BY <4>3, <4>4 DEF Idle
        <4> QED
          BY <3>3, <4>3, <4>4, <4>5 DEF BeginRestart, t
      <3> QED
        BY <1>2, <2>2, <3>1, <3>2, <3>3 DEF Request, LockedStatus
    <2>3. ASSUME NEW healing, BeginCycle(healing) PROVE FALSE
      BY <2>3 DEF BeginCycle, Idle
    <2> QED
      BY <1>2, <1>3, <2>1, <2>2, <2>3 DEF Next, vars, Crash, ViewRead, ViewProbe, ViewWrite, Tick, ContainerExit
  <1>7. CASE Carries
    BY <1>7 DEF Carries
  <1> QED
    BY <1>1, <1>2, <1>3, <1>5, <1>6, <1>7, CarriesOn

LEMMA NextKept == AllDated /\ KeptInv /\ [Next]_vars => KeptInv'
  <1> SUFFICES ASSUME AllDated, KeptInv, [Next]_vars PROVE KeptInv'
    OBVIOUS
  <1>1. HistoryInv' /\ Typed
    BY NextHistory DEF KeptInv, HistoryInv
  <1>2. /\ job \in Job /\ now \in Nat /\ rows \in [Challenges -> Seq(Row)]
        /\ \A c \in Challenges : container[c].up \in BOOLEAN
    BY <1>1 DEF Typed, TypeOK, Container
  <1>3. Between'
    <2> SUFFICES ASSUME job'.reuse PROVE job'.pc \notin {"free", "register", "cycle"}
      BY DEF Between
    <2>1. CASE job'.pc = "down"
      BY <2>1
    <2>2. CASE job.reuse
      <3>1. job.pc \notin {"free", "register", "cycle"} /\ job # Idle
        BY <2>2 DEF KeptInv, Between, Idle
      <3>2. ~Finish /\ job' # Idle
        <4>1. Finish => ~job'.reuse
          BY DEF Finish, NextJob, Idle
        <4> QED
          BY <4>1 DEF Idle
      <3> QED
        BY <1>1, <3>1, <3>2, CarriesOn DEF Carries
    <2> QED
      BY <2>1, <2>2, PreservingComes
  <1>4. Kept'
    <2> SUFFICES ASSUME job'.reuse, job'.scope = "container", NEW c, c = job'.c
                 PROVE  /\ rows'[c] # <<>> /\ job'.keep # Never
                        /\ LastDate(rows'[c]) = job'.keep /\ ports'[c] = job'.prefer
      BY DEF Kept, Preserving, LastDate
    <2>1. CASE /\ job.reuse /\ c = job.c /\ job'.scope = job.scope
               /\ job'.keep = job.keep /\ job'.prefer = job.prefer
      <3>1. Preserving
        BY <2>1 DEF Preserving
      <3>2. Lasts(c) /\ ports'[c] = ports[c]
        BY <2>1, <3>1, PreserveStep
      <3> QED
        BY <2>1, <3>1, <3>2 DEF KeptInv, Kept, Lasts
    <2>2. ASSUME c \in Challenges, NEW seen \in Seen(c), Running(c), seen, UNCHANGED ports,
                 SetRows(c, AfterStatus(rows[c], seen)),
                 job'.keep = LastDate(AfterStatus(rows[c], seen)), job'.prefer = ports[c]
          PROVE  /\ rows'[c] # <<>> /\ job'.keep # Never
                 /\ LastDate(rows'[c]) = job'.keep /\ ports'[c] = job'.prefer
      <3>1. seen = TRUE
        BY <1>2, <2>2 DEF Seen
      <3>2. rows'[c] = AfterStatus(rows[c], TRUE)
        BY <1>2, <2>2, <3>1 DEF SetRows
      <3>3. RunsNow(rows[c]) /\ rows[c] # <<>> /\ rows[c] \in Seq(Row)
        BY <1>2, <2>2, RunsInRows DEF RunsNow
      <3>4. LastDate(AfterStatus(rows[c], TRUE)) # Never /\ AfterStatus(rows[c], TRUE) # <<>>
        BY <1>2, <3>3, CheckedRows
      <3> QED
        BY <2>2, <3>1, <3>2, <3>4
    <2> QED
      BY <2>1, <2>2, PreservingComes
  <1> QED
    BY <1>1, <1>3, <1>4 DEF KeptInv

(* Through every step of a container restart, and of a sync that updates a  *)
(* running challenge, retries, crashes and stale writes included, its host  *)
(* ports, its row of the history and its expiry date stay as they were read *)
(* (restart_challenge_lifecycle, _update_running_challenges, start()).      *)
THEOREM RestartsPreserve == AllDated => (Spec => RestartPreserves)
  <1> SUFFICES ASSUME AllDated PROVE Spec => RestartPreserves
    OBVIOUS
  <1> DEFINE A == LET c == job.c IN
                  /\ job.op \in {"restart", "sync"} /\ c # None
                  /\ Preserving
                  /\ job'.c = c
                  => /\ ports'[c] = ports[c]
                     /\ Len(rows'[c]) = Len(rows[c])
                     /\ rows'[c][Len(rows[c])].expires = Latest(c).expires
  <1>1. KeptInv /\ [Next]_vars => KeptInv'
    BY NextKept
  <1>2. KeptInv /\ [Next]_vars => [A]_vars
    <2> SUFFICES ASSUME KeptInv, [Next]_vars, Preserving, NEW c, c = job.c
                 PROVE  /\ ports'[c] = ports[c]
                        /\ Len(rows'[c]) = Len(rows[c])
                        /\ rows'[c][Len(rows[c])].expires = Latest(c).expires
      OBVIOUS
    <2>1. Lasts(c) /\ ports'[c] = ports[c]
      BY PreserveStep
    <2> QED
      BY <2>1 DEF Lasts, LastDate, Latest
  <1> QED
    BY <1>1, <1>2, InitKept, PTL DEF Spec, RestartPreserves
=============================================================================
