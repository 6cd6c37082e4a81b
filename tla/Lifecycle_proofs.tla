-------------------------- MODULE Lifecycle_proofs --------------------------
(***************************************************************************)
(* Theorems about Lifecycle, for any challenges, ports, times, commands    *)
(* and faults.  What a step does to the rows of a challenge is said once,  *)
(* by Keeps, for all steps but Save; the invariants follow from that.      *)
(***************************************************************************)
EXTENDS Lifecycle, SequenceTheorems, TLAPS

-----------------------------------------------------------------------------
(* Rows.                                                                   *)

Within(rs, t) == \A i \in DOMAIN rs : rs[i].expires <= t
RunsNow(rs) == rs # <<>> /\ rs[Len(rs)].status = "running"

\* rs may become new in any step but Save.
Keeps(rs, new) ==
    /\ new \in Seq(Row)
    /\ Within(rs, now + Reach) => Within(new, now + Reach)
    /\ RunsNow(new) => RunsNow(rs)

LEMMA FunctionIsSeq ==
  ASSUME NEW S, NEW n \in Nat, NEW f \in [1 .. n -> S]
  PROVE  f \in Seq(S) /\ Len(f) = n /\ DOMAIN f = 1 .. n
  <1>1. f \in Seq(S)
    BY SeqDef
  <1>2. DOMAIN f = 1 .. n /\ DOMAIN f = 1 .. Len(f) /\ Len(f) \in Nat
    BY <1>1, LenProperties
  <1> QED
    BY <1>1, <1>2

LEMMA StatusKeeps ==
  ASSUME NEW rs \in Seq(Row)
  PROVE  /\ Keeps(rs, WithStatus(rs, "stopped"))
         /\ ~RunsNow(WithStatus(rs, "stopped"))
  <1> DEFINE new == [rs EXCEPT ![Len(rs)].status = "stopped"]
  <1>1. CASE rs = <<>>
    BY <1>1 DEF Keeps, WithStatus, RunsNow
  <1>2. CASE rs # <<>>
    <2>1. Len(rs) \in Nat \ {0} /\ rs \in [1 .. Len(rs) -> Row] /\ DOMAIN rs = 1 .. Len(rs)
      BY <1>2, EmptySeq, LenProperties
    <2>2. new \in [1 .. Len(rs) -> Row]
      BY <2>1 DEF Row
    <2>3. new \in Seq(Row) /\ Len(new) = Len(rs) /\ DOMAIN new = 1 .. Len(rs)
      BY <2>1, <2>2, FunctionIsSeq
    <2>4. new[Len(new)].status = "stopped"
      BY <2>1, <2>3 DEF Row
    <2>5. \A i \in 1 .. Len(rs) : new[i].expires = rs[i].expires
      BY <2>1 DEF Row
    <2>6. WithStatus(rs, "stopped") = new
      BY <1>2 DEF WithStatus
    <2>7. Within(rs, now + Reach) => Within(new, now + Reach)
      BY <2>1, <2>3, <2>5 DEF Within
    <2>8. ~RunsNow(new)
      BY <2>4 DEF RunsNow
    <2> QED
      BY <2>3, <2>6, <2>7, <2>8 DEF Keeps
  <1> QED
    BY <1>1, <1>2

LEMMA ExpiryKeeps ==
  ASSUME NEW rs \in Seq(Row), NEW t \in Date, now \in Nat, Reach \in Nat, t <= now + Reach
  PROVE  Keeps(rs, WithExpiry(rs, t)) /\ Len(WithExpiry(rs, t)) = Len(rs)
  <1> DEFINE new == WithExpiry(rs, t)
  <1>1. Len(rs) \in Nat /\ rs \in [1 .. Len(rs) -> Row] /\ DOMAIN rs = 1 .. Len(rs)
    BY LenProperties
  <1>2. new \in [1 .. Len(rs) -> Row]
    BY <1>1 DEF WithExpiry, Row
  <1>3. new \in Seq(Row) /\ Len(new) = Len(rs) /\ DOMAIN new = 1 .. Len(rs)
    BY <1>1, <1>2, FunctionIsSeq
  <1>4. \A i \in 1 .. Len(rs) :
           new[i].status = rs[i].status /\ new[i].expires \in {t, rs[i].expires}
    BY <1>1 DEF WithExpiry, Row
  <1>5. Within(rs, now + Reach) => Within(new, now + Reach)
    BY <1>1, <1>3, <1>4 DEF Within
  <1>6. RunsNow(new) => RunsNow(rs)
    <2>1. SUFFICES ASSUME new # <<>>, new[Len(new)].status = "running" PROVE RunsNow(rs)
      BY DEF RunsNow
    <2>2. Len(new) \in 1 .. Len(rs)
      BY <1>1, <1>3, <2>1, EmptySeq
    <2>3. rs # <<>>
      BY <2>2, EmptySeq
    <2> QED
      BY <1>3, <1>4, <2>1, <2>2, <2>3 DEF RunsNow
  <1> QED
    BY <1>3, <1>5, <1>6 DEF Keeps

\* The two cooldown stamps.
LEMMA StampKeeps ==
  ASSUME NEW rs \in Seq(Row), now \in Nat, Reach \in Nat
  PROVE  Keeps(rs, WithRestart(rs)) /\ Keeps(rs, WithExtend(rs))
  <1>1. Len(rs) \in Nat /\ rs \in [1 .. Len(rs) -> Row] /\ DOMAIN rs = 1 .. Len(rs)
    BY LenProperties
  <1>2. ASSUME NEW new \in {WithRestart(rs), WithExtend(rs)} PROVE Keeps(rs, new)
    <2>1. new \in [1 .. Len(rs) -> Row]
      <3>1. WithRestart(rs) \in [1 .. Len(rs) -> Row]
        <4>1. \A r \in Row : [r EXCEPT !.restarted = now] \in Row
          BY DEF Row, Date
        <4> QED
          BY <1>1, <4>1 DEF WithRestart
      <3>2. WithExtend(rs) \in [1 .. Len(rs) -> Row]
        <4>1. \A r \in Row : [r EXCEPT !.extended = now] \in Row
          BY DEF Row, Date
        <4> QED
          BY <1>1, <4>1 DEF WithExtend
      <3> QED
        BY <1>2, <3>1, <3>2
    <2>2. new \in Seq(Row) /\ Len(new) = Len(rs) /\ DOMAIN new = 1 .. Len(rs)
      BY <1>1, <2>1, FunctionIsSeq
    <2>3. \A i \in 1 .. Len(rs) : new[i].status = rs[i].status /\ new[i].expires = rs[i].expires
      BY <1>1, <1>2 DEF WithRestart, WithExtend, Row
    <2>4. Within(rs, now + Reach) => Within(new, now + Reach)
      BY <1>1, <2>2, <2>3 DEF Within
    <2>5. RunsNow(new) => RunsNow(rs)
      <3>1. SUFFICES ASSUME new # <<>>, new[Len(new)].status = "running" PROVE RunsNow(rs)
        BY DEF RunsNow
      <3>2. Len(new) \in 1 .. Len(rs)
        BY <1>1, <2>2, <3>1, EmptySeq
      <3>3. rs # <<>>
        BY <3>2, EmptySeq
      <3> QED
        BY <2>2, <2>3, <3>1, <3>2, <3>3 DEF RunsNow
    <2> QED
      BY <2>2, <2>4, <2>5 DEF Keeps
  <1> QED
    BY <1>2

(* Save: the row that runs has the date it was given.                      *)
LEMMA SavedRows ==
  ASSUME NEW rs \in Seq(Row), NEW t \in Date, NEW reuse \in BOOLEAN, NEW bound \in Int
  PROVE  /\ Saved(rs, t, reuse) \in Seq(Row)
         /\ t <= bound /\ Within(rs, bound) => Within(Saved(rs, t, reuse), bound)
  <1> DEFINE closed == [i \in DOMAIN rs |-> [rs[i] EXCEPT !.status = "stopped"]]
             fresh  == [status |-> "running", expires |-> t, restarted |-> Never, extended |-> Never]
             again  == [closed EXCEPT ![Len(rs)].status = "running", ![Len(rs)].expires = t]
  <1>1. Len(rs) \in Nat /\ rs \in [1 .. Len(rs) -> Row] /\ DOMAIN rs = 1 .. Len(rs)
    BY LenProperties
  <1>2. closed \in [1 .. Len(rs) -> Row]
    BY <1>1 DEF Row
  <1>3. closed \in Seq(Row) /\ Len(closed) = Len(rs) /\ DOMAIN closed = 1 .. Len(rs)
    BY <1>1, <1>2, FunctionIsSeq
  <1>4. \A i \in 1 .. Len(rs) : closed[i].expires = rs[i].expires
    BY <1>1 DEF Row
  <1>5. CASE reuse /\ rs # <<>>
    <2>1. Len(rs) \in 1 .. Len(rs)
      BY <1>1, <1>5, EmptySeq
    <2>2. again \in [1 .. Len(rs) -> Row]
      BY <1>2, <2>1 DEF Row
    <2>3. again \in Seq(Row) /\ DOMAIN again = 1 .. Len(rs)
      BY <1>1, <2>2, FunctionIsSeq
    <2>4. \A i \in 1 .. Len(rs) : again[i].expires \in {t, rs[i].expires}
      BY ZenonT(60), <1>2, <1>4, <2>1 DEF Row
    <2>5. Saved(rs, t, reuse) = again
      BY <1>5 DEF Saved
    <2>6. t <= bound /\ Within(rs, bound) => Within(again, bound)
      BY <1>1, <2>3, <2>4 DEF Within
    <2> QED
      BY <2>3, <2>5, <2>6
  <1>6. CASE ~(reuse /\ rs # <<>>)
    <2>1. fresh \in Row
      BY DEF Row, Date, Never
    <2> DEFINE longer == Append(closed, fresh)
    <2>2. longer \in Seq(Row) /\ Len(longer) = Len(rs) + 1
      BY <1>3, <2>1, AppendProperties
    <2>3. \A i \in 1 .. Len(rs) + 1 :
            longer[i].expires = IF i = Len(rs) + 1 THEN t ELSE rs[i].expires
      BY <1>1, <1>3, <1>4, <2>1, AppendProperties
    <2>4. DOMAIN longer = 1 .. Len(rs) + 1
      BY <2>2, LenProperties
    <2>5. Saved(rs, t, reuse) = longer
      BY <1>6 DEF Saved
    <2>6. t <= bound /\ Within(rs, bound) => Within(longer, bound)
      BY <1>1, <2>3, <2>4 DEF Within
    <2> QED
      BY <2>2, <2>5, <2>6
  <1> QED
    BY <1>5, <1>6

LEMMA ReachFacts ==
  /\ Reach \in Nat /\ TTL \in Nat /\ TTL <= Reach
  /\ ExtendBy \in Nat /\ ExtendWindow \in Nat /\ ExtendWindow + ExtendBy <= Reach
  BY TimesAssumption DEF Reach

LEMMA AfterStatusKeeps ==
  ASSUME NEW rs \in Seq(Row), NEW seen, now \in Nat
  PROVE  Keeps(rs, AfterStatus(rs, seen))
  <1>1. Keeps(rs, rs)
    BY DEF Keeps
  <1>2. Keeps(rs, WithStatus(rs, "stopped"))
    BY StatusKeeps
  <1>3. Keeps(rs, WithExpiry(rs, now + TTL))
    <2>1. now + TTL \in Date /\ now + TTL <= now + Reach /\ Reach \in Nat
      BY ReachFacts DEF Date
    <2> QED
      BY <2>1, ExpiryKeeps
  <1> QED
    BY <1>1, <1>2, <1>3 DEF AfterStatus

\* The expiry date a restart or a sync has read.
LEMMA ReadExpiry ==
  ASSUME NEW rs \in Seq(Row), RunsNow(rs), now \in Nat
  PROVE  LET checked == AfterStatus(rs, TRUE)
             t == checked[Len(checked)].expires
         IN  t \in Date /\ (Within(rs, now + Reach) => t <= now + Reach)
  <1> DEFINE checked == AfterStatus(rs, TRUE)
  <1>1. Keeps(rs, checked)
    BY AfterStatusKeeps
  <1>2. Len(checked) = Len(rs)
    <2>1. now + TTL \in Date /\ now + TTL <= now + Reach /\ Reach \in Nat
      BY ReachFacts DEF Date
    <2>2. Len(WithExpiry(rs, now + TTL)) = Len(rs)
      BY <2>1, ExpiryKeeps
    <2> QED
      BY <2>2 DEF AfterStatus, RunsNow
  <1>3. Len(checked) \in 1 .. Len(checked)
    <2>1. Len(rs) \in Nat \ {0}
      BY EmptySeq DEF RunsNow
    <2> HIDE DEF checked
    <2> QED
      BY <1>2, <2>1
  <1>4. checked \in [1 .. Len(checked) -> Row] /\ DOMAIN checked = 1 .. Len(checked)
    BY <1>1, LenProperties DEF Keeps
  <1>5. checked[Len(checked)].expires \in Date
    BY <1>3, <1>4 DEF Row
  <1>6. Within(rs, now + Reach) => checked[Len(checked)].expires <= now + Reach
    BY <1>1, <1>3, <1>4 DEF Keeps, Within
  <1> QED
    BY <1>5, <1>6

-----------------------------------------------------------------------------
(* What a step does to all rows.                                           *)

RowsKept ==
    /\ rows' \in [Challenges -> Seq(Row)]
    /\ \A c \in Challenges : Keeps(rows[c], rows'[c])

LEMMA SetKeeps ==
  ASSUME TypeOK, NEW c, NEW new, c \in Challenges => Keeps(rows[c], new), SetRows(c, new)
  PROVE  RowsKept
  <1>1. \A d \in Challenges : rows[d] \in Seq(Row) /\ Keeps(rows[d], rows[d])
    BY DEF TypeOK, Keeps
  <1>2. \A d \in Challenges : rows'[d] = IF d = c THEN new ELSE rows[d]
    BY DEF SetRows, TypeOK
  <1>3. \A d \in Challenges : Keeps(rows[d], rows'[d])
    BY <1>1, <1>2
  <1>4. rows' \in [Challenges -> Seq(Row)]
    <2>1. \A d \in Challenges : rows'[d] \in Seq(Row)
      BY <1>3 DEF Keeps
    <2>2. rows' = [d \in Challenges |-> rows'[d]]
      BY DEF SetRows, TypeOK
    <2> QED
      BY <2>1, <2>2
  <1> QED
    BY <1>3, <1>4 DEF RowsKept

LEMMA RowsStep == TypeOK /\ [Next]_vars => RowsKept \/ Save
  <1> SUFFICES ASSUME TypeOK, [Next]_vars, ~Save PROVE RowsKept
    OBVIOUS
  <1>1. now \in Nat /\ \A c \in Challenges : rows[c] \in Seq(Row)
    BY DEF TypeOK
  <1>2. ASSUME NEW c, SetRows(c, WithStatus(rows[c], "stopped")) PROVE RowsKept
    BY <1>1, <1>2, StatusKeeps, SetKeeps
  <1>3. ASSUME NEW c, NEW seen, SetRows(c, AfterStatus(rows[c], seen)) PROVE RowsKept
    BY <1>1, <1>3, AfterStatusKeeps, SetKeeps
  <1>4. ASSUME NEW c, SetRows(c, WithRestart(rows[c])) \/ SetRows(c, WithExtend(rows[c]))
        PROVE  RowsKept
    BY <1>1, <1>4, StampKeeps, SetKeeps, ReachFacts
  <1>5. ASSUME NEW c, SetRows(c, WithExpiry(rows[c], now + TTL)) PROVE RowsKept
    <2>1. now + TTL \in Date /\ now + TTL <= now + Reach /\ Reach \in Nat
      BY <1>1, ReachFacts DEF Date
    <2>2. c \in Challenges => Keeps(rows[c], WithExpiry(rows[c], now + TTL))
      BY <1>1, <2>1, ExpiryKeeps
    <2> QED
      BY <1>5, <2>2, SetKeeps
  <1>6. ASSUME NEW c \in Challenges, BeginExtend(c) PROVE RowsKept
    <2>1. Latest(c).expires \in Date
      <3>1. Len(rows[c]) \in 1 .. Len(rows[c]) /\ rows[c] \in [1 .. Len(rows[c]) -> Row]
        BY <1>1, <1>6, EmptySeq, LenProperties DEF BeginExtend, Running
      <3> QED
        BY <3>1 DEF Latest, Row
    <2>2. /\ Latest(c).expires + ExtendBy \in Date
          /\ Latest(c).expires + ExtendBy <= now + Reach
          /\ Reach \in Nat
      BY <1>1, <1>6, <2>1, ReachFacts DEF BeginExtend, Date, Never
    <2>3. Keeps(rows[c], WithExpiry(rows[c], Latest(c).expires + ExtendBy))
      BY <1>1, <2>2, ExpiryKeeps
    <2> QED
      BY <1>6, <2>3, SetKeeps DEF BeginExtend
  <1>7. CASE UNCHANGED rows
    BY <1>1, <1>7 DEF RowsKept, Keeps, TypeOK
  <1>8. ASSUME NEW c \in Challenges, NEW force \in BOOLEAN, NEW disabledToo \in BOOLEAN,
               NEW scope, BeginRestart(c, force, disabledToo, scope)
        PROVE  RowsKept
    BY <1>3, <1>7, <1>8 DEF BeginRestart
  <1>9. CASE JobStep
    BY <1>2, <1>3, <1>4, <1>7, <1>9
       DEF JobStep, StampExtend, Start, Allocate, ComposeUp, SaveFails, UpStatus, Touch, MarkStopped,
           ComposeDown, RowStopped, CycleEnd, SyncRegister, CycleStop, CycleHeal, SyncUpdate
  <1>10. CASE Request
    BY <1>3, <1>6, <1>7, <1>8, <1>10
       DEF Request, BeginDown, LockedStatus, BeginUp, SyncPull
  <1>11. ASSUME NEW v \in Viewers, ViewWrite(v) PROVE RowsKept
    BY <1>2, <1>5, <1>11 DEF ViewWrite
  <1> QED
    BY <1>7, <1>9, <1>10, <1>11
       DEF Next, vars, BeginCycle, ViewRead, ViewProbe, Tick, Crash, ContainerExit

-----------------------------------------------------------------------------
(* Types.                                                                  *)

\* A command at work on a challenge knows which.
HasChallenge == job.pc \notin {"free", "register", "cycle"} => job.c \in Challenges

Typed == TypeOK /\ HasChallenge

LEMMA IdleTyped == Idle \in Job /\ Down \in Container /\ FilePorts \in Bindings /\ NoRows \in Bindings
  BY DEF Idle, Job, JobPCs, OpKinds, Never, Date, Down, Container, FilePorts, NoRows, Bindings

LEMMA FinishTyped ==
  ASSUME TypeOK, Finish
  PROVE  job' \in Job /\ HasChallenge'
  <1>1. Idle \in Job /\ Idle.pc = "free"
    BY IdleTyped DEF Idle
  <1>2. CASE job.op \in {"daemon", "sync"}
    <2>1. job' = [Idle EXCEPT !.op = job.op, !.pc = "cycle", !.queue = job.queue, !.heal = job.heal]
      BY <1>2 DEF Finish, NextJob
    <2>2. job.op \in OpKinds /\ job.queue \in SUBSET Challenges /\ job.heal \in SUBSET Challenges
      BY <1>2 DEF TypeOK, Job, OpKinds
    <2> QED
      BY <1>1, <2>1, <2>2 DEF Job, JobPCs, HasChallenge
  <1>3. CASE job.op \notin {"daemon", "sync"}
    BY <1>1, <1>3 DEF Finish, NextJob, HasChallenge
  <1> QED
    BY <1>2, <1>3

LEMMA GotoTyped ==
  ASSUME Typed, NEW pc \in JobPCs, Goto(pc), job.pc \notin {"free", "register", "cycle"}
  PROVE  job' \in Job /\ HasChallenge'
  BY DEF Typed, TypeOK, Goto, HasChallenge, Job

LEMMA InitTyped == Init => Typed
  <1> SUFFICES ASSUME Init PROVE Typed
    OBVIOUS
  <1>1. rows \in [Challenges -> Seq(Row)]
    <2>1. [status |-> "running", expires |-> Never, restarted |-> Never, extended |-> Never] \in Row
      BY DEF Row, Never, Date
    <2> QED
      BY <2>1 DEF Init
  <1>2. container \in [Challenges -> Container]
    BY DEF Init, Container
  <1>3. job \in Job /\ HasChallenge
    BY IdleTyped DEF Init, HasChallenge, Idle
  <1>4. view \in [Viewers -> View]
    BY DEF Init, View, NoView
  <1> QED
    BY <1>1, <1>2, <1>3, <1>4 DEF Init, Typed, TypeOK, Folder

\* The row that is saved, and what is known of its date.
LEMMA SaveRows ==
  ASSUME Typed, Save
  PROVE  /\ rows' \in [Challenges -> Seq(Row)]
         /\ \A d \in Challenges \ {job.c} : rows'[d] = rows[d]
         /\ job.keep <= now + Reach /\ Within(rows[job.c], now + Reach)
              => Within(rows'[job.c], now + Reach)
  <1> DEFINE c == job.c
             expires == IF job.keep # Never THEN job.keep ELSE now + TTL
  <1>1. c \in Challenges /\ rows[c] \in Seq(Row) /\ now \in Nat /\ job.keep \in Date
        /\ job.reuse \in BOOLEAN
    BY DEF Typed, TypeOK, HasChallenge, Save, At, Job
  <1>2. expires \in Date /\ Reach \in Nat /\ TTL \in Nat /\ TTL <= Reach
    BY <1>1, ReachFacts DEF Date
  <1>3. rows' = [rows EXCEPT ![c] = Saved(rows[c], expires, job.reuse)]
    BY DEF Save, SetRows
  <1>4. Saved(rows[c], expires, job.reuse) \in Seq(Row)
    BY <1>1, <1>2, SavedRows
  <1>5. ASSUME job.keep <= now + Reach, Within(rows[c], now + Reach)
        PROVE  Within(Saved(rows[c], expires, job.reuse), now + Reach)
    <2>1. expires <= now + Reach
      BY <1>1, <1>2, <1>5
    <2>2. now + Reach \in Int
      BY <1>1, <1>2
    <2> HIDE DEF expires
    <2> QED
      BY <1>1, <1>2, <1>5, <2>1, <2>2, SavedRows
  <1> HIDE DEF expires
  <1> QED
    BY <1>1, <1>3, <1>4, <1>5 DEF Typed, TypeOK

LEMMA BindingsTyped ==
  ASSUME Typed
  PROVE  /\ \A c \in Challenges : ports[c] \in Bindings /\ container[c] \in Container
         /\ \A c \in Challenges : [up |-> TRUE, bound |-> ports[c]] \in Container
         /\ \A c \in Challenges : Leftovers(c) \subseteq Container
         /\ \A c \in Challenges, i \in Internal : ports[c][i] \in HostPorts \cup {FilePort, NoRow}
  <1>1. \A c \in Challenges : ports[c] \in Bindings /\ container[c] \in Container
    BY DEF Typed, TypeOK
  <1>2. \A c \in Challenges : [up |-> TRUE, bound |-> ports[c]] \in Container
    BY <1>1 DEF Container
  <1>3. \A c \in Challenges : Leftovers(c) \subseteq Container
    BY <1>1, <1>2, IdleTyped DEF Leftovers
  <1>4. \A c \in Challenges, i \in Internal : ports[c][i] \in HostPorts \cup {FilePort, NoRow}
    BY <1>1 DEF Bindings
  <1> QED
    BY <1>1, <1>2, <1>3, <1>4

\* Everything but the rows, for the steps of a command.
LEMMA JobStepTyped ==
  ASSUME Typed, JobStep, rows' \in [Challenges -> Seq(Row)]
  PROVE  Typed'
  <1> USE DEF At
  <1>1. CASE StampExtend \/ UpStatus \/ Touch
    BY <1>1, FinishTyped DEF StampExtend, UpStatus, Touch, Typed, TypeOK
  <1>2. CASE Start
    <2>1. Finish \/ \E pc \in JobPCs : Goto(pc)
      BY <1>2 DEF Start, JobPCs
    <2>2. job' \in Job /\ HasChallenge'
      BY <1>2, <2>1, FinishTyped, GotoTyped DEF Start, Typed
    <2> QED
      BY <1>2, <2>2 DEF Start, Typed, TypeOK
  <1>3. CASE Allocate
    <2>1. Finish \/ Goto("compose")
      BY <1>3 DEF Allocate
    <2>2. job' \in Job /\ HasChallenge'
      BY <1>3, <2>1, FinishTyped, GotoTyped DEF Allocate, Typed, JobPCs
    <2>3. ports' \in [Challenges -> Bindings]
      <3>1. CASE UNCHANGED ports
        BY <3>1 DEF Typed, TypeOK
      <3>2. ASSUME NEW m \in Mappings(job.c), ports' = [ports EXCEPT ![job.c] = m]
            PROVE  ports' \in [Challenges -> Bindings]
        <4>1. m \in [Internal -> HostPorts]
          BY DEF Mappings
        <4>2. m \in Bindings
          BY <4>1 DEF Bindings
        <4> QED
          BY <3>2, <4>2 DEF Typed, TypeOK
      <3> QED
        BY <1>3, <3>1, <3>2 DEF Allocate
    <2> QED
      BY <1>3, <2>2, <2>3 DEF Allocate, Typed, TypeOK
  <1>4. CASE ComposeUp
    <2>1. job.c \in Challenges
      BY <1>4 DEF ComposeUp, Typed, HasChallenge
    <2>2. container' \in [Challenges -> Container]
      <3>1. PICK new \in Container : container' = [container EXCEPT ![job.c] = new]
        BY <1>4, <2>1, BindingsTyped DEF ComposeUp
      <3> QED
        BY <3>1 DEF Typed, TypeOK
    <2>3. job' \in Job /\ HasChallenge'
      <3>1. CASE Finish \/ Goto("save")
        BY <1>4, <3>1, FinishTyped, GotoTyped DEF ComposeUp, Typed, JobPCs
      <3>2. CASE job' = [job EXCEPT !.pc = "alloc", !.tries = @ + 1,
                                    !.failed = @ \cup {ports[job.c][i] : i \in Internal}]
        <4>1. job.failed \cup {ports[job.c][i] : i \in Internal}
                 \in SUBSET (HostPorts \cup {FilePort, NoRow})
          BY <2>1, BindingsTyped DEF Typed, TypeOK, Job
        <4>2. job \in Job /\ job.tries + 1 \in Nat
          BY DEF Typed, TypeOK, Job
        <4> QED
          BY <2>1, <3>2, <4>1, <4>2 DEF Job, JobPCs, HasChallenge
      <3> QED
        BY <1>4, <3>1, <3>2 DEF ComposeUp
    <2> QED
      BY <1>4, <2>2, <2>3 DEF ComposeUp, Typed, TypeOK
  <1>5. CASE Save
    <2>1. \E pc \in JobPCs : Goto(pc)
      BY <1>5 DEF Save, JobPCs
    <2>2. job' \in Job /\ HasChallenge'
      BY <1>5, <2>1, GotoTyped DEF Save
    <2> QED
      BY <1>5, <2>2 DEF Save, Typed, TypeOK
  <1>6. CASE MarkStopped
    BY <1>6, GotoTyped DEF MarkStopped, Typed, TypeOK, JobPCs
  <1>7. CASE ComposeDown
    <2>1. Finish \/ \E pc \in JobPCs : Goto(pc)
      BY <1>7 DEF ComposeDown, Stopped, JobPCs
    <2>2. job' \in Job /\ HasChallenge'
      BY <1>7, <2>1, FinishTyped, GotoTyped DEF ComposeDown, Typed
    <2>3. container' \in [Challenges -> Container]
      BY <1>7, IdleTyped DEF ComposeDown, Typed, TypeOK
    <2> QED
      BY <1>7, <2>2, <2>3 DEF ComposeDown, Typed, TypeOK
  <1>8. CASE RowStopped
    <2>1. Finish \/ Goto("start")
      BY <1>8 DEF RowStopped, Stopped
    <2>2. job' \in Job /\ HasChallenge'
      BY <1>8, <2>1, FinishTyped, GotoTyped DEF RowStopped, Typed, JobPCs
    <2> QED
      BY <1>8, <2>2 DEF RowStopped, Typed, TypeOK
  <1>9. CASE CycleEnd
    BY <1>9, IdleTyped DEF CycleEnd, Typed, TypeOK, HasChallenge, Idle
  <1>10. CASE SyncRegister
    <2>1. ports' \in [Challenges -> Bindings] /\ enabled' \in [Challenges -> BOOLEAN]
      BY <1>10, IdleTyped DEF SyncRegister, Typed, TypeOK
    <2>2. job' \in Job /\ HasChallenge'
      BY <1>10 DEF SyncRegister, Typed, TypeOK, Job, JobPCs, HasChallenge
    <2> QED
      BY <1>10, <2>1, <2>2 DEF SyncRegister, Typed, TypeOK
  <1>11. ASSUME NEW c \in Challenges, CycleStop(c) PROVE Typed'
    BY <1>11 DEF CycleStop, Typed, TypeOK, Job, JobPCs, HasChallenge
  <1>12. ASSUME NEW c \in Challenges, CycleHeal(c) PROVE Typed'
    BY <1>12 DEF CycleHeal, Typed, TypeOK, Job, HasChallenge
  <1>13. ASSUME NEW c \in Challenges, SyncUpdate(c) PROVE Typed'
    <2>1. job \in Job /\ ports[c] \in Bindings /\ rows[c] \in Seq(Row) /\ now \in Nat
      BY DEF Typed, TypeOK
    <2>2. job' \in Job /\ HasChallenge'
      <3>1. PICK seen \in Seen(c) :
              LET checked == AfterStatus(rows[c], seen) IN
              \/ /\ Running(c) /\ seen
                 /\ job' = [job EXCEPT !.c = c, !.pc = "down", !.queue = @ \ {c}, !.prefer = ports[c],
                                       !.keep = checked[Len(checked)].expires, !.reuse = TRUE]
              \/ job' = [job EXCEPT !.queue = @ \ {c}]
        BY <1>13 DEF SyncUpdate
      <3>2. CASE job' = [job EXCEPT !.queue = @ \ {c}]
        BY <1>13, <2>1, <3>2 DEF SyncUpdate, Job, HasChallenge
      <3>3. CASE job' # [job EXCEPT !.queue = @ \ {c}]
        <4> DEFINE checked == AfterStatus(rows[c], TRUE)
                   t == checked[Len(checked)].expires
        <4>1. seen = TRUE /\ RunsNow(rows[c])
          BY <3>1, <3>3, <2>1 DEF Running, Latest, RunsNow, Seen, Typed, TypeOK, Container
        <4>2. t \in Date
          BY <2>1, <4>1, ReadExpiry
        <4>3. job' = [job EXCEPT !.c = c, !.pc = "down", !.queue = @ \ {c}, !.prefer = ports[c],
                                 !.keep = t, !.reuse = TRUE]
          BY <3>1, <3>3, <4>1
        <4> HIDE DEF t
        <4> QED
          BY <1>13, <2>1, <4>2, <4>3 DEF Job, JobPCs, HasChallenge
      <3> QED
        BY <3>2, <3>3
    <2> QED
      BY <1>13, <2>2 DEF SyncUpdate, Typed, TypeOK
  <1>14. CASE SaveFails
    BY <1>14, FinishTyped DEF SaveFails, Typed, TypeOK
  <1> QED
    BY <1>1, <1>2, <1>3, <1>4, <1>5, <1>6, <1>7, <1>8, <1>9, <1>10, <1>11, <1>12, <1>13, <1>14
       DEF JobStep

\* The requests, and what goes on around.
LEMMA RequestTyped ==
  ASSUME Typed, Request, rows' \in [Challenges -> Seq(Row)]
  PROVE  Typed'
  <1>1. Idle \in Job /\ FilePorts \in Bindings /\ job \in Job
    BY IdleTyped DEF Typed, TypeOK
  <1>2. ASSUME NEW c \in Challenges, NEW force \in BOOLEAN, BeginUp(c, force) PROVE Typed'
    BY <1>1, <1>2 DEF BeginUp, Typed, TypeOK, Job, OpKinds, JobPCs, HasChallenge
  <1>3. ASSUME NEW c \in Challenges, BeginDown(c) PROVE Typed'
    BY <1>1, <1>3 DEF BeginDown, Typed, TypeOK, Job, OpKinds, JobPCs, HasChallenge
  <1>4. ASSUME NEW c \in Challenges, BeginExtend(c) PROVE Typed'
    BY <1>1, <1>4 DEF BeginExtend, Typed, TypeOK, Job, OpKinds, JobPCs, HasChallenge
  <1>5. ASSUME NEW c \in Challenges, LockedStatus(c) PROVE Typed'
    BY <1>5 DEF LockedStatus, Typed, TypeOK, HasChallenge
  <1>6. ASSUME NEW c \in Challenges, NEW force \in BOOLEAN, NEW disabledToo \in BOOLEAN,
               NEW scope \in {"container", "provider", "all"},
               BeginRestart(c, force, disabledToo, scope)
        PROVE  Typed'
    <2>1. job' \in Job /\ HasChallenge'
      <3>1. CASE scope = "provider"
        <4>1. job' = [Idle EXCEPT !.op = "restart", !.c = c, !.pc = "touch", !.scope = "provider"]
          BY <1>6, <3>1 DEF BeginRestart
        <4> QED
          BY <1>1, <4>1 DEF Job, OpKinds, JobPCs, HasChallenge
      <3>2. CASE scope # "provider"
        <4>1. PICK seen \in Seen(c) :
                LET checked == AfterStatus(rows[c], seen)
                    running == Running(c) /\ seen
                IN  job' = [Idle EXCEPT
                      !.op = "restart", !.c = c, !.pc = "down", !.scope = scope, !.force = disabledToo,
                      !.prefer = IF running /\ scope = "container" THEN ports[c] ELSE FilePorts,
                      !.keep = IF running THEN checked[Len(checked)].expires ELSE Never,
                      !.reuse = running]
          BY <1>6, <3>2 DEF BeginRestart
        <4> DEFINE running == Running(c) /\ seen
                   prefer == IF running /\ scope = "container" THEN ports[c] ELSE FilePorts
                   keep == IF running THEN AfterStatus(rows[c], seen)[Len(AfterStatus(rows[c], seen))].expires
                           ELSE Never
        <4>2. seen \in BOOLEAN
          BY DEF Seen, Typed, TypeOK, Container
        <4>3. running \in BOOLEAN
          BY <4>2 DEF Running
        <4>4. prefer \in Bindings
          BY <1>1 DEF Typed, TypeOK
        <4>5. keep \in Date
          <5>1. CASE running
            <6>1. seen = TRUE /\ RunsNow(rows[c]) /\ rows[c] \in Seq(Row) /\ now \in Nat
              BY <4>2, <5>1 DEF Running, Latest, RunsNow, Typed, TypeOK
            <6> QED
              BY <5>1, <6>1, ReadExpiry
          <5>2. CASE ~running
            BY <5>2 DEF Never, Date
          <5> QED
            BY <5>1, <5>2
        <4>6. job' = [Idle EXCEPT
                      !.op = "restart", !.c = c, !.pc = "down", !.scope = scope, !.force = disabledToo,
                      !.prefer = prefer, !.keep = keep, !.reuse = running]
          BY <4>1
        <4> HIDE DEF running, prefer, keep
        <4> QED
          <5>1. job'.pc = "down" /\ job'.c = c
            BY <1>1, <4>6 DEF Job
          <5>2. job' = [op |-> "restart", c |-> c, pc |-> "down", force |-> disabledToo, scope |-> scope,
                        prefer |-> prefer, keep |-> keep, reuse |-> running, failed |-> {},
                        tries |-> 0, queue |-> {}, heal |-> {}]
            BY <4>6 DEF Idle
          <5>3. job' \in Job
            BY <4>3, <4>4, <4>5, <5>2 DEF Job, OpKinds, JobPCs
          <5> QED
            BY <5>1, <5>3 DEF HasChallenge
      <3> QED
        BY <3>1, <3>2
    <2> QED
      BY <1>6, <2>1 DEF BeginRestart, Typed, TypeOK
  <1>7. ASSUME NEW changed \in SUBSET Challenges, SyncPull(changed) PROVE Typed'
    <2>1. job' \in Job /\ HasChallenge'
      BY <1>1, <1>7 DEF SyncPull, Job, OpKinds, JobPCs, HasChallenge
    <2>2. repo' \in [Challenges -> Folder]
      BY <1>7 DEF SyncPull, Typed, TypeOK
    <2> QED
      BY <1>7, <2>1, <2>2 DEF SyncPull, Typed, TypeOK
  <1> QED
    BY <1>2, <1>3, <1>4, <1>5, <1>6, <1>7 DEF Request

LEMMA NextTyped == Typed /\ [Next]_vars => Typed'
  <1> SUFFICES ASSUME Typed, [Next]_vars PROVE Typed'
    OBVIOUS
  <1>1. rows' \in [Challenges -> Seq(Row)]
    BY RowsStep, SaveRows DEF Typed, RowsKept
  <1>2. Idle \in Job /\ Idle.pc = "free" /\ Idle.c = None
    BY IdleTyped DEF Idle
  <1>3. CASE JobStep
    BY <1>1, <1>3, JobStepTyped
  <1>4. CASE Request
    BY <1>1, <1>4, RequestTyped
  <1>5. ASSUME NEW healing \in BOOLEAN, BeginCycle(healing) PROVE Typed'
    <2>1. ExpiredSet \in SUBSET Challenges
      BY DEF ExpiredSet
    <2> HIDE DEF ExpiredSet
    <2>2. job' \in Job /\ HasChallenge'
      BY <1>2, <1>5, <2>1 DEF BeginCycle, Job, OpKinds, JobPCs, HasChallenge
    <2> QED
      BY <1>5, <2>2 DEF BeginCycle, Typed, TypeOK
  <1>6. ASSUME NEW v \in Viewers, ViewProbe(v) \/ ViewWrite(v) \/ \E c \in Challenges : ViewRead(v, c)
        PROVE  Typed'
    <2>1. NoView \in View /\ view[v] \in View
      BY <1>6 DEF NoView, View, Typed, TypeOK
    <2>2. PICK new \in View : view' = [view EXCEPT ![v] = new]
      <3>1. CASE ViewProbe(v)
        <4>1. [view[v] EXCEPT !.act = "stop"] \in View /\ [view[v] EXCEPT !.act = "backfill"] \in View
          BY <2>1 DEF View
        <4>2. view' \in {[view EXCEPT ![v] = [@ EXCEPT !.act = "stop"]],
                         [view EXCEPT ![v] = [@ EXCEPT !.act = "backfill"]],
                         [view EXCEPT ![v] = NoView]}
          BY <3>1 DEF ViewProbe
        <4>3. view' \in {[view EXCEPT ![v] = [view[v] EXCEPT !.act = "stop"]],
                         [view EXCEPT ![v] = [view[v] EXCEPT !.act = "backfill"]],
                         [view EXCEPT ![v] = NoView]}
          BY <4>2 DEF Typed, TypeOK
        <4> QED
          BY <2>1, <4>1, <4>3
      <3>2. CASE ViewWrite(v)
        BY <2>1, <3>2 DEF ViewWrite
      <3>3. ASSUME NEW c \in Challenges, ViewRead(v, c)
            PROVE  \E new \in View : view' = [view EXCEPT ![v] = new]
        <4> DEFINE new == [c |-> c, act |-> "ask", dated |-> Latest(c).expires # Never]
        <4>1. new \in View
          BY DEF View
        <4>2. view' = [view EXCEPT ![v] = new]
          BY <3>3 DEF ViewRead
        <4> HIDE DEF new
        <4> QED
          BY <4>1, <4>2
      <3> QED
        BY <1>6, <3>1, <3>2, <3>3
    <2>3. view' \in [Viewers -> View]
      BY <2>2 DEF Typed, TypeOK
    <2> QED
      BY <1>1, <1>6, <2>3 DEF ViewRead, ViewProbe, ViewWrite, Typed, TypeOK, HasChallenge
  <1>7. CASE Tick
    BY <1>7 DEF Tick, Typed, TypeOK, HasChallenge
  <1>8. CASE Crash
    <2>1. container' \in [Challenges -> Container]
      <3>1. CASE UNCHANGED container
        BY <3>1 DEF Typed, TypeOK
      <3>2. CASE ~UNCHANGED container
        <4>1. job.c \in Challenges
          BY <1>8, <3>2 DEF Crash, At, Typed, HasChallenge
        <4>2. PICK new \in Container : container' = [container EXCEPT ![job.c] = new]
          BY <1>8, <3>2, <4>1, BindingsTyped, IdleTyped DEF Crash
        <4> QED
          BY <4>2 DEF Typed, TypeOK
      <3> QED
        BY <3>1, <3>2
    <2> QED
      BY <1>2, <1>8, <2>1 DEF Crash, Typed, TypeOK, HasChallenge
  <1>9. ASSUME NEW c \in Challenges, ContainerExit(c) PROVE Typed'
    BY <1>9, IdleTyped DEF ContainerExit, Typed, TypeOK, HasChallenge
  <1>10. CASE UNCHANGED vars
    BY <1>10 DEF vars, Typed, TypeOK, HasChallenge
  <1> QED
    BY <1>3, <1>4, <1>5, <1>6, <1>7, <1>8, <1>9, <1>10 DEF Next

(* Every state of the rows, ports, containers and commands is well formed.  *)
THEOREM TypeCorrect == Spec => []TypeOK
  <1>1. Init => Typed
    BY InitTyped
  <1>2. Typed /\ [Next]_vars => Typed'
    BY NextTyped
  <1>3. Typed => TypeOK
    BY DEF Typed
  <1> QED
    BY <1>1, <1>2, <1>3, PTL DEF Spec

-----------------------------------------------------------------------------
(* Deadlines.  A restart or a sync carries a date it has read, so the bound *)
(* must hold of that date too; and of every row, since a row that is not    *)
(* the latest may be dated again.                                           *)

RowsBounded == \A c \in Challenges : Within(rows[c], now + Reach)
KeepBounded == job.keep <= now + Reach

DeadlineInv == Typed /\ RowsBounded /\ KeepBounded

LEMMA InitDeadline == Init => DeadlineInv
  <1> SUFFICES ASSUME Init PROVE DeadlineInv
    OBVIOUS
  <1>1. Typed
    BY InitTyped
  <1>2. now = 0 /\ Never <= now + Reach
    BY ReachFacts DEF Init, Never
  <1>3. KeepBounded
    BY <1>2 DEF Init, Idle, KeepBounded
  <1>4. ASSUME NEW c \in Challenges PROVE Within(rows[c], now + Reach)
    BY <1>2 DEF Init, Within
  <1> QED
    BY <1>1, <1>3, <1>4 DEF DeadlineInv, RowsBounded

LEMMA TimePasses == Typed /\ [Next]_vars => now \in Nat /\ now' \in Nat /\ now <= now'
  <1> SUFFICES ASSUME Typed, [Next]_vars PROVE now' \in {now, now + 1}
    BY DEF Typed, TypeOK
  <1>1. CASE JobStep
    BY <1>1 DEF JobStep, StampExtend, Start, Allocate, ComposeUp, Save, SaveFails, UpStatus, Touch,
                MarkStopped, ComposeDown, RowStopped, CycleEnd, SyncRegister, CycleStop,
                CycleHeal, SyncUpdate
  <1>2. CASE Request
    BY <1>2 DEF Request, BeginDown, BeginExtend, LockedStatus, BeginUp, BeginRestart, SyncPull
  <1> QED
    BY <1>1, <1>2 DEF Next, vars, BeginCycle, ViewRead, ViewProbe, ViewWrite, Tick, Crash, ContainerExit

\* The date a command carries is the one it had, or one it has just read.
LEMMA KeepStep ==
  ASSUME DeadlineInv, [Next]_vars
  PROVE  job'.keep <= now + Reach
  <1>1. Typed /\ now \in Nat /\ Reach \in Nat /\ job \in Job
    BY ReachFacts DEF DeadlineInv, Typed, TypeOK
  <1>2. Idle.keep = Never /\ Never <= now + Reach
    BY <1>1 DEF Idle, Never
  <1>3. CASE job'.keep \in {job.keep, Never}
    BY <1>2, <1>3 DEF DeadlineInv, KeepBounded
  <1>4. CASE Finish
    <2>1. job'.keep = Never
      BY <1>2, <1>4 DEF Finish, NextJob, Idle
    <2> QED
      BY <1>3, <2>1
  <1>5. ASSUME NEW pc, Goto(pc) PROVE job'.keep <= now + Reach
    <2>1. job'.keep = job.keep
      BY <1>1, <1>5 DEF Goto, Job
    <2> QED
      BY <1>3, <2>1
  <1>6. ASSUME NEW c \in Challenges, NEW seen \in Seen(c), Running(c), seen
        PROVE  AfterStatus(rows[c], seen)[Len(AfterStatus(rows[c], seen))].expires <= now + Reach
    <2>1. seen = TRUE
      BY <1>6 DEF Seen, DeadlineInv, Typed, TypeOK, Container
    <2>2. RunsNow(rows[c]) /\ rows[c] \in Seq(Row) /\ Within(rows[c], now + Reach)
      BY <1>6 DEF Running, Latest, RunsNow, DeadlineInv, RowsBounded, Typed, TypeOK
    <2> QED
      BY <1>1, <2>1, <2>2, ReadExpiry
  <1>7. CASE JobStep
    <2>1. CASE ComposeUp
      <3>1. Finish \/ Goto("save") \/ job'.keep = job.keep
        BY <1>1, <2>1 DEF ComposeUp, Job
      <3> QED
        BY <1>3, <1>4, <1>5, <3>1
    <2>2. CASE StampExtend \/ Start \/ Allocate \/ Save \/ SaveFails \/ UpStatus \/ Touch
               \/ MarkStopped \/ ComposeDown \/ RowStopped
      BY <1>4, <1>5, <2>2 DEF StampExtend, Start, Allocate, Save, SaveFails, UpStatus, Touch, MarkStopped,
                              ComposeDown, RowStopped, Stopped
    <2>3. CASE CycleEnd \/ SyncRegister
      <3>1. job'.keep \in {job.keep, Never}
        BY <1>1, <1>2, <2>3 DEF CycleEnd, SyncRegister, Job
      <3> QED
        BY <1>3, <3>1
    <2>4. ASSUME NEW c \in Challenges, CycleStop(c) \/ CycleHeal(c) PROVE job'.keep <= now + Reach
      <3>1. job'.keep = job.keep
        BY <1>1, <2>4 DEF CycleStop, CycleHeal, Job
      <3> QED
        BY <1>3, <3>1
    <2>5. ASSUME NEW c \in Challenges, SyncUpdate(c) PROVE job'.keep <= now + Reach
      <3>1. PICK seen \in Seen(c) :
              LET checked == AfterStatus(rows[c], seen) IN
              \/ /\ Running(c) /\ seen
                 /\ job' = [job EXCEPT !.c = c, !.pc = "down", !.queue = @ \ {c}, !.prefer = ports[c],
                                       !.keep = checked[Len(checked)].expires, !.reuse = TRUE]
              \/ job' = [job EXCEPT !.queue = @ \ {c}]
        BY <2>5 DEF SyncUpdate
      <3> DEFINE t == AfterStatus(rows[c], seen)[Len(AfterStatus(rows[c], seen))].expires
      <3>2. job'.keep = job.keep \/ (Running(c) /\ seen /\ job'.keep = t)
        <4> HIDE DEF t
        <4>1. \/ /\ Running(c) /\ seen
                 /\ job' = [job EXCEPT !.c = c, !.pc = "down", !.queue = @ \ {c}, !.prefer = ports[c],
                                       !.keep = t, !.reuse = TRUE]
              \/ job' = [job EXCEPT !.queue = @ \ {c}]
          BY <3>1 DEF t
        <4> QED
          BY <1>1, <4>1 DEF Job
      <3> QED
        BY <1>3, <1>6, <3>2
    <2> QED
      BY <1>7, <2>1, <2>2, <2>3, <2>4, <2>5 DEF JobStep
  <1>8. ASSUME NEW c \in Challenges, NEW force \in BOOLEAN, NEW disabledToo \in BOOLEAN, NEW scope,
               BeginRestart(c, force, disabledToo, scope)
        PROVE  job'.keep <= now + Reach
    <2>1. CASE scope = "provider"
      <3>1. job' = [Idle EXCEPT !.op = "restart", !.c = c, !.pc = "touch", !.scope = scope]
        BY <1>8, <2>1 DEF BeginRestart
      <3>2. job'.keep = Never
        BY <3>1 DEF Idle
      <3> QED
        BY <1>3, <3>2
    <2>2. CASE scope # "provider"
      <3>1. PICK seen \in Seen(c) :
              LET checked == AfterStatus(rows[c], seen)
                  running == Running(c) /\ seen
              IN  job' = [Idle EXCEPT
                    !.op = "restart", !.c = c, !.pc = "down", !.scope = scope, !.force = disabledToo,
                    !.prefer = IF running /\ scope = "container" THEN ports[c] ELSE FilePorts,
                    !.keep = IF running THEN checked[Len(checked)].expires ELSE Never,
                    !.reuse = running]
        BY <1>8, <2>2 DEF BeginRestart
      <3> DEFINE t == AfterStatus(rows[c], seen)[Len(AfterStatus(rows[c], seen))].expires
      <3>2. job'.keep = IF Running(c) /\ seen THEN t ELSE Never
        BY <3>1 DEF Idle
      <3> QED
        BY <1>3, <1>6, <3>2
    <2> QED
      BY <2>1, <2>2
  <1>9. CASE Request
    <2>1. ASSUME NEW c \in Challenges,
                 BeginDown(c) \/ BeginExtend(c) \/ LockedStatus(c) \/ \E force \in BOOLEAN : BeginUp(c, force)
          PROVE  job'.keep \in {job.keep, Never}
      BY <2>1 DEF BeginDown, BeginExtend, LockedStatus, BeginUp, Idle
    <2>2. ASSUME NEW changed, SyncPull(changed) PROVE job'.keep = Never
      BY <2>2 DEF SyncPull, Idle
    <2> QED
      BY <1>3, <1>8, <1>9, <2>1, <2>2 DEF Request
  <1>10. ASSUME NEW healing, BeginCycle(healing) PROVE job'.keep \in {job.keep, Never}
    BY <1>10 DEF BeginCycle, Idle
  <1>11. CASE Crash
    BY <1>2, <1>3, <1>11 DEF Crash
  <1>12. CASE UNCHANGED job
    BY <1>3, <1>12
  <1> QED
    BY <1>3, <1>7, <1>9, <1>10, <1>11, <1>12
       DEF Next, vars, ViewRead, ViewProbe, ViewWrite, Tick, ContainerExit

LEMMA NextDeadline == DeadlineInv /\ [Next]_vars => DeadlineInv'
  <1> SUFFICES ASSUME DeadlineInv, [Next]_vars PROVE DeadlineInv'
    OBVIOUS
  <1>1. Typed' /\ Typed
    BY NextTyped DEF DeadlineInv
  <1>2. now \in Nat /\ now' \in Nat /\ now <= now' /\ Reach \in Nat
    BY <1>1, TimePasses, ReachFacts
  <1>3. KeepBounded'
    BY <1>1, <1>2, KeepStep DEF KeepBounded, Typed, TypeOK, Job, Reach, Date, Never
  <1>4. ASSUME NEW c \in Challenges PROVE Within(rows'[c], now + Reach)
    <2>1. CASE RowsKept
      BY <2>1 DEF RowsKept, Keeps, DeadlineInv, RowsBounded
    <2>2. CASE Save
      BY <1>1, <2>2, SaveRows DEF DeadlineInv, RowsBounded, KeepBounded
    <2> QED
      BY <1>1, <2>1, <2>2, RowsStep DEF Typed
  <1>5. RowsBounded'
    <2>1. SUFFICES ASSUME NEW c \in Challenges PROVE Within(rows'[c], now' + Reach)
      BY DEF RowsBounded, Reach
    <2>2. rows'[c] \in Seq(Row)
      BY <1>1 DEF Typed, TypeOK, Row
    <2>3. \A i \in DOMAIN rows'[c] : rows'[c][i].expires \in Int
      <3>1. rows'[c] \in [1 .. Len(rows'[c]) -> Row]
        BY <2>2, LenProperties
      <3> QED
        BY <3>1 DEF Row, Date, Never
    <2> QED
      BY <1>2, <1>4, <2>3 DEF Within
  <1> QED
    BY <1>1, <1>3, <1>5 DEF DeadlineInv

(* No command, fault or interleaving gives a runtime more than one TTL or   *)
(* one extension from the present.                                          *)
THEOREM DeadlinesBounded == Spec => []DeadlineBounded
  <1>1. Init => DeadlineInv
    BY InitDeadline
  <1>2. DeadlineInv /\ [Next]_vars => DeadlineInv'
    BY NextDeadline
  <1>3. DeadlineInv => DeadlineBounded
    <2> SUFFICES ASSUME DeadlineInv, NEW c \in Challenges, Running(c)
                 PROVE  Latest(c).expires <= now + Reach
      BY DEF DeadlineBounded
    <2>1. Len(rows[c]) \in DOMAIN rows[c]
      BY EmptySeq, LenProperties DEF DeadlineInv, Typed, TypeOK, Running
    <2> QED
      BY <2>1 DEF DeadlineInv, RowsBounded, Within, Latest
  <1> QED
    BY <1>1, <1>2, <1>3, PTL DEF Spec

-----------------------------------------------------------------------------
(* Host ports.  Between the allocation and the row that records it nothing  *)
(* but the lock keeps the ports of a starting challenge from being taken:   *)
(* the invariant needs the claim of the command that starts it.             *)

Apart(c, d) == \A i, j \in Internal : ports[c][i] = ports[d][j] => ports[c][i] \notin HostPorts

AllApart == \A c, d \in Challenges : c # d /\ Running(c) /\ Running(d) => Apart(c, d)
ClaimApart == job.pc \in {"compose", "save"} =>
                 \A d \in Challenges \ {job.c} : Running(d) => Apart(job.c, d)

PortInv == Typed /\ AllApart /\ ClaimApart

LEMMA NotAllocated == FilePort \notin HostPorts /\ NoRow \notin HostPorts
  BY PortsAssumption DEF FilePort, NoRow

LEMMA InitPorts == Init => PortInv
  <1> SUFFICES ASSUME Init PROVE PortInv
    OBVIOUS
  <1>1. Typed
    BY InitTyped
  <1>2. \A c \in Challenges : Running(c) => c \in Legacy
    BY DEF Init, Running
  <1>3. AllApart
    <2>1. \A c, d \in Legacy, i, j \in Internal : ports[c][i] = ports[d][j] => c = d
      BY DEF Init
    <2> QED
      BY <1>2, <2>1 DEF AllApart, Apart
  <1>4. job.pc = "free"
    BY DEF Init, Idle
  <1> QED
    BY <1>1, <1>3, <1>4 DEF PortInv, ClaimApart

\* A command gets to its allocation from Start or a retry, to its claim from Allocate.
LEMMA StartingStep ==
  ASSUME Typed, [Next]_vars, ~Start, ~Allocate, job'.pc \in {"alloc", "compose", "save"}
  PROVE  /\ job.pc \in {"alloc", "compose", "save"} /\ job'.c = job.c
         /\ job'.pc \in {"compose", "save"} => job.pc \in {"compose", "save"}
  <1>1. job \in Job
    BY DEF Typed, TypeOK
  <1>2. Idle.pc = "free"
    BY DEF Idle
  <1>3. ~Finish
    BY <1>2 DEF Finish, NextJob, Idle
  <1>4. ASSUME NEW pc, Goto(pc) PROVE job'.pc = pc /\ job'.c = job.c
    BY <1>1, <1>4 DEF Goto, Job
  <1>5. CASE JobStep
    <2>1. CASE ComposeUp
      <3>1. Goto("save") \/ (job'.pc = "alloc" /\ job'.c = job.c)
        BY <1>1, <1>3, <2>1 DEF ComposeUp, Job
      <3> QED
        BY <1>4, <2>1, <3>1 DEF ComposeUp, At
    <2>2. ~(StampExtend \/ Save \/ SaveFails \/ UpStatus \/ Touch \/ MarkStopped \/ ComposeDown
            \/ RowStopped)
      <3>1. \A pc : Goto(pc) => pc \in {"alloc", "compose", "save"}
        BY <1>4
      <3>2. ~(StampExtend \/ SaveFails \/ UpStatus \/ Touch)
        BY <1>3 DEF StampExtend, SaveFails, UpStatus, Touch
      <3>3. ~Save
        <4>1. ~Goto(IF job.op = "up" THEN "status" ELSE "touch")
          BY <3>1
        <4> QED
          BY <4>1 DEF Save
      <3>4. ~(MarkStopped \/ ComposeDown \/ RowStopped)
        <4>1. ~Goto("down") /\ ~Goto("rowstop") /\ ~Goto("start")
          BY <3>1
        <4> QED
          BY <1>3, <4>1 DEF MarkStopped, ComposeDown, RowStopped, Stopped
      <3> QED
        BY <3>2, <3>3, <3>4
    <2>3. ~CycleEnd /\ ~SyncRegister
      BY <1>1, <1>2 DEF CycleEnd, SyncRegister, Job
    <2>4. ASSUME NEW c \in Challenges PROVE ~CycleStop(c) /\ ~CycleHeal(c)
      BY <1>1 DEF CycleStop, CycleHeal, At, Job
    <2>5. ASSUME NEW c \in Challenges, SyncUpdate(c) PROVE FALSE
      <3>1. At("cycle") /\ \E t : \/ job' = [job EXCEPT !.c = c, !.pc = "down", !.queue = @ \ {c},
                                                !.prefer = ports[c], !.keep = t, !.reuse = TRUE]
                                  \/ job' = [job EXCEPT !.queue = @ \ {c}]
        BY <2>5 DEF SyncUpdate
      <3> QED
        BY <1>1, <3>1 DEF At, Job
    <2> QED
      BY <1>5, <2>1, <2>2, <2>3, <2>4, <2>5 DEF JobStep
  <1>6. CASE Request
    <2>1. ASSUME NEW c \in Challenges
          PROVE  ~BeginDown(c) /\ ~BeginExtend(c) /\ \A force : ~BeginUp(c, force)
      BY DEF BeginDown, BeginExtend, BeginUp, Idle
    <2>2. ASSUME NEW c \in Challenges, LockedStatus(c) PROVE job' = job
      BY <2>2 DEF LockedStatus
    <2>3. ASSUME NEW c \in Challenges, NEW force, NEW disabledToo, NEW scope,
                 BeginRestart(c, force, disabledToo, scope)
          PROVE  job'.pc \in {"touch", "down"}
      BY <2>3 DEF BeginRestart, Idle
    <2>4. \A changed : ~SyncPull(changed)
      BY DEF SyncPull, Idle
    <2> QED
      BY <1>6, <2>1, <2>2, <2>3, <2>4 DEF Request
  <1>7. \A healing : ~BeginCycle(healing)
    BY DEF BeginCycle, Idle
  <1>8. ~Crash
    BY <1>2 DEF Crash
  <1>9. CASE UNCHANGED job
    BY <1>9
  <1> QED
    BY <1>5, <1>6, <1>7, <1>8, <1>9
       DEF Next, vars, ViewRead, ViewProbe, ViewWrite, Tick, ContainerExit

\* What Start does to the command.
LEMMA StartGoes ==
  ASSUME Typed, Start
  PROVE  \/ job'.pc \in {"free", "cycle", "status", "touch"}
         \/ job'.pc = "alloc" /\ job'.c = job.c /\ ~Running(job.c) /\ UNCHANGED rows
  <1>1. job \in Job
    BY DEF Typed, TypeOK
  <1>2. Finish => job'.pc \in {"free", "cycle"}
    BY DEF Finish, NextJob, Idle
  <1>3. \A pc : Goto(pc) => job'.pc = pc /\ job'.c = job.c
    BY <1>1 DEF Goto, Job
  <1> QED
    BY <1>2, <1>3 DEF Start

\* A claim comes from Allocate and stays with its challenge.
LEMMA ClaimStep ==
  ASSUME Typed, [Next]_vars, ~Allocate, job'.pc \in {"compose", "save"}
  PROVE  job.pc \in {"compose", "save"} /\ job'.c = job.c
  BY StartingStep, StartGoes

\* Only two steps write ports.
LEMMA PortsStep == [Next]_vars => UNCHANGED ports \/ Allocate \/ SyncRegister
  <1> SUFFICES ASSUME [Next]_vars, ~Allocate, ~SyncRegister PROVE UNCHANGED ports
    OBVIOUS
  <1>1. CASE JobStep
    BY <1>1 DEF JobStep, StampExtend, Start, ComposeUp, Save, SaveFails, UpStatus, Touch, MarkStopped,
                ComposeDown, RowStopped, CycleEnd, CycleStop, CycleHeal, SyncUpdate
  <1>2. CASE Request
    BY ZenonT(60), <1>2 DEF Request, BeginDown, BeginExtend, LockedStatus, BeginUp, BeginRestart, SyncPull
  <1> QED
    BY <1>1, <1>2 DEF Next, vars, BeginCycle, ViewRead, ViewProbe, ViewWrite, Tick, Crash, ContainerExit

LEMMA NextPorts == PortInv /\ [Next]_vars => PortInv'
  <1> SUFFICES ASSUME PortInv, [Next]_vars PROVE PortInv'
    OBVIOUS
  <1>1. Typed /\ Typed'
    BY NextTyped DEF PortInv
  <1>2. \A c \in Challenges : Running(c) <=> RunsNow(rows[c])
    BY DEF Running, Latest, RunsNow
  <1>3. \A c \in Challenges : Running(c)' <=> RunsNow(rows'[c])
    BY DEF Running, Latest, RunsNow
  <1>4. ASSUME RowsKept PROVE \A c \in Challenges : Running(c)' => Running(c)
    BY <1>2, <1>3, <1>4 DEF RowsKept, Keeps
  <1>5. CASE Save
    <2>1. job.pc = "save" /\ job'.pc \in {"status", "touch"} /\ UNCHANGED ports
      BY <1>1, <1>5 DEF Save, At, Goto, Typed, TypeOK, Job
    <2>2. \A d \in Challenges \ {job.c} : Running(d)' => Running(d)
      BY <1>1, <1>2, <1>3, <1>5, SaveRows
    <2>3. AllApart'
      BY <2>1, <2>2 DEF PortInv, AllApart, ClaimApart, Apart
    <2>4. ClaimApart'
      BY <2>1 DEF ClaimApart
    <2> QED
      BY <1>1, <2>3, <2>4 DEF PortInv
  <1>6. CASE Allocate /\ ports' # ports
    <2>1. PICK c \in Challenges : c = job.c
      BY <1>1, <1>6 DEF Allocate, At, Typed, TypeOK, HasChallenge
    <2>2. PICK m \in Mappings(c) :
             ports' = [ports EXCEPT ![c] = m] /\ Goto("compose") /\ UNCHANGED rows
      BY <1>6, <2>1 DEF Allocate
    <2>3. job'.c = c
      BY <1>1, <2>1, <2>2 DEF Goto, Typed, TypeOK, Job
    <2>4. ports'[c] = m /\ \A d \in Challenges \ {c} : ports'[d] = ports[d]
      BY <1>1, <2>2 DEF Typed, TypeOK
    <2>5. \A d \in Challenges \ {c}, i, j \in Internal : Running(d) => m[i] # ports[d][j]
      BY DEF Mappings, ReservedPorts
    <2>6. \A d \in Challenges : Running(d)' <=> Running(d)
      BY <1>2, <1>3, <2>2
    <2>7. \A d \in Challenges \ {c} : Running(d)' => Apart(c, d)' /\ Apart(d, c)'
      BY <2>4, <2>5, <2>6 DEF Apart
    <2>8. ASSUME NEW d \in Challenges, NEW e \in Challenges, d # e, Running(d)', Running(e)'
          PROVE  Apart(d, e)'
      <3>1. CASE d # c /\ e # c
        BY <2>4, <2>6, <2>8, <3>1 DEF PortInv, AllApart, Apart
      <3> QED
        BY <2>7, <2>8, <3>1
    <2>9. AllApart' /\ ClaimApart'
      BY <2>3, <2>7, <2>8 DEF AllApart, ClaimApart
    <2> QED
      BY <1>1, <2>9 DEF PortInv
  <1>7. CASE SyncRegister
    <2>1. job'.pc = "cycle" /\ UNCHANGED rows
      BY <1>1, <1>7 DEF SyncRegister, Typed, TypeOK, Job
    <2>2. \A c \in Challenges : ports'[c] \in {FilePorts, NoRows, ports[c]}
      BY <1>7 DEF SyncRegister
    <2>3. \A c \in Challenges, i \in Internal : ports'[c][i] \in HostPorts => ports'[c][i] = ports[c][i]
      BY <2>2, NotAllocated DEF FilePorts, NoRows
    <2>4. AllApart'
      BY <1>2, <1>3, <2>1, <2>3 DEF PortInv, AllApart, Apart
    <2> QED
      BY <1>1, <2>1, <2>4 DEF PortInv, ClaimApart
  <1>8. CASE RowsKept /\ UNCHANGED ports
    <2>1. \A c \in Challenges : Running(c)' => Running(c)
      BY <1>4, <1>8
    <2>2. AllApart'
      BY <1>8, <2>1 DEF PortInv, AllApart, Apart
    <2>3. ClaimApart'
      <3>1. SUFFICES ASSUME job'.pc \in {"compose", "save"} PROVE ClaimApart'
        BY DEF ClaimApart
      <3>2. CASE ~Allocate
        <4>1. job.pc \in {"compose", "save"} /\ job'.c = job.c
          BY <1>1, <3>1, <3>2, ClaimStep
        <4> QED
          BY <1>8, <2>1, <4>1 DEF PortInv, ClaimApart, Apart
      <3>3. CASE Allocate
        <4>1. PICK m \in Mappings(job.c) : ports' = [ports EXCEPT ![job.c] = m] /\ Goto("compose")
          <5>1. ~Finish
            <6>1. Finish => job'.pc \in {"cycle", "free"}
              BY DEF Finish, NextJob, Idle
            <6> QED
              BY <3>1, <6>1
          <5> QED
            BY <3>3, <5>1 DEF Allocate
        <4>2. job.c \in Challenges /\ job'.c = job.c
          BY <1>1, <3>3, <4>1 DEF Allocate, At, Goto, Typed, TypeOK, HasChallenge, Job
        <4>3. ports[job.c] = m
          BY <1>1, <1>8, <4>1, <4>2 DEF Typed, TypeOK
        <4>4. \A d \in Challenges \ {job.c}, i, j \in Internal : Running(d) => m[i] # ports[d][j]
          BY DEF Mappings, ReservedPorts
        <4> QED
          BY <1>8, <2>1, <4>2, <4>3, <4>4 DEF ClaimApart, Apart
      <3> QED
        BY <3>2, <3>3
    <2> QED
      BY <1>1, <2>2, <2>3 DEF PortInv
  <1>9. CASE Allocate /\ UNCHANGED ports
    <2>1. RowsKept
      BY <1>1, <1>9 DEF Allocate, RowsKept, Keeps, Typed, TypeOK
    <2> QED
      BY <1>8, <1>9, <2>1
  <1>10. RowsKept \/ Save
    BY <1>1, RowsStep DEF Typed
  <1> QED
    BY <1>5, <1>6, <1>7, <1>8, <1>9, <1>10, PortsStep

(* No two running challenges have a host port in common, whatever commands, *)
(* crashes, failures and stale writes came before.                          *)
THEOREM PortsDisjoint == Spec => []RunningPortsDisjoint
  <1>1. Init => PortInv
    BY InitPorts
  <1>2. PortInv /\ [Next]_vars => PortInv'
    BY NextPorts
  <1>3. PortInv => RunningPortsDisjoint
    BY DEF PortInv, AllApart, Apart, RunningPortsDisjoint
  <1> QED
    BY <1>1, <1>2, <1>3, PTL DEF Spec
=============================================================================
