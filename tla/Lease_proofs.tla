---------------------------- MODULE Lease_proofs ----------------------------
(***************************************************************************)
(* The lifecycle implements leases: what Lifecycle does to rows, ports and *)
(* the clock, seen through the latest row of each challenge, is a step of  *)
(* Lease or no step at all, for any commands, faults and interleavings.    *)
(***************************************************************************)
EXTENDS Lifecycle_proofs

-----------------------------------------------------------------------------
(* Rows: a step other than Save lets the latest row of one challenge end,  *)
(* keep its date or get a new one.                                         *)

LastDate(rs) == rs[Len(rs)].expires
NewDates == 0 .. now + Reach

Moves(rs, new) ==
    RunsNow(new) => RunsNow(rs) /\ LastDate(new) \in {LastDate(rs)} \cup NewDates

LEMMA LastRow ==
  ASSUME NEW rs \in Seq(Row), rs # <<>>
  PROVE  Len(rs) \in DOMAIN rs /\ DOMAIN rs = 1 .. Len(rs) /\ rs[Len(rs)] \in Row
  <1>1. Len(rs) \in Nat \ {0} /\ rs \in [1 .. Len(rs) -> Row]
    BY EmptySeq, LenProperties
  <1> QED
    BY <1>1

LEMMA ExpiryMoves ==
  ASSUME NEW rs \in Seq(Row), NEW t \in NewDates
  PROVE  Moves(rs, WithExpiry(rs, t))
  <1> DEFINE new == WithExpiry(rs, t)
  <1> SUFFICES ASSUME RunsNow(new)
               PROVE  RunsNow(rs) /\ LastDate(new) \in {LastDate(rs)} \cup NewDates
    BY DEF Moves
  <1>1. Len(rs) \in Nat /\ rs \in [1 .. Len(rs) -> Row] /\ DOMAIN rs = 1 .. Len(rs)
    BY LenProperties
  <1>2. \A i \in 1 .. Len(rs) : new[i] = IF RowRuns(rs[i]) THEN [rs[i] EXCEPT !.expires = t] ELSE rs[i]
    BY <1>1 DEF WithExpiry
  <1>3. new \in [1 .. Len(rs) -> Row]
    <2>1. t \in Date
      BY DEF NewDates, Date
    <2> QED
      BY <1>1, <2>1 DEF WithExpiry, Row
  <1>4. Len(new) = Len(rs)
    BY <1>1, <1>3, FunctionIsSeq
  <1>5. rs # <<>>
    <2>1. new # <<>> /\ new \in Seq(Row)
      BY <1>1, <1>3, FunctionIsSeq DEF RunsNow
    <2> HIDE DEF new
    <2>2. Len(new) # 0
      BY <2>1, EmptySeq
    <2> QED
      BY <1>4, <2>2, EmptySeq
  <1>6. Len(rs) \in 1 .. Len(rs) /\ rs[Len(rs)] \in Row
    BY <1>1, <1>5, LastRow
  <1>7. new[Len(rs)] \in {rs[Len(rs)], [rs[Len(rs)] EXCEPT !.expires = t]}
    BY <1>2, <1>6
  <1>8. RunsNow(rs)
    BY <1>4, <1>5, <1>6, <1>7 DEF RunsNow, Row
  <1>9. LastDate(new) \in {LastDate(rs), t}
    BY <1>4, <1>6, <1>7 DEF LastDate, Row
  <1> QED
    BY <1>8, <1>9

LEMMA StampMoves ==
  ASSUME NEW rs \in Seq(Row), NEW new, new \in {WithRestart(rs), WithExtend(rs)}, now \in Nat
  PROVE  Moves(rs, new)
  <1> SUFFICES ASSUME RunsNow(new) PROVE RunsNow(rs) /\ LastDate(new) = LastDate(rs)
    BY DEF Moves
  <1>1. Len(rs) \in Nat /\ rs \in [1 .. Len(rs) -> Row] /\ DOMAIN rs = 1 .. Len(rs)
    BY LenProperties
  <1>2. new \in Seq(Row) /\ Keeps(rs, new)
    BY StampKeeps, ReachFacts DEF Keeps
  <1>3. RunsNow(rs)
    BY <1>2 DEF Keeps
  <1>4. Len(rs) \in 1 .. Len(rs)
    BY <1>1, <1>3, LastRow DEF RunsNow
  <1>5. new \in [1 .. Len(rs) -> Row]
    <2>1. \A r \in Row : [r EXCEPT !.restarted = now] \in Row /\ [r EXCEPT !.extended = now] \in Row
      BY DEF Row, Date
    <2> QED
      BY <1>1, <2>1 DEF WithRestart, WithExtend
  <1>6. Len(new) = Len(rs)
    BY <1>1, <1>5, FunctionIsSeq
  <1>7. new[Len(rs)].expires = rs[Len(rs)].expires
    BY <1>1, <1>4 DEF WithRestart, WithExtend, Row
  <1> QED
    BY <1>3, <1>6, <1>7 DEF LastDate

LEMMA StatusMoves ==
  ASSUME NEW rs \in Seq(Row), NEW seen, now \in Nat
  PROVE  Moves(rs, WithStatus(rs, "stopped")) /\ Moves(rs, AfterStatus(rs, seen))
  <1>1. Moves(rs, WithStatus(rs, "stopped"))
    BY StatusKeeps DEF Moves
  <1>2. Moves(rs, rs)
    BY DEF Moves
  <1>3. Moves(rs, WithExpiry(rs, now + TTL))
    <2>1. now + TTL \in NewDates
      BY ReachFacts DEF NewDates
    <2> QED
      BY <2>1, ExpiryMoves
  <1> QED
    BY <1>1, <1>2, <1>3 DEF AfterStatus

(* What is saved runs, until the date that was given.                      *)
LEMMA SavedRuns ==
  ASSUME NEW rs \in Seq(Row), NEW t \in Date, NEW reuse \in BOOLEAN
  PROVE  RunsNow(Saved(rs, t, reuse)) /\ LastDate(Saved(rs, t, reuse)) = t
  <1> DEFINE closed == [i \in DOMAIN rs |-> [rs[i] EXCEPT !.status = "stopped"]]
             fresh  == [status |-> "running", expires |-> t, restarted |-> Never, extended |-> Never]
             again  == [closed EXCEPT ![Len(rs)].status = "running", ![Len(rs)].expires = t]
  <1>1. Len(rs) \in Nat /\ rs \in [1 .. Len(rs) -> Row] /\ DOMAIN rs = 1 .. Len(rs)
    BY LenProperties
  <1>2. closed \in [1 .. Len(rs) -> Row]
    BY <1>1 DEF Row
  <1>3. closed \in Seq(Row) /\ Len(closed) = Len(rs)
    BY <1>1, <1>2, FunctionIsSeq
  <1>4. CASE reuse /\ rs # <<>>
    <2>1. Len(rs) \in 1 .. Len(rs)
      BY <1>1, <1>4, LastRow
    <2>2. again \in [1 .. Len(rs) -> Row]
      BY <1>2, <2>1 DEF Row
    <2>3. Len(again) = Len(rs) /\ again \in Seq(Row)
      <3> HIDE DEF again
      <3> QED
        BY <1>1, <2>2, FunctionIsSeq
    <2>4. again[Len(rs)].status = "running" /\ again[Len(rs)].expires = t
      BY <1>2, <2>1 DEF Row
    <2>5. Saved(rs, t, reuse) = again
      BY <1>4 DEF Saved
    <2>6. again # <<>>
      <3> HIDE DEF again
      <3> QED
        BY <1>1, <2>1, <2>3, EmptySeq
    <2> QED
      BY <2>3, <2>4, <2>5, <2>6 DEF RunsNow, LastDate
  <1>5. CASE ~(reuse /\ rs # <<>>)
    <2> DEFINE longer == Append(closed, fresh)
    <2>1. fresh \in Row
      BY DEF Row, Date, Never
    <2>2. longer \in Seq(Row) /\ Len(longer) = Len(rs) + 1
      BY <1>3, <2>1, AppendProperties
    <2>3. longer[Len(rs) + 1] = fresh
      <3> HIDE DEF closed, fresh
      <3> QED
        BY <1>3, <2>1, AppendProperties
    <2>4. Saved(rs, t, reuse) = longer
      BY <1>5 DEF Saved
    <2>5. longer # <<>>
      <3> HIDE DEF longer
      <3> QED
        BY <1>1, <2>2, EmptySeq
    <2> QED
      BY <2>2, <2>3, <2>4, <2>5 DEF RunsNow, LastDate
  <1> QED
    BY <1>4, <1>5

(* What a step does to all rows.                                           *)
OneMoves ==
    \E c \in Challenges :
        Moves(rows[c], rows'[c]) /\ \A d \in Challenges \ {c} : rows'[d] = rows[d]

LEMMA SetMoves ==
  ASSUME TypeOK, NEW c, NEW new, c \in Challenges => Moves(rows[c], new), SetRows(c, new)
  PROVE  UNCHANGED rows \/ OneMoves
  BY DEF TypeOK, SetRows, OneMoves

LEMMA MovesStep ==
  DeadlineInv /\ [Next]_vars => UNCHANGED rows \/ OneMoves \/ Save
  <1> SUFFICES ASSUME DeadlineInv, [Next]_vars, ~Save PROVE UNCHANGED rows \/ OneMoves
    OBVIOUS
  <1>1. TypeOK /\ now \in Nat /\ \A c \in Challenges : rows[c] \in Seq(Row)
    BY DEF DeadlineInv, Typed, TypeOK
  <1>2. ASSUME NEW c, SetRows(c, WithStatus(rows[c], "stopped")) PROVE UNCHANGED rows \/ OneMoves
    BY <1>1, <1>2, StatusMoves, SetMoves
  <1>3. ASSUME NEW c, NEW seen, SetRows(c, AfterStatus(rows[c], seen))
        PROVE  UNCHANGED rows \/ OneMoves
    BY <1>1, <1>3, StatusMoves, SetMoves
  <1>4. ASSUME NEW c, SetRows(c, WithRestart(rows[c])) \/ SetRows(c, WithExtend(rows[c]))
        PROVE  UNCHANGED rows \/ OneMoves
    <2>1. c \in Challenges => Moves(rows[c], WithRestart(rows[c])) /\ Moves(rows[c], WithExtend(rows[c]))
      BY <1>1, StampMoves
    <2> QED
      BY <1>1, <1>4, <2>1, SetMoves
  <1>5. ASSUME NEW c, SetRows(c, WithExpiry(rows[c], now + TTL)) PROVE UNCHANGED rows \/ OneMoves
    <2>1. now + TTL \in NewDates
      BY <1>1, ReachFacts DEF NewDates
    <2>2. c \in Challenges => Moves(rows[c], WithExpiry(rows[c], now + TTL))
      BY <1>1, <2>1, ExpiryMoves
    <2> QED
      BY <1>1, <1>5, <2>2, SetMoves
  <1>6. ASSUME NEW c \in Challenges, BeginExtend(c) PROVE UNCHANGED rows \/ OneMoves
    <2>1. Latest(c).expires \in Date \ {Never}
      BY <1>1, <1>6, LastRow DEF BeginExtend, Running, Latest, Row
    <2>2. Latest(c).expires + ExtendBy \in NewDates
      BY <1>1, <1>6, <2>1, ReachFacts DEF BeginExtend, Date, Never, NewDates
    <2>3. Moves(rows[c], WithExpiry(rows[c], Latest(c).expires + ExtendBy))
      BY <1>1, <2>2, ExpiryMoves
    <2> QED
      BY <1>1, <1>6, <2>3, SetMoves DEF BeginExtend
  <1>7. ASSUME NEW c \in Challenges, NEW force \in BOOLEAN, NEW disabledToo \in BOOLEAN,
               NEW scope, BeginRestart(c, force, disabledToo, scope)
        PROVE  UNCHANGED rows \/ OneMoves
    BY <1>3, <1>7 DEF BeginRestart
  <1>8. CASE JobStep
    BY <1>2, <1>3, <1>4, <1>8
       DEF JobStep, StampExtend, Start, Allocate, ComposeUp, SaveFails, UpStatus, Touch, MarkStopped,
           ComposeDown, RowStopped, CycleEnd, SyncRegister, CycleStop, CycleHeal, SyncUpdate
  <1>9. CASE Request
    BY <1>3, <1>6, <1>7, <1>9 DEF Request, BeginDown, LockedStatus, BeginUp, SyncPull
  <1>10. ASSUME NEW v \in Viewers, ViewWrite(v) PROVE UNCHANGED rows \/ OneMoves
    BY <1>2, <1>5, <1>10 DEF ViewWrite
  <1> QED
    BY <1>8, <1>9, <1>10 DEF Next, vars, BeginCycle, ViewRead, ViewProbe, Tick, Crash, ContainerExit

-----------------------------------------------------------------------------
(* What a command that starts a challenge has in hand.                     *)

(* It does not run yet, and its ports have been allocated.                  *)
Starting == job.pc \in {"alloc", "compose", "save"} => ~Running(job.c)
Claimed  == job.pc \in {"compose", "save"} => ports[job.c] \in [Internal -> HostPorts]

LeaseInv == DeadlineInv /\ PortInv /\ Starting /\ Claimed

LEMMA RunsInRows ==
  /\ \A c : Running(c) <=> RunsNow(rows[c])
  /\ \A c : Running(c)' <=> RunsNow(rows'[c])
  /\ \A c : Latest(c).expires = LastDate(rows[c])
  /\ \A c : (Latest(c).expires)' = LastDate(rows'[c])
  BY DEF Running, Latest, RunsNow, LastDate

LEMMA InitLease == Init => LeaseInv
  <1> SUFFICES ASSUME Init PROVE LeaseInv
    OBVIOUS
  <1>1. job.pc = "free"
    BY DEF Init, Idle
  <1> QED
    BY <1>1, InitDeadline, InitPorts DEF LeaseInv, Starting, Claimed

LEMMA NextLease == LeaseInv /\ [Next]_vars => LeaseInv'
  <1> SUFFICES ASSUME LeaseInv, [Next]_vars PROVE LeaseInv'
    OBVIOUS
  <1>1. DeadlineInv' /\ PortInv' /\ Typed /\ Typed'
    BY NextDeadline, NextPorts, NextTyped DEF LeaseInv, DeadlineInv
  <1>2. job \in Job /\ ports \in [Challenges -> Bindings]
    BY <1>1 DEF Typed, TypeOK
  <1>3. Finish => job'.pc \in {"free", "cycle"}
    BY DEF Finish, NextJob, Idle
  <1>4. \A pc : Goto(pc) => job'.pc = pc /\ job'.c = job.c
    BY <1>2 DEF Goto, Job
  (* Nothing but Save makes a challenge run.                                *)
  <1>5. \A c \in Challenges : ~Save /\ Running(c)' => Running(c)
    BY <1>1, RowsStep, RunsInRows DEF Typed, RowsKept, Keeps
  <1>6. Save => job'.pc \in {"status", "touch"}
    BY <1>4 DEF Save
  <1>7. Starting'
    <2> SUFFICES ASSUME job'.pc \in {"alloc", "compose", "save"}, NEW c \in Challenges, c = job'.c
                 PROVE  ~Running(c)'
      BY <1>1 DEF Starting, Running, Latest, Typed, HasChallenge
    <2>1. CASE Start
      BY <1>1, <1>5, <1>6, <2>1, StartGoes DEF LeaseInv
    <2>2. CASE Allocate
      <3>1. job.pc = "alloc" /\ job'.c = job.c
        BY <1>3, <1>4, <2>2 DEF Allocate, At
      <3> QED
        BY <1>5, <1>6, <3>1 DEF LeaseInv, Starting
    <2>3. CASE ~Start /\ ~Allocate
      <3>1. job.pc \in {"alloc", "compose", "save"} /\ job'.c = job.c
        BY <1>1, <2>3, StartingStep
      <3> QED
        BY <1>5, <1>6, <3>1 DEF LeaseInv, Starting
    <2> QED
      BY <2>1, <2>2, <2>3
  <1>8. Claimed'
    <2> SUFFICES ASSUME job'.pc \in {"compose", "save"}
                 PROVE  ports'[job'.c] \in [Internal -> HostPorts]
      BY DEF Claimed
    <2>1. CASE Allocate
      <3>1. PICK m \in Mappings(job.c) : ports' = [ports EXCEPT ![job.c] = m] /\ Goto("compose")
        BY <1>3, <2>1 DEF Allocate
      <3>2. job.c \in Challenges /\ job'.c = job.c
        BY <1>1, <1>4, <2>1, <3>1 DEF Allocate, At, Typed, HasChallenge
      <3>3. m \in [Internal -> HostPorts]
        BY DEF Mappings
      <3> QED
        BY <1>2, <3>1, <3>2, <3>3
    <2>2. CASE ~Allocate
      <3>1. job.pc \in {"compose", "save"} /\ job'.c = job.c
        BY <1>1, <2>2, ClaimStep
      <3>2. ~SyncRegister
        BY <3>1 DEF SyncRegister, At
      <3> QED
        BY <2>2, <3>1, <3>2, PortsStep DEF LeaseInv, Claimed
    <2> QED
      BY <2>1, <2>2
  <1> QED
    BY <1>1, <1>7, <1>8 DEF LeaseInv

-----------------------------------------------------------------------------
(* The refinement.                                                         *)

LEMMA InitLeases == Init => Leases!Init
  <1> SUFFICES ASSUME Init PROVE Leases!Init
    OBVIOUS
  <1>1. \A c \in Challenges : Running(c) <=> c \in Legacy
    BY DEF Init, Running, Latest
  <1>2. \A c \in Legacy : c \in Challenges /\ Latest(c).expires = Never
    BY SwitchesAssumption DEF Init, Latest
  <1>3. Leased = Legacy
    BY <1>1, SwitchesAssumption DEF Leased
  <1>4. LeasedUntil = [c \in Challenges |-> Never]
    BY <1>1, <1>2 DEF LeasedUntil
  <1>5. \A c \in Challenges : LeasedPorts[c] = IF c \in Legacy THEN ports[c] ELSE NoRows
    BY <1>1 DEF LeasedPorts
  <1>6. \A c \in Legacy : LeasedPorts[c] \in [Internal -> HostPorts]
    BY <1>2, <1>5 DEF Init
  <1>7. ASSUME NEW c \in Legacy, NEW d \in Legacy \ {c}, NEW i \in Internal, NEW j \in Internal
        PROVE  LeasedPorts[c][i] # LeasedPorts[d][j]
    <2>1. ports[c][i] # ports[d][j]
      BY DEF Init
    <2> QED
      BY <1>2, <1>5, <2>1
  <1>8. now = 0
    BY DEF Init
  <1> QED
    BY <1>3, <1>4, <1>5, <1>6, <1>7, <1>8 DEF Leases!Init, Leases!Bindings, Leases!Unleased

(* A start: the row is saved.                                               *)
LEMMA SaveGrants ==
  ASSUME LeaseInv, Save, NEW c, c = job.c
  PROVE  Leases!Grant(c)
  <1> DEFINE t == IF job.keep # Never THEN job.keep ELSE now + TTL
  <1>1. /\ c \in Challenges /\ job.pc = "save" /\ job.keep \in Date /\ job.reuse \in BOOLEAN
        /\ now \in Nat /\ rows \in [Challenges -> Seq(Row)]
    BY DEF LeaseInv, DeadlineInv, Typed, TypeOK, HasChallenge, Save, At, Job
  <1>2. ~Running(c) /\ ports[c] \in [Internal -> HostPorts] /\ UNCHANGED <<ports, now>>
    BY <1>1 DEF LeaseInv, Starting, Claimed, Save
  <1>3. t \in Date /\ t \in NewDates
    BY <1>1, ReachFacts DEF LeaseInv, DeadlineInv, KeepBounded, NewDates, Date, Never
  <1>4. rows' = [rows EXCEPT ![c] = Saved(rows[c], t, job.reuse)]
    BY DEF Save, SetRows
  <1> HIDE DEF t
  <1>5. rows'[c] = Saved(rows[c], t, job.reuse) /\ \A d \in Challenges \ {c} : rows'[d] = rows[d]
    BY <1>1, <1>4
  <1>6. Running(c)' /\ (Latest(c).expires)' = t
    BY <1>1, <1>3, <1>5, SavedRuns, RunsInRows
  <1>7. \A d \in Challenges \ {c} : /\ Running(d)' <=> Running(d)
                                    /\ (Latest(d).expires)' = Latest(d).expires
    BY <1>5, RunsInRows
  <1>8. c \notin Leased /\ Leased' = Leased \cup {c}
    BY <1>1, <1>2, <1>6, <1>7 DEF Leased
  <1>9. LeasedPorts' = [LeasedPorts EXCEPT ![c] = ports[c]] /\ LeasedPorts'[c] = ports[c]
    BY <1>1, <1>2, <1>6, <1>7 DEF LeasedPorts
  <1>10. LeasedUntil' = [LeasedUntil EXCEPT ![c] = t] /\ LeasedUntil'[c] = t
    BY <1>1, <1>6, <1>7 DEF LeasedUntil
  <1>11. ASSUME NEW d \in Leased \ {c}, NEW i \in Internal, NEW j \in Internal
         PROVE  ports[c][i] # LeasedPorts[d][j]
    <2>1. d \in Challenges \ {c} /\ Running(d) /\ LeasedPorts[d] = ports[d]
      BY DEF Leased, LeasedPorts
    <2>2. Apart(c, d)
      BY <1>1, <2>1 DEF LeaseInv, PortInv, ClaimApart
    <2> QED
      BY <1>2, <2>1, <2>2 DEF Apart
  <1>12. Leases!Date(c)
    BY <1>3, <1>10 DEF Leases!Date, NewDates
  <1>13. Leases!Unleased(LeasedPorts'[c], c)
    BY <1>9, <1>11 DEF Leases!Unleased
  <1>14. LeasedPorts'[c] \in Leases!Bindings
    BY <1>2, <1>9 DEF Leases!Bindings
  <1>15. LeasedPorts' = [LeasedPorts EXCEPT ![c] = LeasedPorts'[c]]
    BY <1>9
  <1> QED
    BY <1>2, <1>8, <1>12, <1>13, <1>14, <1>15 DEF Leases!Grant

(* The end of a runtime, or another date for it.                            *)
LEMMA MovesLease ==
  ASSUME LeaseInv, OneMoves, UNCHANGED <<ports, now>>
  PROVE  \/ \E c \in Challenges : Leases!Renew(c) \/ Leases!End(c)
         \/ UNCHANGED Leases!vars
  <1>1. PICK c \in Challenges :
          Moves(rows[c], rows'[c]) /\ \A d \in Challenges \ {c} : rows'[d] = rows[d]
    BY DEF OneMoves
  <1>2. \A d \in Challenges \ {c} : /\ Running(d)' <=> Running(d)
                                    /\ (Latest(d).expires)' = Latest(d).expires
    BY <1>1, RunsInRows
  <1>3. CASE Running(c) /\ ~Running(c)'
    <2>1. c \in Leased /\ Leased' = Leased \ {c}
      BY <1>2, <1>3 DEF Leased
    <2>2. LeasedPorts' = [LeasedPorts EXCEPT ![c] = NoRows]
      BY <1>2, <1>3 DEF LeasedPorts
    <2>3. LeasedUntil' = [LeasedUntil EXCEPT ![c] = Never]
      BY <1>2, <1>3 DEF LeasedUntil
    <2> QED
      BY <2>1, <2>2, <2>3 DEF Leases!End
  <1>4. CASE ~Running(c) /\ ~Running(c)'
    <2>1. Leased' = Leased /\ LeasedPorts' = LeasedPorts /\ LeasedUntil' = LeasedUntil
      BY <1>2, <1>4 DEF Leased, LeasedPorts, LeasedUntil
    <2> QED
      BY <2>1 DEF Leases!vars
  <1>5. CASE Running(c)'
    <2>1. Running(c) /\ (Latest(c).expires)' \in {Latest(c).expires} \cup NewDates
      BY <1>1, <1>5, RunsInRows DEF Moves
    <2>2. Leased' = Leased /\ LeasedPorts' = LeasedPorts /\ c \in Leased
      BY <1>2, <1>5, <2>1 DEF Leased, LeasedPorts
    <2>3. LeasedUntil' = [LeasedUntil EXCEPT ![c] = (Latest(c).expires)']
      BY <1>2, <1>5, <2>1 DEF LeasedUntil
    <2>4. LeasedUntil \in [Challenges -> {LeasedUntil[d] : d \in Challenges}]
          /\ LeasedUntil[c] = Latest(c).expires
      BY <2>1 DEF LeasedUntil
    <2>5. CASE (Latest(c).expires)' = Latest(c).expires
      <3>1. LeasedUntil' = LeasedUntil
        BY <1>2, <1>5, <2>1, <2>5 DEF LeasedUntil
      <3> QED
        BY <2>2, <3>1 DEF Leases!vars
    <2>6. CASE (Latest(c).expires)' \in NewDates
      <3>1. LeasedUntil'[c] = (Latest(c).expires)'
        BY <1>5 DEF LeasedUntil
      <3> QED
        BY <2>2, <2>3, <2>6, <3>1 DEF Leases!Renew, Leases!Date, NewDates
    <2> QED
      BY <2>1, <2>5, <2>6
  <1> QED
    BY <1>3, <1>4, <1>5

(* A sync leaves a running challenge its ports or takes them all.           *)
LEMMA RegisterStrips ==
  ASSUME LeaseInv, SyncRegister
  PROVE  Leases!Strip
  <1>1. \A c \in Challenges : rows[c] \in Seq(Row)
    BY DEF LeaseInv, PortInv, Typed, TypeOK
  <1>2. \A c \in Challenges : Running(c) => AnyRunning(c)
    BY <1>1, LastRow DEF Running, Latest, AnyRunning, RowRuns
  <1>3. \A c \in Challenges : Running(c) => ports'[c] \in {NoRows, ports[c]}
    BY <1>2 DEF SyncRegister
  <1>4. UNCHANGED <<rows, now>>
    BY DEF SyncRegister
  <1>5. \A c \in Challenges : /\ Running(c)' <=> Running(c)
                              /\ (Latest(c).expires)' = Latest(c).expires
    BY <1>4, RunsInRows
  <1>6. Leased' = Leased /\ LeasedUntil' = LeasedUntil
    BY <1>5 DEF Leased, LeasedUntil
  <1> DEFINE C == {c \in Leased : ports'[c] = NoRows}
  <1>7. LeasedPorts' = [c \in Challenges |-> IF c \in C THEN NoRows ELSE LeasedPorts[c]]
    BY <1>3, <1>5 DEF Leased, LeasedPorts
  <1>8. C \in SUBSET Leased
    OBVIOUS
  <1> QED
    BY <1>4, <1>6, <1>7, <1>8 DEF Leases!Strip

LEMMA ClockStep == [Next]_vars => UNCHANGED now \/ Tick
  <1> SUFFICES ASSUME [Next]_vars, ~Tick PROVE UNCHANGED now
    OBVIOUS
  <1>1. CASE JobStep
    BY <1>1 DEF JobStep, StampExtend, Start, Allocate, ComposeUp, Save, SaveFails, UpStatus, Touch,
                MarkStopped, ComposeDown, RowStopped, CycleEnd, SyncRegister, CycleStop,
                CycleHeal, SyncUpdate
  <1>2. CASE Request
    BY ZenonT(60), <1>2 DEF Request, BeginDown, BeginExtend, LockedStatus, BeginUp, BeginRestart, SyncPull
  <1> QED
    BY <1>1, <1>2 DEF Next, vars, BeginCycle, ViewRead, ViewProbe, ViewWrite, Crash, ContainerExit

LEMMA StepLease == LeaseInv /\ [Next]_vars => [Leases!Next]_Leases!vars
  <1> SUFFICES ASSUME LeaseInv, [Next]_vars PROVE Leases!Next \/ UNCHANGED Leases!vars
    OBVIOUS
  <1>1. Typed
    BY DEF LeaseInv, DeadlineInv
  <1>2. ASSUME UNCHANGED rows
        PROVE  /\ Leased' = Leased /\ LeasedUntil' = LeasedUntil
               /\ \A c : Running(c)' <=> Running(c)
    BY <1>2 DEF Leased, LeasedUntil, Running, Latest
  <1>3. CASE UNCHANGED <<rows, ports, now>>
    BY <1>2, <1>3 DEF Leases!vars, LeasedPorts
  <1>4. CASE Tick
    BY <1>2, <1>4 DEF Tick, Leases!Next, Leases!Tick, LeasedPorts
  <1>5. CASE Save
    <2>1. job.c \in Challenges
      BY <1>1, <1>5 DEF Typed, HasChallenge, Save, At
    <2> QED
      BY <1>5, <2>1, SaveGrants DEF Leases!Next
  <1>6. CASE SyncRegister
    BY <1>6, RegisterStrips DEF Leases!Next
  <1>7. CASE Allocate
    <2>1. job.pc = "alloc" /\ UNCHANGED <<rows, now>> /\ job.c \in Challenges
      BY <1>1, <1>7 DEF Allocate, At, Typed, HasChallenge
    <2>2. ~Running(job.c)
      BY <2>1 DEF LeaseInv, Starting
    <2>3. \A d \in Challenges \ {job.c} : ports'[d] = ports[d]
      BY <1>1, <1>7 DEF Allocate, Typed, TypeOK
    <2>4. LeasedPorts' = LeasedPorts
      BY <1>2, <2>1, <2>2, <2>3 DEF LeasedPorts
    <2> QED
      BY <1>2, <2>1, <2>4 DEF Leases!vars
  <1>8. CASE OneMoves /\ UNCHANGED <<ports, now>>
    BY <1>8, MovesLease DEF Leases!Next
  <1> QED
    <2>1. UNCHANGED rows \/ OneMoves \/ Save
      BY MovesStep DEF LeaseInv
    <2> QED
      BY <1>3, <1>4, <1>5, <1>6, <1>7, <1>8, <2>1, PortsStep, ClockStep

(* Whatever is asked for, fails or comes between, a challenge that runs has *)
(* a lease: ports of its own and a near date from the start on, ports that  *)
(* stay until its folder is gone, a date that never goes away (start, stop, *)
(* restart, extend, sync and the unlocked status()).                        *)
THEOREM LifecycleLeases == Spec => ImplementsLease
  <1>1. LeaseInv /\ [Next]_vars => [Leases!Next]_Leases!vars
    BY StepLease
  <1> QED
    BY <1>1, InitLease, NextLease, InitLeases, PTL DEF Spec, ImplementsLease, Leases!Spec
=============================================================================
