------------------------ MODULE LifecycleLock_proofs ------------------------
(***************************************************************************)
(* Theorems about LifecycleLock, for any threads, processes and number of  *)
(* inodes.  LockInv ties the program counter of a thread to what it holds; *)
(* SameFile adds that, as long as nobody removes the lock file, every open *)
(* descriptor is on the one inode the name refers to.                      *)
(***************************************************************************)
EXTENDS LifecycleLock, TLAPS

USE ThreadsAssumption, InodeAssumption, SwitchAssumption, NobodyAssumption

\* Past the RLock.
Inside == {"open"} \cup Open

ThreadsHoldRLock == \A t \in Threads : pc[t] \in Inside => rlock[ProcOf[t]] = t

InsideHoldsFlock == \A t \in Threads : pc[t] = "in" => flock[fd[t]] = t

FlocksAreOpen ==
    \A i \in Inodes : \A t \in Threads :
        flock[i] = t => fd[t] = i /\ pc[t] \in {"in", "close", "dirty"}

RLocksAreHeld ==
    \A p \in Processes : \A t \in Threads :
        rlock[p] = t => ProcOf[t] = p /\ (pc[t] \in Inside \/ t \in leaked)

LockInv ==
    /\ TypeOK
    /\ ThreadsHoldRLock
    /\ InsideHoldsFlock
    /\ FlocksAreOpen
    /\ RLocksAreHeld

SameFile == ~Unlinkable => \A t \in Threads : fd[t] # 0 => fd[t] = path

-----------------------------------------------------------------------------
LEMMA InitLockInv == Init => LockInv /\ SameFile
  BY DEF Init, LockInv, TypeOK, ThreadsHoldRLock, InsideHoldsFlock,
         FlocksAreOpen, RLocksAreHeld, SameFile, PCs, Inside, Open, Inodes

(* Every step keeps LockInv.                                               *)
LEMMA NextLockInv == LockInv /\ [Next]_vars => LockInv'
  <1> SUFFICES ASSUME LockInv, [Next]_vars PROVE LockInv'
    OBVIOUS
  <1> USE DEF LockInv, TypeOK, ThreadsHoldRLock, InsideHoldsFlock,
              FlocksAreOpen, RLocksAreHeld, PCs, Inside, Open, Inodes
  <1>1. ASSUME NEW t \in Threads, NEW b \in BOOLEAN, Request(t, b) PROVE LockInv'
    BY <1>1 DEF Request, Goto
  <1>2. ASSUME NEW t \in Threads, AcquireThread(t) PROVE LockInv'
    BY <1>2 DEF AcquireThread, Goto
  <1>3. ASSUME NEW t \in Threads, ThreadBusy(t) PROVE LockInv'
    BY <1>3 DEF ThreadBusy, Goto
  <1>4. ASSUME NEW t \in Threads, OpenFails(t) PROVE LockInv'
    BY <1>4 DEF OpenFails, Goto
  <1>5. ASSUME NEW t \in Threads, OpenFile(t) PROVE LockInv'
    BY <1>5 DEF OpenFile, Goto
  <1>6. ASSUME NEW t \in Threads, Flock(t) PROVE LockInv'
    BY <1>6 DEF Flock, Goto
  <1>7. ASSUME NEW t \in Threads, GiveUp(t) PROVE LockInv'
    BY <1>7 DEF GiveUp, Goto, ClosedBy, RLockReleasedBy
  <1>8. ASSUME NEW t \in Threads, Unlock(t) PROVE LockInv'
    BY <1>8 DEF Unlock, Goto, ClosedBy
  <1>9. ASSUME NEW t \in Threads, UnlockFails(t) PROVE LockInv'
    BY <1>9 DEF UnlockFails, Goto
  <1>10. ASSUME NEW t \in Threads, Release(t) PROVE LockInv'
    <2> USE <1>10 DEF Release, Close, Goto, ClosedBy, RLockReleasedBy
    <2>1. TypeOK'
      OBVIOUS
    <2>2. ThreadsHoldRLock' /\ InsideHoldsFlock' /\ FlocksAreOpen'
      OBVIOUS
    <2>3. RLocksAreHeld'
      BY SMTT(30)
    <2> QED
      BY ONLY <2>1, <2>2, <2>3 DEF LockInv
  <1>11. ASSUME NEW p \in Processes, Crash(p) PROVE LockInv'
    BY <1>11 DEF Crash, ClosedBy
  <1>12. CASE Unlink
    BY <1>12 DEF Unlink
  <1>13. CASE UNCHANGED vars
    BY <1>13 DEF vars
  <1>14. ASSUME NEW t \in Threads, WriteFails(t) PROVE LockInv'
    BY <1>14 DEF WriteFails, Goto
  <1>15. ASSUME NEW t \in Threads, CloseFails(t) PROVE LockInv'
    BY <1>15 DEF CloseFails, Close, Goto, ClosedBy
  <1> QED
    BY <1>1, <1>2, <1>3, <1>4, <1>5, <1>6, <1>7, <1>8, <1>9, <1>10, <1>11, <1>12, <1>13, <1>14, <1>15
       DEF Next, Step, FileBusy, AcquireFails

(* The name is given to one inode only: a descriptor is opened when the     *)
(* name has one, or when no descriptor is open.                             *)
LEMMA NextSameFile == LockInv /\ SameFile /\ [Next]_vars => SameFile'
  <1> SUFFICES ASSUME LockInv, SameFile, [Next]_vars PROVE SameFile'
    OBVIOUS
  <1> USE DEF SameFile, LockInv, TypeOK, Inodes
  <1>1. ASSUME NEW t \in Threads, OpenFile(t) PROVE SameFile'
    BY SMTT(30), <1>1 DEF OpenFile
  <1>2. ASSUME NEW t \in Threads, GiveUp(t) \/ Release(t) \/ CloseFails(t) PROVE SameFile'
    BY <1>2 DEF GiveUp, Release, CloseFails, Close
  <1>3. ASSUME NEW p \in Processes, Crash(p) PROVE SameFile'
    BY <1>3 DEF Crash
  <1>4. CASE Unlink
    BY <1>4 DEF Unlink
  <1>5. CASE UNCHANGED <<fd, path>>
    BY <1>5
  <1> QED
    BY <1>1, <1>2, <1>3, <1>4, <1>5
       DEF Next, Step, vars, FileBusy, AcquireFails, Request, AcquireThread, ThreadBusy,
           OpenFails, Flock, Unlock, UnlockFails, WriteFails

LEMMA Invariance == Spec => [](LockInv /\ SameFile)
  BY InitLockInv, NextLockInv, NextSameFile, PTL DEF Spec

-----------------------------------------------------------------------------
(* The variables of the lock keep their types.                             *)
THEOREM TypeCorrect == Spec => []TypeOK
  BY Invariance, PTL DEF LockInv

(* As long as the lock file stays, at most one thread of all processes is   *)
(* between __enter__ and __exit__: whoever is inside holds the flock of the *)
(* one inode.                                                              *)
THEOREM Exclusion == ~Unlinkable => (Spec => []MutualExclusion)
  <1> SUFFICES ASSUME ~Unlinkable PROVE Spec => []MutualExclusion
    OBVIOUS
  <1>1. ASSUME LockInv, SameFile, NEW t \in Threads, NEW u \in Threads, pc[t] = "in", pc[u] = "in"
        PROVE  t = u
    <2>1. fd[t] \in Inodes /\ fd[u] \in Inodes
      BY <1>1 DEF LockInv, TypeOK, Open, Inodes
    <2>2. flock[fd[t]] = t /\ flock[fd[u]] = u
      BY <1>1 DEF LockInv, InsideHoldsFlock
    <2>3. fd[t] = path /\ fd[u] = path
      BY <2>1, <1>1 DEF SameFile, Inodes
    <2> QED
      BY <2>2, <2>3
  <1>2. LockInv /\ SameFile => MutualExclusion
    BY <1>1 DEF MutualExclusion
  <1> QED
    BY <1>2, Invariance, PTL

-----------------------------------------------------------------------------
LEMMA HolderInside ==
  ASSUME MutualExclusion, NEW t \in Threads, pc[t] = "in"
  PROVE  Holder = t
  BY DEF Holder, MutualExclusion

LEMMA HolderInsideNext ==
  ASSUME MutualExclusion', NEW t \in Threads, pc'[t] = "in"
  PROVE  Holder' = t
  BY DEF Holder, MutualExclusion

LEMMA NobodyInside ==
  ASSUME \A t \in Threads : pc[t] # "in"
  PROVE  Holder = Nobody
  BY DEF Holder

LEMMA NobodyInsideNext ==
  ASSUME \A t \in Threads : pc'[t] # "in"
  PROVE  Holder' = Nobody
  BY DEF Holder

\* Who is inside stays the same, or nobody is any more.
LEMMA HolderStaysOrLeaves ==
  ASSUME MutualExclusion, MutualExclusion',
         \A t \in Threads : pc'[t] = "in" => pc[t] = "in"
  PROVE  [Abstract!Next]_Holder
  <1>1. CASE \A t \in Threads : pc[t] # "in"
    BY <1>1, NobodyInside, NobodyInsideNext
  <1>2. CASE \E t \in Threads : pc[t] = "in"
    <2>1. PICK t \in Threads : pc[t] = "in"
      BY <1>2
    <2>2. Holder = t
      BY <2>1, HolderInside
    <2>3. CASE pc'[t] = "in"
      BY <2>2, <2>3, HolderInsideNext
    <2>4. CASE pc'[t] # "in"
      <3>1. \A u \in Threads : pc'[u] # "in"
        BY <2>1, <2>4 DEF MutualExclusion
      <3>2. Holder' = Nobody
        BY <3>1, NobodyInsideNext
      <3> QED
        BY <2>2, <3>2, NobodyAssumption DEF Abstract!Next, Abstract!Leave
    <2> QED
      BY <2>3, <2>4
  <1> QED
    BY <1>1, <1>2

(* As long as the lock file stays, the lock implements Mutex: only Flock     *)
(* lets a thread in, and only when nobody is inside.                        *)
THEOREM Implements == ~Unlinkable => (Spec => ImplementsMutex)
  <1> SUFFICES ASSUME ~Unlinkable PROVE Spec => ImplementsMutex
    OBVIOUS
  <1>1. Init => Abstract!Init
    BY NobodyInside DEF Init, Abstract!Init
  <1>2. ASSUME LockInv, MutualExclusion, MutualExclusion', [Next]_vars
        PROVE  [Abstract!Next]_Holder
    <2>1. ASSUME NEW t \in Threads, Flock(t) PROVE [Abstract!Next]_Holder
      <3>1. pc'[t] = "in" /\ pc[t] = "flock"
        BY <1>2, <2>1 DEF Flock, Goto, LockInv, TypeOK
      <3>2. \A u \in Threads : pc[u] # "in"
        BY <1>2, <2>1, <3>1 DEF Flock, Goto, LockInv, TypeOK, MutualExclusion
      <3>3. Holder = Nobody /\ Holder' = t
        BY <1>2, <3>1, <3>2, NobodyInside, HolderInsideNext
      <3> QED
        BY <3>3 DEF Abstract!Next, Abstract!Enter
    <2>2. CASE \A t \in Threads : pc'[t] = "in" => pc[t] = "in"
      BY <1>2, <2>2, HolderStaysOrLeaves
    <2> QED
      BY ZenonT(60), <1>2, <2>1, <2>2
         DEF Next, vars, Step, Request, AcquireThread, ThreadBusy, OpenFails, OpenFile, FileBusy,
             AcquireFails, GiveUp, Unlock, UnlockFails, WriteFails, Release, CloseFails, Close, Crash,
             Unlink, Goto, LockInv, TypeOK
  <1> QED
    BY <1>1, <1>2, Exclusion, Invariance, PTL DEF Spec, ImplementsMutex, Abstract!Spec

(* Even when the lock file is removed while threads hold it, two threads of *)
(* one process are never inside together: the RLock of the process has one  *)
(* owner.                                                                  *)
THEOREM ThreadsExclude == Spec => []ThreadExclusion
  <1>1. LockInv => ThreadExclusion
    BY DEF LockInv, ThreadExclusion, ThreadsHoldRLock, Inside, Open
  <1> QED
    BY <1>1, Invariance, PTL

(* Whatever way a thread leaves, by a busy lock, an error of the operating  *)
(* system, __exit__ or the death of its process, it leaves no descriptor   *)
(* and no flock behind, and an RLock only in its own process and only after *)
(* an open() or a close() that raised.                                     *)
THEOREM LeaksKnown == Spec => []LeaksAreKnown
  <1>1. LockInv => LeaksAreKnown
    BY DEF LockInv, LeaksAreKnown, TypeOK, FlocksAreOpen, RLocksAreHeld, Inside, Open, PCs, Inodes
  <1> QED
    BY <1>1, Invariance, PTL
=============================================================================
