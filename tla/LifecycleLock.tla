--------------------------- MODULE LifecycleLock ---------------------------
(***************************************************************************)
(* The cross-process lock of nxctl/core/utils.py (class LifecycleLock).    *)
(* A thread first takes a process-local RLock, then opens the lock file,   *)
(* then takes flock(LOCK_EX) on the file it opened.  The kernel ties the   *)
(* flock to the inode, not to the name: a thread that opens the name after *)
(* somebody removed the file (`nxctl ps --kill`, `nxctl prune --all`)      *)
(* creates, opens and locks another inode.                                 *)
(***************************************************************************)
EXTENDS Integers, FiniteSets

CONSTANTS
    Threads,     \* every thread that may take the lock
    Processes,   \* the processes they belong to: CLI calls, the API, the daemon
    ProcOf,      \* the process of a thread
    MaxInode,    \* bounds how often the lock file is created again
    Unlinkable,  \* may the lock file be removed while the system runs?
    Nobody       \* the owner of a free lock

ASSUME ThreadsAssumption == ProcOf \in [Threads -> Processes]
ASSUME InodeAssumption   == MaxInode \in Nat \ {0}
ASSUME SwitchAssumption  == Unlinkable \in BOOLEAN
ASSUME NobodyAssumption  == Nobody \notin Threads

VARIABLES
    pc,       \* where each thread is in __enter__ / __exit__
    blocking, \* the constructor argument of the lock object of each thread
    rlock,    \* process -> owner of its RLock for this lock file
    leaked,   \* threads that acquired their RLock more often than they will
              \* release it
    path,     \* the inode the file name refers to, 0 when there is no file
    created,  \* how many inodes the name has referred to so far
    fd,       \* thread -> the inode its self.fd is open on, 0 when None
    flock     \* inode -> the thread whose descriptor holds the flock

vars == <<pc, blocking, rlock, leaked, path, created, fd, flock>>

Inodes == 1 .. MaxInode

\* "out" no lock object; "thread" at the RLock; "open" at open();
\* "flock" at flock(LOCK_EX); "in" inside the with statement;
\* "close" at the finally clause of __exit__; "dirty" there with metadata
\* that could not be written and are still in the buffer of the file.
PCs == {"out", "thread", "open", "flock", "in", "close", "dirty"}

\* Where self.fd is an open file.
Open == {"flock", "in", "close", "dirty"}

(* The types of the variables, descriptors included: a thread has one open  *)
(* from its open() to its close(), on every path between the two.           *)
TypeOK ==
    /\ pc \in [Threads -> PCs]
    /\ blocking \in [Threads -> BOOLEAN]
    /\ rlock \in [Processes -> Threads \cup {Nobody}]
    /\ leaked \subseteq Threads
    /\ path \in 0 .. MaxInode
    /\ created \in 0 .. MaxInode
    /\ fd \in [Threads -> 0 .. MaxInode]
    /\ \A t \in Threads : fd[t] # 0 <=> pc[t] \in Open
    /\ flock \in [Inodes -> Threads \cup {Nobody}]

Init ==
    /\ pc = [t \in Threads |-> "out"]
    /\ blocking = [t \in Threads |-> TRUE]
    /\ rlock = [p \in Processes |-> Nobody]
    /\ leaked = {}
    /\ path = 0
    /\ created = 0
    /\ fd = [t \in Threads |-> 0]
    /\ flock = [i \in Inodes |-> Nobody]

Goto(t, from, to) == pc[t] = from /\ pc' = [pc EXCEPT ![t] = to]

\* thread_lock.release(): one release for one acquire.
RLockReleasedBy(t) == IF t \in leaked THEN rlock ELSE [rlock EXCEPT ![ProcOf[t]] = Nobody]

\* fd.close(): the flock of that open file description goes with it.
ClosedBy(S) == [i \in Inodes |-> IF flock[i] \in S THEN Nobody ELSE flock[i]]

-----------------------------------------------------------------------------
(* __init__, then the call of __enter__.                                   *)
Request(t, b) ==
    /\ Goto(t, "out", "thread")
    /\ blocking' = [blocking EXCEPT ![t] = b]
    /\ UNCHANGED <<rlock, leaked, path, created, fd, flock>>

\* (With a bug: an RLock that is taken counts as free.)
AcquireAnyway(t) ==
    /\ Goto(t, "thread", "open")
    /\ rlock' = [rlock EXCEPT ![ProcOf[t]] = t]
    /\ UNCHANGED <<blocking, leaked, path, created, fd, flock>>

(* thread_lock.acquire(), blocking or not: an RLock is reentrant. *)
AcquireThread(t) ==
    /\ Goto(t, "thread", "open")
    /\ rlock[ProcOf[t]] \in {Nobody, t}
    /\ rlock' = [rlock EXCEPT ![ProcOf[t]] = t]
    /\ UNCHANGED <<blocking, leaked, path, created, fd, flock>>

(* thread_lock.acquire(blocking=False) fails: LockUnavailable. *)
ThreadBusy(t) ==
    /\ ~blocking[t]
    /\ Goto(t, "thread", "out")
    /\ rlock[ProcOf[t]] \notin {Nobody, t}
    /\ UNCHANGED <<blocking, rlock, leaked, path, created, fd, flock>>

(* open(lock_file, "a+") raises (no descriptor left, the directory gone     *)
(* since mkdir): it stands before the try, and nobody releases the RLock.   *)
OpenFails(t) ==
    /\ Goto(t, "open", "out")
    /\ leaked' = leaked \cup {t}
    /\ UNCHANGED <<blocking, rlock, path, created, fd, flock>>

(* open(lock_file, "a+") creates the file when the name refers to none. *)
OpenFile(t) ==
    /\ Goto(t, "open", "flock")
    /\ IF path # 0
       THEN /\ fd' = [fd EXCEPT ![t] = path]
            /\ UNCHANGED <<path, created>>
       ELSE /\ created < MaxInode
            /\ created' = created + 1
            /\ path' = created'
            /\ fd' = [fd EXCEPT ![t] = created']
    /\ UNCHANGED <<blocking, rlock, leaked, flock>>

\* (With a bug: the file is not locked.)
NoFlock(t) ==
    /\ Goto(t, "flock", "in")
    /\ flock' = [flock EXCEPT ![fd[t]] = t]
    /\ UNCHANGED <<blocking, rlock, leaked, path, created, fd>>

(* flock(LOCK_EX) is granted and the metadata is written. *)
Flock(t) ==
    /\ Goto(t, "flock", "in")
    /\ flock[fd[t]] = Nobody
    /\ flock' = [flock EXCEPT ![fd[t]] = t]
    /\ UNCHANGED <<blocking, rlock, leaked, path, created, fd>>

\* (With a bug: the except branches forget the descriptor.)
GiveUpOpen(t) ==
    /\ Goto(t, "flock", "out")
    /\ rlock' = RLockReleasedBy(t)
    /\ UNCHANGED <<blocking, leaked, path, created, fd, flock>>

\* (With a bug: the RLock is kept when the file cannot be locked.)
GiveUpHalfway(t) ==
    /\ Goto(t, "flock", "out")
    /\ fd' = [fd EXCEPT ![t] = 0]
    /\ flock' = ClosedBy({t})
    /\ UNCHANGED <<blocking, rlock, leaked, path, created>>

(* The except branches of __enter__: the descriptor is closed, the RLock    *)
(* is released, in a finally clause of its own so that a close() that       *)
(* raises does not matter, and the error is raised.                         *)
GiveUp(t) ==
    /\ Goto(t, "flock", "out")
    /\ fd' = [fd EXCEPT ![t] = 0]
    /\ flock' = ClosedBy({t})
    /\ rlock' = RLockReleasedBy(t)
    /\ UNCHANGED <<blocking, leaked, path, created>>

(* LOCK_NB on a file that is locked. *)
FileBusy(t) == ~blocking[t] /\ GiveUp(t) /\ flock[fd[t]] # Nobody

(* The same branches after an OSError: flock itself, or the write, flush or *)
(* fsync of the metadata once the flock is granted.                         *)
AcquireFails(t) == GiveUp(t) /\ flock[fd[t]] = Nobody

(* __exit__: the metadata is written, flock(LOCK_UN) ... *)
Unlock(t) ==
    /\ Goto(t, "in", "close")
    /\ flock' = ClosedBy({t})
    /\ UNCHANGED <<blocking, rlock, leaked, path, created, fd>>

(* ... unless fsync or flock raises ... *)
UnlockFails(t) ==
    /\ Goto(t, "in", "close")
    /\ UNCHANGED <<blocking, rlock, leaked, path, created, fd, flock>>

(* ... or the metadata cannot be written (no space left) and stay in the    *)
(* buffer of the file ...                                                   *)
WriteFails(t) ==
    /\ Goto(t, "in", "dirty")
    /\ UNCHANGED <<blocking, rlock, leaked, path, created, fd, flock>>

\* What fd.close() leaves of the descriptor and its flock: nothing, even when
\* it raises.
Close(t) ==
    /\ fd' = [fd EXCEPT ![t] = 0]
    /\ flock' = ClosedBy({t})
    /\ UNCHANGED <<blocking, path, created>>

\* (With a bug: the finally clause forgets the RLock.)
ReleaseFileOnly(t) ==
    /\ Goto(t, "close", "out") \/ Goto(t, "dirty", "out")
    /\ Close(t)
    /\ UNCHANGED <<rlock, leaked>>

(* ... then the finally clause: close, thread_lock.release(). *)
Release(t) ==
    /\ Goto(t, "close", "out") \/ Goto(t, "dirty", "out")
    /\ Close(t)
    /\ rlock' = RLockReleasedBy(t)
    /\ UNCHANGED leaked

(* close() writes the buffer once more and raises again: the descriptor is  *)
(* closed, and the release of the RLock that stands behind it is skipped.   *)
CloseFails(t) ==
    /\ Goto(t, "dirty", "out")
    /\ Close(t)
    /\ leaked' = leaked \cup {t}
    /\ UNCHANGED rlock

(* A process dies: the kernel closes its descriptors, its RLock vanishes.   *)
Crash(p) ==
    LET dead == {t \in Threads : ProcOf[t] = p} IN
    /\ \E t \in dead : pc[t] # "out"
    /\ pc' = [t \in Threads |-> IF t \in dead THEN "out" ELSE pc[t]]
    /\ fd' = [t \in Threads |-> IF t \in dead THEN 0 ELSE fd[t]]
    /\ flock' = ClosedBy(dead)
    /\ rlock' = [rlock EXCEPT ![p] = Nobody]
    /\ leaked' = leaked \ dead
    /\ UNCHANGED <<blocking, path, created>>

(* `nxctl ps --kill` clears locks_dir, `nxctl prune --all` removes          *)
(* runtime_dir: both without taking the lock.  The guard on created leaves  *)
(* an inode for the next open.                                              *)
Unlink ==
    /\ Unlinkable
    /\ path # 0
    /\ created < MaxInode
    /\ path' = 0
    /\ UNCHANGED <<pc, blocking, rlock, leaked, created, fd, flock>>

Step(t) ==
    \/ AcquireThread(t) \/ ThreadBusy(t) \/ OpenFile(t) \/ Flock(t)
    \/ FileBusy(t) \/ Unlock(t) \/ UnlockFails(t) \/ WriteFails(t)
    \/ Release(t) \/ CloseFails(t)

Next ==
    \/ \E t \in Threads : Step(t) \/ OpenFails(t) \/ AcquireFails(t)
    \/ \E t \in Threads, b \in BOOLEAN : Request(t, b)
    \/ \E p \in Processes : Crash(p)
    \/ Unlink

\* A thread that can take its next step takes it: bodies of the with
\* statement end (every docker call has a timeout), the kernel and the
\* interpreter grant a free lock to somebody.  Which waiter gets it is left
\* open: neither an RLock nor flock promises an order.
Spec == Init /\ [][Next]_vars /\ \A t \in Threads : WF_vars(Step(t))

-----------------------------------------------------------------------------
(* At most one thread of the machine is inside the with statement: the     *)
(* "Cross-process lock for global lifecycle mutations" of the docstring.   *)
MutualExclusion ==
    \A t, u \in Threads : pc[t] = "in" /\ pc[u] = "in" => t = u

\* The thread inside the with statement.
Holder == IF \E t \in Threads : pc[t] = "in" THEN CHOOSE t \in Threads : pc[t] = "in" ELSE Nobody

Abstract == INSTANCE Mutex WITH holder <- Holder

(* With a lock file that stays, the protocol of thread lock, file and flock *)
(* implements a mutex: a thread gets inside only after the one before it    *)
(* has left, whatever fails on the way.                                     *)
ImplementsMutex == Abstract!Spec

(* What is left when the lock file may be removed: the threads of one      *)
(* process (the daemon and the API server it starts with --with-api) still *)
(* exclude each other, through the RLock alone.                            *)
ThreadExclusion ==
    \A t, u \in Threads :
        pc[t] = "in" /\ pc[u] = "in" /\ ProcOf[t] = ProcOf[u] => t = u

(* Two ways out leak the RLock: an open() that fails, before the try, and a *)
(* close() that fails, in the finally.  Every other way gives everything    *)
(* back, and even these two keep neither the descriptor nor the flock, and  *)
(* no RLock but that of their own process.                                  *)
LeaksAreKnown ==
    \A t \in Threads : pc[t] = "out" =>
        /\ fd[t] = 0
        /\ \A i \in Inodes : flock[i] # t
        /\ \A p \in Processes : rlock[p] = t => p = ProcOf[t] /\ t \in leaked

\* Steps the lock has no say in: the operating system refuses, a process dies.
Failure == (\E t \in Threads : AcquireFails(t) \/ OpenFails(t)) \/ (\E p \in Processes : Crash(p))

\* The RLock this thread waits for has been leaked by another one.
LockedOut(t) == pc[t] = "thread" /\ rlock[ProcOf[t]] \in leaked \ {t}

(* The lock does not wedge the machine: unless the operating system refuses *)
(* again and again, a thread that waits gets an answer or some thread is    *)
(* inside, or the RLock of its own process is leaked.  A leak in one        *)
(* process, however it came about, never stops the others.  Neither the     *)
(* RLock nor flock promises WHICH waiter is served.                         *)
SomeoneGetsIn ==
    \/ []<><<Failure>>_vars
    \/ \A t \in Threads :
          pc[t] \in {"thread", "open", "flock"}
              ~> (pc[t] = "out" \/ LockedOut(t) \/ \E u \in Threads : pc[u] = "in")

=============================================================================
