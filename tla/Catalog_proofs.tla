--------------------------- MODULE Catalog_proofs ---------------------------
(***************************************************************************)
(* Proofs about Catalog: its types, that no entry ever takes over the      *)
(* runtime of another one, and that no container is lost without an excuse.*)
(***************************************************************************)
EXTENDS Catalog, FiniteSetTheorems, TLAPS

(* A command past its beginning has a challenge, and enables only what it   *)
(* has discovered.                                                          *)
Sound(p) ==
    /\ p.pc \in {"start", "save", "mark", "stop", "stopped", "delete", "again"} => p.n \in Names
    /\ p.pc = "register" => p.on \subseteq p.todo
SoundProc == {p \in Proc : Sound(p)}
Named == proc \in [Actors -> SoundProc]

(* TypeOK but for proc.                                                     *)
DataOK ==
    /\ entry \in [Names -> 0 .. MaxId] /\ lastId \in 0 .. MaxId
    /\ \A m, n \in Names : entry[m] = entry[n] /\ m # n => entry[n] = 0
    /\ enabled \subseteq {entry[n] : n \in Names} \ {0}
    /\ runs \in [Ids -> Names \cup {None}]
    /\ container \subseteq Names /\ folder \subseteq Names
    /\ excused \subseteq container

(* An id that was handed out for n, and never for another name.             *)
HandedTo(i, n) == i <= lastId /\ \A m \in Names : entry[m] = i => m = n

(* Ids come from the sequence; those of rows that run, and those a start    *)
(* will write its row under, were handed out for the name of the runtime.   *)
Owned ==
    /\ \A n \in Names : entry[n] <= lastId
    /\ \A i \in Ids : runs[i] # None => HandedTo(i, runs[i])
    /\ proc["job"].pc \in {"start", "save"} =>
          proc["job"].id \in Ids /\ HandedTo(proc["job"].id, proc["job"].n)

CatalogInv == DataOK /\ Named /\ Owned

-----------------------------------------------------------------------------
(* Helpers.                                                                 *)

(* What remove resolves to is an entry.                                     *)
LEMMA ResolveFinds ==
  ASSUME NEW t \in Typed, Resolve(t) # None
  PROVE  Resolve(t) \in Names /\ entry[Resolve(t)] # 0
  <1> DEFINE part == {n \in Entries : <<t, n>> \in Within}
             prefix == {n \in part : <<t, n>> \in Starts}
             Only(S) == IF Cardinality(S) = 1 THEN CHOOSE n \in S : TRUE ELSE None
  <1>1. ASSUME NEW S \in SUBSET Entries, Only(S) # None PROVE Only(S) \in Entries
    <2>1. Cardinality(S) = 1 /\ S # {}
      BY <1>1, FS_EmptySet
    <2> QED
      BY <2>1
  <1>2. part \in SUBSET Entries /\ prefix \in SUBSET Entries
    OBVIOUS
  <1>3. Resolve(t) = IF t \in Entries THEN t
                     ELSE IF Cardinality(part) = 1 THEN Only(part) ELSE Only(prefix)
    BY DEF Resolve
  <1>4. Resolve(t) \in Entries
    <2>1. CASE t \in Entries
      BY <1>3, <2>1
    <2>2. CASE t \notin Entries /\ Cardinality(part) = 1
      <3>1. Resolve(t) = Only(part)
        BY <1>3, <2>2
      <3> HIDE DEF Only, part
      <3> QED
        BY <1>1, <1>2, <3>1
    <2>3. CASE t \notin Entries /\ Cardinality(part) # 1
      <3>1. Resolve(t) = Only(prefix)
        BY <1>3, <2>3
      <3> HIDE DEF Only, prefix
      <3> QED
        BY <1>1, <1>2, <3>1
    <2> QED
      BY <2>1, <2>2, <2>3
  <1> QED
    BY <1>4 DEF Entries

(* What stopping a runtime does to the rows.                                *)
LEMMA StoppedRows ==
  ASSUME DataOK, NEW id
  PROVE  /\ Stopped(id) \in [Ids -> Names \cup {None}]
         /\ \A i \in Ids : Stopped(id)[i] # None => Stopped(id)[i] = runs[i]
  BY DEF DataOK, Stopped

LEMMA TypesTogether == DataOK /\ Named => TypeOK
  BY DEF DataOK, Named, SoundProc, TypeOK

(* The steps of a command: what it goes on with.                            *)
LEMMA IdleSound == Idle \in SoundProc /\ Idle.pc = "free"
  BY BoundAssumption DEF Idle, SoundProc, Sound, Proc

LEMMA GoesOn ==
  ASSUME NEW p \in SoundProc, p.n \in Names,
         NEW pc \in {"start", "save", "mark", "stop", "stopped", "delete", "forget", "restart",
                     "again"}
  PROVE  /\ [p EXCEPT !.pc = pc] \in SoundProc
         /\ \A i \in 0 .. MaxId : [p EXCEPT !.pc = pc, !.id = i] \in SoundProc
  <1>1. p \in Proc
    BY DEF SoundProc
  <1>2. [p EXCEPT !.pc = pc] \in Proc
    BY <1>1 DEF Proc
  <1>3. ASSUME NEW i \in 0 .. MaxId PROVE [p EXCEPT !.pc = pc, !.id = i] \in Proc
    BY <1>1 DEF Proc
  <1> QED
    BY <1>1, <1>2, <1>3 DEF SoundProc, Sound, Proc

LEMMA OnwardSound ==
  ASSUME Named, NEW a \in Actors, NEW ok \in BOOLEAN, proc[a].n \in Names
  PROVE  /\ Onward(a) \in SoundProc /\ Onward(a).pc \in {"free", "restart"}
         /\ AfterStop(a, ok) \in SoundProc
         /\ AfterStop(a, ok).pc \in {"free", "restart", "again", "delete"}
  <1> DEFINE p == proc[a]
  <1>1. p \in SoundProc /\ p \in Proc /\ p.n \in Names
    BY DEF Named, SoundProc
  <1>0. 0 \in 0 .. MaxId
    BY BoundAssumption
  <1>2. [p EXCEPT !.pc = "restart", !.n = None, !.id = 0] \in SoundProc
    <2> DEFINE q == [p EXCEPT !.pc = "restart", !.n = None, !.id = 0]
    <2>1. q \in Proc
      BY <1>0, <1>1 DEF Proc
    <2>2. q.pc = "restart"
      BY <1>1 DEF Proc
    <2> QED
      BY <2>1, <2>2 DEF SoundProc, Sound
  <1>3. Onward(a) \in SoundProc /\ Onward(a).pc \in {"free", "restart"}
    BY <1>1, <1>2, IdleSound DEF Onward, Proc
  <1>4. /\ [p EXCEPT !.pc = "delete", !.id = 0] \in SoundProc
        /\ [p EXCEPT !.pc = "again", !.id = 0] \in SoundProc
    <2> HIDE DEF p
    <2> QED
      BY <1>0, <1>1, GoesOn
  <1>5. /\ [p EXCEPT !.pc = "delete", !.id = 0].pc = "delete"
        /\ [p EXCEPT !.pc = "again", !.id = 0].pc = "again"
    BY <1>1 DEF Proc
  <1> QED
    BY <1>3, <1>4, <1>5 DEF AfterStop

(* The others stay where they are.                                          *)
LEMMA OneMoves ==
  ASSUME Named, NEW a \in Actors, NEW p \in SoundProc, proc' = [proc EXCEPT ![a] = p]
  PROVE  Named'
  BY DEF Named, SoundProc, Sound, Proc, Ids

LEMMA OneGoes ==
  ASSUME Named, NEW a \in Actors, proc[a].n \in Names,
         NEW pc \in {"start", "save", "mark", "stop", "stopped", "delete", "forget", "restart",
                     "again"},
         proc' = [proc EXCEPT ![a].pc = pc]
  PROVE  Named'
  <1>1. proc[a] \in SoundProc
    BY DEF Named
  <1>2. [proc[a] EXCEPT !.pc = pc] \in SoundProc
    BY <1>1, GoesOn
  <1>3. proc' = [proc EXCEPT ![a] = [proc[a] EXCEPT !.pc = pc]]
    BY DEF Named
  <1> QED
    BY <1>2, <1>3, OneMoves

-----------------------------------------------------------------------------
(* Types.                                                                   *)

LEMMA NamedStep == DataOK /\ Named /\ [Next]_vars => Named'
  <1> SUFFICES ASSUME DataOK, Named, [Next]_vars PROVE Named'
    OBVIOUS
  <1>0. "job" \in Actors /\ "adm" \in Actors /\ Idle \in Proc /\ Idle \in SoundProc
    BY IdleSound DEF Actors, SoundProc
  <1>a. \A n \in Names : entry[n] \in 0 .. MaxId
    BY DEF DataOK
  <1>b. proc["job"] \in SoundProc /\ proc["adm"] \in SoundProc
    BY <1>0 DEF Named
  <1>c. \A a \in Actors : proc[a].pc \in {"start", "save", "mark", "stop", "stopped", "delete",
                                          "again"} => proc[a].n \in Names
    BY DEF Named, SoundProc, Sound
  <1>1. ASSUME NEW n \in Names, NEW force \in BOOLEAN, BeginUp(n, force) PROVE Named'
    <2> DEFINE p == [Idle EXCEPT !.op = "up", !.pc = "start", !.n = n, !.id = entry[n]]
    <2>1. p \in Proc /\ p.n = n /\ p.pc = "start"
      BY <1>0, <1>a DEF Proc
    <2>2. p \in SoundProc
      BY <2>1 DEF SoundProc, Sound
    <2> QED
      BY <1>0, <1>1, <2>2, OneMoves DEF BeginUp
  <1>2. CASE Compose
    BY <1>0, <1>2, <1>c, OneGoes DEF Compose, At, Goto
  <1>3. CASE ComposeFails
    BY <1>0, <1>3, <1>c, OnwardSound, OneMoves DEF ComposeFails, At
  <1>4. CASE SaveRuntime
    BY <1>0, <1>4, <1>c, OnwardSound, OneMoves DEF SaveRuntime, At
  <1>5. ASSUME NEW n \in Names, BeginDown(n) PROVE Named'
    <2> DEFINE p == [Idle EXCEPT !.op = "down", !.pc = "mark", !.n = n]
    <2>1. p \in Proc /\ p.n = n /\ p.pc = "mark"
      BY <1>0 DEF Proc
    <2>2. p \in SoundProc
      BY <2>1 DEF SoundProc, Sound
    <2> QED
      BY <1>0, <1>5, <2>2, OneMoves DEF BeginDown
  <1>6. ASSUME NEW n \in Names, Add(n) PROVE Named'
    BY <1>6 DEF Add, Named, SoundProc, Sound, Proc, Ids
  <1>7. ASSUME NEW n \in Names, Restart(n) PROVE Named'
    <2> DEFINE q == proc["job"]
               p == [q EXCEPT !.pc = "stop", !.n = n, !.todo = q.todo \ {n}]
               r == [q EXCEPT !.todo = q.todo \ {n}]
    <2>1. q \in Proc /\ q.pc = "restart"
      BY <1>7, <1>b DEF SoundProc, Restart, At
    <2>2. p \in Proc /\ p.n = n /\ p.pc = "stop" /\ r \in Proc /\ r.pc = "restart"
      BY <2>1 DEF Proc
    <2>3. p \in SoundProc /\ r \in SoundProc
      BY <2>2 DEF SoundProc, Sound
    <2>4. proc' = [proc EXCEPT !["job"] = p] \/ proc' = [proc EXCEPT !["job"] = r]
      BY <1>7 DEF Restart
    <2> QED
      BY <1>0, <2>3, <2>4, OneMoves
  <1>8. ASSUME NEW a \in Actors, MarkStopped(a) PROVE Named'
    BY <1>8, <1>c, OneGoes DEF MarkStopped, At, Goto
  <1>9. ASSUME NEW a \in Actors, ComposeDown(a) PROVE Named'
    <2> DEFINE p == [proc[a] EXCEPT !.pc = "stopped", !.id = entry[proc[a].n]]
    <2>1. proc[a] \in SoundProc /\ proc[a].n \in Names
      BY <1>9, <1>c DEF Named, ComposeDown, At
    <2>2. p \in SoundProc
      BY <1>a, <2>1, GoesOn
    <2>3. proc' = [proc EXCEPT ![a] = p]
      BY <1>9 DEF ComposeDown, Named
    <2> QED
      BY <2>2, <2>3, OneMoves
  <1>10. ASSUME NEW a \in Actors, SaveStopped(a) PROVE Named'
    BY <1>10, <1>c, OnwardSound, OneMoves DEF SaveStopped, At
  <1>11. ASSUME NEW a \in Actors, StopFails(a) PROVE Named'
    BY <1>11, <1>c, OnwardSound, OneMoves DEF StopFails, At
  <1>12. ASSUME NEW a \in Actors, StopWithoutFolder(a) PROVE Named'
    BY <1>12, <1>c, OnwardSound, OneMoves DEF StopWithoutFolder, At
  <1>13. ASSUME NEW t \in Typed, BeginRemove(t) PROVE Named'
    <2> DEFINE n == Resolve(t)
               p == [Idle EXCEPT !.op = "remove", !.pc = IF t = n THEN "mark" ELSE "delete",
                                 !.t = t, !.n = n, !.ids = {entry[n]}]
    <2>1. n \in Names /\ {entry[n]} \subseteq Ids
      <3>1. n # None
        BY <1>13 DEF BeginRemove
      <3>2. n \in Names /\ entry[n] # 0
        BY <3>1, ResolveFinds
      <3> HIDE DEF n
      <3> QED
        BY <1>a, <3>2, BoundAssumption DEF Ids
    <2>2. proc' = [proc EXCEPT !["adm"] = p]
      BY <1>13 DEF BeginRemove
    <2> HIDE DEF n
    <2>3. p \in Proc /\ p.n = n /\ p.pc \in {"mark", "delete"}
      BY <1>0, <2>1 DEF Proc
    <2>4. p \in SoundProc
      BY <2>1, <2>3 DEF SoundProc, Sound
    <2> QED
      BY <1>0, <2>2, <2>4, OneMoves
  <1>14. CASE BeginPrune
    <2> DEFINE stale == {n \in Entries : entry[n] \notin enabled}
               p(n) == [Idle EXCEPT !.op = "prune", !.pc = "mark", !.n = n,
                                    !.todo = stale \ {n}, !.ids = {entry[m] : m \in stale}]
    <2>1. PICK n \in stale : proc' = [proc EXCEPT !["adm"] = p(n)]
      BY <1>14 DEF BeginPrune
    <2>2. stale \subseteq Names /\ {entry[m] : m \in stale} \subseteq Ids
      BY <1>a, BoundAssumption DEF Entries, Ids
    <2> HIDE DEF stale
    <2>3. p(n) \in Proc /\ p(n).n = n /\ p(n).pc = "mark" /\ n \in Names
      BY <1>0, <2>1, <2>2 DEF Proc
    <2>4. p(n) \in SoundProc
      BY <2>3 DEF SoundProc, Sound
    <2> QED
      BY <1>0, <2>1, <2>4, OneMoves
  <1>15. CASE DeleteFolder
    <2> DEFINE q == proc["adm"]
               p(n) == [q EXCEPT !.pc = "mark", !.n = n, !.todo = q.todo \ {n}]
    <2>1. q \in Proc /\ q.n \in Names
      BY <1>0, <1>15, <1>b, <1>c DEF SoundProc, DeleteFolder, At
    <2>2. CASE Goto("adm", "forget")
      BY <1>0, <2>1, <2>2, OneGoes DEF Goto
    <2>3. CASE \E n \in q.todo : proc' = [proc EXCEPT !["adm"] = p(n)]
      <3>1. PICK n \in q.todo : proc' = [proc EXCEPT !["adm"] = p(n)]
        BY <2>3
      <3>2. p(n) \in Proc /\ p(n).n = n /\ p(n).pc = "mark" /\ n \in Names
        BY <2>1, <3>1 DEF Proc
      <3>3. p(n) \in SoundProc
        BY <3>2 DEF SoundProc, Sound
      <3> QED
        BY <1>0, <3>1, <3>3, OneMoves
    <2> QED
      BY <1>15, <2>2, <2>3 DEF DeleteFolder
  <1>16. CASE Forget
    BY <1>0, <1>16, OneMoves DEF Forget, Done
  <1>17. CASE Pull
    <2> DEFINE p(found, on) == [Idle EXCEPT !.op = "sync", !.pc = "register",
                                            !.todo = found, !.on = on]
    <2>1. PICK found \in SUBSET Names, on \in SUBSET Names :
            on \subseteq found /\ proc' = [proc EXCEPT !["job"] = p(found, on)]
      BY <1>17 DEF Pull
    <2>2. /\ p(found, on) \in Proc /\ p(found, on).pc = "register"
          /\ p(found, on).on = on /\ p(found, on).todo = found
      BY <1>0, <2>1 DEF Proc
    <2>3. p(found, on) \in SoundProc
      BY <2>1, <2>2 DEF SoundProc, Sound
    <2> QED
      BY <1>0, <2>1, <2>3, OneMoves
  <1>18. CASE Register
    <2> DEFINE q == proc["job"]
               p(changed) == [q EXCEPT !.pc = "restart", !.todo = changed, !.on = {}]
    <2>1. PICK changed \in SUBSET q.todo : proc' = [proc EXCEPT !["job"] = p(changed)]
      BY <1>18 DEF Register
    <2>2. q \in Proc
      BY <1>b DEF SoundProc
    <2>3. changed \in SUBSET Names
      BY <2>1, <2>2 DEF Proc
    <2>4. p(changed) \in Proc /\ p(changed).pc = "restart"
      BY <2>2, <2>3 DEF Proc
    <2>5. p(changed) \in SoundProc
      BY <2>4 DEF SoundProc, Sound
    <2> QED
      BY <1>0, <2>1, <2>5, OneMoves
  <1>19. CASE RegisterFails
    BY <1>0, <1>19, OneMoves DEF RegisterFails, Done
  <1>20. CASE StartAgain
    <2> DEFINE q == proc["job"]
               p == [q EXCEPT !.pc = "start", !.id = entry[q.n]]
    <2>1. q \in SoundProc /\ q.n \in Names
      BY <1>0, <1>20, <1>b, <1>c DEF StartAgain, At
    <2>2. p \in SoundProc /\ Onward("job") \in SoundProc
      BY <1>0, <1>a, <2>1, GoesOn, OnwardSound
    <2>3. proc' = [proc EXCEPT !["job"] = p] \/ proc' = [proc EXCEPT !["job"] = Onward("job")]
      BY <1>20 DEF StartAgain
    <2> QED
      BY <1>0, <2>2, <2>3, OneMoves
  <1>21. CASE EndSync
    BY <1>0, <1>21, OneMoves DEF EndSync, Done
  <1>22. CASE UNCHANGED vars
    BY <1>22 DEF vars, Named, SoundProc, Sound, Proc, Ids
  <1>23. CASE SaveFails
    BY <1>0, <1>23, <1>c, OnwardSound, OneMoves DEF SaveFails, At
  <1>24. ASSUME NEW a \in Actors, StopRefused(a) PROVE Named'
    BY <1>24, <1>c, OnwardSound, OneMoves DEF StopRefused, At
  <1>25. CASE ForgetFails
    BY <1>0, <1>25, OneMoves DEF ForgetFails, Done
  <1>26. ASSUME NEW n \in Names, Status(n) PROVE Named'
    BY <1>26 DEF Status, Named, SoundProc, Sound, Proc, Ids
  <1>27. ASSUME NEW a \in Actors, Crash(a) PROVE Named'
    BY <1>0, <1>27, OneMoves DEF Crash, Done
  <1> QED
    BY <1>1, <1>2, <1>3, <1>4, <1>5, <1>6, <1>7, <1>8, <1>9, <1>10, <1>11, <1>12, <1>13, <1>14,
       <1>15, <1>16, <1>17, <1>18, <1>19, <1>20, <1>21, <1>22, <1>23, <1>24, <1>25, <1>26, <1>27
       DEF Next

(* What Register does to the entries: those that are there keep their ids,  *)
(* and the new ones get ids of the sequence.                                *)
LEMMA Registered ==
  ASSUME DataOK, Named, Owned, Register
  PROVE  /\ entry' \in [Names -> 0 .. MaxId] /\ lastId' \in 0 .. MaxId /\ lastId <= lastId'
         /\ \A n \in Names : \/ entry'[n] = entry[n]
                             \/ entry[n] = 0 /\ lastId < entry'[n] /\ entry'[n] <= lastId'
         /\ \A m, n \in Names : entry'[m] = entry'[n] /\ m # n => entry'[n] = 0
         /\ enabled' \subseteq {entry'[n] : n \in Names} \ {0}
  <1> DEFINE p == proc["job"]
             new == p.todo \ Entries
             c == Cardinality(new)
             ids == NextId .. lastId + c
  <1>1. p \in SoundProc /\ p.pc = "register"
    BY DEF Named, Register, At, Actors
  <1>2. p.todo \subseteq Names /\ p.on \subseteq p.todo
    BY <1>1 DEF SoundProc, Sound, Proc
  <1>3. c \in Nat
    <2>1. IsFiniteSet(Names)
      BY TypedAssumption
    <2> QED
      BY <1>2, <2>1, FS_Subset, FS_CardinalityType
  <1>4. PICK f \in [new -> ids] :
          /\ \A m, n \in new : f[m] = f[n] => m = n
          /\ entry' = [n \in Names |-> IF n \in new THEN f[n] ELSE entry[n]]
    BY DEF Register
  <1>5. lastId + c <= MaxId /\ lastId' = lastId + c /\ enabled' = {entry'[n] : n \in p.on}
    BY DEF Register
  <1>6. lastId \in Nat /\ MaxId \in Nat /\ \A n \in Names : entry[n] \in Nat /\ entry[n] <= lastId
                                                            /\ entry[n] <= MaxId
    BY BoundAssumption DEF DataOK, Owned
  <1>7. \A n \in Names : n \in Entries <=> entry[n] # 0
    BY DEF Entries
  <1> HIDE DEF c
  <1>8. \A n \in new : f[n] \in Nat /\ lastId < f[n] /\ f[n] <= lastId + c
    BY <1>3, <1>4, <1>6 DEF NextId
  <1>9. \A n \in Names : entry'[n] = IF n \in new THEN f[n] ELSE entry[n]
    BY <1>4
  <1> HIDE DEF ids, p
  <1>10. \A n \in new : entry[n] = 0
    BY <1>2, <1>7
  <1>11. \A n \in p.todo : entry'[n] # 0 /\ n \in Names
    BY <1>2, <1>6, <1>7, <1>8, <1>9
  <1> HIDE DEF new
  <1>12. entry' \in [Names -> 0 .. MaxId] /\ lastId' \in 0 .. MaxId /\ lastId <= lastId'
    <2>1. \A n \in Names : entry'[n] \in 0 .. MaxId
      BY <1>3, <1>5, <1>6, <1>8, <1>9
    <2>2. entry' \in [Names -> 0 .. MaxId]
      BY <1>4, <2>1
    <2> QED
      BY <1>3, <1>5, <1>6, <2>2
  <1>13. \A n \in Names : \/ entry'[n] = entry[n]
                          \/ entry[n] = 0 /\ lastId < entry'[n] /\ entry'[n] <= lastId'
    BY <1>5, <1>8, <1>9, <1>10
  <1>14. ASSUME NEW m \in Names, NEW n \in Names, entry'[m] = entry'[n], m # n
         PROVE  entry'[n] = 0
    <2>1. CASE m \in new /\ n \in new
      BY <1>4, <1>9, <1>14, <2>1
    <2>2. CASE m \notin new /\ n \notin new
      BY <1>9, <1>14, <2>2 DEF DataOK
    <2>3. CASE (m \in new /\ n \notin new) \/ (m \notin new /\ n \in new)
      BY <1>6, <1>8, <1>9, <1>14, <2>3
    <2> QED
      BY <2>1, <2>2, <2>3
  <1>15. enabled' \subseteq {entry'[n] : n \in Names} \ {0}
    BY <1>2, <1>5, <1>11
  <1> QED
    BY <1>12, <1>13, <1>14, <1>15

(* What Add does to them.                                                   *)
LEMMA Added ==
  ASSUME DataOK, Owned, NEW k \in Names, Add(k)
  PROVE  /\ entry' \in [Names -> 0 .. MaxId] /\ lastId' \in 0 .. MaxId /\ lastId <= lastId'
         /\ \A n \in Names : \/ entry'[n] = entry[n]
                             \/ entry[n] = 0 /\ lastId < entry'[n] /\ entry'[n] <= lastId'
         /\ \A m, n \in Names : entry'[m] = entry'[n] /\ m # n => entry'[n] = 0
         /\ enabled' \subseteq {entry'[n] : n \in Names} \ {0}
  <1>1. /\ lastId \in Nat /\ MaxId \in Nat
        /\ \A n \in Names : entry[n] \in Nat /\ entry[n] <= lastId /\ entry[n] <= MaxId
    BY BoundAssumption DEF DataOK, Owned
  <1>2. /\ entry[k] = 0 /\ lastId < MaxId /\ lastId' = lastId + 1
        /\ entry' = [entry EXCEPT ![k] = lastId + 1] /\ enabled' = enabled \cup {lastId + 1}
    BY DEF Add, NextId
  <1>3. entry \in [Names -> 0 .. MaxId]
    BY DEF DataOK
  <1>4. \A n \in Names : entry'[n] = IF n = k THEN lastId + 1 ELSE entry[n]
    BY <1>2, <1>3
  <1>5. entry' \in [Names -> 0 .. MaxId] /\ lastId' \in 0 .. MaxId /\ lastId <= lastId'
    BY <1>1, <1>2, <1>3
  <1>6. \A m, n \in Names : entry'[m] = entry'[n] /\ m # n => entry'[n] = 0
    BY <1>1, <1>4 DEF DataOK
  <1>7. enabled' \subseteq {entry'[n] : n \in Names} \ {0}
    <2>1. \A i \in enabled : i # 0 /\ \E n \in Names : i = entry[n]
      BY DEF DataOK
    <2>2. \A i \in enabled : i # 0 /\ \E n \in Names : i = entry'[n]
      BY <1>2, <1>4, <2>1
    <2>3. lastId + 1 # 0 /\ lastId + 1 = entry'[k]
      BY <1>1, <1>4
    <2> QED
      BY <1>2, <2>2, <2>3
  <1> QED
    BY <1>1, <1>2, <1>4, <1>5, <1>6, <1>7

(* What Forget does to them.                                                *)
LEMMA Forgotten ==
  ASSUME DataOK, Forget
  PROVE  /\ entry' \in [Names -> 0 .. MaxId]
         /\ \A n \in Names : entry'[n] = entry[n] \/ entry'[n] = 0
         /\ \A m, n \in Names : entry'[m] = entry'[n] /\ m # n => entry'[n] = 0
         /\ enabled' \subseteq {entry'[n] : n \in Names} \ {0}
         /\ runs' \in [Ids -> Names \cup {None}]
         /\ \A i \in Ids : runs'[i] # None => runs'[i] = runs[i]
         /\ excused' \subseteq container'
  <1> DEFINE p == proc["adm"]
  <1>1. /\ entry' = [n \in Names |-> IF entry[n] \in p.ids THEN 0 ELSE entry[n]]
        /\ enabled' = enabled \ p.ids
        /\ runs' = [i \in Ids |-> IF i \in p.ids THEN None ELSE runs[i]]
        /\ container' = container
        /\ excused' \subseteq excused \cup container
    BY DEF Forget, Excused
  <1>2. entry' \in [Names -> 0 .. MaxId]
    BY <1>1, BoundAssumption DEF DataOK
  <1>3. \A n \in Names : entry'[n] = IF entry[n] \in p.ids THEN 0 ELSE entry[n]
    BY <1>1
  <1>4. enabled' \subseteq {entry'[n] : n \in Names} \ {0}
    <2>1. \A i \in enabled : i # 0 /\ \E n \in Names : i = entry[n]
      BY DEF DataOK
    <2>2. \A i \in enabled : i \notin p.ids => \E n \in Names : i = entry'[n]
      BY <1>3, <2>1
    <2> QED
      BY <1>1, <2>1, <2>2
  <1>5. \A m, n \in Names : entry'[m] = entry'[n] /\ m # n => entry'[n] = 0
    BY <1>3 DEF DataOK
  <1> QED
    BY <1>1, <1>2, <1>3, <1>4, <1>5 DEF DataOK

(* How a step changes the entries, the rows and what the job is about to    *)
(* start: an id is kept, dropped, or taken from the sequence;               *)
Handing ==
    /\ lastId <= lastId'
    /\ \A n \in Names : \/ entry'[n] \in {0, entry[n]}
                        \/ lastId < entry'[n] /\ entry'[n] <= lastId'

(* only the job that saves makes a row run;                                 *)
RowsKept ==
    \A i \in Ids : runs'[i] # None =>
        \/ runs'[i] = runs[i]
        \/ proc["job"].pc = "save" /\ i = proc["job"].id /\ runs'[i] = proc["job"].n

(* and a start takes the id that its challenge has.                         *)
StartsKept ==
    proc'["job"].pc \in {"start", "save"} =>
        \/ /\ proc["job"].pc \in {"start", "save"}
           /\ proc'["job"].id = proc["job"].id /\ proc'["job"].n = proc["job"].n
        \/ \E n \in Names : /\ proc'["job"].n = n /\ proc'["job"].id = entry[n]
                            /\ entry[n] # 0 /\ UNCHANGED <<entry, lastId>>

LEMMA DataStep ==
  DataOK /\ Named /\ Owned /\ [Next]_vars => DataOK' /\ Handing /\ RowsKept
  <1> SUFFICES ASSUME DataOK, Named, Owned, [Next]_vars PROVE DataOK' /\ Handing /\ RowsKept
    OBVIOUS
  <1> DEFINE Kept == UNCHANGED <<entry, enabled, lastId>>
             Ended == /\ runs' \in [Ids -> Names \cup {None}]
                      /\ \A i \in Ids : runs'[i] # None => runs'[i] = runs[i]
  <1>a. lastId \in Nat
    BY DEF DataOK
  <1>b. ASSUME Kept, Ended, container' \subseteq Names, folder' \subseteq Names,
               excused' \subseteq container'
        PROVE  DataOK' /\ Handing /\ RowsKept
    <2>1. DataOK'
      BY <1>b DEF DataOK
    <2>2. Handing
      BY <1>a, <1>b DEF Handing
    <2> QED
      BY <1>b, <2>1, <2>2 DEF RowsKept
  <1>c. UNCHANGED runs => Ended
    BY DEF DataOK
  <1>d. \A id : runs' = Stopped(id) => Ended
    BY StoppedRows
  <1>e. container \subseteq Names /\ folder \subseteq Names /\ excused \subseteq container
    BY DEF DataOK
  <1>f. \A a \in Actors : proc[a].pc \in {"start", "save", "mark", "stop", "stopped", "delete",
                                          "again"} => proc[a].n \in Names
    BY DEF Named, SoundProc, Sound
  <1>g. "job" \in Actors /\ "adm" \in Actors
    BY DEF Actors
  <1>h. \A kind, n : Excused(kind, n) \subseteq container
    BY DEF Excused
  <1> HIDE DEF Ended
  <1>1. ASSUME NEW n \in Names, NEW force \in BOOLEAN, BeginUp(n, force)
        PROVE DataOK' /\ Handing /\ RowsKept
    BY <1>1, <1>b, <1>c, <1>e DEF BeginUp
  <1>2. CASE Compose
    BY <1>2, <1>b, <1>c, <1>e, <1>f, <1>g DEF Compose, At
  <1>3. CASE ComposeFails
    BY <1>3, <1>b, <1>c, <1>e, <1>f, <1>g DEF ComposeFails, At
  <1>4. CASE SaveRuntime
    <2> DEFINE p == proc["job"]
    <2>1. p.pc = "save" /\ p.n \in Names
      BY <1>4, <1>f, <1>g DEF SaveRuntime, At
    <2>2. runs' = [runs EXCEPT ![p.id] = p.n] /\ Kept /\ UNCHANGED <<container, folder, excused>>
      BY <1>4 DEF SaveRuntime
    <2>3. runs' \in [Ids -> Names \cup {None}]
      BY <2>1, <2>2 DEF DataOK
    <2>4. DataOK'
      BY <2>2, <2>3 DEF DataOK
    <2>5. Handing
      BY <1>a, <2>2 DEF Handing
    <2>6. RowsKept
      BY <2>1, <2>2 DEF RowsKept, DataOK
    <2> QED
      BY <2>4, <2>5, <2>6
  <1>5. ASSUME NEW n \in Names, BeginDown(n) PROVE DataOK' /\ Handing /\ RowsKept
    BY <1>5, <1>b, <1>c, <1>e DEF BeginDown
  <1>6. ASSUME NEW n \in Names, Add(n) PROVE DataOK' /\ Handing /\ RowsKept
    BY <1>6, <1>e, Added DEF Add, DataOK, Handing, RowsKept
  <1>7. ASSUME NEW n \in Names, Restart(n) PROVE DataOK' /\ Handing /\ RowsKept
    BY <1>7, <1>b, <1>c, <1>d, <1>e, <1>h DEF Restart
  <1>8. ASSUME NEW a \in Actors, MarkStopped(a) PROVE DataOK' /\ Handing /\ RowsKept
    BY <1>8, <1>b, <1>c, <1>d, <1>e DEF MarkStopped
  <1>9. ASSUME NEW a \in Actors, ComposeDown(a) PROVE DataOK' /\ Handing /\ RowsKept
    BY <1>9, <1>b, <1>c, <1>e DEF ComposeDown
  <1>10. ASSUME NEW a \in Actors, SaveStopped(a) PROVE DataOK' /\ Handing /\ RowsKept
    BY <1>10, <1>b, <1>c, <1>d, <1>e DEF SaveStopped
  <1>11. ASSUME NEW a \in Actors, StopFails(a) PROVE DataOK' /\ Handing /\ RowsKept
    BY <1>11, <1>b, <1>c, <1>e, <1>h DEF StopFails
  <1>12. ASSUME NEW a \in Actors, StopWithoutFolder(a) PROVE DataOK' /\ Handing /\ RowsKept
    BY <1>12, <1>b, <1>d, <1>e, <1>h DEF StopWithoutFolder
  <1>13. ASSUME NEW t \in Typed, BeginRemove(t) PROVE DataOK' /\ Handing /\ RowsKept
    BY <1>13, <1>b, <1>c, <1>e DEF BeginRemove
  <1>14. CASE BeginPrune
    BY <1>14, <1>b, <1>c, <1>e DEF BeginPrune
  <1>15. CASE DeleteFolder
    BY <1>15, <1>b, <1>c, <1>e DEF DeleteFolder
  <1>16. CASE Forget
    <2>1. UNCHANGED <<lastId, container, folder>>
      BY <1>16 DEF Forget
    <2>2. DataOK'
      BY <1>16, <2>1, Forgotten DEF DataOK
    <2>3. Handing
      BY <1>16, <1>a, <2>1, Forgotten DEF Handing
    <2>4. RowsKept
      BY <1>16, Forgotten DEF RowsKept
    <2> QED
      BY <2>2, <2>3, <2>4
  <1>17. CASE Pull
    BY <1>17, <1>b, <1>c, <1>e DEF Pull
  <1>18. CASE Register
    BY <1>18, <1>e, Registered DEF Register, DataOK, Handing, RowsKept
  <1>19. CASE RegisterFails
    BY <1>19, <1>b, <1>c, <1>e DEF RegisterFails
  <1>20. CASE StartAgain
    BY <1>20, <1>b, <1>c, <1>e DEF StartAgain
  <1>21. CASE EndSync
    BY <1>21, <1>b, <1>c, <1>e DEF EndSync
  <1>22. CASE UNCHANGED vars
    BY <1>22, <1>b, <1>c, <1>e DEF vars
  <1>23. CASE SaveFails
    BY <1>23, <1>b, <1>c, <1>e, <1>h DEF SaveFails
  <1>24. ASSUME NEW a \in Actors, StopRefused(a) PROVE DataOK' /\ Handing /\ RowsKept
    BY <1>24, <1>b, <1>c, <1>e, <1>h DEF StopRefused
  <1>25. CASE ForgetFails
    BY <1>25, <1>b, <1>c, <1>e DEF ForgetFails
  <1>26. ASSUME NEW n \in Names, Status(n) PROVE DataOK' /\ Handing /\ RowsKept
    BY <1>26, <1>b, <1>d, <1>e, <1>h DEF Status
  <1>27. ASSUME NEW a \in Actors, Crash(a) PROVE DataOK' /\ Handing /\ RowsKept
    BY <1>27, <1>b, <1>c, <1>e, <1>h DEF Crash
  <1> QED
    BY <1>1, <1>2, <1>3, <1>4, <1>5, <1>6, <1>7, <1>8, <1>9, <1>10, <1>11, <1>12, <1>13, <1>14,
       <1>15, <1>16, <1>17, <1>18, <1>19, <1>20, <1>21, <1>22, <1>23, <1>24, <1>25, <1>26, <1>27
       DEF Next

LEMMA StartsStep == DataOK /\ Named /\ [Next]_vars => StartsKept
  <1> SUFFICES ASSUME DataOK, Named, [Next]_vars PROVE StartsKept
    OBVIOUS
  <1> DEFINE j == proc["job"]
  <1>a. "job" \in Actors /\ "adm" \in Actors /\ "job" # "adm"
    BY DEF Actors
  <1>b. \A a \in Actors : proc[a] \in Proc /\ proc[a] \in SoundProc
    BY DEF Named, SoundProc
  <1>c. \A a \in Actors : proc[a].pc \in {"start", "save", "mark", "stop", "stopped", "delete",
                                          "again"} => proc[a].n \in Names
    BY DEF Named, SoundProc, Sound
  (* A command that moves on to a place where nothing is about to start.    *)
  <1>d. ASSUME NEW a \in Actors, NEW p, proc' = [proc EXCEPT ![a] = p],
               p.pc \notin {"start", "save"} \/ a = "adm"
        PROVE  StartsKept
    BY <1>a, <1>d DEF StartsKept, Named
  <1>e. UNCHANGED proc => StartsKept
    BY DEF StartsKept
  <1>f. ASSUME NEW a \in Actors, NEW pc \in {"stop", "forget"},
               proc' = [proc EXCEPT ![a].pc = pc]
        PROVE  StartsKept
    <2>1. proc' = [proc EXCEPT ![a] = [proc[a] EXCEPT !.pc = pc]]
      BY <1>f DEF Named
    <2>2. [proc[a] EXCEPT !.pc = pc].pc = pc
      BY <1>b DEF Proc
    <2> QED
      BY <1>d, <1>f, <2>1, <2>2
  <1>1. ASSUME NEW n \in Names, NEW force \in BOOLEAN, BeginUp(n, force) PROVE StartsKept
    <2> DEFINE p == [Idle EXCEPT !.op = "up", !.pc = "start", !.n = n, !.id = entry[n]]
    <2>1. p.n = n /\ p.id = entry[n]
      BY DEF Idle
    <2>2. proc'["job"] = p
      BY <1>1, <1>a DEF BeginUp, Named
    <2>3. entry[n] # 0 /\ UNCHANGED <<entry, lastId>>
      BY <1>1 DEF BeginUp, Startable
    <2> QED
      BY <2>1, <2>2, <2>3 DEF StartsKept
  <1>2. CASE Compose
    <2>1. j \in Proc /\ j.pc = "start"
      BY <1>2, <1>a, <1>b DEF Compose, At
    <2>2. proc'["job"] = [j EXCEPT !.pc = "save"]
      BY <1>2, <1>a DEF Compose, Goto, Named
    <2>3. proc'["job"].id = j.id /\ proc'["job"].n = j.n
      BY <2>1, <2>2 DEF Proc
    <2> QED
      BY <2>1, <2>3 DEF StartsKept
  <1>3. CASE ComposeFails
    BY <1>3, <1>a, <1>c, <1>d, OnwardSound DEF ComposeFails, At
  <1>4. CASE SaveRuntime
    BY <1>4, <1>a, <1>c, <1>d, OnwardSound DEF SaveRuntime, At
  <1>5. ASSUME NEW n \in Names, BeginDown(n) PROVE StartsKept
    <2> DEFINE p == [Idle EXCEPT !.op = "down", !.pc = "mark", !.n = n]
    <2>1. p.pc = "mark"
      BY DEF Idle
    <2> QED
      BY <1>5, <1>a, <1>d, <2>1 DEF BeginDown
  <1>6. ASSUME NEW n \in Names, Add(n) PROVE StartsKept
    BY <1>6, <1>e DEF Add
  <1>7. ASSUME NEW n \in Names, Restart(n) PROVE StartsKept
    <2> DEFINE p == [j EXCEPT !.pc = "stop", !.n = n, !.todo = j.todo \ {n}]
               r == [j EXCEPT !.todo = j.todo \ {n}]
    <2>1. j \in Proc /\ j.pc = "restart"
      BY <1>7, <1>a, <1>b DEF Restart, At
    <2>2. p.pc = "stop" /\ r.pc = "restart"
      BY <2>1 DEF Proc
    <2>3. proc' = [proc EXCEPT !["job"] = p] \/ proc' = [proc EXCEPT !["job"] = r]
      BY <1>7 DEF Restart
    <2> HIDE DEF p, r
    <2> QED
      BY <1>a, <1>d, <2>2, <2>3
  <1>8. ASSUME NEW a \in Actors, MarkStopped(a) PROVE StartsKept
    BY <1>8, <1>f DEF MarkStopped, Goto
  <1>9. ASSUME NEW a \in Actors, ComposeDown(a) PROVE StartsKept
    <2> DEFINE p == [proc[a] EXCEPT !.pc = "stopped", !.id = entry[proc[a].n]]
    <2>1. p.pc = "stopped"
      BY <1>b DEF Proc
    <2>2. proc' = [proc EXCEPT ![a] = p]
      BY <1>9 DEF ComposeDown, Named
    <2> HIDE DEF p
    <2> QED
      BY <1>d, <2>1, <2>2
  <1>10. ASSUME NEW a \in Actors, SaveStopped(a) PROVE StartsKept
    BY <1>10, <1>c, <1>d, OnwardSound DEF SaveStopped, At
  <1>11. ASSUME NEW a \in Actors, StopFails(a) PROVE StartsKept
    BY <1>11, <1>c, <1>d, OnwardSound DEF StopFails, At
  <1>12. ASSUME NEW a \in Actors, StopWithoutFolder(a) PROVE StartsKept
    BY <1>12, <1>c, <1>d, OnwardSound DEF StopWithoutFolder, At
  <1>13. ASSUME NEW t \in Typed, BeginRemove(t) PROVE StartsKept
    BY <1>13, <1>a, <1>d DEF BeginRemove
  <1>14. CASE BeginPrune
    BY <1>14, <1>a, <1>d DEF BeginPrune
  <1>15. CASE DeleteFolder
    BY <1>15, <1>a, <1>d, <1>f DEF DeleteFolder, Goto
  <1>16. CASE Forget
    BY <1>16, <1>a, <1>d DEF Forget, Done
  <1>17. CASE Pull
    <2> DEFINE p(found, on) == [Idle EXCEPT !.op = "sync", !.pc = "register",
                                            !.todo = found, !.on = on]
    <2>1. PICK found \in SUBSET Names, on \in SUBSET Names :
            proc' = [proc EXCEPT !["job"] = p(found, on)]
      BY <1>17 DEF Pull
    <2>2. p(found, on).pc = "register"
      BY DEF Idle
    <2> HIDE DEF p
    <2> QED
      BY <1>a, <1>d, <2>1, <2>2
  <1>18. CASE Register
    <2> DEFINE p(changed) == [j EXCEPT !.pc = "restart", !.todo = changed, !.on = {}]
    <2>1. PICK changed \in SUBSET j.todo : proc' = [proc EXCEPT !["job"] = p(changed)]
      BY <1>18 DEF Register
    <2>2. p(changed).pc = "restart"
      BY <1>a, <1>b DEF Proc
    <2> HIDE DEF p
    <2> QED
      BY <1>a, <1>d, <2>1, <2>2
  <1>19. CASE RegisterFails
    BY <1>19, <1>a, <1>d, IdleSound DEF RegisterFails, Done
  <1>20. CASE StartAgain
    <2>1. CASE Startable(j.n, FALSE)
      <3> DEFINE p == [j EXCEPT !.pc = "start", !.id = entry[j.n]]
      <3>1. p.n = j.n /\ p.id = entry[j.n] /\ j.n \in Names
        BY <1>20, <1>a, <1>b, <1>c DEF Proc, StartAgain, At
      <3>2. proc'["job"] = p
        BY <1>20, <1>a, <2>1 DEF StartAgain, Named
      <3>3. entry[j.n] # 0 /\ UNCHANGED <<entry, lastId>>
        BY <1>20, <2>1 DEF StartAgain, Startable
      <3> QED
        BY <3>1, <3>2, <3>3 DEF StartsKept
    <2>2. CASE ~ Startable(j.n, FALSE)
      BY <1>20, <1>a, <1>c, <1>d, <2>2, OnwardSound DEF StartAgain, At
    <2> QED
      BY <2>1, <2>2
  <1>21. CASE EndSync
    BY <1>21, <1>a, <1>d, IdleSound DEF EndSync, Done
  <1>22. CASE UNCHANGED vars
    BY <1>22, <1>e DEF vars
  <1>23. CASE SaveFails
    BY <1>23, <1>a, <1>c, <1>d, OnwardSound DEF SaveFails, At
  <1>24. ASSUME NEW a \in Actors, StopRefused(a) PROVE StartsKept
    BY <1>24, <1>c, <1>d, OnwardSound DEF StopRefused, At
  <1>25. CASE ForgetFails
    BY <1>25, <1>a, <1>d DEF ForgetFails, Done
  <1>26. ASSUME NEW n \in Names, Status(n) PROVE StartsKept
    BY <1>26, <1>e DEF Status
  <1>27. ASSUME NEW a \in Actors, Crash(a) PROVE StartsKept
    BY <1>27, <1>d, IdleSound DEF Crash, Done
  <1> QED
    BY <1>1, <1>2, <1>3, <1>4, <1>5, <1>6, <1>7, <1>8, <1>9, <1>10, <1>11, <1>12, <1>13, <1>14,
       <1>15, <1>16, <1>17, <1>18, <1>19, <1>20, <1>21, <1>22, <1>23, <1>24, <1>25, <1>26, <1>27
       DEF Next

-----------------------------------------------------------------------------
(* Ids.                                                                     *)

(* An id stays with the name it was handed out for.                         *)
LEMMA HandedStays ==
  ASSUME DataOK, Handing, NEW i \in Ids, NEW n, HandedTo(i, n), lastId' \in Nat
  PROVE  HandedTo(i, n)'
  <1>1. i <= lastId'
    BY DEF DataOK, Handing, HandedTo, Ids
  <1>2. ASSUME NEW m \in Names, entry'[m] = i PROVE m = n
    <2>1. entry'[m] \in {0, entry[m]}
      BY <1>2 DEF DataOK, Handing, HandedTo, Ids
    <2> QED
      BY <1>2, <2>1 DEF HandedTo, Ids
  <1> QED
    BY <1>1, <1>2 DEF HandedTo

LEMMA OwnedStep ==
  ASSUME DataOK, Named, Owned, DataOK', Handing, RowsKept, StartsKept
  PROVE  Owned'
  <1> DEFINE j == proc["job"]
  <1>1. lastId \in Nat /\ lastId' \in Nat /\ \A n \in Names : entry[n] \in Nat
    BY DEF DataOK
  <1>2. \A n \in Names : entry'[n] <= lastId'
    BY <1>1 DEF Owned, Handing
  <1>3. \A i \in Ids : \A n : HandedTo(i, n) => HandedTo(i, n)'
    BY <1>1, HandedStays
  <1>4. \A i \in Ids : \A n : HandedTo(i, n) =>
           i <= lastId' /\ \A m \in Names : entry'[m] = i => m = n
    BY <1>3 DEF HandedTo
  <1>5. ASSUME NEW i \in Ids, runs'[i] # None
        PROVE  i <= lastId' /\ \A m \in Names : entry'[m] = i => m = runs'[i]
    <2>1. CASE runs'[i] = runs[i]
      <3>1. HandedTo(i, runs[i])
        BY <1>5, <2>1 DEF Owned
      <3> QED
        BY <1>4, <2>1, <3>1
    <2>2. CASE j.pc = "save" /\ i = j.id /\ runs'[i] = j.n
      <3>1. HandedTo(i, j.n)
        BY <2>2 DEF Owned
      <3> QED
        BY <1>4, <2>2, <3>1
    <2> QED
      BY <1>5, <2>1, <2>2 DEF RowsKept
  <1>6. ASSUME proc'["job"].pc \in {"start", "save"}
        PROVE  /\ proc'["job"].id \in Ids /\ proc'["job"].id <= lastId'
               /\ \A m \in Names : entry'[m] = proc'["job"].id => m = proc'["job"].n
    <2>1. CASE j.pc \in {"start", "save"} /\ proc'["job"].id = j.id /\ proc'["job"].n = j.n
      <3>1. j.id \in Ids /\ HandedTo(j.id, j.n)
        BY <2>1 DEF Owned
      <3> QED
        BY <1>4, <2>1, <3>1
    <2>2. ASSUME NEW n \in Names, proc'["job"].n = n, proc'["job"].id = entry[n], entry[n] # 0,
                 UNCHANGED <<entry, lastId>>
          PROVE  /\ proc'["job"].id \in Ids /\ proc'["job"].id <= lastId'
                 /\ \A m \in Names : entry'[m] = proc'["job"].id => m = proc'["job"].n
      <3>1. entry[n] \in 0 .. MaxId /\ entry[n] <= lastId
        BY DEF DataOK, Owned
      <3>2. entry[n] \in Ids
        BY <2>2, <3>1, BoundAssumption DEF Ids
      <3>3. \A m \in Names : entry[m] = entry[n] => m = n
        BY <2>2 DEF DataOK
      <3> QED
        BY <2>2, <3>1, <3>2, <3>3
    <2> QED
      BY <1>6, <2>1, <2>2 DEF StartsKept
  <1> QED
    BY <1>2, <1>5, <1>6 DEF Owned, HandedTo

-----------------------------------------------------------------------------

LEMMA CatalogInit == Init => CatalogInv
  <1> SUFFICES ASSUME Init PROVE CatalogInv
    OBVIOUS
  <1>1. 0 \in 0 .. MaxId
    BY BoundAssumption
  <1>2. DataOK
    BY <1>1 DEF Init, DataOK
  <1>3. Named
    BY IdleSound DEF Init, Named
  <1>4. Owned
    BY IdleSound DEF Init, Owned, Actors
  <1> QED
    BY <1>2, <1>3, <1>4 DEF CatalogInv

LEMMA CatalogNext == CatalogInv /\ [Next]_vars => CatalogInv'
  <1> SUFFICES ASSUME CatalogInv, [Next]_vars PROVE CatalogInv'
    OBVIOUS
  <1>1. DataOK' /\ Handing /\ RowsKept /\ StartsKept /\ Named'
    BY DataStep, StartsStep, NamedStep DEF CatalogInv
  <1>2. Owned'
    BY <1>1, OwnedStep DEF CatalogInv
  <1> QED
    BY <1>1, <1>2 DEF CatalogInv

(* The catalog's variables have their types: names are unique, only ids of  *)
(* entries are enabled, and every command has what it needs (the schema of  *)
(* challenges, and the commands of challenge_service.py, sync_service.py    *)
(* and runtime_service.py).                                                 *)
THEOREM TypeCorrect == Spec => []TypeOK
  <1>1. CatalogInv => TypeOK
    BY TypesTogether DEF CatalogInv
  <1> QED
    BY <1>1, CatalogInit, CatalogNext, PTL DEF Spec

(* However an up, a remove, a prune and a sync overlap, an entry never has  *)
(* the runtime row that was written for another one, as an id is handed out *)
(* once (_save_runtime_to_db against remove_challenge and                   *)
(* _save_challenges_to_db).                                                 *)
THEOREM NothingInherited == Spec => []NoInheritedRuntime
  <1>1. CatalogInv => NoInheritedRuntime
    <2> SUFFICES ASSUME CatalogInv, NEW n \in Names, entry[n] # 0, runs[entry[n]] # None
                 PROVE  runs[entry[n]] = n
      BY DEF NoInheritedRuntime, Runs
    <2>1. entry[n] \in Ids
      BY BoundAssumption DEF CatalogInv, DataOK, Ids
    <2> QED
      BY <2>1 DEF CatalogInv, Owned, HandedTo
  <1> QED
    BY <1>1, CatalogInit, CatalogNext, PTL DEF Spec

-----------------------------------------------------------------------------
(* No container is lost.                                                    *)

\* The command under the lifecycle lock, and the one that deletes.
Worker == proc["job"]
Cleaner == proc["adm"]

Roles ==
    /\ Worker.op \in {"none", "up", "down", "sync"} /\ Cleaner.op \in {"none", "remove", "prune"}
    /\ Worker.op = "none" => Worker = Idle
    /\ Cleaner.op = "none" => Cleaner = Idle
    /\ Worker.pc \notin {"delete", "forget"} /\ (Worker.pc = "mark" => Worker.op # "sync")
    /\ Cleaner.pc \in {"free", "mark", "stop", "stopped", "delete", "forget"}

(* remove was given a part of the name: it stops nothing.                   *)
Partly == Cleaner.op = "remove" /\ Cleaner.t # Cleaner.n

(* What is to be deleted has an entry until it is deleted, under an id that *)
(* was read at the beginning.                                               *)
Deleting ==
    /\ \A i \in Cleaner.ids : i # 0 /\ i <= lastId
    /\ Cleaner.op # "none" =>
         /\ Cleaner.n \in Names /\ Cleaner.pc # "free"
         /\ \A n \in Cleaner.todo \cup {Cleaner.n} : entry[n] \in Cleaner.ids
         /\ Cleaner.n \notin Cleaner.todo
    /\ Cleaner.op = "remove" \/ Cleaner.pc = "forget" => Cleaner.todo = {}
    /\ Cleaner.pc = "stopped" => Cleaner.id = entry[Cleaner.n]
    /\ Partly => Cleaner.pc \in {"delete", "forget"}

(* The containers that have no excuse to run.                               *)
Lives == container \ excused

(* Of what is to be deleted, nothing that was stopped runs any more; a      *)
(* start in between is a race.                                              *)
Cleared ==
    \A n \in Lives : entry[n] \in Cleaner.ids =>
        \/ n \in Cleaner.todo
        \/ n = Cleaner.n /\ (Cleaner.pc \in {"mark", "stop"} \/ Partly)

(* A command holds n between two writes: a start whose id is still that of  *)
(* n, or a stop that has written its row.  A sync stops what runs by its    *)
(* row, which stays until the container is down.                            *)
ByWorker(n) ==
    /\ Worker.n = n
    /\ \/ Worker.pc = "save" /\ entry[n] = Worker.id
       \/ Worker.pc = "stop" /\ Worker.op # "sync"
ByCleaner(n) == Cleaner.n = n /\ Cleaner.pc = "stop"

Known == \A n \in Lives : entry[n] # 0 /\ (Runs(n) \/ ByWorker(n) \/ ByCleaner(n))

(* What a stop has taken down is down when it writes the row, and the row   *)
(* is that of its challenge.                                                *)
TakenDown ==
    Worker.pc = "stopped" =>
        Worker.n \notin container /\ Worker.id \in Ids /\ HandedTo(Worker.id, Worker.n)

LostInv == Roles /\ Deleting /\ Cleared /\ Known /\ TakenDown

AllExcused == Excuses = ExcuseKinds

(* Before and after a step.                                                 *)
Around == CatalogInv /\ CatalogInv' /\ LostInv /\ Handing
EntriesStay == \A n \in Names : entry[n] # 0 => entry'[n] = entry[n]

LEMMA Two ==
  ASSUME Named
  PROVE  /\ \A p : proc' = [proc EXCEPT !["job"] = p] => Worker' = p /\ Cleaner' = Cleaner
         /\ \A p : proc' = [proc EXCEPT !["adm"] = p] => Cleaner' = p /\ Worker' = Worker
         /\ \A pc : Goto("job", pc) => Worker' = [Worker EXCEPT !.pc = pc] /\ Cleaner' = Cleaner
         /\ \A pc : Goto("adm", pc) => Cleaner' = [Cleaner EXCEPT !.pc = pc] /\ Worker' = Worker
         /\ Worker \in Proc /\ Cleaner \in Proc /\ Idle \in Proc
  BY IdleSound DEF Named, Worker, Cleaner, Actors, Goto, SoundProc

LEMMA Shape ==
  ASSUME Named
  PROVE  /\ Worker.pc \in {"start", "save", "mark", "stop", "stopped", "again"} => Worker.n \in Names
         /\ Cleaner.pc \in {"mark", "stop", "stopped", "delete"} => Cleaner.n \in Names
  BY DEF Named, Worker, Cleaner, Actors, SoundProc, Sound

(* What a command goes on with after a stop.                                *)
LEMMA AfterWorker ==
  ASSUME Named, Roles, NEW ok \in BOOLEAN
  PROVE  \A q \in {Onward("job"), AfterStop("job", ok)} :
            /\ q.op \in {"none", "up", "down", "sync"} /\ (q.op = "none" => q = Idle)
            /\ q.pc \in {"free", "restart", "again"}
  <1> DEFINE on == [Worker EXCEPT !.pc = "restart", !.n = None, !.id = 0]
             again == [Worker EXCEPT !.pc = "again", !.id = 0]
  <1>1. on.op = Worker.op /\ on.pc = "restart" /\ again.op = Worker.op /\ again.pc = "again"
    BY Two DEF Proc
  <1>2. Onward("job") = IF Worker.op = "sync" THEN on ELSE Idle
    BY DEF Onward, Worker
  <1>3. AfterStop("job", ok) = IF Worker.op = "sync" /\ ok THEN again ELSE Onward("job")
    BY DEF AfterStop, Roles, Worker
  <1>4. Idle.op = "none" /\ Idle.pc = "free"
    BY DEF Idle
  <1> HIDE DEF on, again
  <1>5. /\ Onward("job").op \in {"none", "sync"} /\ (Onward("job").op = "none" => Onward("job") = Idle)
        /\ Onward("job").pc \in {"free", "restart"}
    BY <1>1, <1>2, <1>4
  <1> QED
    BY <1>1, <1>3, <1>5

LEMMA AfterCleaner ==
  ASSUME Named, Roles, Cleaner.pc # "free", NEW ok \in BOOLEAN
  PROVE  AfterStop("adm", ok) = [Cleaner EXCEPT !.pc = "delete", !.id = 0]
  BY DEF Cleaner, AfterStop, Roles, Idle

LEMMA RolesStep ==
  ASSUME CatalogInv, Roles, [Next]_vars
  PROVE  Roles'
  <1>n. Named
    BY DEF CatalogInv
  <1>t. /\ Worker \in Proc /\ Cleaner \in Proc
        /\ Idle.op = "none" /\ Idle.pc = "free"
    BY <1>n, Two DEF Idle
  <1>w. ASSUME NEW p, Worker' = p, Cleaner' = Cleaner,
               p.op \in {"none", "up", "down", "sync"}, p.op = "none" => p = Idle,
               p.pc \notin {"delete", "forget"}, p.pc = "mark" => p.op # "sync"
        PROVE  Roles'
    BY <1>w DEF Roles, Idle
  <1>c. ASSUME NEW p, Cleaner' = p, Worker' = Worker,
               p.op \in {"none", "remove", "prune"}, p.op = "none" => p = Idle,
               p.pc \in {"free", "mark", "stop", "stopped", "delete", "forget"}
        PROVE  Roles'
    BY <1>c DEF Roles, Idle
  <1>s. UNCHANGED proc => Roles'
    BY DEF Roles, Worker, Cleaner, Idle
  \* A command that is not at its beginning goes to another place.
  <1>wg. ASSUME NEW pc \in {"save", "stop", "stopped"}, Goto("job", pc), Worker.pc # "free"
         PROVE  Roles'
    <2> DEFINE p == [Worker EXCEPT !.pc = pc]
    <2>1. p.op = Worker.op /\ p.pc = pc
      BY <1>t DEF Proc
    <2>2. Worker.op # "none"
      BY <1>wg, <1>t DEF Roles
    <2>3. Worker' = p /\ Cleaner' = Cleaner
      BY <1>n, <1>wg, Two
    <2> HIDE DEF p
    <2> QED
      BY <1>w, <1>wg, <2>1, <2>2, <2>3 DEF Roles
  <1>cg. ASSUME NEW pc \in {"stop", "forget"}, Goto("adm", pc), Cleaner.pc # "free"
         PROVE  Roles'
    <2> DEFINE p == [Cleaner EXCEPT !.pc = pc]
    <2>1. p.op = Cleaner.op /\ p.pc = pc
      BY <1>t DEF Proc
    <2>2. Cleaner.op # "none"
      BY <1>cg, <1>t DEF Roles
    <2>3. Cleaner' = p /\ Worker' = Worker
      BY <1>n, <1>cg, Two
    <2> HIDE DEF p
    <2> QED
      BY <1>c, <1>cg, <2>1, <2>2, <2>3 DEF Roles
  <1>1. ASSUME NEW n \in Names, NEW force \in BOOLEAN, BeginUp(n, force) PROVE Roles'
    <2> DEFINE p == [Idle EXCEPT !.op = "up", !.pc = "start", !.n = n, !.id = entry[n]]
    <2>1. p.op = "up" /\ p.pc = "start"
      BY DEF Idle
    <2>2. Worker' = p /\ Cleaner' = Cleaner
      BY <1>n, <1>1, Two DEF BeginUp
    <2> HIDE DEF p
    <2> QED
      BY <1>w, <2>1, <2>2
  <1>2. CASE Compose
    BY <1>2, <1>wg DEF Compose, At, Worker
  <1>3. ASSUME proc' = [proc EXCEPT !["job"] = Onward("job")] PROVE Roles'
    BY <1>n, <1>3, <1>w, Two, AfterWorker
  <1>4. ASSUME NEW n \in Names, BeginDown(n) PROVE Roles'
    <2> DEFINE p == [Idle EXCEPT !.op = "down", !.pc = "mark", !.n = n]
    <2>1. p.op = "down" /\ p.pc = "mark"
      BY DEF Idle
    <2>2. Worker' = p /\ Cleaner' = Cleaner
      BY <1>n, <1>4, Two DEF BeginDown
    <2> HIDE DEF p
    <2> QED
      BY <1>w, <2>1, <2>2
  <1>5. ASSUME NEW n \in Names, Add(n) PROVE Roles'
    BY <1>5, <1>s DEF Add
  <1>6. ASSUME NEW n \in Names, Restart(n) PROVE Roles'
    <2> DEFINE p == [Worker EXCEPT !.pc = "stop", !.n = n, !.todo = Worker.todo \ {n}]
               r == [Worker EXCEPT !.todo = Worker.todo \ {n}]
    <2>1. Worker.pc = "restart" /\ Worker.op # "none"
      BY <1>6, <1>t DEF Restart, At, Worker, Roles
    <2>2. p.op = Worker.op /\ p.pc = "stop" /\ r.op = Worker.op /\ r.pc = Worker.pc
      BY <1>t DEF Proc
    <2>3. proc' = [proc EXCEPT !["job"] = p] \/ proc' = [proc EXCEPT !["job"] = r]
      BY <1>6 DEF Restart, Worker
    <2> HIDE DEF p, r
    <2>4. Cleaner' = Cleaner /\ (Worker' = p \/ Worker' = r)
      BY <1>n, <2>3, Two
    <2> QED
      BY <1>w, <2>1, <2>2, <2>4 DEF Roles
  <1>7. ASSUME NEW a \in Actors, MarkStopped(a) PROVE Roles'
    BY <1>7, <1>wg, <1>cg DEF MarkStopped, At, Worker, Cleaner, Actors
  <1>8. ASSUME NEW a \in Actors, ComposeDown(a) PROVE Roles'
    <2> DEFINE p(q) == [q EXCEPT !.pc = "stopped", !.id = entry[q.n]]
    <2>1. p(Worker).op = Worker.op /\ p(Worker).pc = "stopped"
          /\ p(Cleaner).op = Cleaner.op /\ p(Cleaner).pc = "stopped"
      BY <1>t DEF Proc
    <2>2. proc' = [proc EXCEPT ![a] = p(proc[a])]
      BY <1>n, <1>8 DEF ComposeDown, Named
    <2>3. proc[a].pc = "stop"
      BY <1>8 DEF ComposeDown, At
    <2> HIDE DEF p
    <2>4. CASE a = "job"
      <3>1. Worker' = p(Worker) /\ Cleaner' = Cleaner /\ Worker.op # "none"
        BY <1>n, <1>t, <2>2, <2>3, <2>4, Two DEF Worker, Roles
      <3> QED
        BY <1>w, <2>1, <3>1 DEF Roles
    <2>5. CASE a = "adm"
      <3>1. Cleaner' = p(Cleaner) /\ Worker' = Worker /\ Cleaner.op # "none"
        BY <1>n, <1>t, <2>2, <2>3, <2>5, Two DEF Cleaner, Roles
      <3> QED
        BY <1>c, <2>1, <3>1 DEF Roles
    <2> QED
      BY <2>4, <2>5 DEF Actors
  <1>9. ASSUME NEW a \in Actors, NEW ok \in BOOLEAN, proc[a].pc \in {"mark", "stop", "stopped"},
               proc' = [proc EXCEPT ![a] = AfterStop(a, ok)]
        PROVE  Roles'
    <2>1. CASE a = "job"
      BY <1>n, <1>9, <1>w, <2>1, Two, AfterWorker
    <2>2. CASE a = "adm"
      <3> DEFINE p == [Cleaner EXCEPT !.pc = "delete", !.id = 0]
      <3>1. p.op = Cleaner.op /\ p.pc = "delete"
        BY <1>t DEF Proc
      <3>2. Cleaner.pc # "free" /\ Cleaner.op # "none"
        BY <1>9, <1>t, <2>2 DEF Cleaner, Roles
      <3>3. AfterStop("adm", ok) = p
        BY <1>n, <3>2, AfterCleaner
      <3>4. Cleaner' = p /\ Worker' = Worker
        BY <1>n, <1>9, <2>2, <3>3, Two
      <3> HIDE DEF p
      <3> QED
        BY <1>c, <3>1, <3>2, <3>4 DEF Roles
    <2> QED
      BY <2>1, <2>2 DEF Actors
  <1>10. ASSUME NEW a \in Actors,
                StopRefused(a) \/ SaveStopped(a) \/ StopFails(a) \/ StopWithoutFolder(a)
         PROVE  Roles'
    BY <1>9, <1>10 DEF StopRefused, SaveStopped, StopFails, StopWithoutFolder, At
  <1>11. ASSUME NEW t \in Typed, BeginRemove(t) PROVE Roles'
    <2> DEFINE n == Resolve(t)
               p == [Idle EXCEPT !.op = "remove", !.pc = IF t = n THEN "mark" ELSE "delete",
                                 !.t = t, !.n = n, !.ids = {entry[n]}]
    <2>1. p.op = "remove" /\ p.pc \in {"mark", "delete"}
      BY DEF Idle
    <2>2. Cleaner' = p /\ Worker' = Worker
      BY <1>n, <1>11, Two DEF BeginRemove
    <2> HIDE DEF p
    <2> QED
      BY <1>c, <2>1, <2>2
  <1>12. CASE BeginPrune
    <2> DEFINE stale == {n \in Entries : entry[n] \notin enabled}
               p(n) == [Idle EXCEPT !.op = "prune", !.pc = "mark", !.n = n,
                                    !.todo = stale \ {n}, !.ids = {entry[m] : m \in stale}]
    <2>1. PICK n \in stale : proc' = [proc EXCEPT !["adm"] = p(n)]
      BY <1>12 DEF BeginPrune
    <2>2. p(n).op = "prune" /\ p(n).pc = "mark"
      BY DEF Idle
    <2> HIDE DEF p
    <2>3. Cleaner' = p(n) /\ Worker' = Worker
      BY <1>n, <2>1, Two
    <2> QED
      BY <1>c, <2>2, <2>3
  <1>13. CASE DeleteFolder
    <2> DEFINE p(n) == [Cleaner EXCEPT !.pc = "mark", !.n = n, !.todo = Cleaner.todo \ {n}]
    <2>0. Cleaner.pc # "free" /\ Cleaner.op # "none"
      BY <1>13, <1>t DEF DeleteFolder, At, Cleaner, Roles
    <2>1. CASE Goto("adm", "forget")
      BY <1>cg, <2>0, <2>1
    <2>2. CASE \E n \in Cleaner.todo : proc' = [proc EXCEPT !["adm"] = p(n)]
      <3>1. PICK n \in Cleaner.todo : proc' = [proc EXCEPT !["adm"] = p(n)]
        BY <2>2
      <3>2. p(n).op = Cleaner.op /\ p(n).pc = "mark"
        BY <1>t DEF Proc
      <3> HIDE DEF p
      <3>3. Cleaner' = p(n) /\ Worker' = Worker
        BY <1>n, <3>1, Two
      <3> QED
        BY <1>c, <2>0, <3>2, <3>3 DEF Roles
    <2> QED
      BY <1>13, <2>1, <2>2 DEF DeleteFolder, Cleaner
  <1>14. ASSUME proc' = [proc EXCEPT !["adm"] = Idle] PROVE Roles'
    BY <1>14, <1>n, <1>t, <1>c, Two
  <1>15. CASE Pull
    <2> DEFINE p(found, on) == [Idle EXCEPT !.op = "sync", !.pc = "register",
                                            !.todo = found, !.on = on]
    <2>1. PICK found \in SUBSET Names, on \in SUBSET Names :
            proc' = [proc EXCEPT !["job"] = p(found, on)]
      BY <1>15 DEF Pull
    <2>2. p(found, on).op = "sync" /\ p(found, on).pc = "register"
      BY DEF Idle
    <2> HIDE DEF p
    <2>3. Worker' = p(found, on) /\ Cleaner' = Cleaner
      BY <1>n, <2>1, Two
    <2> QED
      BY <1>w, <2>2, <2>3
  <1>16. CASE Register
    <2> DEFINE p(changed) == [Worker EXCEPT !.pc = "restart", !.todo = changed, !.on = {}]
    <2>0. Worker.op # "none"
      BY <1>16, <1>t DEF Register, At, Worker, Roles
    <2>1. PICK changed \in SUBSET Worker.todo : proc' = [proc EXCEPT !["job"] = p(changed)]
      BY <1>16 DEF Register, Worker
    <2>2. p(changed).op = Worker.op /\ p(changed).pc = "restart"
      BY <1>t DEF Proc
    <2> HIDE DEF p
    <2>3. Worker' = p(changed) /\ Cleaner' = Cleaner
      BY <1>n, <2>1, Two
    <2> QED
      BY <1>w, <2>0, <2>2, <2>3 DEF Roles
  <1>17. ASSUME proc' = [proc EXCEPT !["job"] = Idle] PROVE Roles'
    BY <1>n, <1>t, <1>w, <1>17, Two
  <1>18. CASE StartAgain
    <2> DEFINE p == [Worker EXCEPT !.pc = "start", !.id = entry[Worker.n]]
    <2>1. CASE proc' = [proc EXCEPT !["job"] = p]
      <3>1. p.op = Worker.op /\ p.pc = "start" /\ Worker.op # "none"
        BY <1>18, <1>t DEF StartAgain, At, Worker, Roles, Proc
      <3> HIDE DEF p
      <3>2. Worker' = p /\ Cleaner' = Cleaner
        BY <1>n, <2>1, Two
      <3> QED
        BY <1>w, <3>1, <3>2 DEF Roles
    <2>2. CASE proc' = [proc EXCEPT !["job"] = Onward("job")]
      BY <1>3, <2>2
    <2> QED
      BY <1>18, <2>1, <2>2 DEF StartAgain, Worker
  <1>19. CASE UNCHANGED vars
    BY <1>19, <1>s DEF vars
  <1>20. CASE ComposeFails \/ SaveRuntime \/ SaveFails
    BY <1>20, <1>3 DEF ComposeFails, SaveRuntime, SaveFails
  <1>21. CASE RegisterFails \/ EndSync
    BY <1>21, <1>17 DEF RegisterFails, EndSync, Done
  <1>22. CASE Forget \/ ForgetFails
    BY <1>22, <1>14 DEF Forget, ForgetFails, Done
  <1>23. ASSUME NEW n \in Names, Status(n) PROVE Roles'
    BY <1>23, <1>s DEF Status
  <1>24. ASSUME NEW a \in Actors, Crash(a) PROVE Roles'
    BY <1>24, <1>14, <1>17 DEF Crash, Done, Actors
  <1> QED
    BY <1>1, <1>2, <1>4, <1>5, <1>6, <1>7, <1>8, <1>10, <1>11, <1>12, <1>13, <1>15, <1>16, <1>18,
       <1>19, <1>20, <1>21, <1>22, <1>23, <1>24 DEF Next

-----------------------------------------------------------------------------
(* What one kind of command does leaves the other one's part alone.         *)

(* Ids of what is to be deleted are not handed out again.                   *)
LEMMA CleanerStays ==
  ASSUME Around, EntriesStay, Cleaner' = Cleaner,
         \A n \in Lives' : n \in Lives \/ entry[n] \notin Cleaner.ids
  PROVE  Deleting' /\ Cleared'
  <1>1. /\ lastId \in Nat /\ lastId' \in Nat /\ lastId <= lastId'
        /\ \A n \in Names : entry[n] \in Nat /\ entry'[n] \in Nat
    BY DEF Around, CatalogInv, DataOK, Handing
  <1>2. \A i \in Cleaner.ids : i # 0 /\ i <= lastId /\ i \in Nat
    <2>1. Cleaner.ids \subseteq Ids
      BY Two DEF Around, CatalogInv, Proc
    <2> QED
      BY <2>1, BoundAssumption DEF Around, LostInv, Deleting, Ids
  <1>3. \A n \in Names : entry[n] \in Cleaner.ids => entry'[n] = entry[n]
    BY <1>2 DEF EntriesStay
  <1>4. \A n \in Names : entry'[n] \in Cleaner.ids => entry'[n] = entry[n]
    BY <1>1, <1>2 DEF Around, Handing
  <1>5. Cleaner.op # "none" => /\ Cleaner.n \in Names
                               /\ Cleaner.todo \subseteq Names
                               /\ entry'[Cleaner.n] = entry[Cleaner.n]
                               /\ \A n \in Cleaner.todo \cup {Cleaner.n} : entry'[n] = entry[n]
    <2>1. Cleaner.todo \subseteq Names
      BY Two DEF Around, CatalogInv, Proc
    <2> QED
      BY <1>3, <2>1 DEF Around, LostInv, Deleting
  <1>6. Cleaner.pc = "stopped" => Cleaner.op # "none"
    BY DEF Around, LostInv, Roles, Idle
  <1>7. Deleting'
    BY <1>1, <1>2, <1>5, <1>6 DEF Around, LostInv, Deleting, Partly
  <1>8. Cleared'
    <2> SUFFICES ASSUME NEW n \in Lives', entry'[n] \in Cleaner.ids
                 PROVE  n \in Cleaner.todo \/ (n = Cleaner.n /\ (Cleaner.pc \in {"mark", "stop"} \/ Partly))
      BY DEF Cleared, Partly
    <2>1. n \in Names
      BY DEF Lives, Around, CatalogInv, DataOK
    <2>2. entry[n] \in Cleaner.ids
      BY <1>4, <2>1
    <2> QED
      BY <2>2 DEF Around, LostInv, Cleared
  <1> QED
    BY <1>7, <1>8

(* Containers that go, or get an excuse, take nothing from the rest.        *)
LEMMA KnownStays ==
  ASSUME Around, Lives' \subseteq Lives, EntriesStay,
         \A n \in Lives' : Runs(n) \/ ByWorker(n) \/ ByCleaner(n) =>
                           Runs(n)' \/ ByWorker(n)' \/ ByCleaner(n)'
  PROVE  Known'
  <1>1. \A n \in Lives' : n \in Names /\ entry[n] # 0 /\ (Runs(n) \/ ByWorker(n) \/ ByCleaner(n))
    BY DEF Around, CatalogInv, LostInv, Known, DataOK, Lives
  <1> QED
    BY <1>1 DEF Known, EntriesStay

(* An entry that stays keeps its runtime, unless that is the row written.   *)
LEMMA RunsStay ==
  ASSUME Around, NEW n \in Names, entry[n] # 0, entry'[n] = entry[n],
         \/ runs' = runs
         \/ \E id : runs' = Stopped(id) /\ id # entry[n]
  PROVE  Runs(n)' <=> Runs(n)
  <1>1. entry[n] \in Ids
    BY BoundAssumption DEF Around, CatalogInv, DataOK, Ids
  <1>2. runs'[entry[n]] = runs[entry[n]]
    BY <1>1 DEF Stopped
  <1> QED
    BY <1>2 DEF Runs

LEMMA OneName ==
  ASSUME Around, NEW m \in Names, NEW n \in Names, entry[n] # 0, entry[m] = entry[n]
  PROVE  m = n
  BY DEF Around, CatalogInv, DataOK

(* What is down stays down, and an id stays with its name.                  *)
LEMMA TakenStays ==
  ASSUME Around, Worker' = Worker, container' \subseteq container
  PROVE  TakenDown'
  <1>1. \A i \in Ids : \A n : HandedTo(i, n) => HandedTo(i, n)'
    BY HandedStays DEF Around, CatalogInv, DataOK
  <1>2. \A i \in Ids : \A n : HandedTo(i, n) =>
           i <= lastId' /\ \A m \in Names : entry'[m] = i => m = n
    BY <1>1 DEF HandedTo
  <1> QED
    BY <1>2 DEF TakenDown, HandedTo, Around, LostInv

(* Between two commands, and where they only read.                          *)
LEMMA Quiet ==
  ASSUME Around, UNCHANGED <<entry, lastId, runs, container, excused>>, Cleaner' = Cleaner,
         Worker.pc \notin {"save", "stop"}, Worker'.pc \notin {"save", "stopped"}
  PROVE  Deleting' /\ Cleared' /\ Known' /\ TakenDown'
  <1>1. Lives' = Lives /\ EntriesStay
    BY DEF Lives, EntriesStay
  <1>2. \A n : Runs(n) \/ ByWorker(n) \/ ByCleaner(n) => Runs(n)' \/ ByCleaner(n)'
    BY DEF Runs, ByWorker, ByCleaner
  <1>3. Known'
    BY <1>1, <1>2, KnownStays
  <1>4. TakenDown'
    BY DEF TakenDown
  <1> QED
    BY <1>1, <1>3, <1>4, CleanerStays

-----------------------------------------------------------------------------
(* The steps under the lifecycle lock.                                      *)

\* LostInv but for Roles.
Preserved == Deleting' /\ Cleared' /\ Known' /\ TakenDown'

LEMMA UpKeeps ==
  ASSUME Around, NEW n \in Names, NEW force \in BOOLEAN, BeginUp(n, force)
  PROVE  Preserved
  <1> DEFINE p == [Idle EXCEPT !.op = "up", !.pc = "start", !.n = n, !.id = entry[n]]
  <1>1. p.pc = "start" /\ Idle.pc = "free"
    BY DEF Idle
  <1>2. Worker' = p /\ Cleaner' = Cleaner /\ Worker.op = "none"
    BY Two DEF BeginUp, Around, CatalogInv, Free, Worker
  <1> HIDE DEF p
  <1> QED
    BY <1>1, <1>2, Quiet DEF BeginUp, Preserved, Around, LostInv, Roles

LEMMA DownKeeps ==
  ASSUME Around, NEW n \in Names, BeginDown(n)
  PROVE  Preserved
  <1> DEFINE p == [Idle EXCEPT !.op = "down", !.pc = "mark", !.n = n]
  <1>1. p.pc = "mark" /\ Idle.pc = "free"
    BY DEF Idle
  <1>2. Worker' = p /\ Cleaner' = Cleaner /\ Worker.op = "none"
    BY Two DEF BeginDown, Around, CatalogInv, Free, Worker
  <1> HIDE DEF p
  <1> QED
    BY <1>1, <1>2, Quiet DEF BeginDown, Preserved, Around, LostInv, Roles

LEMMA PullKeeps ==
  ASSUME Around, Pull
  PROVE  Preserved
  <1> DEFINE p(found, on) == [Idle EXCEPT !.op = "sync", !.pc = "register",
                                          !.todo = found, !.on = on]
  <1>0. PICK found \in SUBSET Names, on \in SUBSET Names :
          proc' = [proc EXCEPT !["job"] = p(found, on)]
    BY DEF Pull
  <1>1. p(found, on).pc = "register" /\ Idle.pc = "free"
    BY DEF Idle
  <1> HIDE DEF p
  <1>2. Worker' = p(found, on) /\ Cleaner' = Cleaner /\ Worker.op = "none"
    BY <1>0, Two DEF Pull, Around, CatalogInv, Free, Worker
  <1> QED
    BY <1>1, <1>2, Quiet DEF Pull, Preserved, Around, LostInv, Roles

LEMMA EndKeeps ==
  ASSUME Around, RegisterFails \/ EndSync
  PROVE  Preserved
  <1>1. Worker.pc \in {"register", "restart"} /\ proc' = [proc EXCEPT !["job"] = Idle]
        /\ UNCHANGED <<entry, lastId, runs, container, excused>>
    BY DEF RegisterFails, EndSync, At, Worker, Done
  <1>2. Worker' = Idle /\ Cleaner' = Cleaner /\ Idle.pc = "free"
    BY <1>1, Two DEF Around, CatalogInv, Idle
  <1> QED
    BY <1>1, <1>2, Quiet DEF Preserved

LEMMA AgainKeeps ==
  ASSUME Around, StartAgain
  PROVE  Preserved
  <1> DEFINE p == [Worker EXCEPT !.pc = "start", !.id = entry[Worker.n]]
  <1>n. Named /\ Roles
    BY DEF Around, CatalogInv, LostInv
  <1>1. Worker.pc = "again" /\ UNCHANGED <<entry, lastId, runs, container, excused>>
    BY DEF StartAgain, At, Worker
  <1>2. p.pc = "start"
    BY <1>n, Two DEF Proc
  <1>3. proc' = [proc EXCEPT !["job"] = p] \/ proc' = [proc EXCEPT !["job"] = Onward("job")]
    BY DEF StartAgain, Worker
  <1> HIDE DEF p
  <1>4. Onward("job").pc \in {"free", "restart", "again"}
    BY <1>n, AfterWorker
  <1>5. Cleaner' = Cleaner /\ Worker'.pc \in {"start", "free", "restart", "again"}
    BY <1>n, <1>2, <1>3, <1>4, Two
  <1> QED
    BY <1>1, <1>5, Quiet DEF Preserved

(* A start that succeeds: either its container has an excuse, or its id is  *)
(* that of the challenge and nobody deletes it.                             *)
LEMMA ComposeKeeps ==
  ASSUME AllExcused, Around, Compose
  PROVE  Preserved
  <1> DEFINE m == Worker.n
             race == entry[m] # Worker.id \/ Worker.id \in Cleaner.ids
  <1>n. Named
    BY DEF Around, CatalogInv
  <1>1. /\ Worker.pc = "start" /\ UNCHANGED <<entry, lastId, runs>>
        /\ container' = container \cup {m}
        /\ excused' = (excused \ {m}) \cup (IF race /\ "race" \in Excuses THEN {m} ELSE {})
    BY DEF Compose, At, Worker, Cleaner
  <1>2. Worker' = [Worker EXCEPT !.pc = "save"] /\ Cleaner' = Cleaner
    BY <1>n, Two DEF Compose
  <1>3. Worker'.pc = "save" /\ Worker'.n = m /\ Worker'.id = Worker.id
    BY <1>n, <1>2, Two DEF Proc
  <1>4. Worker.id # 0
    BY <1>1, BoundAssumption DEF Around, CatalogInv, Owned, Worker, Ids
  <1>5. \A n \in Lives' : n \in Lives \/ (n = m /\ ~race)
    BY <1>1 DEF Lives, AllExcused, ExcuseKinds
  <1> HIDE DEF m
  <1>6. Deleting' /\ Cleared'
    BY <1>1, <1>2, <1>5, CleanerStays DEF EntriesStay
  <1>7. Known'
    <2> SUFFICES ASSUME NEW n \in Lives'
                 PROVE  entry'[n] # 0 /\ (Runs(n)' \/ ByWorker(n)' \/ ByCleaner(n)')
      BY DEF Known
    <2>1. CASE n \in Lives
      <3>1. entry[n] # 0 /\ (Runs(n) \/ ByCleaner(n))
        BY <1>1, <2>1 DEF Around, LostInv, Known, ByWorker
      <3> QED
        BY <1>1, <1>2, <3>1 DEF Runs, ByCleaner
    <2>2. CASE n = m /\ ~race
      BY <1>1, <1>3, <1>4, <2>2 DEF ByWorker
    <2> QED
      BY <1>5, <2>1, <2>2
  <1> QED
    BY <1>3, <1>6, <1>7 DEF Preserved, TakenDown

LEMMA ComposeFailsKeeps ==
  ASSUME AllExcused, Around, ComposeFails
  PROVE  Preserved
  <1>n. Named /\ Roles
    BY DEF Around, CatalogInv, LostInv
  <1>1. Worker.pc = "start" /\ UNCHANGED <<entry, lastId, runs>>
    BY DEF ComposeFails, At, Worker
  <1>2. Worker' = Onward("job") /\ Cleaner' = Cleaner
    BY <1>n, Two DEF ComposeFails
  <1>3. Worker'.pc \in {"free", "restart", "again"}
    BY <1>n, <1>2, AfterWorker
  <1>4. Lives' \subseteq Lives
    BY DEF ComposeFails, Lives, AllExcused, ExcuseKinds
  <1>5. EntriesStay
    BY <1>1 DEF EntriesStay
  <1>6. Known'
    BY <1>1, <1>2, <1>4, <1>5, KnownStays DEF Runs, ByWorker, ByCleaner
  <1> QED
    BY <1>2, <1>3, <1>4, <1>5, <1>6, CleanerStays DEF Preserved, TakenDown

(* The row goes under the id that the challenge still has.                  *)
LEMMA SaveKeeps ==
  ASSUME Around, SaveRuntime
  PROVE  Preserved
  <1>n. Named /\ Roles
    BY DEF Around, CatalogInv, LostInv
  <1>1. /\ Worker.pc = "save" /\ UNCHANGED <<entry, lastId, container, excused>>
        /\ runs' = [runs EXCEPT ![Worker.id] = Worker.n] /\ Worker.n \in Names
    BY <1>n, Shape DEF SaveRuntime, At, Worker
  <1>2. Worker' = Onward("job") /\ Cleaner' = Cleaner
    BY <1>n, Two DEF SaveRuntime
  <1>3. Worker'.pc \in {"free", "restart", "again"}
    BY <1>n, <1>2, AfterWorker
  <1>4. Lives' = Lives /\ EntriesStay
    BY <1>1 DEF Lives, EntriesStay
  <1>5. \A n \in Names : n # None
    BY TypedAssumption, BoundAssumption
  <1>6. ASSUME NEW n \in Lives', Runs(n) \/ ByWorker(n)
        PROVE  Runs(n)'
    <2>1. n \in Names /\ entry[n] # 0
      BY <1>4 DEF Around, CatalogInv, LostInv, Known, DataOK, Lives
    <2>2. entry[n] \in Ids /\ runs \in [Ids -> Names \cup {None}]
      BY <2>1, BoundAssumption DEF Around, CatalogInv, DataOK, Ids
    <2>3. runs'[entry[n]] # None
      BY <1>1, <1>5, <1>6, <2>2 DEF Runs, ByWorker
    <2> QED
      BY <1>1, <2>1, <2>3 DEF Runs
  <1>7. \A n : ByCleaner(n) => ByCleaner(n)'
    BY <1>2 DEF ByCleaner
  <1>8. Known'
    BY <1>4, <1>6, <1>7, KnownStays
  <1> QED
    BY <1>2, <1>3, <1>4, <1>8, CleanerStays DEF Preserved, TakenDown

(* New entries do not touch those that are there.                           *)
LEMMA NewKeeps ==
  ASSUME Around, UNCHANGED <<runs, container, excused>>, Cleaner' = Cleaner,
         \A n \in Names : entry[n] # 0 => entry'[n] = entry[n],
         \/ Worker' = Worker
         \/ Worker.pc = "register" /\ Worker'.pc = "restart"
  PROVE  Preserved
  <1>1. Lives' = Lives /\ EntriesStay
    BY DEF Lives, EntriesStay
  <1>2. \A n \in Lives : n \in Names /\ entry[n] # 0 /\ entry'[n] = entry[n]
    BY DEF Around, CatalogInv, DataOK, LostInv, Known, Lives
  <1>3. Known'
    BY <1>1, <1>2, KnownStays DEF Runs, ByWorker, ByCleaner
  <1>4. TakenDown'
    BY TakenStays DEF TakenDown
  <1> QED
    BY <1>1, <1>3, <1>4, CleanerStays DEF Preserved

LEMMA RegisterKeeps ==
  ASSUME Around, Register
  PROVE  Preserved
  <1> DEFINE p(changed) == [Worker EXCEPT !.pc = "restart", !.todo = changed, !.on = {}]
  <1>n. DataOK /\ Named /\ Owned
    BY DEF Around, CatalogInv
  <1>1. PICK changed \in SUBSET Worker.todo : proc' = [proc EXCEPT !["job"] = p(changed)]
    BY DEF Register, Worker
  <1>2. p(changed).pc = "restart"
    BY <1>n, Two DEF Proc
  <1> HIDE DEF p
  <1>3. Worker' = p(changed) /\ Cleaner' = Cleaner
    BY <1>n, <1>1, Two
  <1>4. \A n \in Names : entry[n] # 0 => entry'[n] = entry[n]
    BY <1>n, Registered
  <1>5. Worker.pc = "register" /\ UNCHANGED <<runs, container, excused>>
    BY DEF Register, At, Worker
  <1> QED
    BY <1>2, <1>3, <1>4, <1>5, NewKeeps

LEMMA AddKeeps ==
  ASSUME Around, NEW k \in Names, Add(k)
  PROVE  Preserved
  <1>1. UNCHANGED <<runs, container, excused>> /\ Worker' = Worker /\ Cleaner' = Cleaner
    BY DEF Add, Worker, Cleaner
  <1>2. \A n \in Names : entry[n] # 0 => entry'[n] = entry[n]
    BY DEF Add, Around, CatalogInv, DataOK
  <1> QED
    BY <1>1, <1>2, NewKeeps

(* The stops of the worker: the row of the challenge goes, and what is left *)
(* of its container has an excuse unless it is in hand.                     *)
LEMMA WorkerStops ==
  ASSUME Around, UNCHANGED <<entry, lastId>>, Cleaner' = Cleaner, Lives' \subseteq Lives,
         NEW id, runs' = runs \/ runs' = Stopped(id),
         \A n \in Lives' : ByWorker(n) \/ (runs' # runs /\ entry[n] = id) => ByWorker(n)'
  PROVE  Deleting' /\ Cleared' /\ Known'
  <1>1. EntriesStay
    BY DEF EntriesStay
  <1>2. ASSUME NEW n \in Lives', Runs(n) PROVE Runs(n)' \/ ByWorker(n)'
    <2>1. n \in Names /\ entry[n] # 0
      BY <1>2 DEF Around, CatalogInv, DataOK, Lives, Runs
    <2> QED
      BY <1>2, <2>1, RunsStay
  <1>3. \A n : ByCleaner(n) => ByCleaner(n)'
    BY DEF ByCleaner
  <1>4. Known'
    BY <1>1, <1>2, <1>3, KnownStays
  <1> QED
    BY <1>1, <1>4, CleanerStays

(* A container with no excuse has an entry, which is its own.               *)
LEMMA InHand ==
  ASSUME Around, NEW n \in Lives
  PROVE  n \in Names /\ entry[n] # 0 /\ \A m \in Names : entry[m] = entry[n] => m = n
  BY OneName DEF Around, CatalogInv, LostInv, Known, DataOK, Lives

LEMMA RestartKeeps ==
  ASSUME AllExcused, Around, NEW k \in Names, Restart(k)
  PROVE  Preserved
  <1> DEFINE p == [Worker EXCEPT !.pc = "stop", !.n = k, !.todo = Worker.todo \ {k}]
             r == [Worker EXCEPT !.todo = Worker.todo \ {k}]
  <1>n. Named
    BY DEF Around, CatalogInv
  <1>1. Worker.pc = "restart" /\ UNCHANGED <<entry, lastId, container>>
    BY DEF Restart, At, Worker
  <1>2. p.pc = "stop" /\ r.pc = "restart"
    BY <1>n, <1>1, Two DEF Proc
  <1>3. \/ proc' = [proc EXCEPT !["job"] = p] /\ UNCHANGED <<runs, excused>>
        \/ proc' = [proc EXCEPT !["job"] = r] /\ UNCHANGED <<runs, excused>>
        \/ /\ proc' = [proc EXCEPT !["job"] = r] /\ runs' = Stopped(entry[k])
           /\ excused' = excused \cup Excused("status", k)
    BY DEF Restart, Worker
  <1> HIDE DEF p, r
  <1>4. Cleaner' = Cleaner /\ Worker'.pc \in {"stop", "restart"}
    BY <1>n, <1>2, <1>3, Two
  <1>5. CASE UNCHANGED <<runs, excused>>
    BY <1>1, <1>4, <1>5, Quiet DEF Preserved
  <1>6. CASE runs' = Stopped(entry[k]) /\ excused' = excused \cup Excused("status", k)
    <2>1. Lives' \subseteq Lives /\ k \notin Lives'
      BY <1>1, <1>6 DEF Lives, Excused, AllExcused, ExcuseKinds
    <2>2. \A n \in Lives' : entry[n] # entry[k] /\ ~ByWorker(n)
      BY <1>1, <2>1, InHand DEF ByWorker
    <2>3. Deleting' /\ Cleared' /\ Known'
      BY <1>1, <1>4, <1>6, <2>1, <2>2, WorkerStops
    <2> QED
      BY <1>4, <2>3 DEF Preserved, TakenDown
  <1> QED
    BY <1>3, <1>5, <1>6

(* The row of a start is not written: its container has an excuse.         *)
LEMMA SaveFailsKeeps ==
  ASSUME AllExcused, Around, SaveFails
  PROVE  Preserved
  <1>n. Named /\ Roles
    BY DEF Around, CatalogInv, LostInv
  <1>1. Worker.pc = "save" /\ UNCHANGED <<entry, lastId, runs, container>>
    BY DEF SaveFails, At, Worker
  <1>2. Worker' = Onward("job") /\ Cleaner' = Cleaner
    BY <1>n, Two DEF SaveFails
  <1>3. Worker'.pc \in {"free", "restart", "again"}
    BY <1>n, <1>2, AfterWorker
  <1>4. Lives' \subseteq Lives /\ Worker.n \notin Lives'
    BY <1>1 DEF SaveFails, Worker, Lives, Excused, AllExcused, ExcuseKinds
  <1>5. \A n \in Lives' : ~ByWorker(n)
    BY <1>4 DEF ByWorker
  <1>6. Deleting' /\ Cleared' /\ Known'
    BY <1>1, <1>2, <1>4, <1>5, WorkerStops
  <1> QED
    BY <1>3, <1>6 DEF Preserved, TakenDown

(* A down that is refused leaves everything as it was.                     *)
LEMMA WorkerRefusedKeeps ==
  ASSUME Around, StopRefused("job")
  PROVE  Preserved
  <1>n. Named /\ Roles
    BY DEF Around, CatalogInv, LostInv
  <1>1. Worker.pc = "mark" /\ UNCHANGED <<entry, lastId, runs, container>> /\ excused \subseteq excused'
    BY DEF StopRefused, At, Worker
  <1>2. Worker' = AfterStop("job", FALSE) /\ Cleaner' = Cleaner
    BY <1>n, Two DEF StopRefused
  <1>3. Worker'.pc \in {"free", "restart", "again"}
    BY <1>n, <1>2, AfterWorker
  <1>4. Lives' \subseteq Lives /\ \A n \in Lives' : ~ByWorker(n)
    BY <1>1 DEF Lives, ByWorker
  <1>5. Deleting' /\ Cleared' /\ Known'
    BY <1>1, <1>2, <1>4, WorkerStops
  <1> QED
    BY <1>3, <1>5 DEF Preserved, TakenDown

LEMMA WorkerMarkKeeps ==
  ASSUME Around, MarkStopped("job")
  PROVE  Preserved
  <1>n. Named /\ Roles
    BY DEF Around, CatalogInv, LostInv
  <1>1. /\ Worker.pc = "mark" /\ UNCHANGED <<entry, lastId, container, excused>>
        /\ runs' = runs \/ runs' = Stopped(entry[Worker.n])
        /\ Worker.n \in Names
    BY <1>n, Shape DEF MarkStopped, At, Worker
  <1>2. Worker' = [Worker EXCEPT !.pc = "stop"] /\ Cleaner' = Cleaner
    BY <1>n, Two DEF MarkStopped
  <1>3. Worker'.pc = "stop" /\ Worker'.n = Worker.n /\ Worker'.op # "sync"
    BY <1>n, <1>1, <1>2, Two DEF Proc, Roles
  <1>4. Lives' = Lives
    BY <1>1 DEF Lives
  <1>5. \A n \in Lives' : ByWorker(n) \/ entry[n] = entry[Worker.n] => ByWorker(n)'
    BY <1>1, <1>3, <1>4, InHand DEF ByWorker
  <1>6. Deleting' /\ Cleared' /\ Known'
    BY <1>1, <1>2, <1>4, <1>5, WorkerStops
  <1> QED
    BY <1>3, <1>6 DEF Preserved, TakenDown

LEMMA WorkerDownKeeps ==
  ASSUME Around, ComposeDown("job")
  PROVE  Preserved
  <1> DEFINE m == Worker.n
  <1>n. Named /\ Roles
    BY DEF Around, CatalogInv, LostInv
  <1>1. /\ Worker.pc = "stop" /\ UNCHANGED <<entry, lastId, runs>> /\ entry[m] # 0
        /\ container' = container \ {m} /\ excused' = excused \ {m} /\ m \in Names
    BY <1>n, Shape DEF ComposeDown, At, Worker
  <1>2. proc' = [proc EXCEPT !["job"] = [Worker EXCEPT !.pc = "stopped", !.id = entry[m]]]
    BY <1>n DEF ComposeDown, Named, Worker
  <1>3. Worker' = [Worker EXCEPT !.pc = "stopped", !.id = entry[m]] /\ Cleaner' = Cleaner
    BY <1>n, <1>2, Two
  <1>4. Worker'.pc = "stopped" /\ Worker'.n = m /\ Worker'.id = entry[m]
    BY <1>n, <1>3, Two DEF Proc
  <1>5. Lives' \subseteq Lives /\ m \notin container'
    BY <1>1 DEF Lives
  <1> HIDE DEF m
  <1>6. \A n \in Lives' : ~ByWorker(n)
    <2>1. \A n \in Lives' : n # m
      BY <1>5 DEF Lives
    <2> QED
      BY <2>1 DEF ByWorker, m
  <1>7. Deleting' /\ Cleared' /\ Known'
    BY <1>1, <1>3, <1>5, <1>6, WorkerStops
  <1>8. entry[m] \in Ids /\ entry[m] <= lastId /\ \A n \in Names : entry[n] = entry[m] => n = m
    BY <1>1, BoundAssumption DEF Around, CatalogInv, DataOK, Owned, Ids
  <1>9. TakenDown'
    BY <1>1, <1>4, <1>5, <1>8 DEF TakenDown, HandedTo
  <1> QED
    BY <1>7, <1>9 DEF Preserved

LEMMA WorkerSavedKeeps ==
  ASSUME Around, SaveStopped("job")
  PROVE  Preserved
  <1>n. Named /\ Roles
    BY DEF Around, CatalogInv, LostInv
  <1>1. /\ Worker.pc = "stopped" /\ UNCHANGED <<entry, lastId, container, excused>>
        /\ runs' = runs \/ runs' = Stopped(Worker.id)
    BY DEF SaveStopped, At, Worker
  <1>2. /\ Cleaner' = Cleaner
        /\ Worker' = AfterStop("job", TRUE) \/ Worker' = AfterStop("job", FALSE)
    BY <1>n, Two DEF SaveStopped
  <1>3. Worker'.pc \in {"free", "restart", "again"}
    BY <1>n, <1>2, AfterWorker
  <1>4. Lives' = Lives
    BY <1>1 DEF Lives
  <1>5. \A n \in Lives : entry[n] # Worker.id /\ ~ByWorker(n)
    BY <1>1, InHand DEF Around, LostInv, TakenDown, HandedTo, ByWorker, Lives
  <1>6. Deleting' /\ Cleared' /\ Known'
    BY <1>1, <1>2, <1>4, <1>5, WorkerStops
  <1> QED
    BY <1>3, <1>6 DEF Preserved, TakenDown

LEMMA WorkerFailsKeeps ==
  ASSUME AllExcused, Around, StopFails("job") \/ StopWithoutFolder("job")
  PROVE  Preserved
  <1> DEFINE m == Worker.n
  <1>n. Named /\ Roles
    BY DEF Around, CatalogInv, LostInv
  <1>1. Worker.pc = "stop" /\ UNCHANGED <<entry, lastId, container>> /\ m \in Names
    BY <1>n, Shape DEF StopFails, StopWithoutFolder, At, Worker
  <1>2. /\ Cleaner' = Cleaner
        /\ Worker' = AfterStop("job", TRUE) \/ Worker' = AfterStop("job", FALSE)
    BY <1>n, Two DEF StopFails, StopWithoutFolder
  <1>3. Worker'.pc \in {"free", "restart", "again"}
    BY <1>n, <1>2, AfterWorker
  <1>4. /\ excused \subseteq excused'
        /\ runs' = runs \/ runs' = Stopped(entry[m])
    BY DEF StopFails, StopWithoutFolder, Worker
  <1>5. Lives' \subseteq Lives
    BY <1>1, <1>4 DEF Lives
  <1>6. StopFails("job") => runs' = runs /\ (entry[m] = 0 \/ Worker.op = "sync" \/ m \notin Lives')
    BY DEF StopFails, Worker, AllExcused, ExcuseKinds, Excused, Lives
  <1>7. StopWithoutFolder("job") => m \notin Lives'
    BY DEF StopWithoutFolder, Worker, AllExcused, ExcuseKinds, Excused, Lives
  <1> HIDE DEF m
  <1>8. \A n \in Lives' : n = m => StopFails("job") /\ Worker.op = "sync"
    BY <1>5, <1>6, <1>7, InHand
  <1>9. \A n \in Lives' : ~ByWorker(n)
    BY <1>1, <1>8 DEF ByWorker, m
  <1>10. \A n \in Lives' : runs' # runs => entry[n] # entry[m]
    BY <1>1, <1>5, <1>6, <1>8, InHand
  <1>11. Deleting' /\ Cleared' /\ Known'
    BY <1>1, <1>2, <1>4, <1>5, <1>9, <1>10, WorkerStops
  <1> QED
    BY <1>3, <1>11 DEF Preserved, TakenDown

-----------------------------------------------------------------------------
(* remove and prune.                                                        *)

(* What they have stopped does not run, or has an excuse.                   *)
LEMMA CleanerStops ==
  ASSUME Around, UNCHANGED <<entry, lastId>>, Worker' = Worker, Lives' \subseteq Lives,
         container' \subseteq container, Cleaner.pc \in {"mark", "stop", "stopped"},
         runs' = runs \/ runs' = Stopped(entry[Cleaner.n]),
         NEW pc \in {"stop", "stopped", "delete"}, NEW id,
         Cleaner' = [Cleaner EXCEPT !.pc = pc, !.id = id],
         pc = "stopped" => id = entry[Cleaner.n],
         pc = "stop" \/ Cleaner.n \notin Lives'
  PROVE  Preserved
  <1>n. Named /\ Roles /\ Deleting /\ Cleared
    BY DEF Around, CatalogInv, LostInv
  <1>1. /\ Cleaner'.pc = pc /\ Cleaner'.id = id
        /\ Cleaner'.op = Cleaner.op /\ Cleaner'.t = Cleaner.t /\ Cleaner'.n = Cleaner.n
        /\ Cleaner'.ids = Cleaner.ids /\ Cleaner'.todo = Cleaner.todo
    BY <1>n, Two DEF Proc
  <1>2. Cleaner.op # "none" /\ ~Partly /\ Cleaner.n \in Names
    BY <1>n DEF Roles, Idle, Deleting
  <1>3. Deleting'
    BY <1>n, <1>1, <1>2 DEF Deleting, Partly
  <1>4. Cleared'
    <2>1. ~Partly'
      BY <1>1, <1>2 DEF Partly
    <2> SUFFICES ASSUME NEW n \in Lives', entry[n] \in Cleaner.ids
                 PROVE  n \in Cleaner.todo \/ (n = Cleaner.n /\ pc = "stop")
      BY <1>1, <2>1 DEF Cleared
    <2> QED
      BY <1>n, <1>2 DEF Cleared
  <1>5. \A n : ByWorker(n) => ByWorker(n)'
    BY DEF ByWorker
  <1>6. ASSUME NEW n \in Lives', n # Cleaner.n, Runs(n) PROVE Runs(n)'
    <2>1. n \in Names /\ entry[n] # 0 /\ entry[n] # entry[Cleaner.n]
      BY <1>2, <1>6, InHand
    <2> QED
      BY <1>6, <2>1, RunsStay
  <1>7. ASSUME NEW n \in Lives' PROVE ByCleaner(n) \/ n = Cleaner.n => ByCleaner(n)'
    BY <1>1, <1>7 DEF ByCleaner
  <1>8. Known'
    BY <1>5, <1>6, <1>7, KnownStays DEF EntriesStay
  <1> QED
    BY <1>3, <1>4, <1>8, TakenStays DEF Preserved

LEMMA CleanerMarkKeeps ==
  ASSUME Around, MarkStopped("adm")
  PROVE  Preserved
  <1>n. Named
    BY DEF Around, CatalogInv
  <1>1. /\ Cleaner.pc = "mark" /\ UNCHANGED <<entry, lastId, container, excused>>
        /\ runs' = runs \/ runs' = Stopped(entry[Cleaner.n])
        /\ Goto("adm", "stop")
    BY DEF MarkStopped, At, Cleaner
  <1>2. Cleaner' = [Cleaner EXCEPT !.pc = "stop"] /\ Worker' = Worker
    BY <1>n, <1>1, Two
  <1>3. Cleaner' = [Cleaner EXCEPT !.pc = "stop", !.id = Cleaner.id]
    BY <1>n, <1>2, Two DEF Proc
  <1>4. Lives' = Lives
    BY <1>1 DEF Lives
  <1> QED
    BY <1>1, <1>2, <1>3, <1>4, CleanerStops

LEMMA CleanerDownKeeps ==
  ASSUME Around, ComposeDown("adm")
  PROVE  Preserved
  <1> DEFINE m == Cleaner.n
  <1>n. Named
    BY DEF Around, CatalogInv
  <1>1. /\ Cleaner.pc = "stop" /\ UNCHANGED <<entry, lastId, runs>>
        /\ container' = container \ {m} /\ excused' = excused \ {m}
    BY DEF ComposeDown, At, Cleaner
  <1>2. proc' = [proc EXCEPT !["adm"] = [Cleaner EXCEPT !.pc = "stopped", !.id = entry[m]]]
    BY <1>n DEF ComposeDown, Named, Cleaner
  <1>3. Cleaner' = [Cleaner EXCEPT !.pc = "stopped", !.id = entry[m]] /\ Worker' = Worker
    BY <1>n, <1>2, Two
  <1>4. Lives' \subseteq Lives /\ m \notin Lives' /\ container' \subseteq container
    BY <1>1 DEF Lives
  <1> QED
    BY <1>1, <1>3, <1>4, CleanerStops

LEMMA CleanerSavedKeeps ==
  ASSUME Around, SaveStopped("adm")
  PROVE  Preserved
  <1>n. Named /\ Roles /\ Deleting /\ Cleared
    BY DEF Around, CatalogInv, LostInv
  <1>1. /\ Cleaner.pc = "stopped" /\ UNCHANGED <<entry, lastId, container, excused>>
        /\ runs' = runs \/ runs' = Stopped(Cleaner.id)
    BY DEF SaveStopped, At, Cleaner
  <1>2. Cleaner' = [Cleaner EXCEPT !.pc = "delete", !.id = 0] /\ Worker' = Worker
    BY <1>n, <1>1, Two, AfterCleaner DEF SaveStopped
  <1>3. Cleaner.op # "none" /\ ~Partly /\ Cleaner.id = entry[Cleaner.n]
    BY <1>n, <1>1 DEF Roles, Idle, Deleting
  <1>4. Lives' = Lives
    BY <1>1 DEF Lives
  <1>5. Cleaner.n \notin Lives
    BY <1>n, <1>1, <1>3 DEF Deleting, Cleared
  <1> QED
    BY <1>1, <1>2, <1>3, <1>4, <1>5, CleanerStops

LEMMA CleanerFailsKeeps ==
  ASSUME AllExcused, Around, StopFails("adm") \/ StopWithoutFolder("adm")
  PROVE  Preserved
  <1> DEFINE m == Cleaner.n
  <1>n. Named /\ Roles /\ Deleting
    BY DEF Around, CatalogInv, LostInv
  <1>1. Cleaner.pc = "stop" /\ UNCHANGED <<entry, lastId, container>>
    BY DEF StopFails, StopWithoutFolder, At, Cleaner
  <1>2. Cleaner' = [Cleaner EXCEPT !.pc = "delete", !.id = 0] /\ Worker' = Worker
    BY <1>n, <1>1, Two, AfterCleaner DEF StopFails, StopWithoutFolder
  <1>3. entry[m] # 0 /\ Cleaner.op # "sync"
    BY <1>n, <1>1 DEF Roles, Idle, Deleting
  <1>4. /\ excused \subseteq excused'
        /\ runs' = runs \/ runs' = Stopped(entry[m])
    BY DEF StopFails, StopWithoutFolder, Cleaner
  <1>5. Lives' \subseteq Lives
    BY <1>1, <1>4 DEF Lives
  <1>6. m \notin Lives'
    BY <1>3 DEF StopFails, StopWithoutFolder, Cleaner, AllExcused, ExcuseKinds, Excused, Lives
  <1> HIDE DEF m
  <1> QED
    BY <1>1, <1>2, <1>4, <1>5, <1>6, CleanerStops DEF m

(* A stop that is refused: what is deleted all the same has an excuse.     *)
LEMMA CleanerRefusedKeeps ==
  ASSUME AllExcused, Around, StopRefused("adm")
  PROVE  Preserved
  <1> DEFINE m == Cleaner.n
  <1>n. Named /\ Roles /\ Deleting
    BY DEF Around, CatalogInv, LostInv
  <1>1. Cleaner.pc = "mark" /\ UNCHANGED <<entry, lastId, runs, container>>
    BY DEF StopRefused, At, Cleaner
  <1>2. Cleaner' = [Cleaner EXCEPT !.pc = "delete", !.id = 0] /\ Worker' = Worker
    BY <1>n, <1>1, Two, AfterCleaner DEF StopRefused
  <1>3. Cleaner.op # "down"
    BY <1>n DEF Roles
  <1>4. Lives' \subseteq Lives
    BY <1>1 DEF StopRefused, Lives
  <1>5. m \notin Lives'
    BY <1>1, <1>3 DEF StopRefused, Cleaner, AllExcused, ExcuseKinds, Excused, Lives
  <1> QED
    BY <1>1, <1>2, <1>4, <1>5, CleanerStops

(* A command begins to delete, goes on with the next challenge, or is about *)
(* to write: containers and rows are as they were.                          *)
LEMMA Reads ==
  ASSUME Around, UNCHANGED <<entry, lastId, runs, container, excused>>, Worker' = Worker,
         Cleaner.pc # "stop", Deleting', Cleared'
  PROVE  Preserved
  <1>1. Lives' = Lives /\ EntriesStay
    BY DEF Lives, EntriesStay
  <1>2. Known'
    BY <1>1, KnownStays DEF Runs, ByWorker, ByCleaner
  <1> QED
    BY <1>2, TakenStays DEF Preserved

LEMMA RemoveKeeps ==
  ASSUME Around, NEW t \in Typed, BeginRemove(t)
  PROVE  Preserved
  <1> DEFINE k == Resolve(t)
             p == [Idle EXCEPT !.op = "remove", !.pc = IF t = k THEN "mark" ELSE "delete",
                               !.t = t, !.n = k, !.ids = {entry[k]}]
  <1>n. Named /\ Roles /\ Deleting /\ Cleared
    BY DEF Around, CatalogInv, LostInv
  <1>1. Resolve(t) # None /\ UNCHANGED <<entry, lastId, runs, container, excused>>
        /\ proc' = [proc EXCEPT !["adm"] = p] /\ Cleaner.op = "none"
    BY DEF BeginRemove, Free, Cleaner
  <1>2. k \in Names /\ entry[k] # 0
    BY <1>1, ResolveFinds
  <1> HIDE DEF k
  <1>3. /\ p.op = "remove" /\ p.t = t /\ p.n = k /\ p.ids = {entry[k]} /\ p.todo = {}
        /\ p.pc = IF t = k THEN "mark" ELSE "delete"
    BY DEF Idle
  <1> HIDE DEF p
  <1>4. Cleaner' = p /\ Worker' = Worker
    BY <1>n, <1>1, Two
  <1>5. entry[k] <= lastId
    BY <1>2 DEF Around, CatalogInv, Owned
  <1>6. Deleting'
    BY <1>1, <1>2, <1>3, <1>4, <1>5 DEF Deleting, Partly
  <1>7. Cleared'
    <2> SUFFICES ASSUME NEW n \in Lives', entry[n] = entry[k]
                 PROVE  n = k
      BY <1>1, <1>3, <1>4 DEF Cleared, Partly
    <2>1. n \in Names
      BY <1>1 DEF Lives, Around, CatalogInv, DataOK
    <2> QED
      BY <1>2, <2>1, OneName
  <1>8. Cleaner.pc # "stop"
    BY <1>n, <1>1 DEF Roles, Idle
  <1> QED
    BY <1>1, <1>4, <1>6, <1>7, <1>8, Reads

LEMMA PruneKeeps ==
  ASSUME Around, BeginPrune
  PROVE  Preserved
  <1> DEFINE stale == {n \in Entries : entry[n] \notin enabled}
             p(n) == [Idle EXCEPT !.op = "prune", !.pc = "mark", !.n = n,
                                  !.todo = stale \ {n}, !.ids = {entry[m] : m \in stale}]
  <1>n. Named /\ Roles /\ Deleting /\ Cleared
    BY DEF Around, CatalogInv, LostInv
  <1>1. UNCHANGED <<entry, lastId, runs, container, excused>> /\ Cleaner.op = "none"
    BY DEF BeginPrune, Free, Cleaner
  <1>0. PICK k \in stale : proc' = [proc EXCEPT !["adm"] = p(k)]
    BY DEF BeginPrune
  <1>2. \A n \in stale : n \in Names /\ entry[n] # 0
    BY DEF Entries
  <1> HIDE DEF stale
  <1>3. /\ p(k).op = "prune" /\ p(k).n = k /\ p(k).ids = {entry[m] : m \in stale}
        /\ p(k).todo = stale \ {k} /\ p(k).pc = "mark"
    BY DEF Idle
  <1> HIDE DEF p
  <1>4. Cleaner' = p(k) /\ Worker' = Worker
    BY <1>n, <1>0, Two
  <1>5. \A n \in stale : entry[n] <= lastId
    BY <1>2 DEF Around, CatalogInv, Owned
  <1>6. Deleting'
    BY <1>0, <1>1, <1>2, <1>3, <1>4, <1>5 DEF Deleting, Partly
  <1>7. Cleared'
    <2> SUFFICES ASSUME NEW n \in Lives', NEW m \in stale, entry[n] = entry[m]
                 PROVE  n \in stale
      BY <1>1, <1>3, <1>4 DEF Cleared, Partly
    <2>1. n \in Names
      BY <1>1 DEF Lives, Around, CatalogInv, DataOK
    <2> QED
      BY <1>2, <2>1, OneName
  <1>8. Cleaner.pc # "stop"
    BY <1>n, <1>1 DEF Roles, Idle
  <1> QED
    BY <1>1, <1>4, <1>6, <1>7, <1>8, Reads

LEMMA FolderKeeps ==
  ASSUME Around, DeleteFolder
  PROVE  Preserved
  <1> DEFINE p(n) == [Cleaner EXCEPT !.pc = "mark", !.n = n, !.todo = Cleaner.todo \ {n}]
             q == [Cleaner EXCEPT !.pc = "forget"]
  <1>n. Named /\ Roles /\ Deleting /\ Cleared
    BY DEF Around, CatalogInv, LostInv
  <1>1. UNCHANGED <<entry, lastId, runs, container, excused>> /\ Cleaner.pc = "delete"
    BY DEF DeleteFolder, At, Cleaner
  <1>2. Cleaner.op # "none" /\ Cleaner \in Proc /\ Cleaner.todo \subseteq Names
    BY <1>n, <1>1, Two DEF Roles, Idle, Proc
  <1>3. CASE Cleaner.todo = {} /\ Goto("adm", "forget")
    <2>1. Cleaner' = q /\ Worker' = Worker
      BY <1>n, <1>3, Two
    <2>2. /\ q.pc = "forget" /\ q.op = Cleaner.op /\ q.t = Cleaner.t /\ q.n = Cleaner.n
          /\ q.ids = Cleaner.ids /\ q.todo = {}
      BY <1>2, <1>3 DEF Proc
    <2> HIDE DEF q
    <2>3. Deleting'
      BY <1>n, <1>1, <1>2, <1>3, <2>1, <2>2 DEF Deleting, Partly
    <2>4. Lives' = Lives
      BY <1>1 DEF Lives
    <2>5. Cleared'
      BY <1>n, <1>1, <1>3, <2>1, <2>2, <2>4 DEF Cleared, Partly
    <2> QED
      BY <1>1, <2>1, <2>3, <2>5, Reads
  <1>4. ASSUME NEW k \in Cleaner.todo, proc' = [proc EXCEPT !["adm"] = p(k)]
        PROVE  Preserved
    <2>1. Cleaner' = p(k) /\ Worker' = Worker
      BY <1>n, <1>4, Two
    <2>2. /\ p(k).pc = "mark" /\ p(k).op = Cleaner.op /\ p(k).n = k
          /\ p(k).ids = Cleaner.ids /\ p(k).todo = Cleaner.todo \ {k}
      BY <1>2 DEF Proc
    <2> HIDE DEF p
    <2>3. Cleaner.op # "remove"
      BY <1>n, <1>4 DEF Deleting
    <2>4. Deleting'
      BY <1>n, <1>1, <1>2, <1>4, <2>1, <2>2, <2>3 DEF Deleting, Partly
    <2>5. Lives' = Lives
      BY <1>1 DEF Lives
    <2>6. Cleared'
      BY <1>n, <1>1, <2>1, <2>2, <2>3, <2>5 DEF Cleared, Partly
    <2> QED
      BY <1>1, <2>1, <2>4, <2>6, Reads
  <1> QED
    BY <1>3, <1>4 DEF DeleteFolder, Cleaner

(* What is not deleted stays.                                              *)
LEMMA ForgetFailsKeeps ==
  ASSUME Around, ForgetFails
  PROVE  Preserved
  <1>n. Named
    BY DEF Around, CatalogInv
  <1>1. /\ Cleaner.pc = "forget" /\ UNCHANGED <<entry, lastId, runs, container, excused>>
        /\ proc' = [proc EXCEPT !["adm"] = Idle]
    BY DEF ForgetFails, At, Cleaner, Done
  <1>2. Cleaner' = Idle /\ Worker' = Worker
    BY <1>n, <1>1, Two
  <1>3. Lives' = Lives /\ EntriesStay
    BY <1>1 DEF Lives, EntriesStay
  <1>4. \A n : Runs(n) \/ ByWorker(n) \/ ByCleaner(n) => Runs(n)' \/ ByWorker(n)'
    BY <1>1, <1>2 DEF Runs, ByWorker, ByCleaner
  <1>5. Known'
    BY <1>3, <1>4, KnownStays
  <1>6. Deleting' /\ Cleared'
    BY <1>2 DEF Deleting, Cleared, Partly, Idle
  <1> QED
    BY <1>1, <1>2, <1>5, <1>6, TakenStays DEF Preserved

(* The rows that are deleted are those of nothing that runs without excuse. *)
LEMMA ForgetKeeps ==
  ASSUME AllExcused, Around, Forget
  PROVE  Preserved
  <1>n. Named /\ Roles /\ Deleting /\ Cleared
    BY DEF Around, CatalogInv, LostInv
  <1>1. /\ Cleaner.pc = "forget" /\ UNCHANGED <<lastId, container>>
        /\ entry' = [n \in Names |-> IF entry[n] \in Cleaner.ids THEN 0 ELSE entry[n]]
        /\ runs' = [i \in Ids |-> IF i \in Cleaner.ids THEN None ELSE runs[i]]
        /\ excused' = excused \cup (IF Partly THEN Excused("partial", Cleaner.n) ELSE {})
        /\ proc' = [proc EXCEPT !["adm"] = Idle]
    BY DEF Forget, At, Cleaner, Partly, Done
  <1>2. Cleaner' = Idle /\ Worker' = Worker
    BY <1>n, <1>1, Two
  <1>3. Deleting' /\ Cleared'
    BY <1>2 DEF Deleting, Cleared, Partly, Idle
  <1>4. Lives' \subseteq Lives /\ (Partly => Cleaner.n \notin Lives')
    BY <1>1 DEF Lives, AllExcused, ExcuseKinds, Excused
  <1>5. Cleaner.todo = {}
    BY <1>n, <1>1 DEF Deleting
  <1>6. \A n \in Lives' : entry[n] \notin Cleaner.ids
    BY <1>n, <1>1, <1>4, <1>5 DEF Cleared
  <1>7. \A n \in Lives' : n \in Names /\ entry[n] # 0 /\ entry[n] \in Ids
    BY <1>4, InHand, BoundAssumption DEF Around, CatalogInv, DataOK, Ids
  <1>8. \A n \in Lives' : entry'[n] = entry[n] /\ runs'[entry[n]] = runs[entry[n]]
    BY <1>1, <1>6, <1>7
  <1>9. Known'
    <2> SUFFICES ASSUME NEW n \in Lives'
                 PROVE  entry'[n] # 0 /\ (Runs(n)' \/ ByWorker(n)')
      BY DEF Known
    <2>1. Runs(n) \/ ByWorker(n)
      BY <1>1, <1>4 DEF Around, LostInv, Known, ByCleaner
    <2> QED
      BY <1>2, <1>7, <1>8, <2>1 DEF Runs, ByWorker
  <1> QED
    BY <1>1, <1>2, <1>3, <1>9, TakenStays DEF Preserved

-----------------------------------------------------------------------------

(* status() takes a challenge for stopped: its container has an excuse.    *)
LEMMA StatusKeeps ==
  ASSUME AllExcused, Around, NEW k \in Names, Status(k)
  PROVE  Preserved
  <1>1. /\ UNCHANGED <<entry, lastId, container>> /\ Worker' = Worker /\ Cleaner' = Cleaner
        /\ runs' = Stopped(entry[k]) /\ entry[k] # 0
    BY DEF Status, Worker, Cleaner, Runs
  <1>2. Lives' \subseteq Lives /\ k \notin Lives'
    BY <1>1 DEF Status, Lives, Excused, AllExcused, ExcuseKinds
  <1>3. \A n \in Lives' : entry[n] # entry[k]
    BY <1>2, InHand
  <1>4. \A n : ByWorker(n) => ByWorker(n)'
    BY <1>1 DEF ByWorker
  <1>5. Deleting' /\ Cleared' /\ Known'
    BY <1>1, <1>2, <1>3, <1>4, WorkerStops
  <1> QED
    BY <1>1, <1>5, TakenStays DEF Preserved

(* A command that dies leaves rows and containers as they were, and what it *)
(* had in hand has a row that runs or an excuse.                            *)
LEMMA CrashKeeps ==
  ASSUME AllExcused, Around, NEW a \in Actors, Crash(a)
  PROVE  Preserved
  <1>n. Named /\ Roles /\ Deleting /\ Cleared
    BY DEF Around, CatalogInv, LostInv
  <1>1. /\ UNCHANGED <<entry, lastId, runs, container>> /\ proc' = [proc EXCEPT ![a] = Idle]
        /\ excused \subseteq excused'
    BY DEF Crash, Done
  <1>2. Lives' \subseteq Lives /\ EntriesStay
    BY <1>1 DEF Lives, EntriesStay
  <1>3. \A n : Runs(n) => Runs(n)'
    BY <1>1 DEF Runs
  <1>4. proc[a].pc \in {"save", "stop"} /\ ~Runs(proc[a].n) => proc[a].n \notin Lives'
    BY <1>1 DEF Crash, Lives, Excused, AllExcused, ExcuseKinds
  <1>5. CASE a = "job"
    <2>1. Worker' = Idle /\ Cleaner' = Cleaner
      BY <1>n, <1>1, <1>5, Two
    <2>2. \A n \in Lives' : ByWorker(n) => Runs(n)
      BY <1>4, <1>5 DEF ByWorker, Worker
    <2>3. \A n : ByCleaner(n) => ByCleaner(n)'
      BY <2>1 DEF ByCleaner
    <2>4. Known'
      BY <1>2, <1>3, <2>2, <2>3, KnownStays
    <2>5. Deleting' /\ Cleared'
      BY <1>2, <2>1, CleanerStays
    <2> QED
      BY <2>1, <2>4, <2>5 DEF Preserved, TakenDown, Idle
  <1>6. CASE a = "adm"
    <2>1. Cleaner' = Idle /\ Worker' = Worker
      BY <1>n, <1>1, <1>6, Two
    <2>2. \A n \in Lives' : ByCleaner(n) => Runs(n)
      BY <1>4, <1>6 DEF ByCleaner, Cleaner
    <2>3. \A n : ByWorker(n) => ByWorker(n)'
      BY <1>1, <2>1 DEF ByWorker
    <2>4. Known'
      BY <1>2, <1>3, <2>2, <2>3, KnownStays
    <2>5. Deleting' /\ Cleared'
      BY <2>1 DEF Deleting, Cleared, Partly, Idle
    <2> QED
      BY <1>1, <2>1, <2>4, <2>5, TakenStays DEF Preserved
  <1> QED
    BY <1>5, <1>6 DEF Actors

LEMMA LostInit == Init => LostInv
  <1> SUFFICES ASSUME Init PROVE LostInv
    OBVIOUS
  <1>1. Worker = Idle /\ Cleaner = Idle /\ Lives = {}
    BY DEF Init, Worker, Cleaner, Actors, Lives
  <1> QED
    BY <1>1 DEF LostInv, Roles, Deleting, Cleared, Known, TakenDown, Partly, Idle

LEMMA LostNext ==
  AllExcused /\ CatalogInv /\ LostInv /\ [Next]_vars => LostInv'
  <1> SUFFICES ASSUME AllExcused, CatalogInv, LostInv, [Next]_vars PROVE LostInv'
    OBVIOUS
  <1>1. Around
    BY CatalogNext, DataStep DEF Around, CatalogInv
  <1>2. Roles'
    BY RolesStep DEF LostInv
  <1>3. ASSUME NEW a \in Actors,
               \/ StopRefused(a) \/ MarkStopped(a) \/ ComposeDown(a) \/ SaveStopped(a)
               \/ StopFails(a) \/ StopWithoutFolder(a) \/ Crash(a)
        PROVE  Preserved
    <2>1. CASE a = "job"
      BY <1>1, <1>3, <2>1, WorkerRefusedKeeps, WorkerMarkKeeps, WorkerDownKeeps, WorkerSavedKeeps,
         WorkerFailsKeeps, CrashKeeps
    <2>2. CASE a = "adm"
      BY <1>1, <1>3, <2>2, CleanerRefusedKeeps, CleanerMarkKeeps, CleanerDownKeeps,
         CleanerSavedKeeps, CleanerFailsKeeps, CrashKeeps
    <2> QED
      BY <2>1, <2>2 DEF Actors
  <1>4. ASSUME NEW n \in Names, NEW force \in BOOLEAN, BeginUp(n, force) PROVE Preserved
    BY <1>1, <1>4, UpKeeps
  <1>5. ASSUME NEW n \in Names, BeginDown(n) \/ Add(n) \/ Restart(n) \/ Status(n)
        PROVE  Preserved
    BY <1>1, <1>5, DownKeeps, AddKeeps, RestartKeeps, StatusKeeps
  <1>6. ASSUME NEW t \in Typed, BeginRemove(t) PROVE Preserved
    BY <1>1, <1>6, RemoveKeeps
  <1>7. ASSUME Compose \/ ComposeFails \/ SaveRuntime \/ SaveFails PROVE Preserved
    BY <1>1, <1>7, ComposeKeeps, ComposeFailsKeeps, SaveKeeps, SaveFailsKeeps
  <1>8. ASSUME BeginPrune \/ DeleteFolder \/ Forget \/ ForgetFails PROVE Preserved
    BY <1>1, <1>8, PruneKeeps, FolderKeeps, ForgetKeeps, ForgetFailsKeeps
  <1>9. ASSUME Pull \/ Register \/ RegisterFails \/ StartAgain \/ EndSync PROVE Preserved
    BY <1>1, <1>9, PullKeeps, RegisterKeeps, EndKeeps, AgainKeeps
  <1>10. ASSUME UNCHANGED vars PROVE Preserved
    <2>1. UNCHANGED <<runs, container, excused, entry>> /\ Worker' = Worker /\ Cleaner' = Cleaner
      BY <1>10 DEF vars, Worker, Cleaner
    <2> QED
      BY <1>1, <2>1, NewKeeps
  <1>11. Preserved
    BY <1>3, <1>4, <1>5, <1>6, <1>7, <1>8, <1>9, <1>10 DEF Next
  <1> QED
    BY <1>2, <1>11 DEF Preserved, LostInv

(* However up, down, sync, add, remove, prune and status() overlap, fail    *)
(* and die as the actions of Catalog say: a running container is one that   *)
(* list, down and the expiry loop find, or it is excused, by a folder that  *)
(* was gone, a call that failed, a command that died, a part of a name, a   *)
(* race with remove or prune, or a status() that was wrong (start and stop  *)
(* of runtime_service.py, remove_challenge and prune_disabled_challenges).  *)
THEOREM NothingLost == AllExcused => (Spec => []NoLostContainer)
  <1> SUFFICES ASSUME AllExcused PROVE Spec => []NoLostContainer
    OBVIOUS
  <1>1. LostInv => NoLostContainer
    BY DEF LostInv, Known, NoLostContainer, AtWork, Lives, ByWorker, ByCleaner, Worker, Cleaner,
       Actors
  <1>2. CatalogInv /\ LostInv /\ [Next]_vars => (CatalogInv /\ LostInv)'
    BY CatalogNext, LostNext
  <1>3. Init => CatalogInv /\ LostInv
    BY CatalogInit, LostInit
  <1> QED
    BY <1>1, <1>2, <1>3, PTL DEF Spec
=============================================================================
