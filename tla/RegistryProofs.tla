--------------------------- MODULE RegistryProofs ---------------------------
(***************************************************************************)
(* Machine-checked theorems about Registry, for any processes, any         *)
(* repositories and groups and any bounds.                                 *)
(***************************************************************************)
EXTENDS Registry, TLAPS

USE ProcessAssumption, GroupAssumption, BoundAssumption

(* The values a registry can have: what each operation makes of one.       *)
LEMMA FreshType == Fresh \in Registries
  BY DEF Fresh, Registries

LEMMA FromDiskType == FromDisk \in Registries
  BY DEF FromDisk, Fresh, Registries

LEMMA AboutType ==
    ASSUME NEW rs \in SUBSET Repos
    PROVE  About(rs) \subseteq Repos \X Groups
  BY DEF About

LEMMA ReposOfType ==
    ASSUME TypeOK, NEW p \in Procs
    PROVE  ReposOf(p) \subseteq Repos
  BY DEF TypeOK, ReposOf

LEMMA ResultType ==
    ASSUME TypeOK, NEW p \in Procs
    PROVE  Result(p) \in Registries
<1>1. seen[p] \in Registries /\ target[p] \subseteq Repos \X Groups
  BY DEF TypeOK
<1>2. ReposOf(p) \subseteq Repos
  BY ReposOfType
<1>3. ASSUME NEW s \in Registries, NEW rs \in SUBSET Repos
      PROVE  Without(s, rs) \in Registries /\ Upserted(s, rs) \in Registries
  <2>1. Without(s, rs) \in Registries
    BY DEF Without, Registries
  <2>2. Upserted(s, rs) \in Registries
    BY DEF Upserted, Registries
  <2>3. QED
    BY <2>1, <2>2
<1>4. ASSUME NEW s \in Registries, NEW ts \in SUBSET (Repos \X Groups)
      PROVE  /\ Added(s, ts) \in Registries /\ AddedByAlias(s, ts) \in Registries
             /\ Removed(s, ts) \in Registries /\ RemovedByAlias(s, ts) \in Registries
  <2>1. Added(s, ts) \in Registries
    BY DEF Added, Registries
  <2>2. AddedByAlias(s, ts) \in Registries
    BY DEF AddedByAlias, Registries
  <2>3. Removed(s, ts) \in Registries
    BY DEF Removed, Registries
  <2>4. RemovedByAlias(s, ts) \in Registries
    BY DEF RemovedByAlias, Registries
  <2>5. QED
    BY <2>1, <2>2, <2>3, <2>4
<1>5. seen[p].repos \subseteq Repos
  BY <1>1 DEF Registries
<1>6. QED
  BY <1>1, <1>2, <1>3, <1>4, <1>5 DEF Result

------------------------------------------------------------------------------
(* Types.                                                                  *)

LEMMA TypeInit == Init => TypeOK
<1> SUFFICES ASSUME Init PROVE TypeOK
  OBVIOUS
<1>1. reg \in Registries
  BY DEF Init, Fresh, Registries
<1>2. QED
  BY <1>1, FreshType DEF Init, TypeOK, Points, Kinds

LEMMA FinishType ==
    ASSUME TypeOK, NEW p \in Procs, Finish(p)
    PROVE  /\ holder' \in Procs \cup {Nobody}
           /\ pc' \in [Procs -> Points] /\ kind' \in [Procs -> Kinds]
           /\ target' \in [Procs -> SUBSET (Repos \X Groups)]
           /\ seen' \in [Procs -> Registries]
           /\ overtaken' \subseteq Procs
  BY FreshType DEF TypeOK, Finish, Goto, Points, Kinds

LEMMA GotoType ==
    ASSUME TypeOK, NEW p \in Procs, NEW point \in Points, Goto(p, point)
    PROVE  pc' \in [Procs -> Points]
  BY DEF TypeOK, Goto

LEMMA FaultType ==
    ASSUME TypeOK, counts.fault < MaxFaults,
           counts' = [counts EXCEPT !.fault = @ + 1]
    PROVE  counts' \in [command : 0..MaxCommands, fault : 0..MaxFaults]
  BY DEF TypeOK

LEMMA CommandType ==
    ASSUME TypeOK, Command
    PROVE  counts' \in [command : 0..MaxCommands, fault : 0..MaxFaults]
  BY DEF TypeOK, Command

LEMMA BeginType ==
    ASSUME TypeOK, NEW p \in Procs, NEW k \in Kinds,
           NEW ts \in SUBSET (Repos \X Groups), NEW point \in Points,
           Begin(p, k, ts, point),
           dir' \in [Repos -> {"none", "empty", "meta"}],
           counts' \in [command : 0..MaxCommands, fault : 0..MaxFaults]
    PROVE  TypeOK'
  BY DEF TypeOK, Begin, Goto

LEMMA RetireType ==
    ASSUME TypeOK, NEW rs, Retire(rs)
    PROVE  dir' \in [Repos -> {"none", "empty", "meta"}]
  BY DEF TypeOK, Retire

LEMMA StartType ==
    ASSUME TypeOK,
           NEW p \in Procs,
           \/ \E r \in Repos : StartBuild(p, r) \/ StartEnsure(p, r)
           \/ StartAdmin(p)
    PROVE  TypeOK'
<1> USE DEF Kinds, AdminKinds, Points, About
<1>1. ASSUME NEW r \in Repos, StartBuild(p, r)
      PROVE  TypeOK'
  <2>1. dir' \in [Repos -> {"none", "empty", "meta"}]
    BY <1>1 DEF StartBuild, TypeOK
  <2>2. counts' \in [command : 0..MaxCommands, fault : 0..MaxFaults]
    BY <1>1 DEF StartBuild, TypeOK
  <2>3. About({r}) \in SUBSET (Repos \X Groups)
    OBVIOUS
  <2>4. QED
    BY <1>1, <2>1, <2>2, <2>3, BeginType DEF StartBuild
<1>2. ASSUME NEW r \in Repos, StartEnsure(p, r)
      PROVE  TypeOK'
  <2>1. dir' \in [Repos -> {"none", "empty", "meta"}]
    BY <1>2 DEF StartEnsure, TypeOK
  <2>2. counts' \in [command : 0..MaxCommands, fault : 0..MaxFaults]
    BY <1>2 DEF StartEnsure, TypeOK
  <2>3. About({r}) \in SUBSET (Repos \X Groups)
    OBVIOUS
  <2>4. QED
    BY <1>2, <2>1, <2>2, <2>3, BeginType DEF StartEnsure
<1>3. CASE StartAdmin(p)
  <2>1. dir' \in [Repos -> {"none", "empty", "meta"}]
    BY <1>3 DEF StartAdmin, TypeOK
  <2>2. counts' \in [command : 0..MaxCommands, fault : 0..MaxFaults]
    BY <1>3, CommandType DEF StartAdmin
  <2>3. \A k \in AdminKinds, ts \in SUBSET (Repos \X Groups), point \in {"wait", "read"} :
          Begin(p, k, ts, point) => TypeOK'
    <3> TAKE k \in AdminKinds, ts \in SUBSET (Repos \X Groups), point \in {"wait", "read"}
    <3>1. k \in Kinds /\ point \in Points
      OBVIOUS
    <3> HAVE Begin(p, k, ts, point)
    <3>2. QED
      BY <2>1, <2>2, <3>1 DEF TypeOK, Begin, Goto
  <2>4. ASSUME NEW r \in Repos, NEW g \in Groups
        PROVE  {<<r, g>>} \in SUBSET (Repos \X Groups)
    OBVIOUS
  <2>5. ASSUME NEW r \in Repos
        PROVE  About({r}) \in SUBSET (Repos \X Groups)
    OBVIOUS
  <2>6. {} \in SUBSET (Repos \X Groups)
    OBVIOUS
  <2>7. ASSUME NEW k \in {"add", "add alias", "remove", "remove alias"},
               NEW r \in Repos, NEW g \in Groups, Begin(p, k, {<<r, g>>}, "wait")
        PROVE  TypeOK'
    BY <2>3, <2>4, <2>7
  <2>8. ASSUME NEW r \in Repos, Begin(p, "drop", About({r}), "read")
        PROVE  TypeOK'
    BY <2>3, <2>5, <2>8
  <2>9. ASSUME NEW k \in {"drop all", "list"}, Begin(p, k, {}, "read")
        PROVE  TypeOK'
    BY <2>3, <2>6, <2>9
  <2>10. ASSUME NEW k \in Sweeps, Begin(p, k, {}, "wait")
         PROVE  TypeOK'
    BY <2>3, <2>6, <2>10 DEF Sweeps
  <2>11. QED
    BY <1>3, <2>7, <2>8, <2>9, <2>10 DEF StartAdmin
<1>4. QED
  BY <1>1, <1>2, <1>3

LEMMA StepType ==
    ASSUME TypeOK, NEW p \in Procs, Step(p)
    PROVE  TypeOK'
<1> USE DEF files, own
<1>1. CASE OpenMetaLock(p)
  BY <1>1, FinishType, GotoType DEF OpenMetaLock, TypeOK, Points
<1>2. CASE WriteMeta(p)
  BY <1>2, GotoType DEF WriteMeta, TypeOK, Points
<1>3. CASE Lock(p)
  BY <1>3, GotoType DEF Lock, TypeOK, Points
<1>4. CASE Read(p)
  <2>1. seen' \in [Procs -> Registries]
    BY <1>4, FromDiskType DEF Read, TypeOK
  <2>2. pc' \in [Procs -> Points]
    BY <1>4, GotoType DEF Read, After, Points
  <2>3. QED
    BY <1>4, <2>1, <2>2 DEF Read, TypeOK
<1>5. CASE Migrate(p)
  <2>1. seen[p] \in Registries
    BY DEF TypeOK
  <2>2. pc' \in [Procs -> Points]
    BY <1>5, GotoType DEF Migrate, After, Points
  <2>3. mislaid' \subseteq Repos
    BY <1>5 DEF Migrate, TypeOK, Lost, Registries
  <2>4. overtaken' \subseteq Procs
    BY <1>5 DEF Migrate, TypeOK
  <2>5. QED
    BY <1>5, <2>1, <2>2, <2>3, <2>4 DEF Migrate, TypeOK
<1>6. CASE Check(p)
  BY <1>6, FinishType, GotoType DEF Check, TypeOK, Points
<1>7. CASE RetireDropped(p)
  BY <1>7, RetireType, GotoType DEF RetireDropped, TypeOK, Points
<1>8. CASE Judge(p)
  <2>1. About(Judged(p)) \subseteq Repos \X Groups
    BY DEF Judged, TypeOK, Registries, About
  <2>2. target' \in [Procs -> SUBSET (Repos \X Groups)]
    BY <1>8, <2>1 DEF Judge, TypeOK
  <2>3. dir' \in [Repos -> {"none", "empty", "meta"}] /\ mislaid' \subseteq Repos
    BY <1>8, RetireType DEF Judge, TypeOK
  <2>4. QED
    BY <1>8, <2>2, <2>3, GotoType DEF Judge, TypeOK, Points
<1>9. CASE Write(p)
  <2>1. mislaid' \subseteq Repos
    BY <1>9 DEF Write, TypeOK, Lost, Registries
  <2>2. QED
    BY <1>9, <2>1, ResultType, FinishType DEF Write, TypeOK
<1>10. QED
  BY <1>1, <1>2, <1>3, <1>4, <1>5, <1>6, <1>7, <1>8, <1>9 DEF Step

LEMMA TypeStep == TypeOK /\ [Next]_vars => TypeOK'
<1> SUFFICES ASSUME TypeOK, [Next]_vars PROVE TypeOK'
  OBVIOUS
<1> USE DEF files, own
<1>1. ASSUME NEW p \in Procs, LockTimeOut(p) \/ Die(p)
      PROVE  TypeOK'
  BY <1>1, FinishType, FaultType DEF LockTimeOut, Die, TypeOK
<1>2. ASSUME NEW r \in Repos, DeleteCheckout(r)
      PROVE  TypeOK'
  BY <1>2 DEF DeleteCheckout, TypeOK
<1>3. CASE UNCHANGED vars
  BY <1>3 DEF vars, TypeOK
<1>4. QED
  BY <1>1, <1>2, <1>3, StepType, StartType DEF Next, Procs

(* The values stay within their types.                                     *)
THEOREM TypeCorrect == Spec => []TypeOK
  BY TypeInit, TypeStep, PTL DEF Spec

------------------------------------------------------------------------------
(* The lock.  Who reads without it is one that never writes from what it   *)
(* read; everybody else reads, judges and writes as the holder.            *)

WithoutLock == {"ensure", "drop", "drop all", "list"}
ReadsUnderLock ==
    \A p \in Procs : pc[p] \in {"read", "migrate"} /\ holder # p => kind[p] \in WithoutLock
SerialInv == TypeOK /\ ReadsUnderLock /\ Serial

LEMMA SerialInit == Init => SerialInv
  BY TypeInit DEF Init, SerialInv, ReadsUnderLock, Serial, Holding

(* A process that ends, dies or times out is at none of these points.      *)
LEMMA FinishSerial ==
    ASSUME SerialInv, NEW p \in Procs, Finish(p),
           \A q \in Procs \ {p} : holder = q => reg' = reg
    PROVE  ReadsUnderLock' /\ Serial'
  BY DEF SerialInv, TypeOK, Finish, Goto, ReadsUnderLock, Serial, Holding, Procs

(* A process that moves on with the registry, the lock and what it read    *)
(* as they were keeps the invariant when it moves to a point outside.      *)
LEMMA GotoSerial ==
    ASSUME SerialInv, NEW p \in Procs, NEW point, Goto(p, point),
           UNCHANGED <<reg, holder, seen, overtaken, kind>>,
           \/ point \notin Holding \cup {"read", "migrate"}
           \/ point = "write" /\ pc[p] = "judge"
    PROVE  ReadsUnderLock' /\ Serial'
  BY DEF SerialInv, TypeOK, Goto, ReadsUnderLock, Serial, Holding

LEMMA BeginSerial ==
    ASSUME SerialInv, NEW p \in Procs, NEW k, NEW ts, NEW point,
           Begin(p, k, ts, point),
           point \in {"meta lock", "wait"} \/ (point = "read" /\ k \in WithoutLock)
    PROVE  ReadsUnderLock' /\ Serial'
  BY DEF SerialInv, TypeOK, Begin, Goto, ReadsUnderLock, Serial, Holding

LEMMA LockSerial ==
    ASSUME SerialInv, NEW p \in Procs, Lock(p)
    PROVE  ReadsUnderLock' /\ Serial'
  BY DEF SerialInv, TypeOK, Lock, Goto, ReadsUnderLock, Serial, Holding, files, own, Procs

LEMMA ReadSerial ==
    ASSUME SerialInv, NEW p \in Procs, Read(p)
    PROVE  ReadsUnderLock' /\ Serial'
<1>1. After(p) \in Holding => holder = p
  BY DEF After, Unlocked, Sweeps, Holding, Read, SerialInv, ReadsUnderLock, WithoutLock
<1>2. After(p) \notin {"read", "migrate"}
  BY DEF After
<1>3. QED
  BY <1>1, <1>2 DEF SerialInv, TypeOK, Read, Goto, ReadsUnderLock, Serial, Holding, files

LEMMA MigrateSerial ==
    ASSUME SerialInv, NEW p \in Procs, Migrate(p)
    PROVE  ReadsUnderLock' /\ Serial'
<1>1. After(p) \in Holding => holder = p
  BY DEF After, Unlocked, Sweeps, Holding, Migrate, SerialInv, ReadsUnderLock, WithoutLock
<1>2. After(p) \notin {"read", "migrate"}
  BY DEF After
<1>3. ReadsUnderLock'
  BY <1>2 DEF SerialInv, TypeOK, Migrate, Goto, ReadsUnderLock, own
<1>4. ASSUME NEW q \in Procs, pc'[q] \in Holding
      PROVE  holder' = q /\ (q \notin overtaken' => seen'[q] = reg')
  <2>1. CASE q = p
    BY <1>1, <1>4, <2>1 DEF SerialInv, TypeOK, Migrate, Goto, own
  <2>2. CASE q # p
    <3>1. pc[q] \in Holding
      BY <1>4, <2>2 DEF SerialInv, TypeOK, Migrate, Goto
    <3>2. holder = q /\ q # Nobody
      BY <3>1 DEF SerialInv, Serial, Procs
    <3>3. QED
      BY <2>2, <3>2 DEF Migrate
  <2>3. QED
    BY <2>1, <2>2
<1>5. QED
  BY <1>3, <1>4 DEF Serial

LEMMA SerialStep == SerialInv /\ [Next]_vars => SerialInv'
<1> SUFFICES ASSUME SerialInv, [Next]_vars PROVE SerialInv'
  OBVIOUS
<1> USE DEF files, own
<1>1. TypeOK'
  BY TypeStep DEF SerialInv
<1>2. ASSUME NEW p \in Procs, LockTimeOut(p) \/ Die(p)
      PROVE  ReadsUnderLock' /\ Serial'
  BY <1>2, FinishSerial DEF LockTimeOut, Die
<1>3. ASSUME NEW p \in Procs, NEW r \in Repos, StartBuild(p, r) \/ StartEnsure(p, r)
      PROVE  ReadsUnderLock' /\ Serial'
  BY <1>3, BeginSerial DEF StartBuild, StartEnsure, WithoutLock
<1>4. ASSUME NEW p \in Procs, StartAdmin(p)
      PROVE  ReadsUnderLock' /\ Serial'
  BY <1>4, BeginSerial DEF StartAdmin, WithoutLock
<1>5. ASSUME NEW p \in Procs, Step(p)
      PROVE  ReadsUnderLock' /\ Serial'
  <2>1. CASE OpenMetaLock(p)
    BY <2>1, FinishSerial, GotoSerial DEF OpenMetaLock, Holding
  <2>2. CASE WriteMeta(p)
    BY <2>2, GotoSerial DEF WriteMeta, Holding
  <2>3. CASE Check(p)
    BY <2>3, FinishSerial, GotoSerial DEF Check, Holding
  <2>4. CASE RetireDropped(p)
    BY <2>4, GotoSerial DEF RetireDropped, Holding
  <2>5. CASE Judge(p)
    BY <2>5, GotoSerial DEF Judge, Holding
  <2>6. CASE Write(p)
    <3>1. holder = p
      BY <2>6 DEF Write, SerialInv, Serial, Holding
    <3>2. QED
      BY <2>6, <3>1, FinishSerial DEF Write
  <2>7. QED
    BY <1>5, <2>1, <2>2, <2>3, <2>4, <2>5, <2>6,
       LockSerial, ReadSerial, MigrateSerial DEF Step
<1>6. ASSUME NEW r \in Repos, DeleteCheckout(r)
      PROVE  ReadsUnderLock' /\ Serial'
  BY <1>6 DEF DeleteCheckout, SerialInv, ReadsUnderLock, Serial, Holding, WithoutLock
<1>7. ASSUME UNCHANGED vars
      PROVE  ReadsUnderLock' /\ Serial'
  BY <1>7 DEF vars, SerialInv, ReadsUnderLock, Serial, Holding, WithoutLock
<1>8. ReadsUnderLock' /\ Serial'
  BY <1>2, <1>3, <1>4, <1>5, <1>6, <1>7 DEF Next, Procs
<1>9. QED
  BY <1>1, <1>8 DEF SerialInv

LEMMA SerialInvCorrect == Spec => []SerialInv
  BY SerialInit, SerialStep, PTL DEF Spec

(* Between its read and its write a process has the lock and the file as   *)
(* it is, but for a migration behind its back.                             *)
THEOREM SerialCorrect == Spec => []Serial
<1>1. SerialInv => Serial
  BY DEF SerialInv
<1>2. QED
  BY <1>1, SerialInvCorrect, PTL

------------------------------------------------------------------------------
(* What a write changes.                                                   *)

(* Each result differs from what was read only in the repositories and     *)
(* groups the command is about, and a build's in no group.                 *)
LEMMA ResultKeeps ==
    ASSUME TypeOK, NEW p \in Procs
    PROVE  /\ Result(p).repos \cap Others(p) = seen[p].repos \cap Others(p)
           /\ Result(p).groups \cap OthersGroups(p) = seen[p].groups \cap OthersGroups(p)
           /\ Result(p).members \cap OthersGroups(p) = seen[p].members \cap OthersGroups(p)
           /\ Result(p).aliased \cap OthersGroups(p) = seen[p].aliased \cap OthersGroups(p)
<1> DEFINE s == seen[p]
<1>1. s \in Registries /\ target[p] \subseteq Repos \X Groups
  BY DEF TypeOK
<1>2. target[p] \subseteq About(ReposOf(p))
  BY <1>1 DEF About, ReposOf
<1>3. target[p] \cap About(Repos \ ReposOf(p)) = {}
  BY <1>2 DEF About
<1>4. CASE kind[p] \in {"build", "ensure"}
  BY <1>1, <1>4 DEF Result, Others, Upserted, Registries
<1>5. CASE kind[p] = "drop all"
  <2>1. Others(p) = {} /\ OthersGroups(p) = {}
    BY <1>5 DEF Others, OthersGroups, About
  <2>2. QED
    BY <2>1
<1>6. CASE kind[p] \in {"add", "add alias", "remove", "remove alias"}
  BY <1>1, <1>3, <1>6 DEF Result, Others, OthersGroups, Registries,
     Added, AddedByAlias, Removed, RemovedByAlias
<1>7. CASE kind[p] \notin {"build", "ensure", "add", "add alias", "remove",
                           "remove alias", "drop all"}
  <2>1. Result(p) = Without(s, ReposOf(p))
    BY <1>7 DEF Result
  <2>2. Others(p) = Repos \ ReposOf(p) /\ OthersGroups(p) = About(Repos \ ReposOf(p))
    BY <1>7 DEF Others, OthersGroups
  <2>3. About(ReposOf(p)) \cap About(Repos \ ReposOf(p)) = {}
    BY DEF About
  <2>4. /\ Without(s, ReposOf(p)).repos = s.repos \ ReposOf(p)
        /\ Without(s, ReposOf(p)).groups = s.groups \ About(ReposOf(p))
        /\ Without(s, ReposOf(p)).members = s.members \ About(ReposOf(p))
        /\ Without(s, ReposOf(p)).aliased = s.aliased
    BY <1>1 DEF Without, Registries
  <2>5. QED
    BY <2>1, <2>2, <2>3, <2>4
<1>8. QED
  BY <1>4, <1>5, <1>6, <1>7

(* A command changes the entries and groups of its own repositories only,  *)
(* a build no group.                                                       *)
THEOREM NoUpdateLost == Spec => NoLostUpdate
<1>1. ASSUME SerialInv, NEW p \in Procs, Write(p), p \notin overtaken
      PROVE  Kept(p)
  <2>1. seen[p] = reg
    BY <1>1 DEF SerialInv, Serial, Write, Holding
  <2>2. reg' = Result(p)
    BY <1>1 DEF Write
  <2>3. QED
    BY <1>1, <2>1, <2>2, ResultKeeps DEF SerialInv, Kept
<1>2. SerialInv /\ [Next]_vars =>
        [\A p \in Procs : Write(p) /\ p \notin overtaken => Kept(p)]_vars
  BY <1>1
<1>3. QED
  BY <1>2, SerialInvCorrect, PTL DEF Spec, NoLostUpdate

------------------------------------------------------------------------------
(* The records of memberships, in the file and in what was read of it.     *)

Agrees(s) ==
    /\ s.groups \subseteq s.members \cup s.aliased
    /\ s.groups \cup s.members \subseteq About(s.repos)
AgreeInv == TypeOK /\ Agrees(reg) /\ \A p \in Procs : Agrees(seen[p])

LEMMA FreshAgrees == Agrees(Fresh) /\ Agrees(FromDisk)
  BY DEF Agrees, Fresh, FromDisk

LEMMA ResultAgrees ==
    ASSUME TypeOK, NEW p \in Procs, Agrees(seen[p])
    PROVE  Agrees(Result(p))
<1> DEFINE s == seen[p]
<1>1. s \in Registries /\ target[p] \subseteq Repos \X Groups
  BY DEF TypeOK
<1>2. target[p] \subseteq About(ReposOf(p))
  BY <1>1 DEF About, ReposOf
<1>3. ASSUME NEW rs \in SUBSET Repos
      PROVE  Agrees(Without(s, rs)) /\ Agrees(Upserted(s, rs))
  <2>1. Agrees(Upserted(s, rs))
    BY <1>1 DEF Agrees, Upserted, Registries, About
  <2>2. (s.groups \cup s.members) \ About(rs) \subseteq About(s.repos \ rs)
    BY <1>1 DEF Agrees, Registries, About
  <2>3. QED
    BY <1>1, <2>1, <2>2 DEF Agrees, Without, Registries
<1>4. Agrees(Added(s, target[p])) /\ Agrees(AddedByAlias(s, target[p]))
  <2>1. CASE {x[1] : x \in target[p]} \subseteq s.repos
    <3>1. target[p] \subseteq About(s.repos)
      BY <1>2, <2>1 DEF About, ReposOf
    <3>2. QED
      BY <1>1, <2>1, <3>1 DEF Agrees, Added, AddedByAlias, Registries
  <2>2. CASE ~ ({x[1] : x \in target[p]} \subseteq s.repos)
    BY <2>2 DEF Added, AddedByAlias
  <2>3. QED
    BY <2>1, <2>2
<1>5. Agrees(Removed(s, target[p])) /\ Agrees(RemovedByAlias(s, target[p]))
  BY <1>1 DEF Agrees, Removed, RemovedByAlias, Registries
<1>6. ReposOf(p) \subseteq Repos /\ s.repos \subseteq Repos
  BY <1>1, ReposOfType DEF Registries
<1>7. QED
  BY <1>3, <1>4, <1>5, <1>6 DEF Result

LEMMA AgreeStep == AgreeInv /\ [Next]_vars => AgreeInv'
<1> SUFFICES ASSUME AgreeInv, [Next]_vars PROVE AgreeInv'
  OBVIOUS
<1> USE DEF files, own
<1>1. TypeOK'
  BY TypeStep DEF AgreeInv
<1>2. ASSUME NEW p \in Procs, Finish(p), reg' = reg
      PROVE  Agrees(reg') /\ \A q \in Procs : Agrees(seen'[q])
  BY <1>2, FreshAgrees DEF AgreeInv, TypeOK, Finish
<1>3. CASE UNCHANGED <<reg, seen>>
  BY <1>1, <1>3 DEF AgreeInv
<1>4. ASSUME NEW p \in Procs, Read(p)
      PROVE  Agrees(reg') /\ \A q \in Procs : Agrees(seen'[q])
  BY <1>4, FreshAgrees DEF AgreeInv, TypeOK, Read
<1>5. ASSUME NEW p \in Procs, Migrate(p)
      PROVE  Agrees(reg') /\ \A q \in Procs : Agrees(seen'[q])
  BY <1>5 DEF AgreeInv, Migrate
<1>6. ASSUME NEW p \in Procs, Write(p)
      PROVE  Agrees(reg') /\ \A q \in Procs : Agrees(seen'[q])
  BY <1>6, ResultAgrees, FreshAgrees DEF AgreeInv, TypeOK, Write, Finish
<1>7. ASSUME NEW p \in Procs, OpenMetaLock(p) \/ Check(p) \/ LockTimeOut(p) \/ Die(p)
      PROVE  UNCHANGED <<reg, seen>> \/ (Finish(p) /\ reg' = reg)
  BY <1>7 DEF OpenMetaLock, Check, LockTimeOut, Die
<1>8. ASSUME NEW p \in Procs,
             \/ WriteMeta(p) \/ Lock(p) \/ RetireDropped(p) \/ Judge(p)
             \/ StartAdmin(p) \/ \E r \in Repos : StartBuild(p, r) \/ StartEnsure(p, r)
      PROVE  UNCHANGED <<reg, seen>>
  BY <1>8 DEF WriteMeta, Lock, RetireDropped, Judge, StartAdmin, StartBuild, StartEnsure, Begin
<1>9. ASSUME NEW r \in Repos, DeleteCheckout(r)
      PROVE  UNCHANGED <<reg, seen>>
  BY <1>9 DEF DeleteCheckout
<1>10. UNCHANGED vars => UNCHANGED <<reg, seen>>
  BY DEF vars
<1>11. Agrees(reg') /\ \A q \in Procs : Agrees(seen'[q])
  BY <1>2, <1>3, <1>4, <1>5, <1>6, <1>7, <1>8, <1>9, <1>10 DEF Next, Step, Procs, AgreeInv
<1>12. QED
  BY <1>1, <1>11 DEF AgreeInv

(* What an entry says of its groups and what a group says of its members   *)
(* agree.                                                                  *)
THEOREM RecordsAgreeCorrect == Spec => []RecordsAgree
<1>1. Init => AgreeInv
  BY TypeInit, FreshAgrees DEF Init, AgreeInv, Agrees, Fresh, About
<1>2. AgreeInv => RecordsAgree
  BY DEF AgreeInv, Agrees, RecordsAgree
<1>3. QED
  BY <1>1, <1>2, AgreeStep, PTL DEF Spec

------------------------------------------------------------------------------
(* An index without an entry.                                              *)

(* A build that has written its meta and will write its entry.             *)
Owes(p, r) ==
    /\ kind[p] = "build" /\ r \in ReposOf(p)
    /\ pc[p] \in {"wait", "read", "migrate", "write"}

(* An entry is missing for a reason: it is mislaid or some build owes it.  *)
(* A sweep about to write has judged dirs that were gone; where one is     *)
(* back, its build waits for the lock behind the sweep.                    *)
OwedInv ==
    counts.fault = 0 =>
        /\ \A r \in Unregistered \ mislaid : \E p \in Procs : Owes(p, r)
        /\ \A p \in Procs, r \in Repos :
               pc[p] = "write" /\ kind[p] \in Sweeps /\ r \in ReposOf(p) /\ dir[r] = "meta" =>
                   \E q \in Procs : Owes(q, r) /\ pc[q] = "wait"

(* What the points say of the command, and what commands are about nothing.*)
CommandInv ==
    \A p \in Procs :
        /\ pc[p] = "judge" => kind[p] \in Sweeps
        /\ pc[p] \in {"meta lock", "meta"} => kind[p] = "build"
        /\ kind[p] \in {"none", "list"} => target[p] = {}

RegInv == SerialInv /\ CommandInv /\ OwedInv

LEMMA RegInit == Init => RegInv
<1> SUFFICES ASSUME Init PROVE RegInv
  OBVIOUS
<1>1. Unregistered = {}
  BY DEF Init, Unregistered
<1>2. OwedInv /\ CommandInv
  BY <1>1 DEF Init, OwedInv, CommandInv
<1>3. QED
  BY <1>2, SerialInit DEF RegInv

LEMMA CommandStep ==
    ASSUME TypeOK, CommandInv, Next
    PROVE  CommandInv'
<1> USE DEF files, own
<1>1. ASSUME NEW p \in Procs, Finish(p) PROVE CommandInv'
  BY <1>1 DEF CommandInv, TypeOK, Finish, Goto, Sweeps
<1>2. ASSUME NEW p \in Procs, NEW point, Goto(p, point), UNCHANGED <<kind, target>>,
             point \in {"judge"} => kind[p] \in Sweeps,
             point \in {"meta lock", "meta"} => kind[p] = "build"
      PROVE  CommandInv'
  BY <1>2 DEF CommandInv, TypeOK, Goto
<1>3. ASSUME NEW p \in Procs, NEW k, NEW ts, NEW point, Begin(p, k, ts, point),
             point \in {"meta lock", "wait", "read"}, point = "meta lock" => k = "build",
             k \in {"none", "list"} => ts = {}
      PROVE  CommandInv'
  BY <1>3 DEF CommandInv, TypeOK, Begin, Goto
<1>4. ASSUME NEW p \in Procs, Step(p) PROVE CommandInv'
  <2>1. CASE OpenMetaLock(p)
    BY <1>1, <1>2, <2>1 DEF OpenMetaLock, CommandInv
  <2>2. CASE WriteMeta(p)
    BY <1>2, <2>2 DEF WriteMeta
  <2>3. CASE Lock(p)
    BY <1>2, <2>3 DEF Lock
  <2>4. CASE Read(p) \/ Migrate(p)
    <3>1. After(p) = "judge" => kind[p] \in Sweeps
      BY DEF After
    <3>2. After(p) \notin {"meta lock", "meta"}
      BY DEF After
    <3>3. QED
      BY <1>2, <2>4, <3>1, <3>2 DEF Read, Migrate
  <2>5. CASE Check(p)
    BY <1>1, <1>2, <2>5 DEF Check
  <2>6. CASE RetireDropped(p)
    BY <1>2, <2>6 DEF RetireDropped
  <2>7. CASE Judge(p)
    BY <2>7 DEF Judge, CommandInv, TypeOK, Goto, Sweeps
  <2>8. CASE Write(p)
    BY <1>1, <2>8 DEF Write
  <2>9. QED
    BY <1>4, <2>1, <2>2, <2>3, <2>4, <2>5, <2>6, <2>7, <2>8 DEF Step
<1>5. ASSUME NEW p \in Procs, NEW r \in Repos, StartBuild(p, r) \/ StartEnsure(p, r)
      PROVE  CommandInv'
  BY <1>3, <1>5 DEF StartBuild, StartEnsure
<1>6. ASSUME NEW p \in Procs, StartAdmin(p) PROVE CommandInv'
  BY <1>3, <1>6 DEF StartAdmin, Sweeps
<1>7. ASSUME NEW r \in Repos, DeleteCheckout(r) PROVE CommandInv'
  BY <1>7 DEF DeleteCheckout, CommandInv
<1>8. ASSUME NEW p \in Procs, LockTimeOut(p) \/ Die(p) PROVE CommandInv'
  BY <1>1, <1>8 DEF LockTimeOut, Die
<1>9. QED
  BY <1>4, <1>5, <1>6, <1>7, <1>8 DEF Next, Procs

(* A step of a process that owes nothing and leaves the entries, and makes *)
(* no meta, changes nothing of what is owed.                               *)
LEMMA OwedKept ==
    ASSUME RegInv, NEW p \in Procs, \A r \in Repos : ~Owes(p, r),
           \A q \in Procs \ {p} :
               pc'[q] = pc[q] /\ kind'[q] = kind[q] /\ target'[q] = target[q],
           reg' = reg, counts'.fault = counts.fault,
           \A r \in Repos : dir'[r] = "meta" => dir[r] = "meta" /\ (r \in mislaid => r \in mislaid'),
           pc'[p] = "write" /\ kind'[p] \in Sweeps =>
               \A r \in Repos : r \in ReposOf(p)' => dir'[r] # "meta"
    PROVE  OwedInv'
<1> SUFFICES ASSUME counts'.fault = 0 PROVE OwedInv'
  BY DEF OwedInv
<1>1. ASSUME NEW q \in Procs, NEW r \in Repos, Owes(q, r)
      PROVE  Owes(q, r)' /\ pc'[q] = pc[q]
  BY <1>1 DEF Owes, ReposOf
<1>2. ASSUME NEW r \in Repos, r \in Unregistered' \ mislaid'
      PROVE  \E q \in Procs : Owes(q, r)'
  <2>1. r \in Unregistered \ mislaid
    BY <1>2 DEF Unregistered
  <2>2. QED
    BY <1>1, <2>1 DEF RegInv, OwedInv
<1>3. ASSUME NEW s \in Procs, NEW r \in Repos, pc'[s] = "write", kind'[s] \in Sweeps,
             r \in ReposOf(s)', dir'[r] = "meta"
      PROVE  \E q \in Procs : Owes(q, r)' /\ pc'[q] = "wait"
  <2>1. s # p
    BY <1>3
  <2>2. pc[s] = "write" /\ kind[s] \in Sweeps /\ r \in ReposOf(s) /\ dir[r] = "meta"
    BY <1>3, <2>1 DEF ReposOf
  <2>3. PICK q \in Procs : Owes(q, r) /\ pc[q] = "wait"
    BY <2>2 DEF RegInv, OwedInv
  <2>4. QED
    BY <1>1, <2>3
<1>4. QED
  BY <1>2, <1>3 DEF OwedInv, Unregistered

LEMMA WriteOwed ==
    ASSUME RegInv, NEW p \in Procs, Write(p)
    PROVE  OwedInv'
<1> USE DEF RegInv
<1> SUFFICES ASSUME counts'.fault = 0 PROVE OwedInv'
  BY DEF OwedInv
<1>1. /\ TypeOK /\ CommandInv /\ pc[p] = "write" /\ holder = p /\ p # Nobody
      /\ p \notin overtaken => seen[p] = reg
  BY DEF Write, SerialInv, Serial, Holding, Procs
<1>2. counts.fault = 0 /\ dir' = dir /\ reg' = Result(p)
  BY DEF Write
<1>3. /\ pc' = [pc EXCEPT ![p] = "idle"]
      /\ \A q \in Procs \ {p} : pc'[q] = pc[q] /\ kind'[q] = kind[q] /\ target'[q] = target[q]
  BY <1>1 DEF Write, Finish, Goto, TypeOK
<1>4. ASSUME NEW q \in Procs \ {p}, NEW r \in Repos, Owes(q, r)
      PROVE  Owes(q, r)'
  BY <1>3, <1>4 DEF Owes, ReposOf
<1>5. ASSUME NEW r \in Repos, r \in Unregistered' \ mislaid'
      PROVE  \E q \in Procs \ {p} : Owes(q, r)
  <2>1. dir[r] = "meta" /\ r \notin Result(p).repos
    BY <1>2, <1>5 DEF Unregistered
  <2>2. r \notin mislaid /\ (kind[p] \in {"drop", "drop all"} \/ p \in overtaken => r \notin reg.repos)
    BY <1>2, <1>5, <2>1 DEF Write, Lost
  <2>3. CASE r \notin reg.repos
    <3>1. PICK q \in Procs : Owes(q, r)
      BY <1>2, <2>1, <2>2, <2>3 DEF OwedInv, Unregistered
    <3>2. q # p
      <4>1. ASSUME q = p PROVE FALSE
        <5>1. Result(p) = Upserted(seen[p], ReposOf(p)) /\ r \in ReposOf(p)
          BY <3>1, <4>1 DEF Owes, Result
        <5>2. seen[p] \in Registries
          BY <1>1 DEF TypeOK
        <5>3. Upserted(seen[p], ReposOf(p)).repos = seen[p].repos \cup ReposOf(p)
          BY <5>2 DEF Upserted, Registries
        <5>4. QED
          BY <2>1, <5>1, <5>3
      <4>2. QED
        BY <4>1
    <3>3. QED
      BY <3>1, <3>2
  <2>4. CASE r \in reg.repos
    <3>1. kind[p] \notin {"drop", "drop all"} /\ seen[p] = reg
      BY <1>1, <2>2, <2>4
    <3>2. PICK s \in Registries : s = seen[p] /\ s = reg
      BY <1>1, <3>1 DEF TypeOK
    <3>3. kind[p] \in Sweeps /\ r \in ReposOf(p)
      <4>1. kind[p] \in Kinds
        BY <1>1 DEF TypeOK
      <4>2. \A rs : Upserted(s, rs).repos = s.repos \cup rs /\ Without(s, rs).repos = s.repos \ rs
        BY <3>2 DEF Upserted, Without, Registries
      <4>3. \A ts : /\ Added(s, ts).repos = s.repos /\ AddedByAlias(s, ts).repos = s.repos
                    /\ Removed(s, ts).repos = s.repos /\ RemovedByAlias(s, ts).repos = s.repos
        BY <3>2 DEF Added, AddedByAlias, Removed, RemovedByAlias, Registries
      <4>4. kind[p] \in {"none", "list"} => ReposOf(p) = {}
        BY <1>1 DEF CommandInv, ReposOf
      <4>5. CASE kind[p] \in {"build", "ensure"}
        BY <2>1, <2>4, <3>2, <4>2, <4>5 DEF Result
      <4>6. CASE kind[p] \in {"add", "add alias", "remove", "remove alias"}
        BY <2>1, <2>4, <3>2, <4>3, <4>6 DEF Result
      <4>7. CASE kind[p] \in {"none", "list", "ghosts", "orphans"}
        <5>1. Result(p) = Without(s, ReposOf(p))
          BY <3>2, <4>7 DEF Result
        <5>2. r \in ReposOf(p)
          BY <2>1, <2>4, <3>2, <4>2, <5>1
        <5>3. QED
          BY <4>4, <4>7, <5>2 DEF Sweeps
      <4>8. QED
        BY <3>1, <4>1, <4>5, <4>6, <4>7 DEF Kinds, AdminKinds
    <3>4. PICK q \in Procs : Owes(q, r) /\ pc[q] = "wait"
      BY <1>1, <1>2, <2>1, <3>3 DEF OwedInv
    <3>5. QED
      BY <1>1, <3>4
  <2>5. QED
    BY <2>3, <2>4
<1>6. ASSUME NEW s \in Procs PROVE pc'[s] # "write"
  <2>1. s # p /\ pc[s] = "write" => holder = s
    BY DEF SerialInv, Serial, Holding
  <2>2. QED
    BY <1>1, <1>3, <2>1 DEF TypeOK
<1>7. QED
  BY <1>4, <1>5, <1>6 DEF OwedInv, Unregistered

LEMMA WriteMetaOwed ==
    ASSUME RegInv, NEW p \in Procs, WriteMeta(p)
    PROVE  OwedInv'
<1> USE DEF RegInv, files, own
<1> SUFFICES ASSUME counts'.fault = 0 PROVE OwedInv'
  BY DEF OwedInv
<1>1. TypeOK /\ pc[p] = "meta" /\ kind[p] = "build" /\ counts.fault = 0
  BY DEF WriteMeta, SerialInv, CommandInv
<1>2. UNCHANGED <<reg, kind, target, mislaid>> /\ pc' = [pc EXCEPT ![p] = "wait"]
  BY DEF WriteMeta, Goto
<1>3. \A q \in Procs, r \in Repos : Owes(q, r) => Owes(q, r)' /\ pc'[q] = pc[q]
  BY <1>1, <1>2 DEF Owes, ReposOf, TypeOK
<1>4. \A r \in Repos : r \in ReposOf(p) => Owes(p, r)' /\ pc'[p] = "wait"
  BY <1>1, <1>2 DEF Owes, ReposOf, TypeOK
<1>5. \A r \in Repos : r \notin ReposOf(p) => dir'[r] = dir[r]
  BY DEF WriteMeta
<1>6. ASSUME NEW r \in Repos, r \in Unregistered' \ mislaid'
      PROVE  \E q \in Procs : Owes(q, r)'
  <2>1. CASE r \in ReposOf(p)
    BY <1>4, <2>1
  <2>2. CASE r \notin ReposOf(p)
    <3>1. r \in Unregistered \ mislaid
      BY <1>2, <1>5, <1>6, <2>2 DEF Unregistered
    <3>2. QED
      BY <1>1, <1>3, <3>1 DEF OwedInv
  <2>3. QED
    BY <2>1, <2>2
<1>7. ASSUME NEW s \in Procs, NEW r \in Repos, pc'[s] = "write", kind'[s] \in Sweeps,
             r \in ReposOf(s)', dir'[r] = "meta"
      PROVE  \E q \in Procs : Owes(q, r)' /\ pc'[q] = "wait"
  <2>1. pc[s] = "write" /\ kind[s] \in Sweeps /\ r \in ReposOf(s)
    BY <1>1, <1>2, <1>7 DEF ReposOf, TypeOK
  <2>2. CASE r \in ReposOf(p)
    BY <1>4, <2>2
  <2>3. CASE r \notin ReposOf(p)
    BY <1>1, <1>3, <1>5, <1>7, <2>1, <2>3 DEF OwedInv
  <2>4. QED
    BY <2>2, <2>3
<1>8. QED
  BY <1>6, <1>7 DEF OwedInv, Unregistered

(* A process that owes goes on to owe: it locks, reads and migrates.       *)
LEMMA MovesOwed ==
    ASSUME RegInv, NEW p \in Procs, Lock(p) \/ Read(p) \/ Migrate(p)
    PROVE  OwedInv'
<1> USE DEF RegInv, files, own
<1> SUFFICES ASSUME counts'.fault = 0 PROVE OwedInv'
  BY DEF OwedInv
<1>1. /\ TypeOK /\ counts.fault = 0 /\ UNCHANGED <<dir, kind, target>>
      /\ \A q \in Procs \ {p} : pc'[q] = pc[q]
  <2>1. TypeOK
    BY DEF SerialInv
  <2>2. CASE Lock(p)
    BY <2>1, <2>2 DEF Lock, Goto, TypeOK
  <2>3. CASE Read(p)
    BY <2>1, <2>3 DEF Read, Goto, TypeOK
  <2>4. CASE Migrate(p)
    BY <2>1, <2>4 DEF Migrate, Goto, TypeOK
  <2>5. QED
    BY <2>2, <2>3, <2>4
<1>2. kind[p] = "build" => After(p) = "write"
  BY DEF After, Sweeps
<1>3. kind[p] \in Sweeps => After(p) # "write"
  BY DEF After, Sweeps
<1>4. ASSUME NEW q \in Procs, NEW r \in Repos, Owes(q, r) PROVE Owes(q, r)'
  <2>1. CASE q = p
    <3>1. pc'[p] \in {"read", "migrate", After(p)}
      BY <1>1 DEF Lock, Read, Migrate, Goto, TypeOK
    <3>2. QED
      BY <1>1, <1>2, <1>4, <2>1, <3>1 DEF Owes, ReposOf
  <2>2. CASE q # p
    BY <1>1, <1>4, <2>2 DEF Owes, ReposOf
  <2>3. QED
    BY <2>1, <2>2
<1>5. ASSUME NEW r \in Repos, r \in Unregistered' \ mislaid'
      PROVE  r \in Unregistered \ mislaid
  <2>1. CASE Lock(p) \/ Read(p)
    BY <1>5, <2>1 DEF Lock, Read, Unregistered
  <2>2. CASE Migrate(p)
    <3>1. dir[r] = "meta" /\ r \notin seen[p].repos /\ r \notin mislaid /\ r \notin Lost(seen[p])
      BY <1>1, <1>5, <2>2 DEF Migrate, Unregistered
    <3>2. QED
      BY <3>1 DEF Lost, Unregistered
  <2>3. QED
    BY <2>1, <2>2
<1>6. ASSUME NEW s \in Procs, NEW r \in Repos, pc'[s] = "write", kind'[s] \in Sweeps,
             r \in ReposOf(s)', dir'[r] = "meta"
      PROVE  \E q \in Procs : Owes(q, r)' /\ pc'[q] = "wait"
  <2>1. s # p
    <3>1. CASE Lock(p)
      BY <1>1, <1>6, <3>1 DEF Lock, Goto, TypeOK
    <3>2. CASE Read(p) \/ Migrate(p)
      BY <1>1, <1>3, <1>6, <3>2 DEF Read, Migrate, Goto, TypeOK
    <3>3. QED
      BY <3>1, <3>2
  <2>2. pc[s] = "write" /\ kind[s] \in Sweeps /\ r \in ReposOf(s) /\ dir[r] = "meta"
    BY <1>1, <1>6, <2>1 DEF ReposOf
  <2>3. PICK q \in Procs : Owes(q, r) /\ pc[q] = "wait"
    BY <1>1, <2>2 DEF OwedInv
  <2>4. holder = s /\ s # Nobody
    BY <2>2 DEF SerialInv, Serial, Holding, Procs
  <2>5. q # p
    BY <2>3, <2>4 DEF Lock, Read, Migrate
  <2>6. QED
    BY <1>1, <1>4, <2>3, <2>5
<1>7. QED
  BY <1>1, <1>4, <1>5, <1>6 DEF OwedInv, Unregistered

LEMMA OwedStep ==
    ASSUME RegInv, [Next]_vars
    PROVE  OwedInv'
<1> USE DEF files, own
<1>1. TypeOK
  BY DEF RegInv, SerialInv
<1>2. ASSUME NEW p \in Procs, NEW k, NEW ts, NEW point, Begin(p, k, ts, point),
             point # "write", \A r \in Repos : dir'[r] = "meta" => dir[r] = "meta",
             counts'.fault = counts.fault
      PROVE  OwedInv'
  <2>1. \A r \in Repos : ~Owes(p, r)
    BY <1>2 DEF Begin, Owes
  <2>2. /\ \A q \in Procs \ {p} : pc'[q] = pc[q] /\ kind'[q] = kind[q] /\ target'[q] = target[q]
        /\ pc'[p] = point /\ reg' = reg /\ mislaid' = mislaid
    BY <1>1, <1>2 DEF Begin, Goto, TypeOK
  <2>3. QED
    BY <1>2, <2>1, <2>2, OwedKept
<1>3. ASSUME NEW p \in Procs, OpenMetaLock(p) \/ Check(p)
      PROVE  OwedInv'
  <2>1. \A r \in Repos : ~Owes(p, r)
    BY <1>3 DEF OpenMetaLock, Check, Owes
  <2>2. /\ \A q \in Procs \ {p} : pc'[q] = pc[q] /\ kind'[q] = kind[q] /\ target'[q] = target[q]
        /\ pc'[p] # "write" /\ UNCHANGED <<reg, dir, counts, mislaid>>
    BY <1>1, <1>3 DEF OpenMetaLock, Check, Finish, Goto, TypeOK
  <2>3. QED
    BY <2>1, <2>2, OwedKept
<1>4. ASSUME NEW p \in Procs, RetireDropped(p) PROVE OwedInv'
  <2>1. \A r \in Repos : ~Owes(p, r)
    BY <1>4 DEF RetireDropped, Owes
  <2>2. /\ \A q \in Procs \ {p} : pc'[q] = pc[q] /\ kind'[q] = kind[q] /\ target'[q] = target[q]
        /\ pc'[p] # "write" /\ UNCHANGED <<reg, counts>>
    BY <1>1, <1>4 DEF RetireDropped, Goto, TypeOK
  <2>3. \A r \in Repos : dir'[r] = "meta" => dir[r] = "meta" /\ (r \in mislaid => r \in mislaid')
    BY <1>4 DEF RetireDropped, Retire
  <2>4. QED
    BY <2>1, <2>2, <2>3, OwedKept
<1>5. ASSUME NEW p \in Procs, Judge(p) PROVE OwedInv'
  <2>1. \A r \in Repos : ~Owes(p, r)
    BY <1>5 DEF Judge, Owes
  <2>2. /\ \A q \in Procs \ {p} : pc'[q] = pc[q] /\ kind'[q] = kind[q] /\ target'[q] = target[q]
        /\ UNCHANGED <<reg, counts, kind>>
    BY <1>1, <1>5 DEF Judge, Goto, TypeOK
  <2>3. \A r \in Repos : dir'[r] = "meta" => dir[r] = "meta" /\ (r \in mislaid => r \in mislaid')
    BY <1>5 DEF Judge, Retire
  <2>4. ASSUME NEW r \in Repos, r \in ReposOf(p)' PROVE dir'[r] # "meta"
    <3>1. target'[p] = About(Judged(p))
      BY <1>1, <1>5 DEF Judge, TypeOK
    <3>2. r \in Judged(p)
      BY <2>4, <3>1 DEF ReposOf, About
    <3>3. kind[p] \in Sweeps
      BY <1>5 DEF Judge, RegInv, CommandInv
    <3>4. CASE kind[p] = "orphans"
      BY <1>5, <3>2, <3>4 DEF Judge, Retire
    <3>5. CASE kind[p] = "ghosts"
      BY <1>5, <3>2, <3>5 DEF Judge, Judged
    <3>6. QED
      BY <3>3, <3>4, <3>5 DEF Sweeps
  <2>5. QED
    BY <2>1, <2>2, <2>3, <2>4, OwedKept
<1>6. ASSUME NEW p \in Procs, LockTimeOut(p) \/ Die(p) PROVE OwedInv'
  <2>1. counts'.fault = counts.fault + 1 /\ counts.fault \in Nat
    BY <1>1, <1>6 DEF LockTimeOut, Die, TypeOK
  <2>2. QED
    BY <2>1 DEF OwedInv
<1>7. ASSUME NEW p \in Procs, NEW r \in Repos, StartBuild(p, r) \/ StartEnsure(p, r)
      PROVE  OwedInv'
  <2>1. \A x \in Repos : dir'[x] = "meta" => dir[x] = "meta"
    BY <1>1, <1>7 DEF StartBuild, StartEnsure, TypeOK
  <2>2. QED
    BY <1>2, <1>7, <2>1 DEF StartBuild, StartEnsure
<1>8. ASSUME NEW p \in Procs, StartAdmin(p) PROVE OwedInv'
  <2>1. counts'.fault = counts.fault /\ dir' = dir
    BY <1>1, <1>8 DEF StartAdmin, Command, TypeOK
  <2>2. QED
    BY <1>2, <1>8, <2>1 DEF StartAdmin
<1>9. CASE UNCHANGED <<reg, dir, pc, own, counts, mislaid>>
  BY <1>9 DEF RegInv, OwedInv, Owes, ReposOf, Unregistered
<1>10. ASSUME NEW p \in Procs, Step(p) PROVE OwedInv'
  BY <1>3, <1>4, <1>5, <1>10, WriteOwed, WriteMetaOwed, MovesOwed DEF Step
<1>11. QED
  BY <1>6, <1>7, <1>8, <1>9, <1>10 DEF Next, Procs, vars, DeleteCheckout

LEMMA RegStep == RegInv /\ [Next]_vars => RegInv'
<1> SUFFICES ASSUME RegInv, [Next]_vars PROVE RegInv'
  OBVIOUS
<1>1. SerialInv'
  BY SerialStep DEF RegInv
<1>2. CommandInv'
  <2>1. CASE Next
    BY <2>1, CommandStep DEF RegInv, SerialInv
  <2>2. CASE UNCHANGED vars
    BY <2>2 DEF RegInv, CommandInv, vars, own
  <2>3. QED
    BY <2>1, <2>2
<1>3. OwedInv'
  BY OwedStep
<1>4. QED
  BY <1>1, <1>2, <1>3 DEF RegInv

(* With nobody at work and no process dead or timed out, an index with a   *)
(* meta has its entry, but for those that a drop or a migration mislaid.   *)
THEOREM EntriesComplete == Spec => []Registered
<1>1. RegInv => Registered
  BY DEF RegInv, OwedInv, Owes, Registered, AtRest, Unregistered
<1>2. QED
  BY <1>1, RegInit, RegStep, PTL DEF Spec
==============================================================================
