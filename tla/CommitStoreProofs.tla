-------------------------- MODULE CommitStoreProofs --------------------------
(***************************************************************************)
(* Machine-checked theorems about CommitStore, for any processes, SHAs,    *)
(* stripes and bounds.                                                     *)
(***************************************************************************)
EXTENDS CommitStore, TLAPS

USE StripeAssumption, VersionAssumption, BoundAssumption, FlagAssumption,
    NoProcAssumption, NoDirAssumption

(* The initial state has the types of TypeOK; the lemmas after it show the  *)
(* same of each group of actions.                                          *)
LEMMA TypeInit == Init => TypeOK
  BY DEF Init, TypeOK, Gens, Points, Locked, Naming, Building

LEMMA LeaveType ==
    ASSUME TypeOK, NEW p \in Procs, Leave(p)
    PROVE  /\ lock' \in [Stripes -> Procs \cup {NoProc}]
           /\ pc' \in [Procs -> Points]
           /\ kind' \in [Procs -> JobKinds \cup {"none"}]
           /\ sha' \in [Procs -> Shas]
           /\ pick' \in [Procs -> Dirs \cup {NoDir}]
           /\ gen' \in [Procs -> Gens]
           /\ own' \in [Procs -> Attempts \cup {0}]
           /\ \A q \in Procs :
                pc'[q] \in Building \cup {"fail"} => own'[q] \in Attempts
           /\ victims' \in [Procs -> SUBSET (Dirs \cup StagingDirs)]
           /\ used' \in [Procs -> SUBSET Dirs]
  BY DEF TypeOK, Leave, Goto, Points, Gens, Building

LEMMA NoteUseType ==
    ASSUME TypeOK, NEW d \in Dirs, NoteUse(d)
    PROVE  used' \in [Procs -> SUBSET Dirs]
  BY DEF TypeOK, NoteUse

LEMMA AttachedType ==
    ASSUME TypeOK, NEW p \in Procs, NEW d \in dirs, Attached(p, d)
    PROVE  TypeOK'
<1>1. used' \in [Procs -> SUBSET Dirs]
  BY NoteUseType DEF Attached, TypeOK
<1>2. idle' \subseteq dirs' /\ UNCHANGED <<nameVars, flushed, staging>>
  BY DEF Attached, Use, TypeOK, nameVars
<1>3. /\ lock' \in [Stripes -> Procs \cup {NoProc}]
      /\ pc' = [pc EXCEPT ![p] = "idle"]
      /\ kind' \in [Procs -> JobKinds \cup {"none"}]
      /\ pick' \in [Procs -> Dirs \cup {NoDir}]
      /\ UNCHANGED <<sha, gen, own, victims>>
  BY DEF Attached, Goto, TypeOK
<1>4. /\ pc' \in [Procs -> Points]
      /\ \A q \in Procs : pc'[q] \in Building \cup {"fail"} => own'[q] \in Attempts
  BY <1>3 DEF TypeOK, Points, Building
<1>5. QED
  BY <1>1, <1>2, <1>3, <1>4 DEF TypeOK, nameVars

LEMMA BuildStepType ==
    ASSUME TypeOK, NEW p \in Procs, BuildStep(p)
    PROVE  TypeOK'
<1> USE DEF diskVars, nameVars, jobVars, Goto, Points, Locked, Naming, Building
<1>1. CASE Look(p)
  BY <1>1 DEF Look, TypeOK, Listings, Same
<1>2. CASE Attach(p)
  BY <1>2, AttachedType DEF Attach, Usable
<1>3. CASE Decline(p)
  BY <1>3 DEF Decline, TypeOK
<1>4. CASE Acquire(p)
  BY <1>4 DEF Acquire, TakeLock, TypeOK
<1>5. CASE TimeOut(p)
  BY <1>5, LeaveType DEF TimeOut, TypeOK
<1>6. CASE RecheckAttach(p)
  BY <1>6, AttachedType DEF RecheckAttach, Usable
<1>7. CASE RecheckMiss(p)
  BY <1>7 DEF RecheckMiss, TypeOK
<1>8. CASE Invalidate(p)
  BY <1>8 DEF Invalidate, TypeOK
<1>9. CASE ChooseName(p)
  <2>1. gen' \in [Procs -> Gens]
    <3>1. ASSUME NEW d \in Dirs, NEW now \in Gens, NextGen(d.gen, now) <= MaxGen
          PROVE  NextGen(d.gen, now) \in Gens
      BY <3>1 DEF NextGen, Gens, Dirs
    <3>2. Same(sha[p]) \subseteq Dirs
      BY DEF Same, TypeOK
    <3>3. QED
      BY <1>9, <3>1, <3>2 DEF ChooseName, TypeOK
  <2>2. QED
    BY <1>9, <2>1 DEF ChooseName, TypeOK
<1>10. CASE RetireAbandoned(p)
  BY <1>10 DEF RetireAbandoned, TypeOK, StagingOf
<1>11. CASE CreateStaging(p)
  BY <1>11 DEF CreateStaging, TypeOK, StagingDirs
<1>12. CASE GiveUp(p)
  BY <1>12, LeaveType DEF GiveUp, TypeOK
<1>13. CASE Analyze(p)
  BY <1>13 DEF Analyze, TypeOK
<1>14. CASE FlushTree(p)
  <2>1. OwnStaging(p) \in StagingDirs
    BY <1>14 DEF FlushTree, TypeOK, OwnStaging, StagingDirs
  <2>2. QED
    BY <1>14, <2>1 DEF FlushTree, TypeOK
<1>15. CASE Publish(p)
  <2>1. NewDir(p) \in Dirs
    BY DEF TypeOK, NewDir, Dirs
  <2>2. used' \in [Procs -> SUBSET Dirs]
    BY <1>15, <2>1, NoteUseType DEF Publish
  <2>3. QED
    BY <1>15, <2>1, <2>2 DEF Publish, TypeOK
<1>16. CASE BuildError(p)
  BY <1>16 DEF BuildError, TypeOK
<1>17. CASE RetireOwn(p)
  BY <1>17, LeaveType DEF RetireOwn, TypeOK
<1>18. CASE FsyncCommits(p)
  BY <1>18 DEF FsyncCommits, FsyncNames, TypeOK, ShasIn, Dirs
<1>19. CASE FsyncError(p)
  BY <1>19 DEF FsyncError, TypeOK
<1>20. CASE Finish(p)
  BY <1>20, LeaveType DEF Finish, TypeOK
<1>21. QED
  BY <1>1, <1>2, <1>3, <1>4, <1>5, <1>6, <1>7, <1>8, <1>9, <1>10, <1>11,
     <1>12, <1>13, <1>14, <1>15, <1>16, <1>17, <1>18, <1>19, <1>20
     DEF BuildStep

LEMMA SweepStepType ==
    ASSUME TypeOK, NEW p \in Procs, SweepStep(p)
    PROVE  TypeOK'
<1> USE DEF diskVars, nameVars, jobVars, Goto, Points, Locked, Naming, Building
<1>1. CASE TryLock(p)
  BY <1>1 DEF TryLock, TakeLock, TypeOK
<1>2. CASE SkipBusy(p)
  BY <1>2, LeaveType DEF SkipBusy, TypeOK
<1>3. CASE Judge(p)
  BY <1>3 DEF Judge, TypeOK, Same, StagingOf
<1>4. CASE SkipSweep(p)
  BY <1>4, LeaveType DEF SkipSweep, TypeOK
<1>5. CASE SyncBeforeRetire(p)
  BY <1>5 DEF SyncBeforeRetire, FsyncNames, TypeOK, ShasIn, Dirs
<1>6. CASE Retire(p)
  BY <1>6 DEF Retire, TypeOK
<1>7. CASE EndSweep(p)
  BY <1>7, LeaveType DEF EndSweep, TypeOK
<1>8. QED
  BY <1>1, <1>2, <1>3, <1>4, <1>5, <1>6, <1>7 DEF SweepStep

LEMMA StartType ==
    ASSUME TypeOK, NEW p \in Procs, Start(p)
    PROVE  TypeOK'
<1> USE DEF diskVars, nameVars, Goto, Points, Locked, Naming, Building
<1>1. ASSUME NEW s \in Shas, StartBuild(p, s)
      PROVE  TypeOK'
  BY <1>1 DEF StartBuild, Begin, TypeOK, JobKinds, BuildKinds
<1>2. ASSUME NEW s \in Shas, StartForce(p, s)
      PROVE  TypeOK'
  BY <1>2 DEF StartForce, Begin, TypeOK, JobKinds, BuildKinds
<1>3. ASSUME NEW s \in Shas, NEW k \in SweepKinds, StartSweep(p, k, s)
      PROVE  TypeOK'
  <2>1. pick' \in [Procs -> Dirs \cup {NoDir}]
    BY <1>3 DEF StartSweep, TypeOK, Same
  <2>2. QED
    BY <1>3, <2>1 DEF StartSweep, Begin, TypeOK, JobKinds
<1>4. QED
  BY <1>1, <1>2, <1>3 DEF Start

LEMMA EnvironmentType ==
    ASSUME TypeOK,
           \/ \E p \in Procs : Crash(p)
           \/ \E d \in dirs : Query(d) \/ GoIdle(d)
           \/ PowerLoss
    PROVE  TypeOK'
<1> USE DEF diskVars, nameVars, jobVars
<1>1. ASSUME NEW p \in Procs, Crash(p)
      PROVE  TypeOK'
  BY <1>1, LeaveType DEF Crash, TypeOK
<1>2. ASSUME NEW d \in dirs, Query(d)
      PROVE  TypeOK'
  <2>1. used' \in [Procs -> SUBSET Dirs]
    BY <1>2, NoteUseType DEF Query, TypeOK
  <2>2. QED
    BY <1>2, <2>1 DEF Query, Use, TypeOK
<1>3. ASSUME NEW d \in dirs, GoIdle(d)
      PROVE  TypeOK'
  BY <1>3 DEF GoIdle, TypeOK
<1>4. CASE PowerLoss
  BY <1>4 DEF PowerLoss, TypeOK, Points, Gens, Building
<1>5. QED
  BY <1>1, <1>2, <1>3, <1>4

(* The type invariant.                                                     *)
THEOREM TypeCorrect == Spec => []TypeOK
<1>1. TypeOK /\ UNCHANGED vars => TypeOK'
  BY DEF TypeOK, vars, diskVars, nameVars, jobVars
<1>2. TypeOK /\ [Next]_vars => TypeOK'
  BY <1>1, StartType, BuildStepType, SweepStepType, EnvironmentType DEF Next
<1>3. QED
  BY TypeInit, <1>2, PTL DEF Spec

-----------------------------------------------------------------------------
(* The inductive invariant.                                                *)

LEMMA InvInit == Init => IInv
<1> SUFFICES ASSUME Init PROVE IInv
  OBVIOUS
<1>1. TypeOK
  BY TypeInit
<1>2. /\ JobInv /\ LockInv /\ OwnStagingKept /\ NameOutranks
      /\ WholeInv /\ VictimInv /\ RetireInv /\ NeverLost
  BY DEF Init, JobInv, LockInv, OwnStagingKept, NameOutranks, WholeInv,
     VictimInv, RetireInv, NeverLost, Locked, Naming, Building
<1>3. UsedInv /\ NoRepeatedBuild /\ UsedBeforeLockKept
  BY DEF Init, UsedInv, NoRepeatedBuild, UsedBeforeLockKept, IdleSweeps
<1>4. QED
  BY <1>1, <1>2, <1>3 DEF IInv

(* The control of a run: the kind of job fits the point, the lock is held. *)
Control == JobInv /\ LockInv

LEMMA LeaveControl ==
    ASSUME TypeOK, Control, NEW p \in Procs, Leave(p)
    PROVE  Control'
  BY DEF TypeOK, Control, JobInv, LockInv, Leave, Goto, Locked, Naming, Building

LEMMA BuildControl ==
    ASSUME TypeOK, Control, NEW p \in Procs, BuildStep(p)
    PROVE  Control'
<1> USE DEF Goto, jobVars
<1>1. CASE Look(p) \/ Decline(p) \/ RecheckMiss(p) \/ Invalidate(p) \/ ChooseName(p)
  <2>1. /\ UNCHANGED <<lock, kind, sha>>
        /\ \/ pc' = [pc EXCEPT ![p] = "wait"] /\ pc[p] \in {"look", "attach"}
           \/ pc' = [pc EXCEPT ![p] = "attach"] /\ pc[p] = "look"
           \/ pc' = [pc EXCEPT ![p] = "name"] /\ pc[p] \in Locked
           \/ pc' = [pc EXCEPT ![p] = "clean"] /\ pc[p] \in Locked
    BY <1>1 DEF Look, Decline, RecheckMiss, Invalidate, ChooseName, Locked
  <2>2. QED
    BY <2>1 DEF TypeOK, Control, JobInv, LockInv, Locked, Naming, Building
<1>2. CASE Attach(p) \/ RecheckAttach(p)
  BY <1>2 DEF Attach, RecheckAttach, Attached,
     TypeOK, Control, JobInv, LockInv, Locked, Naming, Building
<1>3. CASE Acquire(p)
  BY <1>3 DEF Acquire, TakeLock,
     TypeOK, Control, JobInv, LockInv, Locked, Naming, Building, BuildKinds
<1>4. CASE TimeOut(p) \/ GiveUp(p) \/ RetireOwn(p) \/ Finish(p)
  BY <1>4, LeaveControl DEF TimeOut, GiveUp, RetireOwn, Finish
<1>5. CASE RetireAbandoned(p) \/ CreateStaging(p) \/ Analyze(p) \/ FlushTree(p)
  BY <1>5 DEF RetireAbandoned, CreateStaging, Analyze, FlushTree,
     TypeOK, Control, JobInv, LockInv, Locked, Naming, Building
<1>6. CASE Publish(p) \/ BuildError(p) \/ FsyncCommits(p) \/ FsyncError(p)
  BY <1>6 DEF Publish, BuildError, FsyncCommits, FsyncError,
     TypeOK, Control, JobInv, LockInv, Locked, Naming, Building
<1>7. QED
  BY <1>1, <1>2, <1>3, <1>4, <1>5, <1>6 DEF BuildStep

LEMMA SweepControl ==
    ASSUME TypeOK, Control, NEW p \in Procs, SweepStep(p)
    PROVE  Control'
<1> USE DEF Goto, jobVars
<1>1. CASE TryLock(p)
  BY <1>1 DEF TryLock, TakeLock,
     TypeOK, Control, JobInv, LockInv, Locked, Naming, Building
<1>2. CASE SkipBusy(p) \/ SkipSweep(p) \/ EndSweep(p)
  BY <1>2, LeaveControl DEF SkipBusy, SkipSweep, EndSweep
<1>3. CASE Judge(p) \/ SyncBeforeRetire(p) \/ Retire(p)
  BY <1>3 DEF Judge, SyncBeforeRetire, Retire,
     TypeOK, Control, JobInv, LockInv, Locked, Naming, Building
<1>4. QED
  BY <1>1, <1>2, <1>3 DEF SweepStep

LEMMA OtherControl ==
    ASSUME TypeOK, Control,
           \/ \E p \in Procs : Start(p) \/ Crash(p)
           \/ \E d \in dirs : Query(d) \/ GoIdle(d)
           \/ PowerLoss
    PROVE  Control'
<1>1. ASSUME NEW p \in Procs, Start(p)
      PROVE  Control'
  BY <1>1 DEF Start, StartBuild, StartForce, StartSweep, Begin, Goto,
     TypeOK, Control, JobInv, LockInv, Locked, Naming, Building, BuildKinds
<1>2. ASSUME NEW p \in Procs, Crash(p)
      PROVE  Control'
  BY <1>2, LeaveControl DEF Crash
<1>3. ASSUME NEW d \in dirs, Query(d) \/ GoIdle(d)
      PROVE  Control'
  BY <1>3 DEF Query, GoIdle, jobVars, Control, JobInv, LockInv
<1>4. CASE PowerLoss
  BY <1>4 DEF PowerLoss, Control, JobInv, LockInv, Locked, Naming, Building
<1>5. QED
  BY <1>1, <1>2, <1>3, <1>4

(* Two processes past their locks work on different SHAs.                  *)
LEMMA Exclusion ==
    ASSUME TypeOK, LockInv, NEW p \in Procs, NEW q \in Procs,
           pc[p] \in Locked, pc[q] \in Locked, p # q
    PROVE  sha[p] # sha[q]
  BY DEF TypeOK, LockInv

(* What the invariant says of the disk.                                    *)
Disk ==
    /\ OwnStagingKept
    /\ NameOutranks
    /\ WholeInv
    /\ VictimInv
    /\ RetireInv
    /\ NeverLost
    /\ NoRepeatedBuild

(* Only p moves, and no name or file on the disk changes.                  *)
Moves(p) ==
    /\ UNCHANGED <<dirs, durable, promised, flushed, staging>>
    /\ \A q \in Procs \ {p} :
        /\ pc'[q] = pc[q] /\ kind'[q] = kind[q] /\ sha'[q] = sha[q]
        /\ gen'[q] = gen[q] /\ own'[q] = own[q] /\ victims'[q] = victims[q]

LEMMA MoveAway ==
    ASSUME TypeOK, Disk, NEW p \in Procs, Moves(p),
           pc'[p] \notin {"name", "sync", "retire"} \cup (Naming \ {"fail"})
    PROVE  Disk'
<1> USE DEF Moves, Disk, Same, OwnStaging, Naming, Building
<1>1. OwnStagingKept' /\ WholeInv'
  BY DEF OwnStagingKept, WholeInv
<1>2. NameOutranks' /\ NeverLost'
  BY DEF NameOutranks, NeverLost
<1>3. VictimInv' /\ RetireInv'
  BY DEF VictimInv, RetireInv, IsCurrent
<1>4. NoRepeatedBuild'
  BY DEF NoRepeatedBuild, IsCurrent, Usable
<1>5. QED
  BY <1>1, <1>2, <1>3, <1>4

LEMMA LeaveDisk ==
    ASSUME TypeOK, Disk, NEW p \in Procs, Leave(p),
           UNCHANGED <<dirs, durable, promised, flushed, staging>>
    PROVE  Disk'
<1>1. Moves(p) /\ pc'[p] = "idle"
  BY DEF Leave, Goto, Moves, TypeOK
<1>2. QED
  BY <1>1, MoveAway DEF Naming, Building

(* The steps of a builder that leave the disk alone.                       *)
LEMMA BuilderMoves ==
    ASSUME IInv, NEW p \in Procs,
           \/ Look(p) \/ Attach(p) \/ Decline(p) \/ Acquire(p) \/ TimeOut(p)
           \/ RecheckAttach(p) \/ GiveUp(p) \/ BuildError(p) \/ FsyncError(p)
           \/ Finish(p)
    PROVE  Disk'
<1> USE DEF diskVars, nameVars, jobVars, Goto, Naming, Building
<1>1. TypeOK /\ Disk
  BY DEF IInv, Disk
<1>2. CASE Look(p) \/ Decline(p) \/ BuildError(p) \/ FsyncError(p)
  <2>1. Moves(p) /\ pc'[p] \in {"wait", "attach", "fail", "finish"}
    BY <1>1, <1>2 DEF Look, Decline, BuildError, FsyncError, Moves, TypeOK
  <2>2. QED
    BY <1>1, <2>1, MoveAway
<1>3. CASE Attach(p) \/ RecheckAttach(p)
  <2>1. Moves(p) /\ pc'[p] = "idle"
    BY <1>1, <1>3 DEF Attach, RecheckAttach, Attached, Use, Moves, TypeOK
  <2>2. QED
    BY <1>1, <2>1, MoveAway
<1>4. CASE Acquire(p)
  <2>1. Moves(p) /\ pc'[p] \in {"recheck", "invalidate"}
    BY <1>1, <1>4 DEF Acquire, TakeLock, Moves, TypeOK
  <2>2. QED
    BY <1>1, <2>1, MoveAway
<1>5. CASE TimeOut(p) \/ GiveUp(p) \/ Finish(p)
  BY <1>1, <1>5, LeaveDisk DEF TimeOut, GiveUp, Finish
<1>6. QED
  BY <1>2, <1>3, <1>4, <1>5

(* The moves that take on an obligation: the choice to build.              *)
LEMMA ChoiceMoves ==
    ASSUME IInv, NEW p \in Procs,
           RecheckMiss(p) \/ Invalidate(p) \/ ChooseName(p) \/ Analyze(p)
    PROVE  Disk'
<1> USE DEF IInv, diskVars, nameVars, jobVars, Goto, Naming, Building, Same, OwnStaging
<1>1. Moves(p) /\ kind' = kind /\ sha' = sha /\ own' = own /\ victims' = victims
  BY DEF RecheckMiss, Invalidate, ChooseName, Analyze, Moves, TypeOK
<1>2. pc' \in {[pc EXCEPT ![p] = c] : c \in {"name", "clean", "flush"}}
  BY DEF RecheckMiss, Invalidate, ChooseName, Analyze
<1>3. WholeInv' /\ VictimInv' /\ RetireInv' /\ NeverLost'
  BY <1>1, <1>2 DEF Moves, TypeOK, WholeInv, VictimInv, RetireInv, IsCurrent,
     NeverLost
<1>4. OwnStagingKept'
  BY <1>1, <1>2 DEF RecheckMiss, Invalidate, ChooseName, Analyze, Moves, TypeOK,
     OwnStagingKept
<1>5. NameOutranks'
  <2>1. CASE ChooseName(p)
    <3>1. \A d \in Same(sha[p]) : d.gen < gen'[p]
      <4>1. CASE Same(sha[p]) = {}
        BY <4>1
      <4>2. ASSUME NEW c \in Same(sha[p]), NEW now \in Gens,
                   IsCurrent(c, Same(sha[p])),
                   gen' = [gen EXCEPT ![p] = NextGen(c.gen, now)]
            PROVE  \A d \in Same(sha[p]) : d.gen < gen'[p]
        <5>1. \A d \in Same(sha[p]) : d.gen \in Nat /\ d.gen <= c.gen
          BY <4>2 DEF IsCurrent, TypeOK, Dirs, Gens
        <5>2. gen'[p] = NextGen(c.gen, now)
          BY <4>2 DEF TypeOK
        <5>3. QED
          BY <5>1, <5>2 DEF NextGen, Gens
      <4>3. QED
        BY <2>1, <4>1, <4>2 DEF ChooseName
    <3>2. QED
      BY <1>1, <2>1, <3>1 DEF ChooseName, Moves, NameOutranks, TypeOK
  <2>2. CASE RecheckMiss(p) \/ Invalidate(p) \/ Analyze(p)
    BY <1>1, <2>2 DEF RecheckMiss, Invalidate, Analyze, Moves, NameOutranks, TypeOK
  <2>3. QED
    BY <2>1, <2>2
<1>6. NoRepeatedBuild'
  <2>1. CASE RecheckMiss(p)
    BY <1>1, <2>1 DEF RecheckMiss, Moves, NoRepeatedBuild, TypeOK, Listings,
       Usable, IsCurrent
  <2>2. CASE Invalidate(p)
    BY <1>1, <2>2 DEF Invalidate, Moves, NoRepeatedBuild, TypeOK, JobInv,
       Usable, IsCurrent
  <2>3. CASE ChooseName(p) \/ Analyze(p)
    BY <1>1, <2>3 DEF ChooseName, Analyze, Moves, NoRepeatedBuild, TypeOK,
       Usable, IsCurrent
  <2>4. QED
    BY <2>1, <2>2, <2>3
<1>7. QED
  BY <1>3, <1>4, <1>5, <1>6 DEF Disk

(* A published dir is never a staging dir.                                 *)
LEMMA Disjoint == Dirs \cap StagingDirs = {}
<1>1. ASSUME NEW d \in Dirs, d \in StagingDirs
      PROVE  FALSE
  <2>1. DOMAIN d = {"sha", "gen", "by"}
    BY DEF Dirs
  <2>2. DOMAIN d = {"sha", "proc", "attempt"}
    BY <1>1 DEF StagingDirs
  <2>3. QED
    BY <2>1, <2>2
<1>2. QED
  BY <1>1

LEMMA OwnStagingApart == \A p \in Procs : OwnStaging(p) \notin Dirs
<1>1. ASSUME NEW p \in Procs, OwnStaging(p) \in Dirs
      PROVE  FALSE
  <2>1. DOMAIN OwnStaging(p) = {"sha", "gen", "by"}
    BY <1>1 DEF Dirs
  <2>2. DOMAIN OwnStaging(p) = {"sha", "proc", "attempt"}
    BY DEF OwnStaging
  <2>3. QED
    BY <2>1, <2>2
<1>2. QED
  BY <1>1

(* What the invariant gives about other processes while p holds its lock.  *)
LEMMA OthersElsewhere ==
    ASSUME IInv, NEW p \in Procs, pc[p] \in Locked, NEW q \in Procs, q # p,
           pc[q] \in Locked
    PROVE  sha[q] # sha[p]
  BY Exclusion DEF IInv

LEMMA StagingSteps ==
    ASSUME IInv, NEW p \in Procs,
           RetireAbandoned(p) \/ CreateStaging(p) \/ FlushTree(p)
    PROVE  Disk'
<1> USE DEF IInv, nameVars, jobVars, Goto, Naming, Building
<1>1. /\ UNCHANGED <<dirs, durable, promised, kind, sha, gen, victims>>
      /\ pc' \in {[pc EXCEPT ![p] = c] : c \in {"stage", "analyze", "rename"}}
      /\ pc[p] \in {"clean", "stage", "flush"}
  BY DEF RetireAbandoned, CreateStaging, FlushTree
<1>2. NameOutranks' /\ VictimInv' /\ RetireInv' /\ NoRepeatedBuild'
  BY <1>1 DEF TypeOK, NameOutranks, VictimInv, RetireInv, IsCurrent,
     NoRepeatedBuild, Usable, Same
<1>3. dirs \cup durable \subseteq flushed'
  <2>1. \E gone \in SUBSET StagingDirs : flushed \ gone \subseteq flushed'
    <3>1. CASE RetireAbandoned(p)
      BY <3>1 DEF RetireAbandoned, StagingOf, TypeOK
    <3>2. CASE CreateStaging(p)
      <4>1. PICK a \in Attempts :
              flushed' = flushed \ {[sha |-> sha[p], proc |-> p, attempt |-> a]}
        BY <3>2 DEF CreateStaging
      <4>2. [sha |-> sha[p], proc |-> p, attempt |-> a] \in StagingDirs
        BY DEF StagingDirs, TypeOK
      <4>3. QED
        BY <4>1, <4>2
    <3>3. CASE FlushTree(p)
      BY <3>3 DEF FlushTree
    <3>4. QED
      BY <3>1, <3>2, <3>3
  <2>2. dirs \cup durable \subseteq flushed /\ dirs \cup durable \subseteq Dirs
    BY DEF WholeInv, TypeOK
  <2>3. QED
    BY <2>1, <2>2, Disjoint
<1>4. NeverLost'
  BY <1>1, <1>3 DEF NeverLost
<1>5. ASSUME NEW q \in Procs, q # p, pc[q] \in Building
      PROVE  /\ OwnStaging(q)' = OwnStaging(q)
             /\ OwnStaging(q) \in staging'
             /\ pc[q] = "rename" => OwnStaging(q) \in flushed'
  <2>1. sha[q] # sha[p]
    BY <1>1, <1>5, OthersElsewhere DEF Locked
  <2>2. OwnStaging(q)' = OwnStaging(q)
    BY <1>1, <1>5 DEF OwnStaging, RetireAbandoned, CreateStaging, FlushTree, TypeOK
  <2>3. OwnStaging(q) \in staging /\ (pc[q] = "rename" => OwnStaging(q) \in flushed)
    BY <1>5 DEF OwnStagingKept, WholeInv
  <2>4. OwnStaging(q).sha = sha[q]
    BY DEF OwnStaging
  <2>5. QED
    BY <2>1, <2>2, <2>3, <2>4 DEF RetireAbandoned, CreateStaging, FlushTree, StagingOf
<1>6. OwnStagingKept' /\ WholeInv'
  <2>1. CASE RetireAbandoned(p)
    BY <1>1, <1>3, <1>5, <2>1 DEF RetireAbandoned, OwnStagingKept, WholeInv, TypeOK
  <2>2. CASE CreateStaging(p)
    <3>1. OwnStaging(p)' \in staging' /\ pc'[p] = "analyze"
      BY <1>1, <2>2 DEF CreateStaging, OwnStaging, TypeOK
    <3>2. QED
      BY <1>1, <1>3, <1>5, <2>2, <3>1 DEF CreateStaging, OwnStagingKept, WholeInv, TypeOK
  <2>3. CASE FlushTree(p)
    <3>1. /\ OwnStaging(p)' = OwnStaging(p)
          /\ OwnStaging(p) \in staging' /\ OwnStaging(p) \in flushed'
      BY <1>1, <2>3 DEF FlushTree, OwnStaging, OwnStagingKept
    <3>2. QED
      BY <1>1, <1>3, <1>5, <2>3, <3>1 DEF FlushTree, OwnStagingKept, WholeInv, TypeOK
  <2>4. QED
    BY <2>1, <2>2, <2>3
<1>7. QED
  BY <1>2, <1>4, <1>6 DEF Disk

LEMMA PublishStep ==
    ASSUME IInv, NEW p \in Procs, Publish(p)
    PROVE  Disk'
<1> USE DEF IInv, Naming, Building
<1>1. /\ NewDir(p) \in Dirs /\ NewDir(p).sha = sha[p] /\ NewDir(p).gen = gen[p]
      /\ OwnStaging(p) \in StagingDirs /\ OwnStaging(p).sha = sha[p]
      /\ OwnStaging(p) \in flushed
      /\ pc[p] = "rename"
  BY DEF Publish, NewDir, OwnStaging, Dirs, StagingDirs, TypeOK, WholeInv
<1>2. \A d \in dirs : d.sha = sha[p] => d.gen < gen[p]
  BY <1>1 DEF NameOutranks, Same
<1>3. NewDir(p) \notin dirs
  BY <1>1, <1>2 DEF TypeOK, Gens
<1>4. /\ dirs' = dirs \cup {NewDir(p)}
      /\ durable' = durable \ {NewDir(p)}
      /\ staging' = staging \ {OwnStaging(p)}
      /\ flushed' = (flushed \ {OwnStaging(p)}) \cup {NewDir(p)}
      /\ pc' = [pc EXCEPT ![p] = "fsync"]
      /\ UNCHANGED <<promised, kind, sha, gen, own, victims>>
  BY <1>1 DEF Publish, Goto, jobVars
<1>5. ASSUME NEW q \in Procs, q # p, pc[q] \in Locked
      PROVE  /\ sha[q] # sha[p] /\ Same(sha[q])' = Same(sha[q])
             /\ OwnStaging(q)' = OwnStaging(q)
             /\ OwnStaging(q) # OwnStaging(p) /\ OwnStaging(q) # NewDir(p)
  <2>1. sha[q] # sha[p]
    BY <1>1, <1>5, OthersElsewhere DEF Locked
  <2>2. OwnStaging(q).sha = sha[q]
    BY DEF OwnStaging
  <2>3. OwnStaging(q)' = OwnStaging(q)
    BY <1>4 DEF OwnStaging
  <2>4. QED
    BY <1>1, <1>4, <2>1, <2>2, <2>3 DEF Same
<1>7. WholeInv'
  <2>1. dirs' \cup durable' \subseteq flushed'
    BY <1>1, <1>4, Disjoint DEF WholeInv, TypeOK
  <2>2. ASSUME NEW q \in Procs, pc'[q] = "rename"
        PROVE  OwnStaging(q)' \in flushed'
    <3>1. q # p /\ pc[q] = "rename"
      BY <1>4, <2>2 DEF TypeOK
    <3>2. QED
      BY <1>4, <1>5, <3>1 DEF WholeInv, Locked
  <2>3. QED
    BY <2>1, <2>2 DEF WholeInv
<1>8. NeverLost'
  <2>1. ASSUME NEW s \in promised
        PROVE  \E d \in dirs' \cap durable' \cap flushed' : d.sha = s
    <3>1. PICK d \in dirs \cap durable \cap flushed : d.sha = s
      BY DEF NeverLost
    <3>2. d # NewDir(p) /\ d # OwnStaging(p)
      BY <1>1, <1>3, <3>1, Disjoint DEF TypeOK
    <3>3. QED
      BY <1>4, <3>1, <3>2
  <2>2. QED
    BY <1>4, <2>1 DEF NeverLost
<1>9. ASSUME NEW q \in Procs, pc'[q] \in Locked \ {"fsync"}
      PROVE  q # p /\ pc'[q] = pc[q] /\ pc[q] \in Locked
  BY <1>4, <1>9 DEF TypeOK
<1>10. OwnStagingKept'
  BY <1>4, <1>5, <1>9 DEF OwnStagingKept, Locked
<1>11. NameOutranks'
  BY <1>4, <1>5, <1>9 DEF NameOutranks, Locked
<1>12. VictimInv' /\ RetireInv'
  <2>1. ASSUME NEW q \in Procs, pc'[q] \in {"sync", "retire"}
        PROVE  /\ q # p /\ pc'[q] = pc[q]
               /\ Same(sha[q])' = Same(sha[q])
               /\ NewDir(p) \notin Same(sha[q])
    <3>1. q # p /\ pc'[q] = pc[q] /\ pc[q] \in Locked
      BY <1>9, <2>1 DEF Locked
    <3>2. sha[q] # sha[p] /\ Same(sha[q])' = Same(sha[q])
      BY <1>5, <3>1
    <3>3. QED
      BY <1>1, <3>1, <3>2 DEF Same
  <2>2. VictimInv'
    BY <1>4, <2>1 DEF VictimInv, IsCurrent
  <2>3. RetireInv'
    BY <1>4, <2>1 DEF RetireInv
  <2>4. QED
    BY <2>2, <2>3
<1>13. NoRepeatedBuild'
  <2>1. ASSUME NEW q \in Procs, pc'[q] \in {"name", "clean", "stage"} \cup Building
        PROVE  /\ q # p /\ pc'[q] = pc[q]
               /\ Same(sha[q])' = Same(sha[q])
               /\ \A d \in Same(sha[q]) : Usable(d, q)' = Usable(d, q)
    <3>1. q # p /\ pc'[q] = pc[q] /\ pc[q] \in Locked
      BY <1>9, <2>1 DEF Locked
    <3>2. Same(sha[q])' = Same(sha[q])
      BY <1>5, <3>1
    <3>3. QED
      BY <1>4, <3>1, <3>2 DEF Same, Usable
  <2>2. QED
    BY <1>4, <2>1 DEF NoRepeatedBuild, IsCurrent
<1>14. QED
  BY <1>7, <1>8, <1>10, <1>11, <1>12, <1>13 DEF Disk

(* A process leaves, and its own staging dir may go with it.               *)
LEMMA LeaveStaging ==
    ASSUME IInv, NEW p \in Procs, Leave(p), UNCHANGED <<nameVars, idle>>,
           staging \ {OwnStaging(p)} \subseteq staging',
           flushed \ {OwnStaging(p)} \subseteq flushed'
    PROVE  Disk'
<1> USE DEF IInv, Naming, Building, nameVars
<1>1. /\ UNCHANGED <<dirs, durable, promised, sha>>
      /\ pc' = [pc EXCEPT ![p] = "idle"]
      /\ \A q \in Procs \ {p} :
            gen'[q] = gen[q] /\ own'[q] = own[q] /\ victims'[q] = victims[q]
            /\ kind'[q] = kind[q] /\ OwnStaging(q)' = OwnStaging(q)
  BY DEF Leave, Goto, OwnStaging, TypeOK
<1>2. \A q \in Procs \ {p} : OwnStaging(q) # OwnStaging(p)
  BY DEF OwnStaging
<1>3. dirs' \cup durable' \subseteq flushed'
  BY <1>1, OwnStagingApart DEF WholeInv, TypeOK
<1>4. OwnStagingKept' /\ WholeInv'
  BY <1>1, <1>2, <1>3 DEF OwnStagingKept, WholeInv, TypeOK
<1>5. NameOutranks' /\ VictimInv' /\ RetireInv' /\ NoRepeatedBuild'
  BY <1>1 DEF TypeOK, NameOutranks, VictimInv, RetireInv, IsCurrent,
     NoRepeatedBuild, Usable, Same
<1>6. NeverLost'
  BY <1>1, <1>3 DEF NeverLost
<1>7. QED
  BY <1>4, <1>5, <1>6 DEF Disk

LEMMA RetireOwnStep ==
    ASSUME IInv, NEW p \in Procs, RetireOwn(p)
    PROVE  Disk'
  BY LeaveStaging DEF RetireOwn

(* An fsync of commits/ makes every build of the listing durable; what a   *)
(* sweep is about to retire after it is superseded by a durable build.     *)
LEMMA FsyncSteps ==
    ASSUME IInv, NEW p \in Procs, FsyncCommits(p) \/ SyncBeforeRetire(p)
    PROVE  Disk'
<1> USE DEF IInv, Naming, Building, jobVars, Goto
<1>1. /\ durable' = dirs /\ UNCHANGED <<dirs, staging, kind, sha, gen, own, victims>>
      /\ flushed' = flushed \cap (dirs \cup staging)
      /\ promised' = promised \cup ShasIn(dirs)
      /\ pc' \in {[pc EXCEPT ![p] = c] : c \in {"finish", "retire"}}
      /\ pc'[p] = "retire" => pc[p] = "sync"
  BY DEF FsyncCommits, SyncBeforeRetire, FsyncNames, TypeOK
<1>2. dirs \subseteq flushed'
  BY <1>1 DEF WholeInv
<1>3. OwnStagingKept' /\ NameOutranks' /\ NoRepeatedBuild'
  BY <1>1 DEF TypeOK, OwnStagingKept, OwnStaging, NameOutranks,
     NoRepeatedBuild, Usable, IsCurrent, Same
<1>4. WholeInv'
  BY <1>1, <1>2 DEF TypeOK, WholeInv, OwnStagingKept, OwnStaging
<1>5. VictimInv' /\ RetireInv'
  BY <1>1 DEF TypeOK, VictimInv, RetireInv, IsCurrent, Same
<1>6. NeverLost'
  BY <1>1, <1>2 DEF NeverLost, ShasIn
<1>7. QED
  BY <1>3, <1>4, <1>5, <1>6 DEF Disk

LEMMA JudgeStep ==
    ASSUME IInv, NEW p \in Procs, Judge(p)
    PROVE  Disk'
<1> USE DEF IInv, Naming, Building, diskVars, nameVars, Goto
<1>1. /\ UNCHANGED <<dirs, durable, promised, flushed, staging, kind, sha, gen, own>>
      /\ pc' = [pc EXCEPT ![p] = "sync"]
      /\ \A q \in Procs \ {p} : victims'[q] = victims[q]
  BY DEF Judge, TypeOK
<1>2. OwnStagingKept' /\ NameOutranks' /\ NoRepeatedBuild'
  BY <1>1 DEF TypeOK, OwnStagingKept, OwnStaging, NameOutranks,
     NoRepeatedBuild, Usable, IsCurrent, Same
<1>3. WholeInv' /\ RetireInv' /\ NeverLost'
  BY <1>1 DEF TypeOK, WholeInv, RetireInv, NeverLost, OwnStaging, Same
<1>4. PICK V \in SUBSET (Same(sha[p]) \cup StagingOf(sha[p])) :
        Victims(p, V) /\ victims' = [victims EXCEPT ![p] = V]
  BY DEF Judge
<1>5. /\ victims'[p] = V
      /\ \A v \in V : v.sha = sha[p]
      /\ kind[p] = "staging" => V \subseteq StagingDirs
      /\ kind[p] # "staging" => V \subseteq Dirs
      /\ kind[p] = "generations" =>
            \E c \in Same(sha[p]) \ V : IsCurrent(c, Same(sha[p]))
  BY <1>4 DEF Victims, Same, StagingOf, TypeOK, IdleSweeps
<1>6. VictimInv'
  BY <1>1, <1>5 DEF TypeOK, VictimInv, IsCurrent, Same
<1>7. QED
  BY <1>2, <1>3, <1>6 DEF Disk

LEMMA SweepMoves ==
    ASSUME IInv, NEW p \in Procs,
           TryLock(p) \/ SkipBusy(p) \/ SkipSweep(p) \/ EndSweep(p)
    PROVE  Disk'
<1> USE DEF diskVars, nameVars, jobVars
<1>1. TypeOK /\ Disk
  BY DEF IInv, Disk
<1>2. CASE TryLock(p)
  <2>1. Moves(p) /\ pc'[p] = "judge"
    BY <1>1, <1>2 DEF TryLock, TakeLock, Goto, Moves, TypeOK
  <2>2. QED
    BY <1>1, <2>1, MoveAway DEF Naming, Building
<1>3. CASE SkipBusy(p) \/ SkipSweep(p) \/ EndSweep(p)
  BY <1>1, <1>3, LeaveDisk DEF SkipBusy, SkipSweep, EndSweep
<1>4. QED
  BY <1>2, <1>3

(* The retire of one victim v.                                             *)
LEMMA RetireStep ==
    ASSUME IInv, NEW p \in Procs, Retire(p)
    PROVE  Disk'
<1> USE DEF IInv, Naming, Building, diskVars, nameVars
<1>1. PICK v \in victims[p] :
        /\ victims' = [victims EXCEPT ![p] = @ \ {v}]
        /\ \/ UNCHANGED diskVars
           \/ /\ dirs' = dirs \ {v}
              /\ staging' = staging \ {v}
              /\ promised' = IF kind[p] \in IdleSweeps /\ Same(sha[p]) = {v}
                             THEN promised \ {sha[p]} ELSE promised
              /\ UNCHANGED <<durable, flushed>>
  BY DEF Retire
<1>2. /\ UNCHANGED <<pc, kind, sha, gen, own>>
      /\ pc[p] = "retire"
      /\ UNCHANGED <<durable, flushed>>
      /\ dirs \ {v} \subseteq dirs' /\ dirs' \subseteq dirs
      /\ staging \ {v} \subseteq staging'
      /\ v.sha = sha[p]
  BY <1>1 DEF Retire, VictimInv
<1>3. ASSUME NEW q \in Procs, q # p, pc[q] \in Locked
      PROVE  /\ sha[q] # sha[p] /\ Same(sha[q])' = Same(sha[q])
             /\ OwnStaging(q)' = OwnStaging(q) /\ OwnStaging(q) # v
             /\ victims'[q] = victims[q]
  <2>1. sha[q] # sha[p]
    BY <1>2, <1>3, OthersElsewhere DEF Locked
  <2>2. OwnStaging(q)' = OwnStaging(q) /\ OwnStaging(q).sha = sha[q]
    BY <1>2 DEF OwnStaging
  <2>3. victims'[q] = victims[q]
    BY <1>1, <1>3 DEF TypeOK
  <2>4. QED
    BY <1>2, <2>1, <2>2, <2>3 DEF Same
<1>4. ASSUME NEW q \in Procs,
             pc[q] \in {"name", "clean", "stage", "fail", "sync"} \cup Building
      PROVE  q # p /\ pc[q] \in Locked
  BY <1>2, <1>4 DEF Locked
<1>5. OwnStagingKept' /\ WholeInv'
  BY <1>2, <1>3, <1>4 DEF OwnStagingKept, WholeInv
<1>6. NameOutranks'
  BY <1>2, <1>3, <1>4 DEF NameOutranks
<1>7. NoRepeatedBuild'
  BY <1>2, <1>3, <1>4 DEF NoRepeatedBuild, IsCurrent, Usable, Same
<1>8. RetireInv'
  BY <1>2, <1>3 DEF RetireInv, Same, Locked
<1>9. VictimInv'
  <2>1. ASSUME NEW q \in Procs, pc[q] \in {"sync", "retire"}, q # p
        PROVE  Same(sha[q])' = Same(sha[q]) /\ victims'[q] = victims[q]
    BY <1>3, <2>1 DEF Locked
  <2>2. /\ victims'[p] \subseteq victims[p]
        /\ kind[p] = "generations" =>
            \E c \in Same(sha[p])' \ victims'[p] :
                \A e \in Same(sha[p])' : e.gen <= c.gen
    BY <1>1, <1>2 DEF VictimInv, IsCurrent, Same, TypeOK
  <2>3. ASSUME NEW q \in Procs, q # p, pc[q] \in {"sync", "retire"}
        PROVE  kind[q] = "generations" =>
                \E c \in Same(sha[q])' \ victims'[q] : IsCurrent(c, Same(sha[q])')
    BY <2>1, <2>3 DEF VictimInv, IsCurrent
  <2>4. ASSUME NEW q \in Procs, q # p, pc[q] \in {"sync", "retire"}
        PROVE  /\ \A v2 \in victims'[q] : v2.sha = sha[q]
               /\ kind[q] = "staging" => victims'[q] \subseteq StagingDirs
               /\ kind[q] # "staging" => victims'[q] \subseteq Dirs
    BY <2>1, <2>4 DEF VictimInv
  <2>5. /\ \A v2 \in victims'[p] : v2.sha = sha[p]
        /\ kind[p] = "staging" => victims'[p] \subseteq StagingDirs
        /\ kind[p] # "staging" => victims'[p] \subseteq Dirs
    BY <1>2, <2>2 DEF VictimInv
  <2>6. QED
    BY <1>2, <2>2, <2>3, <2>4, <2>5 DEF VictimInv, IsCurrent, Same
<1>10. NeverLost'
  <2>1. CASE UNCHANGED diskVars
    BY <2>1 DEF NeverLost
  <2>2. CASE kind[p] = "staging"
    <3>1. v \notin dirs
      <4>1. v \in StagingDirs
        BY <1>2, <2>2 DEF VictimInv
      <4>2. QED
        BY <4>1, Disjoint DEF TypeOK
    <3>2. dirs' = dirs /\ promised' = promised
      BY <1>1, <2>2, <3>1 DEF IdleSweeps
    <3>3. QED
      BY <1>2, <3>2 DEF NeverLost
  <2>3. CASE /\ dirs' = dirs \ {v}
             /\ promised' = IF kind[p] \in IdleSweeps /\ Same(sha[p]) = {v}
                            THEN promised \ {sha[p]} ELSE promised
             /\ kind[p] # "staging"
    <3>1. kind[p] \in IdleSweeps \/ kind[p] = "generations"
      BY <1>2, <2>3 DEF JobInv, SweepKinds
    <3>2. ASSUME NEW s \in promised', s # sha[p]
          PROVE  \E d \in dirs' \cap durable \cap flushed : d.sha = s
      <4>1. s \in promised
        BY <2>3, <3>2
      <4>2. PICK d \in dirs \cap durable \cap flushed : d.sha = s
        BY <4>1 DEF NeverLost
      <4>3. QED
        BY <1>2, <2>3, <3>2, <4>2
    <3>3. ASSUME sha[p] \in promised'
          PROVE  \E d \in dirs' \cap durable \cap flushed : d.sha = sha[p]
      <4>1. Same(sha[p]) \subseteq durable \cap flushed
        BY <1>2 DEF RetireInv, WholeInv, Same
      <4>2. \E d \in Same(sha[p]) : d # v
        <5>1. CASE kind[p] = "generations"
          BY <1>1, <1>2, <5>1 DEF VictimInv
        <5>2. CASE kind[p] \in IdleSweeps
          <6>1. sha[p] \in promised /\ Same(sha[p]) # {v}
            BY <2>3, <3>3, <5>2
          <6>2. Same(sha[p]) # {}
            BY <6>1 DEF NeverLost, Same
          <6>3. QED
            BY <6>1, <6>2
        <5>3. QED
          BY <3>1, <5>1, <5>2
      <4>3. QED
        BY <2>3, <4>1, <4>2 DEF Same
    <3>4. QED
      BY <1>2, <3>2, <3>3 DEF NeverLost
  <2>4. QED
    BY <1>1, <2>1, <2>2, <2>3
<1>11. QED
  BY <1>5, <1>6, <1>7, <1>8, <1>9, <1>10 DEF Disk

(* What is outside the processes, and what starts or ends them.            *)
LEMMA OtherSteps ==
    ASSUME IInv,
           \/ \E p \in Procs : Start(p) \/ Crash(p)
           \/ \E d \in dirs : Query(d) \/ GoIdle(d)
    PROVE  Disk'
<1> USE DEF diskVars, nameVars, jobVars, Naming, Building
<1>1. TypeOK /\ Disk
  BY DEF IInv, Disk
<1>2. ASSUME NEW p \in Procs, Start(p)
      PROVE  Disk'
  <2>1. Moves(p) /\ pc'[p] \in {"look", "wait", "trylock"}
    BY <1>1, <1>2 DEF Start, StartBuild, StartForce, StartSweep, Begin, Goto,
       Moves, TypeOK
  <2>2. QED
    BY <1>1, <2>1, MoveAway
<1>3. ASSUME NEW p \in Procs, Crash(p)
      PROVE  Disk'
  BY <1>3, LeaveStaging DEF Crash
<1>4. ASSUME NEW d \in dirs, Query(d) \/ GoIdle(d)
      PROVE  Disk'
  <2>1. UNCHANGED <<nameVars, flushed, staging, pc, jobVars>>
    BY <1>4 DEF Query, Use, GoIdle
  <2>2. QED
    BY <1>1, <2>1 DEF Disk, OwnStagingKept, OwnStaging, NameOutranks,
       WholeInv, VictimInv, RetireInv, NeverLost, NoRepeatedBuild,
       IsCurrent, Usable, Same
<1>5. QED
  BY <1>2, <1>3, <1>4

LEMMA PowerLossStep ==
    ASSUME IInv, PowerLoss
    PROVE  Disk'
<1> USE DEF IInv, Naming, Building
<1>1. PICK D \in SUBSET (dirs \cup durable) :
        /\ dirs \cap durable \subseteq D
        /\ dirs' = D
        /\ durable' = D
        /\ flushed' = flushed \cap D
        /\ UNCHANGED promised
  BY DEF PowerLoss
<1>2. pc' = [p \in Procs |-> "idle"]
  BY DEF PowerLoss
<1>4. NeverLost' /\ WholeInv'
  BY <1>1, <1>2 DEF NeverLost, WholeInv
<1>5. OwnStagingKept' /\ NameOutranks' /\ VictimInv' /\ RetireInv' /\ NoRepeatedBuild'
  BY <1>2 DEF OwnStagingKept, NameOutranks, VictimInv, RetireInv, NoRepeatedBuild
<1>6. QED
  BY <1>4, <1>5 DEF Disk

(* What an idle sweep saw used, where mapping refreshes access times.      *)
Usage == UsedInv /\ (Atime => UsedBeforeLockKept)

(* A step that adds to no `used` and to no `victims`, and makes no dir     *)
(* idle, and gives no used dir to a run that is not an idle sweep.         *)
LEMMA QuietUsage ==
    ASSUME TypeOK, Usage, idle' \subseteq idle,
           \A q \in Procs :
              /\ used'[q] \subseteq used[q]
              /\ kind'[q] = kind[q] \/ used'[q] = {}
              /\ pc'[q] \in {"sync", "retire"} /\ used'[q] # {} =>
                    pc[q] \in {"sync", "retire"} /\ victims'[q] \subseteq victims[q]
    PROVE  Usage'
<1>1. UsedInv'
  BY DEF Usage, UsedInv
<1>2. Atime => UsedBeforeLockKept'
  BY DEF Usage, UsedBeforeLockKept
<1>3. QED
  BY <1>1, <1>2 DEF Usage

(* A step that notes the use of d.                                         *)
LEMMA UseUsage ==
    ASSUME TypeOK, Usage, NEW d, NoteUse(d), Atime => idle' \subseteq idle \ {d},
           \A q \in Procs :
              /\ kind'[q] = kind[q] \/ kind[q] \notin IdleSweeps
              /\ kind'[q] = kind[q] \/ kind'[q] = "none"
              /\ pc'[q] \in {"sync", "retire"} => pc'[q] = pc[q]
              /\ victims'[q] = victims[q]
    PROVE  Usage'
<1>1. UsedInv'
  BY DEF Usage, UsedInv, NoteUse, IdleSweeps
<1>2. Atime => UsedBeforeLockKept'
  BY DEF Usage, UsedBeforeLockKept, NoteUse, IdleSweeps
<1>3. QED
  BY <1>1, <1>2 DEF Usage

LEMMA LeaveUsage ==
    ASSUME TypeOK, Usage, NEW p \in Procs, Leave(p), idle' \subseteq idle
    PROVE  Usage'
<1>1. \A q \in Procs :
        \/ q = p /\ used'[q] = {}
        \/ /\ used'[q] = used[q] /\ kind'[q] = kind[q]
           /\ pc'[q] = pc[q] /\ victims'[q] = victims[q]
  BY DEF Leave, Goto, TypeOK
<1>2. QED
  BY <1>1, QuietUsage

LEMMA BuildUsage ==
    ASSUME IInv, NEW p \in Procs, BuildStep(p)
    PROVE  Usage'
<1> USE DEF diskVars, nameVars, jobVars, Goto
<1>1. TypeOK /\ Usage /\ JobInv
  BY DEF IInv, Usage
<1>2. CASE Look(p) \/ Decline(p) \/ Acquire(p) \/ RecheckMiss(p) \/ Invalidate(p)
           \/ ChooseName(p) \/ RetireAbandoned(p) \/ CreateStaging(p)
  <2>1. /\ UNCHANGED <<idle, used, kind, victims>>
        /\ pc' \in {[pc EXCEPT ![p] = c] :
                c \in {"wait", "attach", "recheck", "invalidate", "name", "clean",
                       "stage", "analyze"}}
    BY <1>2 DEF Look, Decline, Acquire, TakeLock, RecheckMiss, Invalidate,
       ChooseName, RetireAbandoned, CreateStaging
  <2>2. QED
    BY <1>1, <2>1, QuietUsage DEF TypeOK
<1>3. CASE Analyze(p) \/ FlushTree(p) \/ BuildError(p) \/ FsyncCommits(p)
           \/ FsyncError(p)
  <2>1. /\ UNCHANGED <<idle, used, kind, victims>>
        /\ pc' \in {[pc EXCEPT ![p] = c] : c \in {"flush", "rename", "fail", "finish"}}
    BY <1>3 DEF Analyze, FlushTree, BuildError, FsyncCommits, FsyncNames, FsyncError
  <2>2. QED
    BY <1>1, <2>1, QuietUsage DEF TypeOK
<1>4. CASE TimeOut(p) \/ GiveUp(p) \/ RetireOwn(p) \/ Finish(p)
  BY <1>1, <1>4, LeaveUsage DEF TimeOut, GiveUp, RetireOwn, Finish
<1>5. ASSUME NEW d, Attached(p, d), pc[p] \in {"attach", "recheck"}
      PROVE  Usage'
  <2>1. kind[p] \notin IdleSweeps
    BY <1>1, <1>5 DEF JobInv, BuildKinds, IdleSweeps
  <2>2. /\ NoteUse(d) /\ (Atime => idle' \subseteq idle \ {d})
        /\ kind' = [kind EXCEPT ![p] = "none"]
        /\ pc' = [pc EXCEPT ![p] = "idle"]
        /\ victims' = victims
    BY <1>5 DEF Attached, Use
  <2>3. QED
    BY <1>1, <2>1, <2>2, UseUsage DEF TypeOK
<1>6. CASE Attach(p) \/ RecheckAttach(p)
  BY <1>5, <1>6 DEF Attach, RecheckAttach
<1>7. CASE Publish(p)
  <2>1. /\ NoteUse(NewDir(p)) /\ idle' = idle \ {NewDir(p)}
        /\ UNCHANGED <<kind, victims>>
        /\ pc' = [pc EXCEPT ![p] = "fsync"]
    BY <1>7 DEF Publish
  <2>2. QED
    BY <1>1, <2>1, UseUsage DEF TypeOK
<1>8. QED
  BY <1>2, <1>3, <1>4, <1>6, <1>7 DEF BuildStep

LEMMA SweepUsage ==
    ASSUME IInv, NEW p \in Procs, SweepStep(p)
    PROVE  Usage'
<1> USE DEF diskVars, nameVars, jobVars, Goto
<1>1. TypeOK /\ Usage
  BY DEF IInv, Usage
<1>2. CASE TryLock(p)
  <2>1. UNCHANGED <<idle, used, kind, victims>> /\ pc' = [pc EXCEPT ![p] = "judge"]
    BY <1>2 DEF TryLock, TakeLock
  <2>2. QED
    BY <1>1, <2>1, QuietUsage DEF TypeOK
<1>3. CASE SkipBusy(p) \/ SkipSweep(p) \/ EndSweep(p)
  BY <1>1, <1>3, LeaveUsage DEF SkipBusy, SkipSweep, EndSweep
<1>4. CASE Judge(p)
  <2>1. /\ UNCHANGED <<idle, used, kind>>
        /\ pc' = [pc EXCEPT ![p] = "sync"]
        /\ \A q \in Procs \ {p} : victims'[q] = victims[q]
    BY <1>1, <1>4 DEF Judge, TypeOK
  <2>2. kind[p] \in IdleSweeps => victims'[p] \subseteq idle
    BY <1>1, <1>4 DEF Judge, Victims, IdleSweeps, TypeOK
  <2>3. UsedInv'
    BY <1>1, <2>1 DEF Usage, UsedInv
  <2>4. Atime => UsedBeforeLockKept'
    BY <1>1, <2>1, <2>2 DEF Usage, UsedInv, UsedBeforeLockKept, TypeOK
  <2>5. QED
    BY <2>3, <2>4 DEF Usage
<1>5. CASE SyncBeforeRetire(p)
  <2>1. /\ UNCHANGED <<idle, used, kind, victims>>
        /\ pc[p] = "sync" /\ pc' = [pc EXCEPT ![p] = "retire"]
    BY <1>5 DEF SyncBeforeRetire, FsyncNames
  <2>2. QED
    BY <1>1, <2>1, QuietUsage DEF TypeOK
<1>6. CASE Retire(p)
  <2>1. /\ UNCHANGED <<used, kind, pc>> /\ idle' \subseteq idle
        /\ \A q \in Procs : victims'[q] \subseteq victims[q]
    BY <1>1, <1>6 DEF Retire, TypeOK
  <2>2. QED
    BY <1>1, <2>1, QuietUsage
<1>7. QED
  BY <1>2, <1>3, <1>4, <1>5, <1>6 DEF SweepStep

LEMMA OtherUsage ==
    ASSUME IInv,
           \/ \E p \in Procs : Start(p) \/ Crash(p)
           \/ \E d \in dirs : Query(d) \/ GoIdle(d)
           \/ PowerLoss
    PROVE  Usage'
<1> USE DEF diskVars, nameVars, jobVars
<1>1. TypeOK /\ Usage /\ JobInv
  BY DEF IInv, Usage
<1>2. ASSUME NEW p \in Procs, Start(p)
      PROVE  Usage'
  <2>1. /\ UNCHANGED <<idle, used, victims>>
        /\ pc[p] = "idle" /\ pc'[p] \in {"look", "wait", "trylock"}
        /\ \A q \in Procs \ {p} : pc'[q] = pc[q] /\ kind'[q] = kind[q]
    BY <1>1, <1>2 DEF Start, StartBuild, StartForce, StartSweep, Begin, Goto, TypeOK
  <2>2. used[p] = {}
    BY <1>1, <2>1 DEF JobInv, Usage, UsedInv, IdleSweeps
  <2>3. QED
    BY <1>1, <2>1, <2>2, QuietUsage
<1>3. ASSUME NEW p \in Procs, Crash(p)
      PROVE  Usage'
  BY <1>1, <1>3, LeaveUsage DEF Crash
<1>4. ASSUME NEW d \in dirs, Query(d)
      PROVE  Usage'
  <2>1. /\ NoteUse(d) /\ (Atime => idle' \subseteq idle \ {d})
        /\ UNCHANGED <<pc, kind, victims>>
    BY <1>4 DEF Query, Use
  <2>2. QED
    BY <1>1, <2>1, UseUsage
<1>5. ASSUME NEW d \in dirs, GoIdle(d)
      PROVE  Usage'
  <2>1. UNCHANGED <<pc, kind, victims, used>> /\ \A q \in Procs : used[q] = {}
    BY <1>1, <1>5 DEF GoIdle, Usage, UsedInv, SweepKinds
  <2>2. QED
    BY <1>1, <2>1 DEF Usage, UsedInv, UsedBeforeLockKept
<1>6. CASE PowerLoss
  BY <1>6 DEF PowerLoss, Usage, UsedInv, UsedBeforeLockKept
<1>7. QED
  BY <1>2, <1>3, <1>4, <1>5, <1>6

(* The inductive invariant holds of every step of the specification.       *)
LEMMA InvStep == IInv /\ [Next]_vars => IInv'
<1> SUFFICES ASSUME IInv, [Next]_vars
             PROVE  IInv'
  OBVIOUS
<1>1. TypeOK /\ Control
  BY DEF IInv, Control
<1>2. CASE UNCHANGED vars
  BY <1>2 DEF vars, diskVars, nameVars, jobVars, IInv, TypeOK, JobInv, LockInv,
     OwnStagingKept, OwnStaging, NameOutranks, WholeInv,
     VictimInv, RetireInv, UsedInv, NeverLost, NoRepeatedBuild,
     UsedBeforeLockKept, Usable, IsCurrent, Same
<1>3. ASSUME NEW p \in Procs, BuildStep(p)
      PROVE  TypeOK' /\ Control' /\ Disk' /\ Usage'
  BY <1>1, <1>3, BuildStepType, BuildControl, BuildUsage, BuilderMoves,
     ChoiceMoves, StagingSteps, PublishStep, RetireOwnStep, FsyncSteps
     DEF BuildStep
<1>4. ASSUME NEW p \in Procs, SweepStep(p)
      PROVE  TypeOK' /\ Control' /\ Disk' /\ Usage'
  BY <1>1, <1>4, SweepStepType, SweepControl, SweepUsage, SweepMoves, JudgeStep,
     FsyncSteps, RetireStep DEF SweepStep
<1>5. ASSUME \/ \E p \in Procs : Start(p) \/ Crash(p)
             \/ \E d \in dirs : Query(d) \/ GoIdle(d)
             \/ PowerLoss
      PROVE  TypeOK' /\ Control' /\ Disk' /\ Usage'
  BY <1>1, <1>5, StartType, EnvironmentType, OtherControl, OtherUsage,
     OtherSteps, PowerLossStep
<1>6. CASE Next
  BY <1>3, <1>4, <1>5, <1>6 DEF Next, Control, Disk, Usage, IInv
<1>7. QED
  BY <1>2, <1>6

(* The inductive invariant holds in every reachable state: with it every   *)
(* safety invariant of the module, for any processes, SHAs and bounds.     *)
THEOREM InvCorrect == Spec => []IInv
  BY InvInit, InvStep, PTL DEF Spec

(* A build that an fsync of commits/ covered survives process deaths, power*)
(* losses and every sweep until an idle sweep retires the SHA's last dir.  *)
THEOREM BuildsKept == Spec => []NeverLost
<1>1. IInv => NeverLost
  BY DEF IInv
<1>2. QED
  BY <1>1, InvCorrect, PTL

(* No sweep and no other builder retires the staging dir of a live build.  *)
THEOREM StagingKept == Spec => []OwnStagingKept
<1>1. IInv => OwnStagingKept
  BY DEF IInv
<1>2. QED
  BY <1>1, InvCorrect, PTL

(* A build outranks all of its SHA's dirs until it is renamed.             *)
THEOREM BuildsOutrank == Spec => []NameOutranks
<1>1. IInv => NameOutranks
  BY DEF IInv
<1>2. QED
  BY <1>1, InvCorrect, PTL

(* Where reads of commits/ are complete, a normal build never repeats a    *)
(* build of its own fingerprint published while it waited.                 *)
THEOREM BuildsNotRepeated == Spec => []NoRepeatedBuild
<1>1. IInv => NoRepeatedBuild
  BY DEF IInv
<1>2. QED
  BY <1>1, InvCorrect, PTL

(* On a mount that refreshes access times no idle sweep retires a dir used *)
(* between its first read and its lock.                                    *)
THEOREM UsedKept == ASSUME Atime PROVE Spec => []UsedBeforeLockKept
<1>1. IInv => UsedBeforeLockKept
  BY DEF IInv
<1>2. QED
  BY <1>1, InvCorrect, PTL

-----------------------------------------------------------------------------
(* What a step does to the builds that readers find.                       *)

(* Only three actions change the set of published dirs.                    *)
LEMMA DirsUnchanged ==
    ASSUME NEW p \in Procs,
           Start(p) \/ Crash(p)
            \/ (BuildStep(p) /\ ~ Publish(p))
            \/ (SweepStep(p) /\ ~ Retire(p))
    PROVE  dirs' = dirs
<1> USE DEF diskVars, nameVars, jobVars
<1>1. CASE Start(p) \/ Crash(p)
  BY <1>1 DEF Start, StartBuild, StartForce, StartSweep, Begin, Crash
<1>2. CASE BuildStep(p) /\ ~ Publish(p)
  BY <1>2 DEF BuildStep, Look, Attach, Decline, Acquire, TakeLock, TimeOut,
     RecheckAttach, RecheckMiss, Attached, Use, Invalidate, ChooseName,
     RetireAbandoned, CreateStaging, GiveUp, Analyze, FlushTree, BuildError,
     RetireOwn, FsyncCommits, FsyncNames, FsyncError, Finish
<1>3. CASE SweepStep(p) /\ ~ Retire(p)
  BY <1>3 DEF SweepStep, TryLock, TakeLock, SkipBusy, Judge, SkipSweep,
     SyncBeforeRetire, FsyncNames, EndSweep
<1>4. QED
  BY <1>1, <1>2, <1>3

(* A retire of a generation sweep leaves the current dir of the SHA, and a *)
(* staging retire leaves every published dir.                              *)
LEMMA RetireKeepsCurrent ==
    ASSUME IInv, NEW p \in Procs, Retire(p), kind[p] \notin IdleSweeps
    PROVE  \A d \in dirs : \E e \in dirs' : e.sha = d.sha /\ e.gen >= d.gen
<1> USE DEF IInv, diskVars, nameVars
<1>1. PICK v \in victims[p] : dirs' = dirs \/ dirs' = dirs \ {v}
  BY DEF Retire
<1>2. v.sha = sha[p] /\ pc[p] = "retire" /\ kind[p] \in {"generations", "staging"}
  BY <1>1 DEF Retire, VictimInv, JobInv, SweepKinds
<1>3. \A d \in dirs : d.gen \in Nat
  BY DEF TypeOK, Dirs, Gens
<1>4. CASE kind[p] = "staging"
  <2>1. v \in StagingDirs
    BY <1>2, <1>4 DEF VictimInv
  <2>2. v \notin dirs
    BY <2>1, Disjoint DEF TypeOK
  <2>3. dirs' = dirs
    BY <1>1, <2>2
  <2>4. QED
    BY <1>3, <2>3
<1>5. CASE kind[p] = "generations"
  <2>1. PICK c \in Same(sha[p]) \ victims[p] : IsCurrent(c, Same(sha[p]))
    BY <1>2, <1>5 DEF VictimInv
  <2>2. c \in dirs' /\ c.sha = sha[p]
    BY <1>1, <2>1 DEF Same
  <2>3. ASSUME NEW d \in dirs
        PROVE  \E e \in dirs' : e.sha = d.sha /\ e.gen >= d.gen
    <3>1. CASE d = v
      <4>1. d.gen <= c.gen
        BY <1>2, <2>1, <3>1 DEF IsCurrent, Same
      <4>2. QED
        BY <1>2, <1>3, <2>1, <2>2, <3>1, <4>1 DEF Same
    <3>2. CASE d # v
      BY <1>1, <1>3, <3>2
    <3>3. QED
      BY <3>1, <3>2
  <2>4. QED
    BY <2>3
<1>6. QED
  BY <1>2, <1>4, <1>5

(* No step of a process makes two dirs of a SHA share a generation, also   *)
(* where reads of commits/ miss entries and after a power loss left a tie. *)
THEOREM GenerationsUnique == Spec => NamesUnique
<1> DEFINE NoNewTie == \/ \A d \in dirs' \ dirs, e \in dirs' : ~ Tied(d, e)
                       \/ PowerLoss
<1>1. ASSUME IInv, [Next]_vars
      PROVE  NoNewTie \/ UNCHANGED vars
  <2>1. ASSUME NEW p \in Procs, Publish(p)
        PROVE  NoNewTie
    <3>1. dirs' = dirs \cup {NewDir(p)} /\ pc[p] = "rename"
      BY <2>1 DEF Publish
    <3>2. NewDir(p).sha = sha[p] /\ NewDir(p).gen = gen[p]
      BY DEF NewDir
    <3>3. \A e \in dirs : e.sha = sha[p] => e.gen < gen[p]
      BY <1>1, <3>1 DEF IInv, NameOutranks, Same, Naming, Building
    <3>4. gen[p] \in Nat /\ \A e \in dirs : e.gen \in Nat
      BY <1>1 DEF IInv, TypeOK, Dirs, Gens
    <3>5. ASSUME NEW e \in dirs'
          PROVE  ~ Tied(NewDir(p), e)
      <4>1. CASE e \in dirs
        BY <3>2, <3>3, <3>4, <4>1 DEF Tied
      <4>2. CASE e = NewDir(p)
        BY <4>2 DEF Tied
      <4>3. QED
        BY <3>1, <4>1, <4>2
    <3>6. QED
      BY <3>1, <3>5
  <2>2. ASSUME NEW p \in Procs, Retire(p)
        PROVE  NoNewTie
    BY <2>2 DEF Retire, diskVars, nameVars
  <2>3. ASSUME NEW p \in Procs,
               Start(p) \/ BuildStep(p) \/ SweepStep(p) \/ Crash(p)
        PROVE  NoNewTie
    BY <2>1, <2>2, <2>3, DirsUnchanged
  <2>4. ASSUME NEW d \in dirs, Query(d) \/ GoIdle(d)
        PROVE  NoNewTie
    BY <2>4 DEF Query, Use, GoIdle, nameVars
  <2>5. QED
    BY <1>1, <2>3, <2>4 DEF Next
<1>2. IInv /\ [Next]_vars => [NoNewTie]_vars
  BY <1>1
<1>3. QED
  BY <1>2, InvCorrect, PTL DEF Spec, NamesUnique

(* What readers pick for a SHA only moves to a higher generation, until an *)
(* idle sweep retires it or the power goes.                                *)
THEOREM CurrentRises == Spec => CurrentOnlyRises
<1> DEFINE Rises == \/ \A d \in dirs \ dirs' : \E e \in dirs' : e.sha = d.sha /\ e.gen >= d.gen
                    \/ \E p \in Procs : kind[p] \in IdleSweeps /\ Retire(p)
                    \/ PowerLoss
<1>1. ASSUME IInv, [Next]_vars
      PROVE  Rises \/ UNCHANGED vars
  <2>1. \A d \in dirs : d.gen \in Nat
    BY <1>1 DEF IInv, TypeOK, Dirs, Gens
  <2>2. ASSUME NEW p \in Procs, Publish(p)
        PROVE  Rises
    BY <2>1, <2>2 DEF Publish
  <2>3. ASSUME NEW p \in Procs, Retire(p)
        PROVE  Rises
    BY <1>1, <2>3, RetireKeepsCurrent
  <2>4. ASSUME NEW p \in Procs,
               Start(p) \/ BuildStep(p) \/ SweepStep(p) \/ Crash(p)
        PROVE  Rises
    BY <2>1, <2>2, <2>3, <2>4, DirsUnchanged
  <2>5. ASSUME NEW d \in dirs, Query(d) \/ GoIdle(d)
        PROVE  Rises
    BY <2>1, <2>5 DEF Query, Use, GoIdle, nameVars
  <2>6. QED
    BY <1>1, <2>4, <2>5 DEF Next
<1>2. IInv /\ [Next]_vars => [Rises]_vars
  BY <1>1
<1>3. QED
  BY <1>2, InvCorrect, PTL DEF Spec, CurrentOnlyRises

-----------------------------------------------------------------------------
(* The refinement of GenerationStore.                                      *)

(* A user of GenerationStore can rely on it: a kept SHA has a durable      *)
(* build, through every drop, eviction and power loss the store allows.    *)
THEOREM StorePromises == Store!StoreSpec => []Store!KeptIsDurable
<1> USE DEF Store!KeptIsDurable
<1>1. Store!StoreInit => Store!KeptIsDurable
  BY DEF Store!StoreInit
<1>2. ASSUME Store!KeptIsDurable, [Store!StoreNext]_(Store!storeVars)
      PROVE  Store!KeptIsDurable'
  <2>1. CASE UNCHANGED Store!storeVars
    BY <1>2, <2>1 DEF Store!storeVars
  <2>2. CASE Store!PublishBuild
    <3>1. PICK b \in Store!Builds :
            /\ dirs' = dirs \cup {b} /\ durable' = durable \ {b}
            /\ \A c \in Store!BuildsOf(b.sha) : c.gen < b.gen
            /\ promised' = promised
      BY <2>2 DEF Store!PublishBuild
    <3>2. b \notin dirs
      BY <3>1 DEF Store!Builds, Store!BuildsOf, Gens
    <3>3. QED
      BY <1>2, <3>1, <3>2
  <2>3. CASE Store!SyncBuilds
    BY <1>2, <2>3 DEF Store!SyncBuilds
  <2>4. CASE Store!DropSuperseded
    BY <1>2, <2>4 DEF Store!DropSuperseded, Store!BuildsOf
  <2>5. CASE Store!Evict
    BY <1>2, <2>5 DEF Store!Evict, Store!BuildsOf
  <2>6. CASE Store!LosePower
    BY <1>2, <2>6 DEF Store!LosePower
  <2>7. QED
    BY <1>2, <2>1, <2>2, <2>3, <2>4, <2>5, <2>6 DEF Store!StoreNext
<1>3. QED
  BY <1>1, <1>2, PTL DEF Store!StoreSpec

LEMMA StoreInitially == Init => Store!StoreInit
  BY DEF Init, Store!StoreInit

(* A step that leaves published names and promises alone is a stutter.     *)
LEMMA StoreStutters ==
    ASSUME UNCHANGED nameVars
    PROVE  UNCHANGED Store!storeVars
  BY DEF Store!storeVars, nameVars

LEMMA PublishRefines ==
    ASSUME IInv, NEW p \in Procs, Publish(p)
    PROVE  Store!PublishBuild
<1>1. /\ dirs' = dirs \cup {NewDir(p)} /\ durable' = durable \ {NewDir(p)}
      /\ promised' = promised /\ pc[p] = "rename"
  BY DEF Publish
<1>2. NewDir(p) \in Store!Builds /\ NewDir(p).sha = sha[p] /\ NewDir(p).gen = gen[p]
  BY DEF IInv, TypeOK, NewDir, Store!Builds
<1>3. \A c \in Store!BuildsOf(sha[p]) : c.gen < gen[p]
  BY <1>1 DEF IInv, NameOutranks, Same, Naming, Building, Store!BuildsOf
<1>4. QED
  BY <1>1, <1>2, <1>3 DEF Store!PublishBuild

LEMMA FsyncRefines ==
    ASSUME NEW p \in Procs, FsyncCommits(p) \/ SyncBeforeRetire(p)
    PROVE  Store!SyncBuilds
  BY DEF FsyncCommits, SyncBeforeRetire, FsyncNames, ShasIn, Store!SyncBuilds

(* The fsync before a retire is what makes the abstract drop and eviction  *)
(* possible: every dir of the SHA is durable (RetireInv).                  *)
LEMMA RetireRefines ==
    ASSUME IInv, NEW p \in Procs, Retire(p)
    PROVE  Store!StoreNext \/ UNCHANGED Store!storeVars
<1> USE DEF IInv, diskVars, nameVars
<1>1. PICK v \in victims[p] :
        \/ UNCHANGED diskVars
        \/ /\ dirs' = dirs \ {v}
           /\ promised' = IF kind[p] \in IdleSweeps /\ Same(sha[p]) = {v}
                          THEN promised \ {sha[p]} ELSE promised
           /\ UNCHANGED durable
  BY DEF Retire
<1>2. /\ v.sha = sha[p] /\ pc[p] = "retire"
      /\ kind[p] \in IdleSweeps \cup {"generations", "staging"}
  BY <1>1 DEF Retire, VictimInv, JobInv, SweepKinds
<1>3. Same(sha[p]) = Store!BuildsOf(sha[p]) /\ Same(sha[p]) \subseteq durable
  BY <1>2 DEF RetireInv, Same, Store!BuildsOf
<1>4. CASE v \notin dirs
  <2>1. dirs' = dirs /\ promised' = promised /\ durable' = durable
    BY <1>1, <1>2, <1>4 DEF Same
  <2>2. QED
    BY <2>1, StoreStutters
<1>5. CASE UNCHANGED diskVars
  BY <1>5, StoreStutters
<1>6. CASE /\ v \in dirs /\ dirs' = dirs \ {v}
           /\ promised' = IF kind[p] \in IdleSweeps /\ Same(sha[p]) = {v}
                          THEN promised \ {sha[p]} ELSE promised
           /\ durable' = durable
  <2>1. CASE kind[p] \in IdleSweeps
    <3>1. Store!Evict
      BY <1>2, <1>3, <1>6, <2>1 DEF Store!Evict
    <3>2. QED
      BY <3>1 DEF Store!StoreNext
  <2>2. CASE kind[p] = "staging"
    <3>1. v \in StagingDirs
      BY <1>2, <2>2 DEF VictimInv
    <3>2. QED
      BY <1>6, <3>1, Disjoint DEF TypeOK
  <2>3. CASE kind[p] = "generations"
    <3>1. PICK c \in Same(sha[p]) \ victims[p] : IsCurrent(c, Same(sha[p]))
      BY <1>2, <2>3 DEF VictimInv
    <3>2. v \in Same(sha[p])
      BY <1>2, <1>6 DEF Same
    <3>3. c \in Same(sha[p]) \cap durable /\ c # v /\ v.gen <= c.gen
      BY <1>1, <1>3, <3>1, <3>2 DEF IsCurrent
    <3>4. promised' = promised
      BY <1>6, <2>3 DEF IdleSweeps
    <3>5. Store!DropSuperseded
      BY <1>2, <1>3, <1>6, <3>3, <3>4 DEF Store!DropSuperseded
    <3>6. QED
      BY <3>5 DEF Store!StoreNext
  <2>4. QED
    BY <1>2, <2>1, <2>2, <2>3
<1>7. QED
  BY <1>1, <1>4, <1>5, <1>6

LEMMA PowerLossRefines == PowerLoss => Store!LosePower
  BY DEF PowerLoss, Store!LosePower

(* Every other step leaves names and promises alone.                       *)
LEMMA QuietSteps ==
    ASSUME \/ \E p \in Procs : Start(p) \/ Crash(p)
           \/ \E p \in Procs : /\ BuildStep(p) /\ ~ Publish(p) /\ ~ FsyncCommits(p)
           \/ \E p \in Procs : /\ SweepStep(p) /\ ~ Retire(p) /\ ~ SyncBeforeRetire(p)
           \/ \E d \in dirs : Query(d) \/ GoIdle(d)
    PROVE  UNCHANGED nameVars
<1> USE DEF diskVars, jobVars
<1>1. ASSUME NEW p \in Procs, Start(p) \/ Crash(p)
      PROVE  UNCHANGED nameVars
  BY <1>1 DEF Start, StartBuild, StartForce, StartSweep, Begin, Crash
<1>2. ASSUME NEW p \in Procs, BuildStep(p), ~ Publish(p), ~ FsyncCommits(p)
      PROVE  UNCHANGED nameVars
  BY <1>2 DEF BuildStep, Look, Attach, Decline, Acquire, TakeLock, TimeOut,
     RecheckAttach, RecheckMiss, Attached, Use, Invalidate, ChooseName,
     RetireAbandoned, CreateStaging, GiveUp, Analyze, FlushTree, BuildError,
     RetireOwn, FsyncError, Finish
<1>3. ASSUME NEW p \in Procs, SweepStep(p), ~ Retire(p), ~ SyncBeforeRetire(p)
      PROVE  UNCHANGED nameVars
  BY <1>3 DEF SweepStep, TryLock, TakeLock, SkipBusy, Judge, SkipSweep, EndSweep
<1>4. ASSUME NEW d \in dirs, Query(d) \/ GoIdle(d)
      PROVE  UNCHANGED nameVars
  BY <1>4 DEF Query, Use, GoIdle
<1>5. QED
  BY <1>1, <1>2, <1>3, <1>4

LEMMA StoreStep == IInv /\ [Next]_vars => [Store!StoreNext]_(Store!storeVars)
<1> SUFFICES ASSUME IInv, [Next]_vars
             PROVE  Store!StoreNext \/ UNCHANGED Store!storeVars
  OBVIOUS
<1>1. CASE UNCHANGED vars
  BY <1>1, StoreStutters DEF vars, diskVars
<1>2. ASSUME NEW p \in Procs, Publish(p) \/ FsyncCommits(p) \/ SyncBeforeRetire(p)
      PROVE  Store!StoreNext
  BY <1>2, PublishRefines, FsyncRefines DEF Store!StoreNext
<1>3. CASE PowerLoss
  BY <1>3, PowerLossRefines DEF Store!StoreNext
<1>4. CASE Next
  BY <1>2, <1>3, <1>4, QuietSteps, StoreStutters, RetireRefines DEF Next
<1>5. QED
  BY <1>1, <1>4

(* The store implements GenerationStore: no step loses a build before a    *)
(* durable one outranks it or its SHA is evicted, and readers are never    *)
(* shown a build that does not outrank the ones it joins.                  *)
THEOREM StoreImplements == Spec => Implements
  BY InvCorrect, StoreInitially, StoreStep, PTL DEF Spec, Implements, Store!StoreSpec
==============================================================================
