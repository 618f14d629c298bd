-------------------------- MODULE BuildLocksProofs --------------------------
(***************************************************************************)
(* Machine-checked theorems about BuildLocks, for any processes, SHAs,     *)
(* stripes, caps and budgets.                                              *)
(***************************************************************************)
EXTENDS BuildLocks, FiniteSetTheorems, TLAPS

USE StripeAssumption, CapAssumption, WaitAssumption, NoneAssumption

(* What no step changes of a variable keeps its part of TypeOK.  The lock  *)
(* has a part of its own: its holder is a run that has not returned.       *)
HolderRuns ==
    \A s \in Stripes : lock[s] # NoProc =>
        pc[lock[s]] \in Locked /\ MyStripe(lock[s]) = s

(* A run has a SHA, so a stripe.                                           *)
HasSha == \A p \in Procs : pc[p] # "idle" => sha[p] \in Shas
TypeInv == TypeOK /\ HasSha

LEMMA HasStripe ==
    ASSUME TypeInv, NEW p \in Procs, pc[p] # "idle"
    PROVE  MyStripe(p) \in Stripes
  BY DEF TypeInv, HasSha, MyStripe

LEMMA PointsSplit ==
    /\ Locked \subseteq Points /\ Reporting \subseteq Points
    /\ "idle" \notin Locked /\ "try" \notin Locked /\ "wait" \notin Locked
    /\ Reporting \cap Locked = {}
  BY DEF Points, Locked, Reporting, Named, Throttled

LEMMA TypeInit == Init => TypeOK
  BY DEF Init, TypeOK, NoOwner, NoReport, Owners, Reports, Roles, Phases, Points, MaxElapsed

LEMMA LeaveType ==
    ASSUME TypeOK, NEW p \in Procs, Leave(p), staging' = staging,
           wedged' \subseteq Procs
    PROVE  TypeOK'
<1>1. /\ lock' \in [Stripes -> Procs \cup {NoProc}]
      /\ slot' \in [Slots -> Procs \cup {NoProc}]
      /\ pc' \in [Procs -> Points]
      /\ role' \in [Procs -> Roles]
      /\ sha' \in [Procs -> Shas \cup {NoSha}]
  BY DEF TypeOK, Leave, Goto, Points, Roles
<1>2. /\ elapsed' \in [Procs -> 0..MaxElapsed]
      /\ free' \in [Procs -> {"no", "error", "timeout"}]
      /\ report' \in [Procs -> Reports]
      /\ blocker' \in [Procs -> Procs \cup {NoProc}]
  BY DEF TypeOK, Leave, Restart, NoReport, Reports, Phases, MaxElapsed
<1>3. HolderRuns'
  BY DEF TypeOK, Leave, Goto, HolderRuns, MyStripe
<1>4. QED
  BY <1>1, <1>2, <1>3 DEF TypeOK, Leave, HolderRuns

LEMMA TakeType ==
    ASSUME TypeOK, NEW p \in Procs, Take(p), sha' = sha
    PROVE  /\ lock' \in [Stripes -> Procs \cup {NoProc}]
           /\ pc' \in [Procs -> Points]
           /\ HolderRuns'
<1>1. pc' \in [Procs -> Points] /\ pc'[p] \in Locked
  BY DEF TypeOK, Take, Goto, Points, Locked
<1>2. lock' \in [Stripes -> Procs \cup {NoProc}]
  BY DEF TypeOK, Take
<1>3. HolderRuns'
  BY <1>1 DEF TypeOK, Take, Goto, HolderRuns, MyStripe
<1>4. QED
  BY <1>1, <1>2, <1>3

(* A run that goes on keeps the locks it has.                              *)
LEMMA GotoType ==
    ASSUME TypeOK, NEW p \in Procs, NEW point \in Points, Goto(p, point),
           pc[p] \notin Locked \/ point \in Locked,
           UNCHANGED <<lock, sha>>
    PROVE  pc' \in [Procs -> Points] /\ HolderRuns'
  BY DEF TypeOK, Goto, HolderRuns, MyStripe

LEMMA RestartType ==
    ASSUME TypeOK, NEW p \in Procs, Restart(p)
    PROVE  elapsed' \in [Procs -> 0..MaxElapsed]
  BY DEF TypeOK, Restart, MaxElapsed

LEMMA StartType ==
    ASSUME TypeOK, NEW p \in Procs, NEW r \in {"build", "gc"}, NEW s \in Shas, Start(p, r, s)
    PROVE  TypeOK'
<1>1. sidecar' \in [Stripes -> Owners]
  BY DEF TypeOK, Start, Owners
<1>2. pc' \in [Procs -> Points] /\ HolderRuns'
  BY DEF TypeOK, Start, Goto, Points, Locked, Named, Throttled, HolderRuns, MyStripe
<1>3. QED
  BY <1>1, <1>2 DEF TypeOK, Start, Roles, HolderRuns

LEMMA LockStepType ==
    ASSUME TypeInv, NEW p \in Procs,
           \/ TryLock(p) \/ SkipBusy(p) \/ Busy(p) \/ ReadOwner(p) \/ ReadStaging(p)
           \/ BeginWait(p) \/ WaitLock(p) \/ LockTimeout(p) \/ GiveUp(p) \/ RecordPid(p)
           \/ RecordOwner(p) \/ LockError(p)
    PROVE  TypeOK'
<1> USE DEF lockVars, jobVars
<1>0. TypeOK
  BY DEF TypeInv
<1> USE <1>0
<1>1. CASE TryLock(p)
  BY <1>1, TakeType DEF TryLock, TypeOK, HolderRuns
<1>2. CASE SkipBusy(p) \/ GiveUp(p) \/ LockError(p)
  BY <1>2, LeaveType DEF SkipBusy, GiveUp, LockError, TypeOK
<1>3. CASE Busy(p)
  <2>1. blocker' \in [Procs -> Procs \cup {NoProc}]
    <3>1. MyStripe(p) \in Stripes
      BY <1>3, HasStripe DEF Busy
    <3>2. QED
      BY <1>3, <3>1 DEF Busy, TypeOK
  <2>2. QED
    BY <1>3, <2>1, GotoType, PointsSplit DEF Busy, TypeOK, HolderRuns, Points, Reporting
<1>4. CASE ReadOwner(p)
  <2>1. MyStripe(p) \in Stripes
    BY <1>4, HasStripe DEF ReadOwner
  <2>2. \A o \in OwnerRead(MyStripe(p)) : o \in Owners
    BY <2>1 DEF OwnerRead, TypeOK, NoOwner, Owners, Roles
  <2>3. report' \in [Procs -> Reports]
    BY <1>4, <2>2 DEF ReadOwner, TypeOK, Owners, Reports, Phases
  <2>4. QED
    BY <1>4, <2>3, GotoType DEF ReadOwner, TypeOK, HolderRuns, Points, Reporting,
       Locked, Named, Throttled
<1>5. CASE ReadStaging(p)
  <2>1. report' \in [Procs -> Reports]
    BY <1>5 DEF ReadStaging, TypeOK, Reports, Phases
  <2>2. QED
    BY <1>5, <2>1, GotoType DEF ReadStaging, TypeOK, HolderRuns, Points, Reporting,
       Locked, Named, Throttled
<1>6. CASE BeginWait(p)
  BY <1>6, GotoType, RestartType DEF BeginWait, TypeOK, HolderRuns, Points, Locked, Named, Throttled, NoReport, Reports, Phases
<1>7. CASE WaitLock(p)
  BY <1>7, TakeType, RestartType DEF WaitLock, TypeOK, HolderRuns
<1>8. CASE LockTimeout(p)
  BY <1>8, GotoType DEF LockTimeout, TypeOK, HolderRuns, Points, Reporting, Locked, Named, Throttled
<1>9. CASE RecordPid(p)
  BY <1>9, GotoType DEF RecordPid, TypeOK, HolderRuns, Points, Locked, Owners, NoOwner, Roles
<1>10. CASE RecordOwner(p)
  BY <1>10, GotoType DEF RecordOwner, TypeOK, HolderRuns, Points, Locked, Named, Owners, Roles
<1>11. QED
  BY <1>1, <1>2, <1>3, <1>4, <1>5, <1>6, <1>7, <1>8, <1>9, <1>10

LEMMA BuildStepType ==
    ASSUME TypeOK, NEW p \in Procs,
           \/ Return(p) \/ NeedBuild(p) \/ TakeSlot(p) \/ NoSlot(p, "timeout")
           \/ NoSlot(p, "error") \/ CreateStaging(p) \/ EndBuild(p) \/ DropSlot(p)
    PROVE  TypeOK'
<1> USE DEF lockVars, jobVars, Points, Locked, Named, Throttled
<1>1. CASE Return(p)
  BY <1>1, LeaveType DEF Return, TypeOK
<1>2. CASE NeedBuild(p)
  BY <1>2, GotoType, RestartType DEF NeedBuild, TypeOK, HolderRuns
<1>3. CASE TakeSlot(p)
  <2>1. slot' \in [Slots -> Procs \cup {NoProc}]
    <3>1. PICK i \in 0..(Cap[p] - 1) : slot' = [slot EXCEPT ![i] = p]
      BY <1>3 DEF TakeSlot
    <3>2. QED
      BY <3>1 DEF TypeOK
  <2>2. QED
    BY <1>3, <2>1, GotoType, RestartType DEF TakeSlot, TypeOK, HolderRuns
<1>4. CASE NoSlot(p, "timeout") \/ NoSlot(p, "error")
  BY <1>4, GotoType, RestartType DEF NoSlot, TypeOK, HolderRuns
<1>5. CASE CreateStaging(p)
  BY <1>5, GotoType DEF CreateStaging, TypeOK, HolderRuns
<1>6. CASE EndBuild(p)
  BY <1>6, GotoType, RestartType DEF EndBuild, TypeOK, HolderRuns
<1>7. CASE DropSlot(p)
  BY <1>7, GotoType DEF DropSlot, TypeOK, HolderRuns
<1>8. QED
  BY <1>1, <1>2, <1>3, <1>4, <1>5, <1>6, <1>7

LEMMA EnvironmentType ==
    ASSUME TypeOK, Tick \/ \E p \in Procs : Crash(p) \/ Wedge(p)
    PROVE  TypeOK'
<1>1. CASE Tick
  <2>1. elapsed' \in [Procs -> 0..MaxElapsed]
    <3>1. MaxElapsed \in Nat
      BY DEF MaxElapsed
    <3>2. \A n \in 0..MaxElapsed : n # MaxElapsed => n + 1 \in 0..MaxElapsed
      BY <3>1
    <3>3. QED
      BY <1>1, <3>2 DEF Tick, TypeOK
  <2>2. QED
    BY <1>1, <2>1 DEF Tick, TypeOK, lockVars, jobVars, MyStripe
<1>2. ASSUME NEW p \in Procs, Crash(p)
      PROVE  TypeOK'
  BY <1>2, LeaveType DEF Crash, TypeOK
<1>3. ASSUME NEW p \in Procs, Wedge(p)
      PROVE  TypeOK'
  BY <1>3 DEF Wedge, TypeOK, lockVars, jobVars, MyStripe
<1>4. QED
  BY <1>1, <1>2, <1>3

LEMMA ShaStep == TypeInv /\ [Next]_vars => HasSha'
<1> SUFFICES ASSUME TypeInv, [Next]_vars PROVE HasSha'
  OBVIOUS
<1> USE DEF lockVars, jobVars, TypeInv, TypeOK, HasSha, Goto
<1>1. ASSUME NEW p \in Procs, NEW r \in {"build", "gc"}, NEW s \in Shas, Start(p, r, s)
      PROVE  HasSha'
  BY <1>1 DEF Start
<1>2. ASSUME NEW p \in Procs, Leave(p)
      PROVE  HasSha'
  BY <1>2 DEF Leave
<1>3. ASSUME NEW p \in Procs, pc[p] # "idle", NEW point, Goto(p, point), sha' = sha
      PROVE  HasSha'
  BY <1>3
<1>4. CASE UNCHANGED <<pc, sha>>
  BY <1>4
<1>5. ASSUME NEW p \in Procs, Step(p) \/ Fault(p)
      PROVE  \/ Leave(p)
             \/ UNCHANGED <<pc, sha>>
             \/ pc[p] # "idle" /\ sha' = sha /\ \E point : Goto(p, point)
  BY <1>5 DEF Step, Fault, TryLock, SkipBusy, Busy, ReadOwner, ReadStaging, BeginWait,
     WaitLock, LockTimeout, GiveUp, RecordPid, RecordOwner, Return, NeedBuild, TakeSlot,
     NoSlot, CreateStaging, EndBuild, DropSlot, LockError, Crash, Wedge, Take, Reporting
<1>6. (Tick \/ UNCHANGED vars) => UNCHANGED <<pc, sha>>
  BY DEF Tick, vars
<1>7. QED
  BY <1>1, <1>2, <1>3, <1>4, <1>5, <1>6 DEF Next

LEMMA TypeInvCorrect == Spec => []TypeInv
<1>1. Init => TypeInv
  BY TypeInit DEF TypeInv, HasSha, Init
<1>2. TypeInv /\ [Next]_vars => TypeOK'
  <2> SUFFICES ASSUME TypeInv, [Next]_vars PROVE TypeOK'
    OBVIOUS
  <2>1. TypeOK
    BY DEF TypeInv
  <2>2. CASE UNCHANGED vars
    BY <2>1, <2>2 DEF vars, lockVars, jobVars, TypeOK, MyStripe
  <2>3. CASE Next
    BY <2>1, <2>3, StartType, LockStepType, BuildStepType, EnvironmentType
       DEF Next, Step, Fault
  <2>4. QED
    BY <2>2, <2>3
<1>3. TypeInv /\ [Next]_vars => TypeInv'
  BY <1>2, ShaStep DEF TypeInv
<1>4. QED
  BY <1>1, <1>3, PTL DEF Spec

(* Every variable stays in its set and only a run that has not returned    *)
(* holds a stripe lock.                                                    *)
THEOREM TypeCorrect == Spec => []TypeOK
<1>1. TypeInv => TypeOK
  BY DEF TypeInv
<1>2. QED
  BY <1>1, TypeInvCorrect, PTL

------------------------------------------------------------------------------
(* The build slots.                                                        *)

(* Who builds without an excuse has a slot below its own cap.              *)
SlotHeld ==
    \A p \in Procs : pc[p] \in Throttled /\ free[p] = "no" =>
        \E i \in 0..(Cap[p] - 1) : i \in Slots /\ slot[i] = p

LEMMA SlotsOfCap ==
    ASSUME NEW p \in Procs
    PROVE  0..(Cap[p] - 1) \subseteq Slots
  BY DEF Slots, Caps

LEMMA SlotKept ==
    ASSUME TypeOK, SlotHeld, NEW p \in Procs, NEW point, Goto(p, point),
           point \notin Throttled \/ pc[p] \in Throttled,
           UNCHANGED <<slot, free>>
    PROVE  SlotHeld'
  BY DEF TypeOK, SlotHeld, Goto, Throttled

LEMMA SlotGiven ==
    ASSUME TypeOK, SlotHeld, NEW p \in Procs, NEW point, Goto(p, point),
           point \notin Throttled,
           slot' = [i \in Slots |-> IF slot[i] = p THEN NoProc ELSE slot[i]],
           \A q \in Procs \ {p} : free'[q] = free[q]
    PROVE  SlotHeld'
  BY DEF TypeOK, SlotHeld, Goto, Throttled

LEMMA SlotTaken ==
    ASSUME TypeOK, SlotHeld, NEW p \in Procs, TakeSlot(p)
    PROVE  SlotHeld'
<1>1. PICK i \in 0..(Cap[p] - 1) : slot[i] = NoProc /\ slot' = [slot EXCEPT ![i] = p]
  BY DEF TakeSlot
<1>2. i \in Slots
  BY SlotsOfCap
<1>3. ASSUME NEW q \in Procs, pc'[q] \in Throttled, free'[q] = "no"
      PROVE  \E j \in 0..(Cap[q] - 1) : j \in Slots /\ slot'[j] = q
  <2>1. CASE q = p
    BY <1>1, <1>2, <2>1 DEF TypeOK
  <2>2. CASE q # p
    <3>1. PICK j \in 0..(Cap[q] - 1) : j \in Slots /\ slot[j] = q
      BY <1>3, <2>2 DEF TakeSlot, Goto, TypeOK, SlotHeld
    <3>2. slot'[j] = q
      BY <1>1, <3>1 DEF TypeOK
    <3>3. QED
      BY <3>1, <3>2
  <2>3. QED
    BY <2>1, <2>2
<1>4. QED
  BY <1>3 DEF SlotHeld, Throttled

LEMMA SlotForgone ==
    ASSUME TypeOK, SlotHeld, NEW p \in Procs, NEW why \in {"error", "timeout"}, NoSlot(p, why)
    PROVE  SlotHeld'
  BY DEF NoSlot, lockVars, TypeOK, SlotHeld, Goto, Throttled

LEMMA SlotStep == TypeOK /\ SlotHeld /\ [Next]_vars => SlotHeld'
<1> SUFFICES ASSUME TypeOK, SlotHeld, [Next]_vars PROVE SlotHeld'
  OBVIOUS
<1> USE DEF lockVars, jobVars
<1>1. ASSUME NEW p \in Procs, Leave(p)
      PROVE  SlotHeld'
  BY <1>1, SlotGiven DEF Leave, Throttled, TypeOK
<1>2. ASSUME NEW p \in Procs, DropSlot(p)
      PROVE  SlotHeld'
  BY <1>2, SlotGiven DEF DropSlot, Throttled
<1>3. ASSUME NEW p \in Procs,
             \/ \E r \in {"build", "gc"}, s \in Shas : Start(p, r, s)
             \/ TryLock(p) \/ Busy(p) \/ ReadOwner(p) \/ ReadStaging(p) \/ BeginWait(p)
             \/ WaitLock(p) \/ LockTimeout(p) \/ RecordPid(p) \/ RecordOwner(p)
             \/ NeedBuild(p) \/ CreateStaging(p) \/ EndBuild(p)
      PROVE  SlotHeld'
  <2>1. \E point : /\ Goto(p, point)
                   /\ point \notin Throttled \/ pc[p] \in Throttled
                   /\ UNCHANGED <<slot, free>>
    BY <1>3 DEF Start, TryLock, Take, Busy, ReadOwner, ReadStaging, BeginWait, WaitLock,
       LockTimeout, RecordPid, RecordOwner, NeedBuild, CreateStaging, EndBuild, Throttled
  <2>2. QED
    BY <2>1, SlotKept
<1>4. ASSUME NEW p \in Procs,
             \/ SkipBusy(p) \/ GiveUp(p) \/ LockError(p) \/ Return(p) \/ Crash(p)
      PROVE  Leave(p)
  BY <1>4 DEF SkipBusy, GiveUp, LockError, Return, Crash
<1>5. ASSUME NEW p \in Procs, Wedge(p)
      PROVE  UNCHANGED <<pc, free, slot>>
  BY <1>5 DEF Wedge
<1>6. (Tick \/ UNCHANGED vars) => UNCHANGED <<pc, free, slot>>
  BY DEF Tick, vars
<1>7. UNCHANGED <<pc, free, slot>> => SlotHeld'
  BY DEF SlotHeld, Throttled
<1>8. QED
  BY <1>1, <1>2, <1>3, <1>4, <1>5, <1>6, <1>7, SlotTaken, SlotForgone DEF Next, Step, Fault

LEMMA SlotsBound ==
    ASSUME TypeOK, SlotHeld, NEW k \in Caps
    PROVE  Cardinality({p \in Procs : /\ pc[p] \in Throttled
                                     /\ free[p] = "no"
                                     /\ Cap[p] <= k}) <= k
<1> DEFINE B == {p \in Procs : pc[p] \in Throttled /\ free[p] = "no" /\ Cap[p] <= k}
           f == [p \in B |-> CHOOSE i \in 0..(Cap[p] - 1) : i \in Slots /\ slot[i] = p]
<1>1. k \in Nat \ {0}
  BY DEF Caps
<1>2. ASSUME NEW p \in B
      PROVE  f[p] \in 0..(Cap[p] - 1) /\ slot[f[p]] = p
  <2>1. \E i \in 0..(Cap[p] - 1) : i \in Slots /\ slot[i] = p
    BY DEF SlotHeld
  <2>2. f[p] = CHOOSE i \in 0..(Cap[p] - 1) : i \in Slots /\ slot[i] = p
    OBVIOUS
  <2> HIDE DEF f
  <2>3. QED
    BY <2>1, <2>2, Zenon
<1>0. f = [p \in B |-> f[p]]
  OBVIOUS
<1> HIDE DEF f
<1>3. ASSUME NEW p \in B
      PROVE  f[p] \in 0..(k - 1)
  <2>1. Cap[p] \in Nat /\ Cap[p] <= k
    OBVIOUS
  <2>2. f[p] \in 0..(Cap[p] - 1)
    BY <1>2
  <2>3. QED
    BY <1>1, <2>1, <2>2
<1>4. \A p, q \in B : f[p] = f[q] => p = q
  BY <1>2
<1>5. f \in Injection(B, 0..(k - 1))
  BY <1>0, <1>3, <1>4 DEF Injection, IsInjective
<1>6. IsFiniteSet(0..(k - 1)) /\ Cardinality(0..(k - 1)) = k
  BY <1>1, FS_Interval
<1>7. Cardinality(B) <= Cardinality(0..(k - 1))
  BY <1>5, <1>6, FS_Injection
<1>8. QED
  BY <1>6, <1>7

(* Of the processes with a cap of k or less at most k build, besides those *)
(* that go without a slot.                                                 *)
THEOREM CapsHold == Spec => []Throttle
<1>1. Init => SlotHeld
  BY DEF Init, SlotHeld, Throttled
<1>2. TypeOK /\ SlotHeld => Throttle
  BY SlotsBound DEF Throttle
<1>3. QED
  BY <1>1, <1>2, SlotStep, TypeCorrect, PTL DEF Spec

------------------------------------------------------------------------------
(* Who holds the stripe a builder waits for.                               *)

Waiting == {"owner", "phase", "reported", "wait", "timedout", "lastphase", "failed"}
LockHeld == \A p \in Procs : pc[p] \in Locked => lock[MyStripe(p)] = p
BlockerHolds ==
    \A p \in Procs : blocker[p] # NoProc =>
        pc[p] \in Waiting /\ lock[MyStripe(p)] = blocker[p]
WedgedHold == \A p \in wedged : pc[p] \in Locked
HoldInv == LockHeld /\ BlockerHolds /\ WedgedHold

LEMMA BlockerLocked ==
    ASSUME TypeInv, HoldInv, NEW p \in Procs, blocker[p] # NoProc
    PROVE  /\ blocker[p] \in Procs /\ pc[blocker[p]] \in Locked
           /\ MyStripe(blocker[p]) = MyStripe(p) /\ MyStripe(p) \in Stripes
<1>1. pc[p] # "idle" /\ lock[MyStripe(p)] = blocker[p]
  BY DEF HoldInv, BlockerHolds, Waiting
<1>2. MyStripe(p) \in Stripes
  BY <1>1, HasStripe
<1>3. QED
  BY <1>1, <1>2 DEF TypeInv, TypeOK

LEMMA HoldLeave ==
    ASSUME TypeInv, HoldInv, NEW p \in Procs, Leave(p),
           wedged' \subseteq wedged, p \notin wedged'
    PROVE  HoldInv'
<1>1. LockHeld'
  <2>1. ASSUME NEW q \in Procs, pc'[q] \in Locked
        PROVE  lock'[MyStripe(q)'] = q
    <3>1. q # p /\ pc[q] \in Locked
      BY <2>1, PointsSplit DEF Leave, Goto, TypeInv, TypeOK
    <3>2. MyStripe(q)' = MyStripe(q) /\ MyStripe(q) \in Stripes
      BY <3>1, HasStripe, PointsSplit DEF Leave, TypeInv, TypeOK, MyStripe
    <3>3. lock[MyStripe(q)] = q
      BY <3>1 DEF HoldInv, LockHeld
    <3>4. QED
      BY <3>1, <3>2, <3>3 DEF Leave
  <2>2. QED
    BY <2>1 DEF LockHeld, Locked, Named, Throttled
<1>2. BlockerHolds'
  <2>1. ASSUME NEW q \in Procs, blocker'[q] # NoProc
        PROVE  pc'[q] \in Waiting /\ lock'[MyStripe(q)'] = blocker'[q]
    <3>1. q # p /\ blocker[q] # p /\ blocker'[q] = blocker[q]
      BY <2>1 DEF Leave
    <3>2. pc[q] \in Waiting /\ lock[MyStripe(q)] = blocker[q] /\ MyStripe(q) \in Stripes
      BY <2>1, <3>1, BlockerLocked DEF HoldInv, BlockerHolds
    <3>3. MyStripe(q)' = MyStripe(q) /\ pc'[q] = pc[q]
      BY <3>1 DEF Leave, Goto, TypeInv, TypeOK, MyStripe
    <3>4. QED
      BY <3>1, <3>2, <3>3 DEF Leave
  <2>2. QED
    BY <2>1 DEF BlockerHolds, Waiting
<1>3. WedgedHold'
  BY DEF HoldInv, WedgedHold, Leave, Goto, TypeInv, TypeOK, Locked, Named, Throttled
<1>4. QED
  BY <1>1, <1>2, <1>3 DEF HoldInv

LEMMA HoldTake ==
    ASSUME TypeInv, HoldInv, NEW p \in Procs, pc[p] \in {"try", "wait"}, Take(p),
           UNCHANGED <<sha, wedged, blocker>>
    PROVE  HoldInv'
<1>1. MyStripe(p) \in Stripes /\ lock[MyStripe(p)] = NoProc
  BY HasStripe DEF Take
<1>2. blocker[p] = NoProc
  BY <1>1 DEF HoldInv, BlockerHolds
<1>3. \A q \in Procs : MyStripe(q)' = MyStripe(q)
  BY DEF MyStripe
<1>4. \A q \in Procs \ {p} : pc'[q] = pc[q]
  BY DEF Take, Goto, TypeInv, TypeOK
<1>5. LockHeld'
  BY <1>1, <1>3, <1>4 DEF HoldInv, LockHeld, Take, TypeInv, TypeOK, Locked, Named, Throttled
<1>6. BlockerHolds'
  <2>1. ASSUME NEW q \in Procs, blocker[q] # NoProc
        PROVE  pc'[q] \in Waiting /\ lock'[MyStripe(q)] = blocker[q]
    <3>1. q # p /\ pc[q] \in Waiting /\ lock[MyStripe(q)] = blocker[q]
      BY <1>2, <2>1 DEF HoldInv, BlockerHolds
    <3>2. MyStripe(q) # MyStripe(p)
      BY <1>1, <2>1, <3>1
    <3>3. QED
      BY <1>4, <3>1, <3>2 DEF Take, TypeInv, TypeOK
  <2>2. QED
    BY <1>3, <2>1 DEF BlockerHolds, Waiting
<1>7. WedgedHold'
  BY <1>4 DEF HoldInv, WedgedHold, TypeInv, TypeOK, Locked, Named, Throttled
<1>8. QED
  BY <1>5, <1>6, <1>7 DEF HoldInv

LEMMA HoldBusy ==
    ASSUME TypeInv, HoldInv, NEW p \in Procs, p \notin wedged, Busy(p)
    PROVE  HoldInv'
<1>1. \A q \in Procs : MyStripe(q)' = MyStripe(q)
  BY DEF Busy, jobVars, MyStripe
<1>2. QED
  BY <1>1 DEF Busy, HoldInv, LockHeld, BlockerHolds, WedgedHold, Waiting, Locked, Named,
     Throttled, lockVars, jobVars, Goto, TypeInv, TypeOK

(* Every other step of a process keeps its stripe and stays on its side.   *)
LEMMA HoldGoto ==
    ASSUME TypeInv, HoldInv, NEW p \in Procs, NEW point, Goto(p, point),
           \/ pc[p] \in Locked /\ point \in Locked
           \/ pc[p] \in Waiting /\ point \in Waiting,
           UNCHANGED <<lock, sha, wedged, blocker>>
    PROVE  HoldInv'
<1>1. \A q \in Procs : MyStripe(q)' = MyStripe(q)
  BY DEF MyStripe
<1>2. Locked \cap Waiting = {}
  BY DEF Waiting, Locked, Named, Throttled
<1>3. \A q \in Procs : /\ pc'[q] \in Locked <=> pc[q] \in Locked
                       /\ pc'[q] \in Waiting <=> pc[q] \in Waiting
  BY <1>2 DEF Goto, TypeInv, TypeOK
<1>4. LockHeld'
  BY <1>1, <1>3 DEF HoldInv, LockHeld, Locked, Named, Throttled
<1>5. BlockerHolds'
  BY <1>1, <1>3 DEF HoldInv, BlockerHolds, Waiting
<1>6. WedgedHold'
  BY <1>3 DEF HoldInv, WedgedHold, TypeInv, TypeOK, Locked, Named, Throttled
<1>7. QED
  BY <1>4, <1>5, <1>6 DEF HoldInv

LEMMA HoldStart ==
    ASSUME TypeInv, HoldInv, NEW p \in Procs, NEW r \in {"build", "gc"}, NEW s \in Shas,
           Start(p, r, s)
    PROVE  HoldInv'
<1>1. pc[p] = "idle" /\ blocker[p] = NoProc
  BY DEF Start, HoldInv, BlockerHolds, Waiting
<1>2. \A q \in Procs \ {p} : MyStripe(q)' = MyStripe(q) /\ pc'[q] = pc[q]
  BY DEF Start, Goto, TypeInv, TypeOK, MyStripe
<1>3. pc'[p] = "try"
  BY DEF Start, Goto, TypeInv, TypeOK
<1>4. LockHeld' /\ BlockerHolds' /\ WedgedHold'
  BY <1>1, <1>2, <1>3 DEF Start, HoldInv, LockHeld, BlockerHolds, WedgedHold, Waiting,
     Locked, Named, Throttled, TypeInv, TypeOK
<1>5. QED
  BY <1>4 DEF HoldInv

LEMMA HoldWedge ==
    ASSUME TypeInv, HoldInv, NEW p \in Procs, Wedge(p)
    PROVE  HoldInv'
  BY DEF Wedge, HoldInv, LockHeld, BlockerHolds, WedgedHold, Waiting, MyStripe,
     Locked, Named, Throttled, lockVars, jobVars

LEMMA HoldStill ==
    ASSUME HoldInv, UNCHANGED <<lock, pc, sha, wedged, blocker>>
    PROVE  HoldInv'
  BY DEF HoldInv, LockHeld, BlockerHolds, WedgedHold, Waiting, MyStripe, Locked, Named, Throttled

(* The kinds of steps, as far as locks and blockers go.                    *)
LEMMA StepKinds ==
    ASSUME NEW p \in Procs, Step(p) \/ Fault(p)
    PROVE  \/ Leave(p) /\ staging' = staging /\ wedged' = wedged \ {p}
           \/ p \notin wedged /\ (TryLock(p) \/ WaitLock(p))
           \/ p \notin wedged /\ Busy(p)
           \/ /\ p \notin wedged
              /\ \/ ReadOwner(p) \/ ReadStaging(p) \/ BeginWait(p) \/ LockTimeout(p)
                 \/ RecordPid(p) \/ RecordOwner(p) \/ NeedBuild(p) \/ TakeSlot(p)
                 \/ NoSlot(p, "timeout") \/ NoSlot(p, "error") \/ CreateStaging(p)
                 \/ EndBuild(p) \/ DropSlot(p)
           \/ Wedge(p)
  BY DEF Step, Fault, SkipBusy, GiveUp, Return, LockError, Crash

LEMMA OtherStepKind ==
    ASSUME NEW p \in Procs,
           \/ ReadOwner(p) \/ ReadStaging(p) \/ BeginWait(p) \/ LockTimeout(p)
           \/ RecordPid(p) \/ RecordOwner(p) \/ NeedBuild(p) \/ TakeSlot(p)
           \/ NoSlot(p, "timeout") \/ NoSlot(p, "error") \/ CreateStaging(p)
           \/ EndBuild(p) \/ DropSlot(p)
    PROVE  /\ \E point : /\ Goto(p, point)
                         /\ \/ pc[p] \in Locked /\ point \in Locked
                            \/ pc[p] \in Waiting /\ point \in Waiting
           /\ UNCHANGED <<lock, sha, wedged, blocker>>
  BY DEF ReadOwner, ReadStaging, BeginWait, LockTimeout, RecordPid, RecordOwner, NeedBuild,
     TakeSlot, NoSlot, CreateStaging, EndBuild, DropSlot, lockVars, jobVars, Waiting,
     Locked, Named, Throttled

LEMMA HoldStep == TypeInv /\ HoldInv /\ [Next]_vars => HoldInv'
<1> SUFFICES ASSUME TypeInv, HoldInv, [Next]_vars PROVE HoldInv'
  OBVIOUS
<1>1. ASSUME NEW p \in Procs, Step(p) \/ Fault(p)
      PROVE  HoldInv'
  <2>1. CASE Leave(p) /\ staging' = staging /\ wedged' = wedged \ {p}
    BY <2>1, HoldLeave
  <2>2. CASE p \notin wedged /\ (TryLock(p) \/ WaitLock(p))
    BY <2>2, HoldTake DEF TryLock, WaitLock, jobVars
  <2>3. CASE p \notin wedged /\ Busy(p)
    BY <2>3, HoldBusy
  <2>4. CASE Wedge(p)
    BY <2>4, HoldWedge
  <2>5. QED
    BY <1>1, <2>1, <2>2, <2>3, <2>4, StepKinds, OtherStepKind, HoldGoto
<1>2. Tick \/ UNCHANGED vars => UNCHANGED <<lock, pc, sha, wedged, blocker>>
  BY DEF Tick, vars, lockVars, jobVars
<1>3. QED
  BY <1>1, <1>2, HoldStart, HoldStill DEF Next

LEMMA HoldInvCorrect == Spec => [](TypeInv /\ HoldInv)
<1>1. Init => HoldInv
  BY PointsSplit DEF Init, HoldInv, LockHeld, BlockerHolds, WedgedHold
<1>2. QED
  BY <1>1, HoldStep, TypeInvCorrect, PTL DEF Spec

------------------------------------------------------------------------------
(* The budget of a waiter.                                                 *)

(* What a healthy holder may have used of the time of a builder that waits *)
(* for it: the wait for a slot, then the build.                            *)
UsedUp(q) ==
    IF pc[q] = "slot" THEN elapsed[q]
    ELSE IF pc[q] = "stage" THEN SlotWait
    ELSE IF pc[q] = "build" THEN SlotWait + elapsed[q]
    ELSE IF pc[q] \in {"published", "unlock"} THEN SlotWait + BuildTime
    ELSE 0

InTime ==
    \A q \in Procs : q \notin wedged =>
        /\ pc[q] = "slot" => elapsed[q] <= SlotWait
        /\ pc[q] = "stage" => elapsed[q] = 0
        /\ pc[q] = "build" => elapsed[q] <= BuildTime
WithinBudget ==
    \A p, q \in Procs :
        pc[p] = "wait" /\ blocker[p] = q /\ q \notin wedged => elapsed[p] <= UsedUp(q)
GivenUpOnWedged ==
    \A p, q \in Procs :
        pc[p] \in {"timedout", "lastphase", "failed"} /\ blocker[p] = q => q \in wedged
TimeInv == InTime /\ WithinBudget /\ GivenUpOnWedged

LEMMA UsedType ==
    ASSUME TypeOK, InTime, NEW q \in Procs
    PROVE  /\ UsedUp(q) \in Nat
           /\ q \notin wedged => UsedUp(q) <= SlotWait + BuildTime
<1>1. elapsed[q] \in Nat
  BY DEF TypeOK
<1>2. QED
  BY <1>1 DEF UsedUp, InTime

LEMMA TimeLeave ==
    ASSUME TypeInv, TimeInv, NEW p \in Procs, Leave(p), wedged' = wedged \ {p}
    PROVE  TimeInv'
<1>1. \A q \in Procs \ {p} : pc'[q] = pc[q] /\ elapsed'[q] = elapsed[q]
  BY DEF Leave, Goto, Restart, TypeInv, TypeOK
<1>2. pc'[p] = "idle"
  BY DEF Leave, Goto, TypeInv, TypeOK
<1>3. InTime'
  BY <1>1, <1>2 DEF TimeInv, InTime
<1>4. \A q \in Procs : blocker'[q] \in Procs => q # p /\ blocker'[q] = blocker[q] /\ blocker[q] # p
  BY DEF Leave
<1>5. WithinBudget'
  <2>1. ASSUME NEW q \in Procs, NEW b \in Procs, pc'[q] = "wait", blocker'[q] = b, b \notin wedged'
        PROVE  elapsed'[q] <= UsedUp(b)'
    BY <1>1, <1>4, <2>1 DEF TimeInv, WithinBudget, UsedUp
  <2>2. QED
    BY <2>1 DEF WithinBudget
<1>6. GivenUpOnWedged'
  BY <1>1, <1>4 DEF TimeInv, GivenUpOnWedged
<1>7. QED
  BY <1>3, <1>5, <1>6 DEF TimeInv

(* A process that goes on takes no more of the others' time than UsedUp    *)
(* grants it, and starts a wait of its own at zero.                        *)
LEMMA TimeMove ==
    ASSUME TypeInv, TimeInv, NEW p \in Procs, p \notin wedged, wedged' = wedged,
           \A q \in Procs \ {p} :
               pc'[q] = pc[q] /\ elapsed'[q] = elapsed[q] /\ blocker'[q] = blocker[q],
           UsedUp(p) <= UsedUp(p)',
           elapsed'[p] \in Nat,
           pc'[p] = "slot" => elapsed'[p] <= SlotWait,
           pc'[p] = "stage" => elapsed'[p] = 0,
           pc'[p] = "build" => elapsed'[p] <= BuildTime,
           pc'[p] = "wait" => elapsed'[p] = 0,
           pc'[p] \in {"timedout", "lastphase", "failed"} =>
               blocker'[p] = blocker[p] /\ pc[p] \in {"timedout", "lastphase", "failed"}
    PROVE  TimeInv'
<1>1. InTime'
  BY DEF TimeInv, InTime
<1>2. \A q \in Procs : UsedUp(q) \in Nat /\ (q # p => UsedUp(q)' = UsedUp(q))
  BY UsedType DEF UsedUp, TypeInv, TimeInv
<1>3. WithinBudget'
  <2>1. ASSUME NEW q \in Procs, NEW b \in Procs,
               pc'[q] = "wait", blocker'[q] = b, b \notin wedged'
        PROVE  elapsed'[q] <= UsedUp(b)'
    <3>1. CASE q = p
      <4>1. elapsed'[q] = 0
        BY <2>1, <3>1
      <4>2. CASE b = p
        BY <2>1, <3>1, <4>1, <4>2 DEF UsedUp
      <4>3. CASE b # p
        BY <1>2, <4>1, <4>3
      <4>4. QED
        BY <4>2, <4>3
    <3>2. CASE q # p
      <4>1. elapsed'[q] = elapsed[q] /\ elapsed[q] <= UsedUp(b)
        BY <2>1, <3>2 DEF TimeInv, WithinBudget
      <4>2. CASE b # p
        BY <1>2, <4>1, <4>2
      <4>3. CASE b = p
        <5>1. UsedUp(p)' \in Nat
          BY DEF UsedUp
        <5>2. elapsed[q] \in Nat
          BY DEF TypeInv, TypeOK
        <5>3. QED
          BY <1>2, <4>1, <4>3, <5>1, <5>2
      <4>4. QED
        BY <4>2, <4>3
    <3>3. QED
      BY <3>1, <3>2
  <2>2. QED
    BY <2>1 DEF WithinBudget
<1>4. GivenUpOnWedged'
  BY DEF TimeInv, GivenUpOnWedged
<1>5. QED
  BY <1>1, <1>3, <1>4 DEF TimeInv

LEMMA TimeStart ==
    ASSUME TypeInv, HoldInv, TimeInv, NEW p \in Procs, NEW r \in {"build", "gc"},
           NEW s \in Shas, Start(p, r, s)
    PROVE  TimeInv'
<1>1. p \notin wedged
  BY PointsSplit DEF Start, HoldInv, WedgedHold
<1>2. pc[p] = "idle" /\ pc'[p] = "try" /\ elapsed'[p] \in Nat
  BY DEF Start, Goto, TypeInv, TypeOK
<1>3. UsedUp(p) <= UsedUp(p)'
  BY <1>2 DEF UsedUp
<1>4. \A q \in Procs \ {p} :
        pc'[q] = pc[q] /\ elapsed'[q] = elapsed[q] /\ blocker'[q] = blocker[q]
  BY DEF Start, Goto, TypeInv, TypeOK
<1>5. wedged' = wedged
  BY DEF Start
<1>6. QED
  BY <1>1, <1>2, <1>3, <1>4, <1>5, TimeMove

LEMMA TimeStep ==
    ASSUME TypeInv, TimeInv, NEW p \in Procs, p \notin wedged,
           \/ TryLock(p) \/ WaitLock(p) \/ Busy(p) \/ ReadOwner(p) \/ ReadStaging(p)
           \/ BeginWait(p) \/ RecordPid(p) \/ RecordOwner(p) \/ NeedBuild(p) \/ TakeSlot(p)
           \/ NoSlot(p, "timeout") \/ NoSlot(p, "error") \/ CreateStaging(p)
           \/ EndBuild(p) \/ DropSlot(p)
    PROVE  TimeInv'
<1> USE DEF lockVars, jobVars, Goto, Restart, TypeInv, TypeOK
<1>1. \A q \in Procs \ {p} :
        pc'[q] = pc[q] /\ elapsed'[q] = elapsed[q] /\ blocker'[q] = blocker[q]
  BY DEF TryLock, WaitLock, Take, Busy, ReadOwner, ReadStaging, BeginWait, RecordPid,
     RecordOwner, NeedBuild, TakeSlot, NoSlot, CreateStaging, EndBuild, DropSlot
<1>2. wedged' = wedged /\ elapsed'[p] \in Nat
  BY DEF TryLock, WaitLock, Take, Busy, ReadOwner, ReadStaging, BeginWait, RecordPid,
     RecordOwner, NeedBuild, TakeSlot, NoSlot, CreateStaging, EndBuild, DropSlot
<1>3. /\ pc[p] = "slot" => elapsed[p] <= SlotWait
      /\ pc[p] = "stage" => elapsed[p] = 0
      /\ pc[p] = "build" => elapsed[p] <= BuildTime
  BY DEF TimeInv, InTime
<1>4. CASE TryLock(p) \/ WaitLock(p)
  <2>1. pc[p] \in {"try", "wait"} /\ pc'[p] = "pid"
    BY <1>4 DEF TryLock, WaitLock, Take
  <2>2. UsedUp(p) <= UsedUp(p)'
    BY <2>1 DEF UsedUp
  <2>3. QED
    BY <1>1, <1>2, <2>1, <2>2, TimeMove
<1>5. CASE Busy(p)
  <2>1. pc[p] = "try" /\ pc'[p] = "owner"
    BY <1>5 DEF Busy
  <2>2. UsedUp(p) <= UsedUp(p)'
    BY <2>1 DEF UsedUp
  <2>3. QED
    BY <1>1, <1>2, <2>1, <2>2, TimeMove
<1>6. CASE ReadOwner(p) \/ ReadStaging(p) \/ BeginWait(p)
  <2>1. /\ pc[p] \in {"owner", "timedout", "phase", "lastphase", "reported"}
        /\ pc'[p] \in {"phase", "lastphase", "reported", "failed", "wait"}
        /\ blocker' = blocker
        /\ pc'[p] = "wait" => elapsed'[p] = 0
        /\ pc'[p] \in {"lastphase", "failed"} => pc[p] \in {"timedout", "lastphase"}
    BY <1>6 DEF ReadOwner, ReadStaging, BeginWait
  <2>2. UsedUp(p) <= UsedUp(p)'
    BY <2>1 DEF UsedUp
  <2>3. QED
    BY <1>1, <1>2, <2>1, <2>2, TimeMove
<1>7. CASE RecordPid(p) \/ RecordOwner(p) \/ NeedBuild(p)
  <2>1. /\ pc[p] \in {"pid", "name", "check"}
        /\ pc'[p] \in {"name", "retire", "check", "slot"}
        /\ pc'[p] = "slot" => elapsed'[p] = 0
    BY <1>7 DEF RecordPid, RecordOwner, NeedBuild
  <2>2. UsedUp(p) <= UsedUp(p)'
    BY <2>1 DEF UsedUp
  <2>3. QED
    BY <1>1, <1>2, <2>1, <2>2, TimeMove
<1>8. CASE TakeSlot(p) \/ NoSlot(p, "timeout") \/ NoSlot(p, "error")
  <2>1. pc[p] = "slot" /\ pc'[p] = "stage" /\ elapsed'[p] = 0
    BY <1>8 DEF TakeSlot, NoSlot
  <2>2. UsedUp(p) <= UsedUp(p)'
    BY <1>3, <2>1 DEF UsedUp
  <2>3. QED
    BY <1>1, <1>2, <2>1, <2>2, TimeMove
<1>9. CASE CreateStaging(p)
  <2>1. pc[p] = "stage" /\ pc'[p] = "build" /\ elapsed'[p] = 0
    BY <1>3, <1>9 DEF CreateStaging
  <2>2. UsedUp(p) <= UsedUp(p)'
    BY <2>1 DEF UsedUp
  <2>3. QED
    BY <1>1, <1>2, <2>1, <2>2, TimeMove
<1>10. CASE EndBuild(p) \/ DropSlot(p)
  <2>1. pc[p] \in {"build", "published"} /\ pc'[p] \in {"published", "unlock"}
    BY <1>10 DEF EndBuild, DropSlot
  <2>2. UsedUp(p) <= UsedUp(p)'
    BY <1>3, <2>1 DEF UsedUp
  <2>3. QED
    BY <1>1, <1>2, <2>1, <2>2, TimeMove
<1>11. QED
  BY <1>4, <1>5, <1>6, <1>7, <1>8, <1>9, <1>10

(* The budget is over before a builder gives up on a healthy holder.       *)
LEMMA TimeGivenUp ==
    ASSUME SlotWait + BuildTime < LockWait,
           TypeInv, HoldInv, TimeInv, NEW p \in Procs, LockTimeout(p)
    PROVE  TimeInv'
<1>1. /\ pc[p] = "wait" /\ elapsed[p] >= LockWait /\ pc'[p] = "timedout"
      /\ \A q \in Procs \ {p} : pc'[q] = pc[q]
      /\ UNCHANGED <<elapsed, wedged, blocker>>
  BY DEF LockTimeout, LockWaitOver, Goto, TypeInv, TypeOK
<1>2. ASSUME NEW q \in Procs, blocker[p] = q
      PROVE  q \in wedged
  <2>1. q \notin wedged => elapsed[p] <= UsedUp(q)
    BY <1>1, <1>2 DEF TimeInv, WithinBudget
  <2>2. q \notin wedged => UsedUp(q) <= SlotWait + BuildTime /\ UsedUp(q) \in Nat
    BY UsedType DEF TypeInv, TimeInv
  <2>3. elapsed[p] \in Nat
    BY DEF TypeInv, TypeOK
  <2>4. QED
    BY <1>1, <2>1, <2>2, <2>3
<1>3. InTime'
  BY <1>1 DEF TimeInv, InTime
<1>4. \A q \in Procs : UsedUp(q)' = UsedUp(q)
  BY <1>1 DEF UsedUp
<1>5. WithinBudget'
  BY <1>1, <1>4 DEF TimeInv, WithinBudget
<1>6. GivenUpOnWedged'
  BY <1>1, <1>2 DEF TimeInv, GivenUpOnWedged
<1>7. QED
  BY <1>3, <1>5, <1>6 DEF TimeInv

LEMMA TimeTick ==
    ASSUME TypeInv, HoldInv, TimeInv, Tick
    PROVE  TimeInv'
<1>1. pc' = pc /\ blocker' = blocker /\ wedged' = wedged
  BY DEF Tick
<1>2. \A q \in Procs : elapsed[q] \in 0..MaxElapsed
  BY DEF TypeInv, TypeOK
<1>3. SlotWait <= MaxElapsed /\ BuildTime <= MaxElapsed /\ MaxElapsed \in Nat
  BY DEF MaxElapsed
<1>4. ASSUME NEW q \in Procs, q \notin wedged, pc[q] \in Locked
      PROVE  \/ pc[q] = "slot" /\ elapsed[q] < SlotWait /\ elapsed'[q] = elapsed[q] + 1
             \/ pc[q] = "build" /\ elapsed[q] < BuildTime /\ elapsed'[q] = elapsed[q] + 1
  <2>1. MayWait(q)
    BY <1>4 DEF Tick, TimeMayPass
  <2>2. \/ pc[q] = "slot" /\ elapsed[q] < SlotWait
        \/ pc[q] = "build" /\ elapsed[q] < BuildTime
    BY <1>4, <2>1, PointsSplit DEF MayWait
  <2>3. elapsed[q] # MaxElapsed
    BY <1>2, <1>3, <2>2
  <2>4. elapsed'[q] = elapsed[q] + 1
    BY <1>4, <2>2, <2>3 DEF Tick
  <2>5. QED
    BY <2>2, <2>4
<1>5. InTime'
  <2>1. ASSUME NEW q \in Procs, q \notin wedged, pc[q] \in {"slot", "stage", "build"}
        PROVE  \/ pc[q] = "slot" /\ elapsed'[q] <= SlotWait
               \/ pc[q] = "build" /\ elapsed'[q] <= BuildTime
    BY <1>2, <1>4, <2>1 DEF Locked, Named, Throttled
  <2>2. QED
    BY <1>1, <2>1 DEF InTime
<1>6. WithinBudget'
  <2>1. ASSUME NEW p \in Procs, NEW q \in Procs, pc[p] = "wait", blocker[p] = q, q \notin wedged
        PROVE  elapsed'[p] <= UsedUp(q)'
    <3>1. pc[q] \in Locked
      BY <2>1, BlockerLocked
    <3>2. elapsed[p] <= UsedUp(q)
      BY <2>1 DEF TimeInv, WithinBudget
    <3>3. elapsed'[p] \in {elapsed[p], elapsed[p] + 1}
      BY DEF Tick
    <3>4. UsedUp(q)' = UsedUp(q) + 1
      BY <1>1, <1>2, <1>4, <2>1, <3>1 DEF UsedUp
    <3>5. elapsed[p] \in Nat /\ UsedUp(q) \in Nat
      BY UsedType DEF TypeInv, TypeOK, TimeInv
    <3>6. QED
      BY <3>2, <3>3, <3>4, <3>5
  <2>2. QED
    BY <1>1, <2>1 DEF WithinBudget
<1>7. GivenUpOnWedged'
  BY <1>1 DEF TimeInv, GivenUpOnWedged
<1>8. QED
  BY <1>5, <1>6, <1>7 DEF TimeInv

LEMMA TimeNext ==
    ASSUME SlotWait + BuildTime < LockWait
    PROVE  TypeInv /\ HoldInv /\ TimeInv /\ [Next]_vars => TimeInv'
<1> SUFFICES ASSUME TypeInv, HoldInv, TimeInv, [Next]_vars PROVE TimeInv'
  OBVIOUS
<1>1. ASSUME NEW p \in Procs, Step(p) \/ Fault(p)
      PROVE  TimeInv'
  <2>1. CASE Wedge(p)
    <3>1. UNCHANGED <<pc, elapsed, blocker>> /\ wedged \subseteq wedged'
      BY <2>1 DEF Wedge
    <3>2. \A q \in Procs : UsedUp(q)' = UsedUp(q)
      BY <3>1 DEF UsedUp
    <3>3. InTime' /\ GivenUpOnWedged'
      BY <3>1 DEF TimeInv, InTime, GivenUpOnWedged
    <3>4. WithinBudget'
      BY <3>1, <3>2 DEF TimeInv, WithinBudget
    <3>5. QED
      BY <3>3, <3>4 DEF TimeInv
  <2>2. QED
    BY <1>1, <2>1, StepKinds, TimeLeave, TimeStep, TimeGivenUp
<1>2. CASE UNCHANGED vars
  <2>1. UNCHANGED <<pc, elapsed, blocker, wedged>>
    BY <1>2 DEF vars
  <2>2. \A q \in Procs : UsedUp(q)' = UsedUp(q)
    BY <2>1 DEF UsedUp
  <2>3. InTime' /\ GivenUpOnWedged'
    BY <2>1 DEF TimeInv, InTime, GivenUpOnWedged
  <2>4. WithinBudget'
    BY <2>1, <2>2 DEF TimeInv, WithinBudget
  <2>5. QED
    BY <2>3, <2>4 DEF TimeInv
<1>3. QED
  BY <1>1, <1>2, TimeStart, TimeTick DEF Next

LEMMA TimeInvCorrect ==
    ASSUME SlotWait + BuildTime < LockWait
    PROVE  Spec => [](TypeInv /\ HoldInv /\ TimeInv)
<1>1. Init => TimeInv
  BY DEF Init, TimeInv, InTime, WithinBudget, GivenUpOnWedged
<1>2. QED
  BY <1>1, TimeNext, HoldInvCorrect, PTL DEF Spec

(* Where the budget of a waiter covers the wait for a slot and a build, a  *)
(* builder gives up on one holder only when that holder is wedged.         *)
THEOREM WaitsPatiently ==
    ASSUME SlotWait + BuildTime < LockWait
    PROVE  Spec => []PatientWait
<1>1. TypeInv /\ TimeInv => PatientWait
  BY DEF TypeInv, TypeOK, TimeInv, GivenUpOnWedged, PatientWait
<1>2. QED
  BY <1>1, TimeInvCorrect, PTL

------------------------------------------------------------------------------
(* What a builder that gives up reports.                                   *)

Owner(q) == [pid |-> q, role |-> role[q], key |-> sha[q]]

(* A holder that has named itself is named by the sidecar of its stripe.   *)
SidecarNames == \A q \in Procs : pc[q] \in Named => sidecar[MyStripe(q)] = Owner(q)

(* What the sidecar says of q to p, and what the staging dirs add to it.   *)
FromSidecar(p, q) ==
    [pid |-> q, phase |-> IF sha[q] # sha[p] THEN "other-sha"
                          ELSE IF role[q] = "gc" THEN "gc" ELSE "slot-wait"]
FromStaging(p, q) ==
    [pid |-> q, phase |-> IF sha[q] # sha[p] THEN "other-sha"
                          ELSE IF role[q] = "gc" THEN "gc"
                          ELSE IF q \in staging THEN "building" ELSE "slot-wait"]

LastReport ==
    \A p, q \in Procs : blocker[p] = q /\ pc[q] \in Named =>
        /\ pc[p] = "lastphase" => report[p] = FromSidecar(p, q)
        /\ pc[p] = "failed" => report[p] = FromStaging(p, q)
NameInv == SidecarNames /\ LastReport

(* A step of r changes of another process at most its blocker.             *)
LEMMA OthersUnmoved ==
    ASSUME TypeInv, NEW r \in Procs,
           Step(r) \/ Fault(r) \/ \E a \in {"build", "gc"}, t \in Shas : Start(r, a, t),
           NEW x \in Procs \ {r}
    PROVE  /\ pc'[x] = pc[x] /\ role'[x] = role[x] /\ sha'[x] = sha[x] /\ report'[x] = report[x]
           /\ x \in staging' <=> x \in staging
           /\ blocker'[x] \in {blocker[x], NoProc}
<1> USE DEF TypeInv, TypeOK, Goto, lockVars, jobVars
<1>1. CASE Leave(r) /\ staging' = staging
  BY <1>1 DEF Leave
<1>2. CASE TryLock(r) \/ WaitLock(r) \/ Busy(r)
  BY <1>2 DEF TryLock, WaitLock, Take, Busy
<1>3. CASE ReadOwner(r) \/ ReadStaging(r) \/ BeginWait(r) \/ LockTimeout(r)
  BY <1>3 DEF ReadOwner, ReadStaging, BeginWait, LockTimeout
<1>4. CASE RecordPid(r) \/ RecordOwner(r) \/ NeedBuild(r) \/ TakeSlot(r) \/ Wedge(r)
  BY <1>4 DEF RecordPid, RecordOwner, NeedBuild, TakeSlot, Wedge
<1>5. CASE NoSlot(r, "timeout") \/ NoSlot(r, "error") \/ CreateStaging(r) \/ EndBuild(r) \/ DropSlot(r)
  BY <1>5 DEF NoSlot, CreateStaging, EndBuild, DropSlot
<1>6. CASE \E a \in {"build", "gc"}, t \in Shas : Start(r, a, t)
  BY <1>6 DEF Start
<1>7. QED
  BY <1>1, <1>2, <1>3, <1>4, <1>5, <1>6, StepKinds

(* The sidecar of a stripe is written by the holder of its lock alone, or  *)
(* by a new process that has the PID of an ended one.                      *)
LEMMA SidecarKept ==
    ASSUME TypeInv, HoldInv, SidecarNames, NEW r \in Procs,
           Step(r) \/ Fault(r) \/ \E a \in {"build", "gc"}, t \in Shas : Start(r, a, t),
           NEW q \in Procs \ {r}, pc[q] \in Named
    PROVE  sidecar'[MyStripe(q)'] = Owner(q)'
<1>1. MyStripe(q)' = MyStripe(q) /\ Owner(q)' = Owner(q)
  BY OthersUnmoved DEF MyStripe, Owner
<1>2. MyStripe(q) \in Stripes /\ lock[MyStripe(q)] = q /\ sidecar[MyStripe(q)] = Owner(q)
  BY HasStripe, PointsSplit DEF HoldInv, LockHeld, SidecarNames, Locked
<1>3. sidecar'[MyStripe(q)] = sidecar[MyStripe(q)]
  <2>1. CASE \E a \in {"build", "gc"}, t \in Shas : Start(r, a, t)
    BY <1>2, <2>1 DEF Start, TypeInv, TypeOK, Owner
  <2>2. CASE RecordPid(r) \/ RecordOwner(r)
    <3>1. pc[r] \in Locked /\ MyStripe(r) # MyStripe(q)
      BY <1>2, <2>2 DEF RecordPid, RecordOwner, HoldInv, LockHeld, Locked
    <3>2. QED
      BY <1>2, <2>2, <3>1 DEF RecordPid, RecordOwner, TypeInv, TypeOK
  <2>3. CASE ~ (RecordPid(r) \/ RecordOwner(r)) /\ (Step(r) \/ Fault(r))
    <3>1. sidecar' = sidecar
      BY <2>3, StepKinds DEF Leave, TryLock, WaitLock, Busy, ReadOwner, ReadStaging, BeginWait,
         LockTimeout, NeedBuild, TakeSlot, NoSlot, CreateStaging, EndBuild, DropSlot, Wedge,
         lockVars
    <3>2. QED
      BY <3>1
  <2>4. QED
    BY <2>1, <2>2, <2>3
<1>4. QED
  BY <1>1, <1>2, <1>3

LEMMA SidecarOwn ==
    ASSUME TypeInv, HoldInv, SidecarNames, NEW r \in Procs,
           Step(r) \/ Fault(r) \/ \E a \in {"build", "gc"}, t \in Shas : Start(r, a, t),
           pc'[r] \in Named
    PROVE  sidecar'[MyStripe(r)'] = Owner(r)'
<1> USE DEF TypeInv, TypeOK, Goto, lockVars, jobVars
<1>1. CASE RecordOwner(r)
  <2>1. MyStripe(r) \in Stripes
    BY <1>1, HasStripe DEF RecordOwner
  <2>2. QED
    BY <1>1, <2>1 DEF RecordOwner, Owner, MyStripe
<1>2. ASSUME pc[r] \in Named, UNCHANGED <<sidecar, role, sha>>
      PROVE  sidecar'[MyStripe(r)'] = Owner(r)'
  BY <1>2 DEF SidecarNames, Owner, MyStripe
<1>3. CASE NeedBuild(r) \/ TakeSlot(r) \/ NoSlot(r, "timeout") \/ NoSlot(r, "error")
           \/ CreateStaging(r) \/ EndBuild(r) \/ DropSlot(r)
  BY <1>2, <1>3 DEF NeedBuild, TakeSlot, NoSlot, CreateStaging, EndBuild, DropSlot, Named, Throttled
<1>4. CASE Wedge(r)
  BY <1>2, <1>4 DEF Wedge
<1>5. pc'[r] \notin {"idle", "try", "pid", "name", "owner", "phase", "lastphase", "reported",
                     "failed", "wait", "timedout"}
  BY DEF Named, Throttled
<1>6. ~ Leave(r) /\ ~ TryLock(r) /\ ~ WaitLock(r) /\ ~ Busy(r) /\ ~ RecordPid(r)
  BY <1>5 DEF Leave, TryLock, WaitLock, Take, Busy, RecordPid
<1>7. ~ ReadOwner(r) /\ ~ ReadStaging(r) /\ ~ BeginWait(r) /\ ~ LockTimeout(r)
  BY <1>5 DEF ReadOwner, ReadStaging, BeginWait, LockTimeout
<1>8. ~ \E a \in {"build", "gc"}, t \in Shas : Start(r, a, t)
  BY <1>5 DEF Start
<1>9. QED
  BY <1>1, <1>3, <1>4, <1>6, <1>7, <1>8, StepKinds

(* A builder whose wait is over reads the sidecar of a wedged holder, and  *)
(* then its staging dir.                                                   *)
LEMMA ReportOwn ==
    ASSUME TypeInv, HoldInv, TimeInv, NameInv, NEW p \in Procs,
           Step(p) \/ Fault(p) \/ \E a \in {"build", "gc"}, t \in Shas : Start(p, a, t),
           NEW q \in Procs, blocker'[p] = q, pc'[q] \in Named, pc'[p] \in {"lastphase", "failed"}
    PROVE  /\ pc'[p] = "lastphase" => report'[p] = FromSidecar(p, q)'
           /\ pc'[p] = "failed" => report'[p] = FromStaging(p, q)'
<1> USE DEF Goto, lockVars, jobVars
<1>1. pc \in [Procs -> Points] /\ report \in [Procs -> Reports]
  BY DEF TypeInv, TypeOK
<1>2. CASE ReadOwner(p) \/ ReadStaging(p)
  <2>1. UNCHANGED <<lockVars, staging, sha, role, blocker>>
    BY <1>2 DEF ReadOwner, ReadStaging
  <2>2. blocker[p] = q /\ q # NoProc /\ pc[q] \in Locked
    BY <2>1, BlockerLocked
  <2>3. MyStripe(q) = MyStripe(p) /\ MyStripe(p) \in Stripes
    BY <2>2, BlockerLocked
  <2>4. q # p /\ pc'[q] = pc[q] /\ pc[q] \in Named
    BY <1>1, <1>2, <2>2 DEF ReadOwner, ReadStaging, Locked, Named, Throttled
  <2>5. sidecar[MyStripe(p)] = Owner(q) /\ lock[MyStripe(p)] = q
    BY <2>2, <2>3, <2>4 DEF NameInv, SidecarNames, HoldInv, LockHeld
  <2>6. sha[q] # NoSha /\ sha[p] # NoSha
    BY <1>2, <2>2 DEF TypeInv, HasSha, ReadOwner, ReadStaging, Locked, Named, Throttled
  <2>7. CASE ReadOwner(p)
    <3>1. OwnerRead(MyStripe(p)) = {Owner(q)}
      BY <2>4, <2>5 DEF OwnerRead, Named, Throttled
    <3>2. report'[p] = FromSidecar(p, q)
      BY <1>1, <2>6, <2>7, <3>1 DEF ReadOwner, Owner, FromSidecar
    <3>3. pc'[p] = "lastphase"
      BY <1>1, <2>7 DEF ReadOwner
    <3>4. QED
      BY <2>1, <3>2, <3>3 DEF FromSidecar
  <2>8. CASE ReadStaging(p)
    <3>1. pc[p] = "lastphase" /\ pc'[p] = "failed"
      BY <1>1, <2>8 DEF ReadStaging
    <3>2. report[p] = FromSidecar(p, q)
      BY <2>2, <2>4, <3>1 DEF NameInv, LastReport
    <3>3. report'[p] = FromStaging(p, q)
      BY <1>1, <2>8, <3>2 DEF ReadStaging, FromSidecar, FromStaging, Reports
    <3>4. QED
      BY <2>1, <3>1, <3>3 DEF FromStaging
  <2>9. QED
    BY <1>2, <2>7, <2>8
<1>3. CASE Wedge(p)
  BY <1>3 DEF Wedge, NameInv, LastReport, FromSidecar, FromStaging
<1>4. ~ Leave(p) /\ ~ TryLock(p) /\ ~ WaitLock(p) /\ ~ Busy(p) /\ ~ RecordPid(p) /\ ~ RecordOwner(p)
  BY <1>1 DEF Leave, TryLock, WaitLock, Take, Busy, RecordPid, RecordOwner
<1>5. ~ BeginWait(p) /\ ~ LockTimeout(p)
  BY <1>1 DEF BeginWait, LockTimeout
<1>6. /\ ~ NeedBuild(p) /\ ~ TakeSlot(p) /\ ~ NoSlot(p, "timeout") /\ ~ NoSlot(p, "error")
      /\ ~ CreateStaging(p) /\ ~ EndBuild(p) /\ ~ DropSlot(p)
  BY <1>1 DEF NeedBuild, TakeSlot, NoSlot, CreateStaging, EndBuild, DropSlot
<1>7. ~ \E a \in {"build", "gc"}, t \in Shas : Start(p, a, t)
  BY <1>1 DEF Start
<1>8. QED
  BY <1>2, <1>3, <1>4, <1>5, <1>6, <1>7, StepKinds

(* Neither the wedged holder nor a third process makes the report wrong.   *)
LEMMA ReportKept ==
    ASSUME TypeInv, HoldInv, TimeInv, NameInv, NEW r \in Procs,
           Step(r) \/ Fault(r) \/ \E a \in {"build", "gc"}, t \in Shas : Start(r, a, t),
           NEW p \in Procs \ {r}, NEW q \in Procs, blocker'[p] = q, pc'[q] \in Named,
           pc'[p] \in {"lastphase", "failed"}
    PROVE  /\ pc'[p] = "lastphase" => report'[p] = FromSidecar(p, q)'
           /\ pc'[p] = "failed" => report'[p] = FromStaging(p, q)'
<1>1. /\ pc'[p] = pc[p] /\ sha'[p] = sha[p] /\ report'[p] = report[p]
      /\ blocker[p] = q
  BY OthersUnmoved
<1>2. q \in wedged /\ pc[q] \in Locked
  BY <1>1, BlockerLocked DEF TimeInv, GivenUpOnWedged
<1>3. pc'[q] = pc[q] /\ sha'[q] = sha[q] /\ role'[q] = role[q] /\ (q \in staging' <=> q \in staging)
  <2>1. CASE q # r
    BY <2>1, OthersUnmoved
  <2>2. CASE q = r
    <3>1. ~ Step(r) /\ ~ \E a \in {"build", "gc"}, t \in Shas : Start(r, a, t)
      BY <1>2, <2>2 DEF Step, Start, Locked, Named, Throttled
    <3>2. CASE Crash(r)
      BY <1>1, <2>2, <3>2 DEF Crash, Leave
    <3>3. CASE Wedge(r)
      BY <2>2, <3>3 DEF Wedge, jobVars
    <3>4. QED
      BY <1>2, <2>2, <3>1, <3>2, <3>3 DEF Fault
  <2>3. QED
    BY <2>1, <2>2
<1>4. QED
  BY <1>1, <1>3 DEF NameInv, LastReport, FromSidecar, FromStaging

LEMMA NameStep == TypeInv /\ HoldInv /\ TimeInv /\ NameInv /\ [Next]_vars => NameInv'
<1> SUFFICES ASSUME TypeInv, HoldInv, TimeInv, NameInv, [Next]_vars PROVE NameInv'
  OBVIOUS
<1>1. ASSUME NEW r \in Procs,
             Step(r) \/ Fault(r) \/ \E a \in {"build", "gc"}, t \in Shas : Start(r, a, t)
      PROVE  NameInv'
  <2>1. ASSUME NEW q \in Procs, pc'[q] \in Named
        PROVE  sidecar'[MyStripe(q)'] = Owner(q)'
    <3>1. CASE q = r
      BY <1>1, <2>1, <3>1, SidecarOwn DEF NameInv
    <3>2. CASE q # r
      BY <1>1, <2>1, <3>2, SidecarKept, OthersUnmoved DEF NameInv
    <3>3. QED
      BY <3>1, <3>2
  <2>2. ASSUME NEW p \in Procs, NEW q \in Procs, blocker'[p] = q, pc'[q] \in Named,
               pc'[p] \in {"lastphase", "failed"}
        PROVE  /\ pc'[p] = "lastphase" => report'[p] = FromSidecar(p, q)'
               /\ pc'[p] = "failed" => report'[p] = FromStaging(p, q)'
    <3>1. CASE p = r
      BY <1>1, <2>2, <3>1, ReportOwn
    <3>2. CASE p # r
      BY <1>1, <2>2, <3>2, ReportKept
    <3>3. QED
      BY <3>1, <3>2
  <2>3. SidecarNames'
    BY <2>1 DEF SidecarNames, Named, Throttled
  <2>4. LastReport'
    BY <2>2 DEF LastReport, Named, Throttled
  <2>5. QED
    BY <2>3, <2>4 DEF NameInv
<1>2. CASE Tick \/ UNCHANGED vars
  BY <1>2 DEF Tick, vars, lockVars, jobVars, NameInv, SidecarNames, LastReport, Owner, MyStripe,
     FromSidecar, FromStaging, Named, Throttled
<1>3. QED
  BY <1>1, <1>2 DEF Next

(* Where the budget of a waiter covers the wait for a slot and a build, a  *)
(* builder that gives up on one holder names it, for which SHA and in      *)
(* which phase it holds the stripe.                                        *)
THEOREM ReportsTruly ==
    ASSUME SlotWait + BuildTime < LockWait
    PROVE  Spec => []TimeoutNamesHolder
<1>1. Init => NameInv
  BY DEF Init, NameInv, SidecarNames, LastReport, Named, Throttled
<1>2. NameInv => TimeoutNamesHolder
  BY DEF NameInv, LastReport, FromStaging, TimeoutNamesHolder
<1>3. QED
  BY <1>1, <1>2, NameStep, TimeInvCorrect, PTL DEF Spec
==============================================================================
