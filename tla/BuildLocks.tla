------------------------------ MODULE BuildLocks ------------------------------
(***************************************************************************)
(* The two waits of a builder: for the stripe lock of its SHA and, while   *)
(* it holds that lock, for one of the machine-wide build slots.  Both are  *)
(* advisory file locks the kernel drops with the process; both waits are   *)
(* bounded.  Next to a stripe lock lies an owner sidecar that no lock      *)
(* protects: the holder names itself in it, a waiter reads it to report    *)
(* whom it waits for.                                                      *)
(*                                                                         *)
(* Stripes stand for the lock files of all repositories, a SHA for a       *)
(* commit of one of them.  A tick is a minute; code that does not wait     *)
(* takes no time unless its process is wedged.                             *)
(***************************************************************************)
EXTENDS Integers, FiniteSets

CONSTANTS
    Procs,      \* the processes that may run at one time
    Shas,       \* commits of all repositories
    Stripes,    \* the stripe lock files of all repositories
    Stripe,     \* [Shas -> Stripes], sha_lock_path
    Cap,        \* [Procs -> Nat \ {0}], max_concurrent_builds of each process
    SlotWait,   \* SLOT_WAIT_TIMEOUT
    LockWait,   \* BUILD_LOCK_TIMEOUT
    BuildTime,  \* the longest a healthy build takes
    MaxWedged,  \* how many processes may be wedged at one time
    NoProc,     \* the holder of a free lock or slot
    NoSha       \* the SHA of a sidecar that names none

ASSUME StripeAssumption == Stripe \in [Shas -> Stripes]
ASSUME CapAssumption == Cap \in [Procs -> Nat \ {0}]
ASSUME WaitAssumption == SlotWait \in Nat /\ LockWait \in Nat /\ BuildTime \in Nat
                         /\ MaxWedged \in Nat
ASSUME NoneAssumption == NoProc \notin Procs /\ NoSha \notin Shas

Caps == {Cap[p] : p \in Procs}
Slots == UNION {0..(k - 1) : k \in Caps}

(* Bound of `elapsed`: no wait of the code is longer.                       *)
MaxElapsed == LockWait + SlotWait + BuildTime

Roles == {"none", "build", "gc"}
Owners == [pid : Procs \cup {NoProc}, role : Roles, key : Shas \cup {NoSha}]
NoOwner == [pid |-> NoProc, role |-> "none", key |-> NoSha]
Phases == {"none", "unknown", "other-sha", "gc", "slot-wait", "building"}
Reports == [pid : Procs \cup {NoProc}, phase : Phases]
NoReport == [pid |-> NoProc, phase |-> "none"]

(* Control points; at Throttled the process holds a slot or goes without.  *)
Throttled == {"stage", "build", "published"}
Named == {"check", "slot", "retire", "unlock"} \cup Throttled
Locked == {"pid", "name"} \cup Named
Reporting == {"owner", "phase", "timedout", "lastphase"}
Points == {"idle", "try", "reported", "wait", "failed"} \cup Reporting \cup Locked

VARIABLES
    lock,      \* [Stripes -> Procs \cup {NoProc}], the flock of each stripe
    sidecar,   \* [Stripes -> Owners], what the owner sidecar says
    slot,      \* [Slots -> Procs \cup {NoProc}], the flock of each slot file
    staging,   \* builders that have a staging dir
    pc,
    role,      \* what each process runs: a build or a gc sweep
    sha,       \* the SHA it runs for
    elapsed,   \* ticks since its wait or its build began
    free,      \* "no", or why it builds without a slot: "error", "timeout"
    report,    \* the holder it last reported
    wedged,    \* processes that stopped for good while holding a lock
    blocker    \* history: who has held the stripe since the process found it busy

lockVars == <<lock, sidecar, slot>>
jobVars == <<role, sha>>
vars == <<lockVars, staging, pc, jobVars, elapsed, free, report, wedged, blocker>>

MyStripe(p) == Stripe[sha[p]]
MySlots(p) == {i \in Slots : slot[i] = p}

Goto(p, point) == pc' = [pc EXCEPT ![p] = point]
Restart(p) == elapsed' = [elapsed EXCEPT ![p] = 0]

Take(p) ==
    /\ lock[MyStripe(p)] = NoProc
    /\ lock' = [lock EXCEPT ![MyStripe(p)] = p]
    /\ Goto(p, "pid")

(* Return, or die: every descriptor is closed, the sidecar stays.          *)
Leave(p) ==
    /\ lock' = [s \in Stripes |-> IF lock[s] = p THEN NoProc ELSE lock[s]]
    /\ slot' = [i \in Slots |-> IF slot[i] = p THEN NoProc ELSE slot[i]]
    /\ Goto(p, "idle")
    /\ role' = [role EXCEPT ![p] = "none"]
    /\ free' = [free EXCEPT ![p] = "no"]
    /\ report' = [report EXCEPT ![p] = NoReport]
    /\ blocker' = [q \in Procs |-> IF p \in {q, blocker[q]} THEN NoProc ELSE blocker[q]]
    /\ Restart(p)
    /\ sha' = [sha EXCEPT ![p] = NoSha]
    /\ UNCHANGED sidecar

-----------------------------------------------------------------------------
(* The stripe lock.                                                        *)

(* A new process: what an ended one left under its PID is nobody's.        *)
Start(p, r, s) ==
    /\ pc[p] = "idle"
    /\ Goto(p, "try")
    /\ role' = [role EXCEPT ![p] = r]
    /\ sha' = [sha EXCEPT ![p] = s]
    /\ staging' = staging \ {p}
    /\ sidecar' = [t \in Stripes |->
                    IF sidecar[t].pid = p
                    THEN [sidecar[t] EXCEPT !.pid = NoProc] ELSE sidecar[t]]
    /\ UNCHANGED <<lock, slot, elapsed, free, report, wedged, blocker>>

(* try_exclusive, the same for a builder and for gc.                       *)
TryLock(p) ==
    /\ pc[p] = "try"
    /\ Take(p)
    /\ UNCHANGED <<sidecar, slot, staging, jobVars, elapsed, free, report, wedged, blocker>>

(* gc skips a busy stripe; a builder reports the holder, then waits.       *)
SkipBusy(p) ==
    /\ pc[p] = "try"
    /\ role[p] = "gc"
    /\ lock[MyStripe(p)] # NoProc
    /\ Leave(p)
    /\ UNCHANGED <<staging, wedged>>

Busy(p) ==
    /\ pc[p] = "try"
    /\ role[p] = "build"
    /\ lock[MyStripe(p)] # NoProc
    /\ Goto(p, "owner")
    /\ blocker' = [blocker EXCEPT ![p] = lock[MyStripe(p)]]
    /\ UNCHANGED <<lockVars, staging, jobVars, elapsed, free, report, wedged>>

(* What a read of the sidecar returns: fs::write truncates it first, so    *)
(* while the holder writes, nothing may be in it.                          *)
OwnerRead(s) ==
    {sidecar[s]} \cup
        {NoOwner : q \in {q \in Procs : lock[s] = q /\ pc[q] \in {"pid", "name"}}}

(* Holder::read, first the sidecar ...                                     *)
ReadOwner(p) ==
    /\ pc[p] \in {"owner", "timedout"}
    /\ \E o \in OwnerRead(MyStripe(p)) :
        report' = [report EXCEPT ![p] =
            [pid |-> o.pid,
             phase |-> IF o.key = NoSha THEN "unknown"
                       ELSE IF o.key # sha[p] THEN "other-sha"
                       ELSE IF o.role = "gc" THEN "gc" ELSE "slot-wait"]]
    /\ Goto(p, IF pc[p] = "owner" THEN "phase" ELSE "lastphase")
    /\ UNCHANGED <<lockVars, staging, jobVars, elapsed, free, wedged, blocker>>

(* ... then the staging dirs, to tell a build from a wait for a slot.      *)
ReadStaging(p) ==
    /\ pc[p] \in {"phase", "lastphase"}
    /\ report' = IF /\ report[p].phase = "slot-wait"
                    /\ report[p].pid \in staging
                    /\ sha[report[p].pid] = sha[p]
                 THEN [report EXCEPT ![p].phase = "building"] ELSE report
    /\ Goto(p, IF pc[p] = "phase" THEN "reported" ELSE "failed")
    /\ UNCHANGED <<lockVars, staging, jobVars, elapsed, free, wedged, blocker>>

(* The report is printed; a timeout reads it again.                        *)
BeginWait(p) ==
    /\ pc[p] = "reported"
    /\ Goto(p, "wait")
    /\ report' = [report EXCEPT ![p] = NoReport]
    /\ Restart(p)
    /\ UNCHANGED <<lockVars, staging, jobVars, free, wedged, blocker>>

(* acquire_exclusive_within: poll until the lock is free or the budget ends*)
WaitLock(p) ==
    /\ pc[p] = "wait"
    /\ Take(p)
    /\ Restart(p)
    /\ UNCHANGED <<sidecar, slot, staging, jobVars, free, report, wedged, blocker>>

(* Mutants of LockWaitOver: no bound; a bound a healthy holder outlasts.    *)
LockWaitEndless(p) == FALSE
LockWaitShort(p) == elapsed[p] >= SlotWait

LockWaitOver(p) == elapsed[p] >= LockWait

LockTimeout(p) ==
    /\ pc[p] = "wait"
    /\ lock[MyStripe(p)] # NoProc
    /\ LockWaitOver(p)
    /\ Goto(p, "timedout")
    /\ UNCHANGED <<lockVars, staging, jobVars, elapsed, free, report, wedged, blocker>>

(* The error that names the holder is returned.                            *)
GiveUp(p) ==
    /\ pc[p] = "failed"
    /\ Leave(p)
    /\ UNCHANGED <<staging, wedged>>

(* Any other error of a lock is returned at once.                          *)
LockError(p) ==
    /\ pc[p] \in {"try", "wait"}
    /\ Leave(p)
    /\ UNCHANGED <<staging, wedged>>

(* The holder writes its PID, then its PID, role and SHA.                  *)
RecordPid(p) ==
    /\ pc[p] = "pid"
    /\ sidecar' = [sidecar EXCEPT ![MyStripe(p)] = [NoOwner EXCEPT !.pid = p]]
    /\ Goto(p, "name")
    /\ UNCHANGED <<lock, slot, staging, jobVars, elapsed, free, report, wedged, blocker>>

(* Mutant of RecordOwner: the sidecar keeps what the PID write left.        *)
RecordOwnerSkipped(p) ==
    /\ pc[p] = "name"
    /\ Goto(p, IF role[p] = "gc" THEN "retire" ELSE "check")
    /\ UNCHANGED <<lockVars, staging, jobVars, elapsed, free, report, wedged, blocker>>

RecordOwner(p) ==
    /\ pc[p] = "name"
    /\ sidecar' = [sidecar EXCEPT ![MyStripe(p)] =
                    [pid |-> p, role |-> role[p], key |-> sha[p]]]
    /\ Goto(p, IF role[p] = "gc" THEN "retire" ELSE "check")
    /\ UNCHANGED <<lock, slot, staging, jobVars, elapsed, free, report, wedged, blocker>>

-----------------------------------------------------------------------------
(* Under the stripe lock.                                                  *)

(* Mutant of Return: a descriptor that outlives the guard keeps the flock.  *)
ReturnLeaks(p) ==
    /\ pc[p] \in {"check", "retire", "stage", "unlock"}
    /\ Goto(p, "idle")
    /\ UNCHANGED <<lockVars, staging, jobVars, elapsed, free, report, wedged, blocker>>

(* Already built, or an error before the slot; gc is done.                 *)
Return(p) ==
    /\ pc[p] \in {"check", "retire", "stage", "unlock"}
    /\ Leave(p)
    /\ UNCHANGED <<staging, wedged>>

NeedBuild(p) ==
    /\ pc[p] = "check"
    /\ Goto(p, "slot")
    /\ Restart(p)
    /\ UNCHANGED <<lockVars, staging, jobVars, free, report, wedged, blocker>>

(* Mutant of TakeSlot: the guard of the slot is dropped at once.            *)
TakeSlotDropped(p) ==
    /\ pc[p] = "slot"
    /\ \E i \in 0..(Cap[p] - 1) : slot[i] = NoProc
    /\ Goto(p, "stage")
    /\ Restart(p)
    /\ UNCHANGED <<lockVars, staging, jobVars, free, report, wedged, blocker>>

(* semaphore::acquire: any free slot file below this process's own cap.    *)
TakeSlot(p) ==
    /\ pc[p] = "slot"
    /\ \E i \in 0..(Cap[p] - 1) :
        /\ slot[i] = NoProc
        /\ slot' = [slot EXCEPT ![i] = p]
    /\ Goto(p, "stage")
    /\ Restart(p)
    /\ UNCHANGED <<lock, sidecar, staging, jobVars, free, report, wedged, blocker>>

(* No slot dir, or no slot for SlotWait: build without one.                *)
NoSlot(p, why) ==
    /\ pc[p] = "slot"
    /\ why = "timeout" => elapsed[p] >= SlotWait
    /\ free' = [free EXCEPT ![p] = why]
    /\ Goto(p, "stage")
    /\ Restart(p)
    /\ UNCHANGED <<lockVars, staging, jobVars, report, wedged, blocker>>

CreateStaging(p) ==
    /\ pc[p] = "stage"
    /\ staging' = staging \cup {p}
    /\ Goto(p, "build")
    /\ UNCHANGED <<lockVars, jobVars, elapsed, free, report, wedged, blocker>>

(* The build ends, published or failed: the staging dir is gone.           *)
EndBuild(p) ==
    /\ pc[p] = "build"
    /\ staging' = staging \ {p}
    /\ Goto(p, "published")
    /\ Restart(p)
    /\ UNCHANGED <<lockVars, jobVars, free, report, wedged, blocker>>

(* The slot goes first, then the stripe lock.                              *)
DropSlot(p) ==
    /\ pc[p] = "published"
    /\ slot' = [i \in Slots |-> IF slot[i] = p THEN NoProc ELSE slot[i]]
    /\ Goto(p, "unlock")
    /\ UNCHANGED <<lock, sidecar, staging, jobVars, elapsed, free, report, wedged, blocker>>

-----------------------------------------------------------------------------
(* The environment.                                                        *)

(* A process is killed: its staging dir and its sidecar stay.              *)
Crash(p) ==
    /\ pc[p] # "idle"
    /\ Leave(p)
    /\ wedged' = wedged \ {p}
    /\ UNCHANGED staging

(* A holder stops: a hung disk, a stopped process.                         *)
Wedge(p) ==
    /\ pc[p] \in Locked
    /\ Cardinality(wedged) < MaxWedged
    /\ wedged' = wedged \cup {p}
    /\ UNCHANGED <<lockVars, staging, pc, jobVars, elapsed, free, report, blocker>>

(* A healthy process never lets a minute pass except where the code waits. *)
MayWait(p) ==
    \/ pc[p] = "idle"
    \/ pc[p] = "wait" /\ lock[MyStripe(p)] # NoProc /\ ~ LockWaitOver(p)
    \/ pc[p] = "slot" /\ elapsed[p] < SlotWait
    \/ pc[p] = "build" /\ elapsed[p] < BuildTime

TimeMayPass == \A p \in Procs : p \in wedged \/ MayWait(p)

Tick ==
    /\ TimeMayPass
    /\ elapsed' = [p \in Procs |->
                    IF p \in wedged \/ pc[p] = "idle" \/ elapsed[p] = MaxElapsed
                    THEN elapsed[p] ELSE elapsed[p] + 1]
    /\ UNCHANGED <<lockVars, staging, pc, jobVars, free, report, wedged, blocker>>

Init ==
    /\ lock = [s \in Stripes |-> NoProc]
    /\ sidecar = [s \in Stripes |-> NoOwner]
    /\ slot = [i \in Slots |-> NoProc]
    /\ staging = {}
    /\ pc = [p \in Procs |-> "idle"]
    /\ role = [p \in Procs |-> "none"]
    /\ sha = [p \in Procs |-> NoSha]
    /\ elapsed = [p \in Procs |-> 0]
    /\ free = [p \in Procs |-> "no"]
    /\ report = [p \in Procs |-> NoReport]
    /\ wedged = {}
    /\ blocker = [p \in Procs |-> NoProc]

Step(p) ==
    /\ p \notin wedged
    /\ \/ TryLock(p) \/ SkipBusy(p) \/ Busy(p) \/ ReadOwner(p) \/ ReadStaging(p)
       \/ BeginWait(p) \/ WaitLock(p) \/ LockTimeout(p) \/ GiveUp(p) \/ RecordPid(p)
       \/ RecordOwner(p) \/ Return(p) \/ NeedBuild(p) \/ TakeSlot(p)
       \/ NoSlot(p, "timeout") \/ CreateStaging(p) \/ EndBuild(p) \/ DropSlot(p)

(* What may happen, and need not.                                          *)
Fault(p) ==
    \/ p \notin wedged /\ (LockError(p) \/ NoSlot(p, "error"))
    \/ Crash(p)
    \/ Wedge(p)

Next ==
    \/ \E p \in Procs :
        \/ \E r \in {"build", "gc"}, s \in Shas : Start(p, r, s)
        \/ Step(p)
        \/ Fault(p)
    \/ Tick

Spec == Init /\ [][Next]_vars

(* A process that is not wedged keeps running, and time passes: there are  *)
(* not endlessly many runs of instant code within one tick.                *)
FairSpec ==
    /\ Spec
    /\ \A p \in Procs : WF_vars(Step(p))
    /\ []<>TimeMayPass
    /\ SF_vars(Tick)

-----------------------------------------------------------------------------
(* Properties.                                                             *)

(* Every variable stays in its set, and only a run that has not returned   *)
(* holds a stripe, the one of its SHA.                                     *)
TypeOK ==
    /\ \A s \in Stripes : lock[s] # NoProc =>
            pc[lock[s]] \in Locked /\ MyStripe(lock[s]) = s
    /\ lock \in [Stripes -> Procs \cup {NoProc}]
    /\ sidecar \in [Stripes -> Owners]
    /\ slot \in [Slots -> Procs \cup {NoProc}]
    /\ staging \subseteq Procs
    /\ pc \in [Procs -> Points]
    /\ role \in [Procs -> Roles]
    /\ sha \in [Procs -> Shas \cup {NoSha}]
    /\ elapsed \in [Procs -> 0..MaxElapsed]
    /\ free \in [Procs -> {"no", "error", "timeout"}]
    /\ report \in [Procs -> Reports]
    /\ wedged \subseteq Procs
    /\ blocker \in [Procs -> Procs \cup {NoProc}]

(* Processes may be given different caps.  Of those with a cap of k or     *)
(* less, at most k build at one time, besides the ones whose wait for a    *)
(* slot timed out or failed (the slot is held for the whole build).        *)
Throttle ==
    \A k \in Caps :
        Cardinality({p \in Procs : /\ pc[p] \in Throttled
                                  /\ free[p] = "no"
                                  /\ Cap[p] <= k}) <= k

(* A builder that gives up on a stripe one process held throughout its     *)
(* wait names that process, for which SHA and in which phase it holds it,  *)
(* unless that process stopped before it named itself.                     *)
TimeoutNamesHolder ==
    \A p, q \in Procs :
        pc[p] = "failed" /\ blocker[p] = q /\ pc[q] \in Named
            => report[p] = [pid |-> q, phase |->
                    IF sha[q] # sha[p] THEN "other-sha"
                    ELSE IF role[q] = "gc" THEN "gc"
                    ELSE IF q \in staging THEN "building" ELSE "slot-wait"]

(* The budget of a waiter covers the wait for a slot and the build of a    *)
(* healthy holder: a builder gives up on a process that held the stripe    *)
(* throughout its wait, and still does, only when that process is wedged.  *)
PatientWait ==
    \A p \in Procs :
        pc[p] = "failed" /\ blocker[p] # NoProc => blocker[p] \in wedged

(* Every build and sweep that starts ends, or is wedged itself: no process *)
(* hangs because another one does.                                         *)
NoHang ==
    \A p \in Procs : (pc[p] # "idle") ~> (pc[p] = "idle" \/ p \in wedged)
==============================================================================
