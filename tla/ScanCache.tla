------------------------------ MODULE ScanCache ------------------------------
(***************************************************************************)
(* CommitIndex::scan_cached: the answer of a read of commits/ kept in the  *)
(* memory of one long-lived process and shared by its threads.  The cache  *)
(* is keyed on the mtime of commits/, which is a coarse stamp of the wall  *)
(* clock; the wall clock may step, the monotonic clock does not.           *)
(*                                                                         *)
(* The content of commits/ is the number of changes made to it so far.     *)
(* Clocks count ticks of a second.                                         *)
(***************************************************************************)
EXTENDS Integers

CONSTANTS
    Threads,    \* threads of the process, each may read or publish
    MaxAge,     \* SCAN_CACHE_MAX_AGE
    Settle,     \* SCAN_CACHE_SETTLE
    Coarse,     \* how far the stamp of a change may lie behind the clock
    MaxSteps,   \* how often the wall clock may be set
    MaxTime,    \* bound of both clocks
    MaxChanges, \* bound of the changes made to commits/
    NoScan      \* no cached scan

ASSUME AgeAssumption == MaxAge \in Nat /\ Settle \in Nat /\ Coarse \in Nat
ASSUME CoarseAssumption == Coarse < Settle
ASSUME TimeAssumption == MaxTime \in Nat /\ Settle <= MaxTime /\ MaxChanges \in Nat
ASSUME StepsAssumption == MaxSteps \in Nat

Times == 0..MaxTime
Contents == 0..MaxChanges
Scans == [mtime : Times, scannedAt : Times, index : Contents]

ASSUME NoScanAssumption == NoScan \notin Scans

VARIABLES
    content,  \* what commits/ holds
    mtime,    \* its modification time
    wall,     \* SystemTime
    mono,     \* Instant
    steps,    \* how often the wall clock was set
    epoch,    \* CacheSlot.epoch
    scan,     \* CacheSlot.scan
    pc,       \* control point of each thread
    call,     \* what its call knows: both clocks, the stat, the epoch, the answer
    born,     \* history: when, on the monotonic clock, each content appeared
    floor,    \* history: newest content a publish of this process returned
    seen      \* history: content at the begin and the stat of a call

fsVars == <<content, mtime, born>>
clockVars == <<wall, mono, steps>>
cacheVars == <<epoch, scan>>
vars == <<fsVars, clockVars, cacheVars, pc, call, floor, seen>>

NoCall == [wallNow |-> 0, monoNow |-> 0, mtime |-> 0, epoch |-> 0, index |-> 0]
NotSeen == [floor |-> 0, stat |-> 0]

(* What a call that found its answer still knows.                          *)
Answered(t, index) ==
    call' = [call EXCEPT ![t] =
                [NoCall EXCEPT !.monoNow = call[t].monoNow, !.index = index]]

Goto(t, point) == pc' = [pc EXCEPT ![t] = point]

-----------------------------------------------------------------------------
(* A change of commits/: a publish or a retire renames a dir.              *)

Change ==
    /\ content < MaxChanges
    /\ content' = content + 1
    /\ born' = [born EXCEPT ![content + 1] = mono]
    /\ mtime' \in {m \in Times : wall - Coarse <= m /\ m <= wall}

(* Another process changes commits/.                                       *)
OtherChange ==
    /\ Change
    /\ UNCHANGED <<clockVars, cacheVars, pc, call, floor, seen>>

(* publish_staging: the rename, and after the fsync the invalidate.        *)
PublishRename(t) ==
    /\ pc[t] = "idle"
    /\ Change
    /\ Goto(t, "invalidate")
    /\ call' = [call EXCEPT ![t].index = content + 1]
    /\ UNCHANGED <<clockVars, cacheVars, floor, seen>>

(* Mutant of Invalidate: the entry goes, the scans under way stay valid.    *)
InvalidateKeepsEpoch(t) ==
    /\ pc[t] = "invalidate"
    /\ scan' = NoScan
    /\ floor' = IF call[t].index > floor THEN call[t].index ELSE floor
    /\ Goto(t, "idle")
    /\ call' = [call EXCEPT ![t] = NoCall]
    /\ UNCHANGED <<fsVars, clockVars, epoch, seen>>

Invalidate(t) ==
    /\ pc[t] = "invalidate"
    /\ epoch' = epoch + 1
    /\ scan' = NoScan
    /\ floor' = IF call[t].index > floor THEN call[t].index ELSE floor
    /\ Goto(t, "idle")
    /\ call' = [call EXCEPT ![t] = NoCall]
    /\ UNCHANGED <<fsVars, clockVars, seen>>

-----------------------------------------------------------------------------
(* scan_cached.                                                            *)

(* Both clocks are read before anything else.                              *)
Begin(t) ==
    /\ pc[t] = "idle"
    /\ Goto(t, "stat")
    /\ call' = [call EXCEPT ![t].wallNow = wall, ![t].monoNow = mono]
    /\ seen' = [seen EXCEPT ![t].floor = floor]
    /\ UNCHANGED <<fsVars, clockVars, cacheVars, floor>>

Stat(t) ==
    /\ pc[t] = "stat"
    /\ Goto(t, "lookup")
    /\ call' = [call EXCEPT ![t].mtime = mtime]
    /\ seen' = [seen EXCEPT ![t].stat = content]
    /\ UNCHANGED <<fsVars, clockVars, cacheVars, floor>>

(* No mtime: a plain scan, which may fail too.                             *)
PlainScan(t) ==
    /\ pc[t] = "stat"
    /\ Goto(t, "answer")
    /\ Answered(t, content)
    /\ seen' = [seen EXCEPT ![t].stat = content]
    /\ UNCHANGED <<fsVars, clockVars, cacheVars, floor>>

(* Mutant of Hit: the mtime alone decides.                                 *)
HitAnyAge(t) == scan # NoScan /\ scan.mtime = call[t].mtime

(* Under the read lock: the entry has the mtime of the stat and is young.  *)
(* An entry scanned after this call read its clock has no age: a miss.     *)
Hit(t) ==
    /\ scan # NoScan
    /\ scan.mtime = call[t].mtime
    /\ call[t].monoNow >= scan.scannedAt
    /\ call[t].monoNow - scan.scannedAt < MaxAge

CacheHit(t) ==
    /\ pc[t] = "lookup"
    /\ Hit(t)
    /\ Goto(t, "answer")
    /\ Answered(t, scan.index)
    /\ UNCHANGED <<fsVars, clockVars, cacheVars, floor, seen>>

CacheMiss(t) ==
    /\ pc[t] = "lookup"
    /\ ~ Hit(t)
    /\ Goto(t, "scan")
    /\ call' = [call EXCEPT ![t].epoch = epoch]
    /\ UNCHANGED <<fsVars, clockVars, cacheVars, floor, seen>>

(* The read of commits/, without any lock.                                 *)
Scan(t) ==
    /\ pc[t] = "scan"
    /\ Goto(t, "store")
    /\ call' = [call EXCEPT ![t].index = content]
    /\ UNCHANGED <<fsVars, clockVars, cacheVars, floor, seen>>

ScanError(t) ==
    /\ pc[t] \in {"stat", "scan"}
    /\ Goto(t, "idle")
    /\ call' = [call EXCEPT ![t] = NoCall]
    /\ seen' = [seen EXCEPT ![t] = NotSeen]
    /\ UNCHANGED <<fsVars, clockVars, cacheVars, floor>>

(* Mutant of Settled: the stamp of this very tick counts as settled.       *)
SettledAtOnce(t) == call[t].wallNow >= call[t].mtime

(* A younger mtime could still be shared by a later change.                *)
Settled(t) == call[t].wallNow - call[t].mtime >= Settle

(* Mutant of Store: every write moves the epoch.                            *)
StoreMovesEpoch(t) ==
    /\ pc[t] = "store"
    /\ Goto(t, "answer")
    /\ scan' = IF Settled(t) /\ call[t].epoch = epoch
               THEN [mtime |-> call[t].mtime, scannedAt |-> call[t].monoNow,
                     index |-> call[t].index]
               ELSE scan
    /\ epoch' = epoch + 1
    /\ Answered(t, call[t].index)
    /\ UNCHANGED <<fsVars, clockVars, floor, seen>>

(* Under the write lock; a scan that began before an invalidate is dropped.*)
Store(t) ==
    /\ pc[t] = "store"
    /\ Goto(t, "answer")
    /\ scan' = IF Settled(t) /\ call[t].epoch = epoch
               THEN [mtime |-> call[t].mtime, scannedAt |-> call[t].monoNow,
                     index |-> call[t].index]
               ELSE scan
    /\ Answered(t, call[t].index)
    /\ UNCHANGED <<fsVars, clockVars, epoch, floor, seen>>

(* The answer is in call[t].index; the thread goes back to its work.       *)
Answer(t) ==
    /\ pc[t] = "answer"
    /\ Goto(t, "idle")
    /\ call' = [call EXCEPT ![t] = NoCall]
    /\ seen' = [seen EXCEPT ![t] = NotSeen]
    /\ UNCHANGED <<fsVars, clockVars, cacheVars, floor>>

-----------------------------------------------------------------------------
(* Clocks.                                                                 *)

Tick ==
    /\ wall < MaxTime /\ mono < MaxTime
    /\ wall' = wall + 1
    /\ mono' = mono + 1
    /\ UNCHANGED <<fsVars, steps, cacheVars, pc, call, floor, seen>>

SetClock ==
    /\ steps < MaxSteps
    /\ steps' = steps + 1
    /\ wall' \in Times \ {wall}
    /\ UNCHANGED <<fsVars, mono, cacheVars, pc, call, floor, seen>>

(* The process starts when commits/ has settled.                           *)
Init ==
    /\ content = 0
    /\ wall = Settle
    /\ mtime = 0
    /\ mono = 0
    /\ steps = 0
    /\ epoch = 0
    /\ scan = NoScan
    /\ pc = [t \in Threads |-> "idle"]
    /\ call = [t \in Threads |-> NoCall]
    /\ born = [c \in Contents |-> 0]
    /\ floor = 0
    /\ seen = [t \in Threads |-> NotSeen]

Next ==
    \/ \E t \in Threads :
        \/ PublishRename(t) \/ Invalidate(t) \/ Begin(t) \/ Stat(t)
        \/ PlainScan(t) \/ CacheHit(t) \/ CacheMiss(t) \/ Scan(t)
        \/ ScanError(t) \/ Store(t) \/ Answer(t)
    \/ OtherChange
    \/ Tick
    \/ SetClock

Spec == Init /\ [][Next]_vars

-----------------------------------------------------------------------------
(* Properties.                                                             *)

(* Every variable stays in its set.                                        *)
TypeOK ==
    /\ content \in Contents
    /\ mtime \in Times /\ wall \in Times /\ mono \in Times
    /\ steps \in 0..MaxSteps
    /\ epoch \in 0..MaxChanges
    /\ scan \in Scans \cup {NoScan}
    /\ pc \in [Threads -> {"idle", "stat", "lookup", "scan", "store", "answer",
                           "invalidate"}]
    /\ call \in [Threads -> [wallNow : Times, monoNow : Times, mtime : Times,
                             epoch : 0..MaxChanges, index : Contents]]
    /\ born \in [Contents -> Times]
    /\ floor \in Contents
    /\ seen \in [Threads -> [floor : Contents, stat : Contents]]

(* A call that begins after a publish of this process returned never       *)
(* answers from before that publish, whatever the clocks do (the epoch     *)
(* keeps out a scan that raced the publish).                               *)
OwnPublishSeen ==
    \A t \in Threads : pc[t] = "answer" => call[t].index >= seen[t].floor

(* A change made by another process stays unseen for at most MaxAge of the *)
(* monotonic clock, whatever the wall clock does.                          *)
FreshWithinMaxAge ==
    \A t \in Threads : pc[t] = "answer" =>
        \A c \in Contents : call[t].index < c /\ c <= content
            => born[c] + MaxAge > call[t].monoNow

(* Where the wall clock only runs forward, an answer is never older than   *)
(* the stat of its call: two changes in one coarse tick are not confused.  *)
ExactWhileClockRuns ==
    steps = 0 => \A t \in Threads : pc[t] = "answer" => call[t].index >= seen[t].stat
==============================================================================
