----------------------------- MODULE CommitStore -----------------------------
(***************************************************************************)
(* The directory commits/ of one repository, and every process that adds   *)
(* or removes a commit graph in it: builders (build_l2, force_rebuild_l2)  *)
(* and the sweeps of `ecp admin gc`.  There is no daemon.  The processes   *)
(* meet only on the file system: each step below is one system call or one *)
(* run of code between two of them, a process may die before any of them,  *)
(* and a power loss may undo what was renamed but not yet fsynced.         *)
(*                                                                         *)
(* A published dir is a record [sha, gen, by]: gen 0 is the bare name, gen *)
(* n > 0 the name `<base>.gen.<n>...`; `by`, the process that built it,    *)
(* stands for the branch label, the PID and the counter that keep names of *)
(* one generation apart, and for the binary (Version[by]: its builder      *)
(* fingerprint and graph format).  Two names that one entry of Procs gives *)
(* one generation of a SHA (only a power loss can leave both) are one dir. *)
(***************************************************************************)
EXTENDS Integers, FiniteSets

CONSTANTS
    Procs,      \* the processes that may run at one time
    Shas,       \* commits that can be built
    Stripes,    \* SHA lock files: one per first byte of a SHA
    Stripe,     \* [Shas -> Stripes], sha_lock_path
    Version,    \* [Procs -> Nat], the binary each process runs
    Jobs,       \* [Procs -> SUBSET JobKinds], what each process is started for
    MaxGen,     \* largest generation timestamp (u64::MAX in the code)
    MaxAttempts, \* staging names one process tries (64 in the code)
    TornReads,  \* processes whose reads of commits/ may miss entries
    Atime,      \* TRUE: mapping a graph refreshes its access time
    NoProc,     \* the owner of a free lock
    NoDir       \* no commit dir

ASSUME StripeAssumption == Stripe \in [Shas -> Stripes]
ASSUME VersionAssumption == Version \in [Procs -> Nat]
ASSUME BoundAssumption == MaxGen \in Nat /\ MaxAttempts \in Nat
ASSUME FlagAssumption == TornReads \subseteq Procs /\ Atime \in BOOLEAN
ASSUME NoProcAssumption == NoProc \notin Procs

Gens == 0..MaxGen
Attempts == 1..MaxAttempts
Dirs == [sha : Shas, gen : Gens, by : Procs]
StagingDirs == [sha : Shas, proc : Procs, attempt : Attempts]

ASSUME NoDirAssumption == NoDir \notin Dirs

BuildKinds == {"build", "force"}
IdleSweeps == {"unreachable", "oldformat"}
SweepKinds == IdleSweeps \cup {"generations", "staging"}
JobKinds == BuildKinds \cup SweepKinds

ASSUME JobsAssumption == Jobs \in [Procs -> SUBSET JobKinds]

(* Control points at which a process holds the stripe lock of its SHA.     *)
Building == {"analyze", "flush", "rename"}
Naming == {"clean", "stage", "fail"} \cup Building
Locked == {"recheck", "invalidate", "name", "fsync", "finish",
           "judge", "sync", "retire"} \cup Naming
Points == {"idle", "look", "attach", "wait", "trylock"} \cup Locked

VARIABLES
    dirs,      \* published dirs a read of commits/ finds
    durable,   \* published dirs whose name survives a power loss
    flushed,   \* dirs, staging or published, whose files were fsynced
    staging,   \* per-attempt staging dirs
    idle,      \* published dirs whose last use is older than the grace
    lock,      \* [Stripes -> Procs \cup {NoProc}], the flock of each stripe
    pc,        \* control point of each process
    kind,      \* what each process runs
    sha,       \* the SHA it runs for
    pick,      \* attach: the dir looked at; generations: the dir to keep
    gen,       \* the generation its build will publish
    own,       \* the attempt number of its staging dir
    victims,   \* what gc decided to retire
    promised,  \* history: SHAs with a build no power loss may lose
    used       \* history: dirs used between a sweep's first read and its lock

nameVars == <<dirs, durable, promised>>
diskVars == <<nameVars, flushed, staging, idle>>
jobVars == <<kind, sha, pick, gen, own, victims>>
vars == <<diskVars, lock, pc, jobVars, used>>

-----------------------------------------------------------------------------
(* Reads of commits/.                                                      *)

Same(s) == {d \in dirs : d.sha = s}
StagingOf(s) == {d \in staging : d.sha = s}

(* d may be what CommitDirListing::current picks among D (rank_cmp).  Dirs *)
(* of one generation are told apart by PID, mtime and name: any of them.   *)
IsCurrent(d, D) == d \in D /\ \A e \in D : e.gen <= d.gen

(* What one read of commits/ by p may return for its SHA.                  *)
Listings(p) ==
    IF p \in TornReads THEN SUBSET Same(sha[p]) ELSE {Same(sha[p])}

(* attach_if_fingerprint_matches: meta.json is there and names this build. *)
Usable(d, p) == d \in dirs /\ Version[d.by] = Version[p]

OwnStaging(p) == [sha |-> sha[p], proc |-> p, attempt |-> own[p]]
NewDir(p) == [sha |-> sha[p], gen |-> gen[p], by |-> p]

(* Mutant of NextGen: the wall clock alone names a generation.              *)
NextGenByClock(newest, now) == IF now > 0 THEN now ELSE 1

(* next_publish_name: 0 when the SHA has no dir, else above all of them.   *)
NextGen(newest, now) == IF now > newest + 1 THEN now ELSE newest + 1

ShasIn(D) == {d.sha : d \in D}

-----------------------------------------------------------------------------
(* Steps every process shares.                                             *)

Goto(p, point) == pc' = [pc EXCEPT ![p] = point]

(* The process drops its lock, if it holds one, and its local state: it    *)
(* returned, with a result or an error, or it died.                        *)
Leave(p) ==
    /\ lock' = [s \in Stripes |-> IF lock[s] = p THEN NoProc ELSE lock[s]]
    /\ Goto(p, "idle")
    /\ kind' = [kind EXCEPT ![p] = "none"]
    /\ pick' = [pick EXCEPT ![p] = NoDir]
    /\ gen' = [gen EXCEPT ![p] = 0]
    /\ own' = [own EXCEPT ![p] = 0]
    /\ victims' = [victims EXCEPT ![p] = {}]
    /\ used' = [used EXCEPT ![p] = {}]
    /\ UNCHANGED sha

Begin(p, k, s, point) ==
    /\ pc[p] = "idle"
    /\ Goto(p, point)
    /\ kind' = [kind EXCEPT ![p] = k]
    /\ sha' = [sha EXCEPT ![p] = s]
    /\ UNCHANGED <<diskVars, lock, gen, own, victims, used>>

(* A dir was used: the idle sweeps that have not locked yet must see it.   *)
NoteUse(d) ==
    used' = [p \in Procs |->
                IF pc[p] = "trylock" /\ kind[p] \in IdleSweeps
                THEN used[p] \cup {d} ELSE used[p]]

TakeLock(p, point) ==
    /\ lock[Stripe[sha[p]]] = NoProc
    /\ lock' = [lock EXCEPT ![Stripe[sha[p]]] = p]
    /\ Goto(p, point)
    /\ UNCHANGED <<diskVars, jobVars, used>>

(* fsync of commits/: every name it holds now is durable, and the names    *)
(* that left it are gone for good.                                         *)
FsyncNames ==
    /\ durable' = dirs
    /\ flushed' = flushed \cap (dirs \cup staging)
    /\ promised' = promised \cup ShasIn(dirs)
    /\ UNCHANGED <<dirs, staging, idle>>

-----------------------------------------------------------------------------
(* Builders.                                                               *)

StartBuild(p, s) == Begin(p, "build", s, "look") /\ UNCHANGED pick

(* --force never attaches: it goes straight to the lock.                   *)
StartForce(p, s) == Begin(p, "force", s, "wait") /\ UNCHANGED pick

(* The fast path scans without the lock, best effort.                      *)
Look(p) ==
    /\ pc[p] = "look"
    /\ \E L \in Listings(p) :
        \/ /\ L = {}
           /\ Goto(p, "wait")
           /\ UNCHANGED pick
        \/ \E d \in L :
            /\ IsCurrent(d, L)
            /\ Goto(p, "attach")
            /\ pick' = [pick EXCEPT ![p] = d]
    /\ UNCHANGED <<diskVars, lock, kind, sha, gen, own, victims, used>>

(* An attach maps graph.bin, which refreshes its access time where the     *)
(* mount keeps one.  It rewrites two sidecars; that moves the dir's mtime  *)
(* only when one of them was missing.                                      *)
Use(d) ==
    /\ idle' \in IF Atime THEN {idle \ {d}} ELSE {idle, idle \ {d}}
    /\ UNCHANGED <<nameVars, flushed, staging>>

Attached(p, d) ==
    /\ Use(d)
    /\ NoteUse(d)
    /\ lock' = [s \in Stripes |-> IF lock[s] = p THEN NoProc ELSE lock[s]]
    /\ Goto(p, "idle")
    /\ kind' = [kind EXCEPT ![p] = "none"]
    /\ pick' = [pick EXCEPT ![p] = NoDir]
    /\ UNCHANGED <<sha, gen, own, victims>>

Attach(p) ==
    /\ pc[p] = "attach"
    /\ Usable(pick[p], p)
    /\ Attached(p, pick[p])

Decline(p) ==
    /\ pc[p] = "attach"
    /\ ~ Usable(pick[p], p)
    /\ Goto(p, "wait")
    /\ pick' = [pick EXCEPT ![p] = NoDir]
    /\ UNCHANGED <<diskVars, lock, kind, sha, gen, own, victims, used>>

(* Mutant of Acquire: the lock taken, the publish state is not checked     *)
(* again.                                                                  *)
AcquireNoRecheck(p) ==
    /\ pc[p] = "wait"
    /\ TakeLock(p, "name")

Acquire(p) ==
    /\ pc[p] = "wait"
    /\ TakeLock(p, IF kind[p] = "build" THEN "recheck" ELSE "invalidate")

(* Mutant of TimeOut: go on without the lock.                              *)
TimeOutProceeds(p) ==
    /\ pc[p] = "wait"
    /\ lock[Stripe[sha[p]]] # NoProc
    /\ Goto(p, "name")
    /\ UNCHANGED <<diskVars, lock, jobVars, used>>

(* The wait is bounded; a builder that gives up reports the holder.        *)
TimeOut(p) ==
    /\ pc[p] = "wait"
    /\ lock[Stripe[sha[p]]] # NoProc
    /\ Leave(p)
    /\ UNCHANGED diskVars

(* Checked again under the lock: the build may have been published while   *)
(* this one waited.                                                        *)
RecheckAttach(p) ==
    /\ pc[p] = "recheck"
    /\ \E L \in Listings(p) : \E d \in L :
        /\ IsCurrent(d, L)
        /\ Usable(d, p)
        /\ Attached(p, d)

RecheckMiss(p) ==
    /\ pc[p] = "recheck"
    /\ \E L \in Listings(p) :
        L = {} \/ \E d \in L : IsCurrent(d, L) /\ ~ Usable(d, p)
    /\ Goto(p, "name")
    /\ UNCHANGED <<diskVars, lock, jobVars, used>>

(* --force drops the overlays built on this SHA and the parse cache first; *)
(* an error there ends it.  The overlays are not part of this module.      *)
Invalidate(p) ==
    /\ pc[p] = "invalidate"
    /\ Goto(p, "name")
    /\ UNCHANGED <<diskVars, lock, jobVars, used>>

(* Mutant of ChooseName: the addition is not checked for overflow.         *)
ChooseNameUnchecked(p) ==
    /\ pc[p] = "name"
    /\ \/ /\ Same(sha[p]) = {}
          /\ UNCHANGED gen
       \/ \E d \in Same(sha[p]), now \in Gens :
            /\ IsCurrent(d, Same(sha[p]))
            /\ gen' = [gen EXCEPT ![p] = NextGen(d.gen, now)]
    /\ Goto(p, "clean")
    /\ UNCHANGED <<diskVars, lock, kind, sha, pick, own, victims, used>>

(* The name is chosen over a complete listing; the wall clock may say      *)
(* anything, so `now` is any timestamp.                                    *)
ChooseName(p) ==
    /\ pc[p] = "name"
    /\ \/ /\ Same(sha[p]) = {}
          /\ UNCHANGED gen
       \/ \E d \in Same(sha[p]), now \in Gens :
            /\ IsCurrent(d, Same(sha[p]))
            /\ NextGen(d.gen, now) <= MaxGen
            /\ gen' = [gen EXCEPT ![p] = NextGen(d.gen, now)]
    /\ Goto(p, "clean")
    /\ UNCHANGED <<diskVars, lock, kind, sha, pick, own, victims, used>>

(* Retire what dead builders of this SHA left; a retire may fail.          *)
RetireAbandoned(p) ==
    /\ pc[p] = "clean"
    /\ \E kept \in SUBSET StagingOf(sha[p]) :
        /\ staging' = (staging \ StagingOf(sha[p])) \cup kept
        /\ flushed' = flushed \ (StagingOf(sha[p]) \ kept)
    /\ Goto(p, "stage")
    /\ UNCHANGED <<nameVars, idle, lock, jobVars, used>>

(* create_dir fails on a name that exists: the dir is this attempt's own.  *)
CreateStaging(p) ==
    /\ pc[p] = "stage"
    /\ \E a \in Attempts :
        LET d == [sha |-> sha[p], proc |-> p, attempt |-> a]
        IN  /\ d \notin staging
            /\ staging' = staging \cup {d}
            /\ flushed' = flushed \ {d}
            /\ own' = [own EXCEPT ![p] = a]
    /\ Goto(p, "analyze")
    /\ UNCHANGED <<nameVars, idle, lock, kind, sha, pick, gen, victims, used>>

(* An error before the staging dir exists: the lock goes with the return.  *)
GiveUp(p) ==
    /\ pc[p] \in {"invalidate", "name", "stage"}
    /\ Leave(p)
    /\ UNCHANGED diskVars

(* build_into_staging writes graph, meta.json and sidecars.                *)
Analyze(p) ==
    /\ pc[p] = "analyze"
    /\ Goto(p, "flush")
    /\ UNCHANGED <<diskVars, lock, jobVars, used>>

(* sync_tree: every file and dir of the staging dir, bottom-up.            *)
FlushTree(p) ==
    /\ pc[p] = "flush"
    /\ flushed' = flushed \cup {OwnStaging(p)}
    /\ Goto(p, "rename")
    /\ UNCHANGED <<nameVars, staging, idle, lock, jobVars, used>>

(* Mutant of Publish: the new dir takes the place of the older ones at     *)
(* once, before its name is durable.                                       *)
PublishInPlace(p) ==
    /\ pc[p] = "rename"
    /\ OwnStaging(p) \in staging
    /\ dirs' = (dirs \ Same(sha[p])) \cup {NewDir(p)}
    /\ durable' = durable \ {NewDir(p)}
    /\ staging' = staging \ {OwnStaging(p)}
    /\ flushed' = (flushed \ {OwnStaging(p), NewDir(p)})
                    \cup {d \in {NewDir(p)} : OwnStaging(p) \in flushed}
    /\ idle' = idle \ Same(sha[p])
    /\ NoteUse(NewDir(p))
    /\ Goto(p, "fsync")
    /\ UNCHANGED <<promised, lock, jobVars>>

(* The rename is the publication.                                          *)
Publish(p) ==
    /\ pc[p] = "rename"
    /\ OwnStaging(p) \in staging
    /\ dirs' = dirs \cup {NewDir(p)}
    /\ durable' = durable \ {NewDir(p)}
    /\ staging' = staging \ {OwnStaging(p)}
    /\ flushed' = (flushed \ {OwnStaging(p), NewDir(p)})
                    \cup {d \in {NewDir(p)} : OwnStaging(p) \in flushed}
    /\ idle' = idle \ {NewDir(p)}
    /\ NoteUse(NewDir(p))
    /\ Goto(p, "fsync")
    /\ UNCHANGED <<promised, lock, jobVars>>

(* A step of the build failed: nothing was published.                      *)
BuildError(p) ==
    /\ pc[p] \in Building
    /\ Goto(p, "fail")
    /\ UNCHANGED <<diskVars, lock, jobVars, used>>

(* Its own staging dir is retired, best effort, still under the lock.      *)
RetireOwn(p) ==
    /\ pc[p] = "fail"
    /\ \E gone \in {{}, {OwnStaging(p)}} :
        /\ staging' = staging \ gone
    /\ flushed' = flushed \ {OwnStaging(p)}
    /\ Leave(p)
    /\ UNCHANGED <<nameVars, idle>>

FsyncCommits(p) ==
    /\ pc[p] = "fsync"
    /\ FsyncNames
    /\ Goto(p, "finish")
    /\ UNCHANGED <<lock, jobVars, used>>

(* A failed fsync is kept for the end; the dir is published all the same.  *)
FsyncError(p) ==
    /\ pc[p] = "fsync"
    /\ Goto(p, "finish")
    /\ UNCHANGED <<diskVars, lock, jobVars, used>>

(* .head_sha, then the lock goes; the rest needs no lock.                  *)
Finish(p) ==
    /\ pc[p] = "finish"
    /\ Leave(p)
    /\ UNCHANGED diskVars

-----------------------------------------------------------------------------
(* Sweeps of gc.  Each takes one SHA at a time through the one helper      *)
(* retire_under_sha_lock.                                                  *)

(* Mutants of Victims: the published dir is kept and not the current one;  *)
(* the age of a dir is not judged again under the lock.                    *)
VictimsKeepPublished(p, V) ==
    kind[p] = "generations" /\ V = Same(sha[p]) \ {pick[p]}

VictimsNotJudged(p, V) ==
    kind[p] \in IdleSweeps /\ V = Same(sha[p])

(* V is what the sweep retires, judged on the listing read under the lock. *)
(* A generation sweep keeps the current dir, the dir its caller just       *)
(* published, and dirs still young; below `pick` every dir is settled.     *)
Victims(p, V) ==
    LET S == Same(sha[p])
    IN  \/ /\ kind[p] = "generations"
           /\ \E c \in S :
                /\ IsCurrent(c, S)
                /\ V \subseteq S \ {c, pick[p]}
                /\ \A d \in S \ {c, pick[p]} :
                    pick[p] # NoDir /\ d.gen < pick[p].gen => d \in V
        \/ kind[p] = "unreachable" /\ V = S \cap idle
        \/ kind[p] = "oldformat" /\ V = {d \in S \cap idle : Version[d.by] < Version[p]}
        \/ kind[p] = "staging" /\ V = StagingOf(sha[p])

(* The first read, without the lock, finds a SHA worth a lock.  Liveness   *)
(* of the SHA in git is decided here too: any SHA may have lost its refs.  *)
StartSweep(p, k, s) ==
    /\ Begin(p, k, s, "trylock")
    /\ \/ /\ k = "generations"
          /\ Cardinality(Same(s)) > 1
          /\ \E d \in Same(s) \cup {NoDir} : pick' = [pick EXCEPT ![p] = d]
       \/ /\ k \in IdleSweeps
          /\ Same(s) \cap idle # {}
          /\ UNCHANGED pick
       \/ /\ k = "staging"
          /\ StagingOf(s) # {}
          /\ UNCHANGED pick

(* Mutant of TryLock: the sweep goes on when the stripe is busy.           *)
TryLockIgnored(p) ==
    /\ pc[p] = "trylock"
    /\ Goto(p, "judge")
    /\ UNCHANGED <<diskVars, lock, jobVars, used>>

TryLock(p) ==
    /\ pc[p] = "trylock"
    /\ TakeLock(p, "judge")

(* A busy stripe skips the SHA in this run.                                *)
SkipBusy(p) ==
    /\ pc[p] = "trylock"
    /\ lock[Stripe[sha[p]]] # NoProc
    /\ Leave(p)
    /\ UNCHANGED diskVars

Judge(p) ==
    /\ pc[p] = "judge"
    /\ \E V \in SUBSET (Same(sha[p]) \cup StagingOf(sha[p])) :
        /\ V # {}
        /\ Victims(p, V)
        /\ victims' = [victims EXCEPT ![p] = V]
    /\ Goto(p, "sync")
    /\ UNCHANGED <<diskVars, lock, kind, sha, pick, gen, own, used>>

(* Nothing to retire, an incomplete listing, or a failed fsync.            *)
SkipSweep(p) ==
    /\ pc[p] \in {"judge", "sync"}
    /\ Leave(p)
    /\ UNCHANGED diskVars

(* Mutant of SyncBeforeRetire: gc retires without the fsync.               *)
RetireUnsynced(p) ==
    /\ pc[p] = "sync"
    /\ Goto(p, "retire")
    /\ UNCHANGED <<diskVars, lock, jobVars, used>>

(* A publish that died before its own fsync becomes durable before what it *)
(* supersedes goes.                                                        *)
SyncBeforeRetire(p) ==
    /\ pc[p] = "sync"
    /\ FsyncNames
    /\ Goto(p, "retire")
    /\ UNCHANGED <<lock, jobVars, used>>

(* Rename one victim out of view; the rename may fail.                     *)
Retire(p) ==
    /\ pc[p] = "retire"
    /\ \E v \in victims[p] :
        /\ victims' = [victims EXCEPT ![p] = @ \ {v}]
        /\ \/ UNCHANGED diskVars
           \/ /\ dirs' = dirs \ {v}
              /\ staging' = staging \ {v}
              /\ idle' = idle \ {v}
              /\ promised' = IF kind[p] \in IdleSweeps /\ Same(sha[p]) = {v}
                             THEN promised \ {sha[p]} ELSE promised
              /\ UNCHANGED <<durable, flushed>>
    /\ UNCHANGED <<lock, pc, kind, sha, pick, gen, own, used>>

EndSweep(p) ==
    /\ pc[p] = "retire"
    /\ victims[p] = {}
    /\ Leave(p)
    /\ UNCHANGED diskVars

-----------------------------------------------------------------------------
(* The environment.                                                        *)

(* A query maps the graph.                                                 *)
Query(d) ==
    /\ d \in idle
    /\ Atime
    /\ Use(d)
    /\ NoteUse(d)
    /\ UNCHANGED <<lock, pc, jobVars>>

(* The grace is days and a sweep is seconds: none passes inside a sweep.   *)
GoIdle(d) ==
    /\ d \in dirs \ idle
    /\ \A p \in Procs : kind[p] \notin SweepKinds
    /\ idle' = idle \cup {d}
    /\ UNCHANGED <<nameVars, flushed, staging, lock, pc, jobVars, used>>

(* A process dies; the kernel drops its flock, its staging dir stays.  It  *)
(* is never published, so whether it was flushed decides nothing now.      *)
Crash(p) ==
    /\ pc[p] # "idle"
    /\ Leave(p)
    /\ flushed' = flushed \ {OwnStaging(p)}
    /\ UNCHANGED <<nameVars, staging, idle>>

(* Every process is gone.  A name that was fsynced and not retired since   *)
(* is there; of every other rename, publish or retire, any may be undone:  *)
(* a retired dir may come back beside a build that took its generation.    *)
PowerLoss ==
    /\ \E D \in SUBSET (dirs \cup durable) :
        /\ dirs \cap durable \subseteq D
        /\ dirs' = D
        /\ durable' = D
        /\ idle' = idle \cap D
        /\ staging' \in SUBSET staging
        /\ flushed' = flushed \cap D
    /\ lock' = [s \in Stripes |-> NoProc]
    /\ pc' = [p \in Procs |-> "idle"]
    /\ kind' = [p \in Procs |-> "none"]
    /\ pick' = [p \in Procs |-> NoDir]
    /\ gen' = [p \in Procs |-> 0]
    /\ own' = [p \in Procs |-> 0]
    /\ victims' = [p \in Procs |-> {}]
    /\ used' = [p \in Procs |-> {}]
    /\ UNCHANGED <<sha, promised>>

-----------------------------------------------------------------------------
Init ==
    /\ dirs = {} /\ durable = {} /\ flushed = {} /\ staging = {} /\ idle = {}
    /\ lock = [s \in Stripes |-> NoProc]
    /\ pc = [p \in Procs |-> "idle"]
    /\ kind = [p \in Procs |-> "none"]
    /\ sha \in [Procs -> Shas]
    /\ pick = [p \in Procs |-> NoDir]
    /\ gen = [p \in Procs |-> 0]
    /\ own = [p \in Procs |-> 0]
    /\ victims = [p \in Procs |-> {}]
    /\ promised = {}
    /\ used = [p \in Procs |-> {}]

Start(p) ==
    \E s \in Shas :
        \/ "build" \in Jobs[p] /\ StartBuild(p, s)
        \/ "force" \in Jobs[p] /\ StartForce(p, s)
        \/ \E k \in SweepKinds \cap Jobs[p] : StartSweep(p, k, s)

BuildStep(p) ==
    \/ Look(p) \/ Attach(p) \/ Decline(p) \/ Acquire(p) \/ TimeOut(p)
    \/ RecheckAttach(p) \/ RecheckMiss(p) \/ Invalidate(p) \/ ChooseName(p)
    \/ RetireAbandoned(p) \/ CreateStaging(p) \/ GiveUp(p) \/ Analyze(p)
    \/ FlushTree(p) \/ Publish(p) \/ BuildError(p) \/ RetireOwn(p)
    \/ FsyncCommits(p) \/ FsyncError(p) \/ Finish(p)

SweepStep(p) ==
    \/ TryLock(p) \/ SkipBusy(p) \/ Judge(p) \/ SkipSweep(p)
    \/ SyncBeforeRetire(p) \/ Retire(p) \/ EndSweep(p)

Next ==
    \/ \E p \in Procs : Start(p) \/ BuildStep(p) \/ SweepStep(p) \/ Crash(p)
    \/ \E d \in dirs : Query(d) \/ GoIdle(d)
    \/ PowerLoss

Spec == Init /\ [][Next]_vars

-----------------------------------------------------------------------------
(* Properties.                                                             *)

(* Every variable stays in its set, and a running build has a staging name.*)
TypeOK ==
    /\ dirs \subseteq Dirs
    /\ durable \subseteq Dirs
    /\ flushed \subseteq Dirs \cup StagingDirs
    /\ staging \subseteq StagingDirs
    /\ idle \subseteq dirs
    /\ lock \in [Stripes -> Procs \cup {NoProc}]
    /\ pc \in [Procs -> Points]
    /\ kind \in [Procs -> JobKinds \cup {"none"}]
    /\ sha \in [Procs -> Shas]
    /\ pick \in [Procs -> Dirs \cup {NoDir}]
    /\ gen \in [Procs -> Gens]
    /\ own \in [Procs -> Attempts \cup {0}]
    /\ \A p \in Procs : pc[p] \in Building \cup {"fail"} => own[p] \in Attempts
    /\ victims \in [Procs -> SUBSET (Dirs \cup StagingDirs)]
    /\ promised \subseteq Shas
    /\ used \in [Procs -> SUBSET Dirs]

(* Once an fsync of commits/ covered a build of a SHA, a whole build of it *)
(* stays there through crashes, power losses, failed fsyncs and any sweep, *)
(* until an idle sweep retires its last dir (retire_under_sha_lock fsyncs  *)
(* before it retires, and a builder flushes its tree before the rename).   *)
NeverLost ==
    \A s \in promised : \E d \in dirs \cap durable \cap flushed : d.sha = s

(* The staging dir of a running build is never retired as abandoned: not by*)
(* another builder of the SHA, not by the staging sweep.                   *)
OwnStagingKept ==
    \A p \in Procs : pc[p] \in Building => OwnStaging(p) \in staging

(* From the choice of its name to its rename, a build outranks every dir of*)
(* its SHA, so its publish becomes current and its name is free.           *)
NameOutranks ==
    \A p \in Procs : pc[p] \in Naming \ {"fail"} =>
        \A d \in Same(sha[p]) : d.gen < gen[p]

Tied(d, e) == d # e /\ d.sha = e.sha /\ d.gen = e.gen

(* No step of a process gives one SHA two dirs of one generation, so       *)
(* rank_cmp decides between builds of this binary without looking at       *)
(* clocks: only a power loss that undoes a retire can leave such a tie,    *)
(* and no build and no sweep after it makes another.                       *)
NamesUnique ==
    [][ \/ \A d \in dirs' \ dirs, e \in dirs' : ~ Tied(d, e)
        \/ PowerLoss ]_vars

(* A normal build does not repeat what another one published while it      *)
(* waited for the lock (unless a read of commits/ missed it): what readers *)
(* may pick for its SHA is of another binary, or there is nothing.         *)
NoRepeatedBuild ==
    \A p \in Procs \ TornReads :
        /\ kind[p] = "build"
        /\ pc[p] \in {"name", "clean", "stage"} \cup Building
        => \/ Same(sha[p]) = {}
           \/ \E d \in Same(sha[p]) : IsCurrent(d, Same(sha[p])) /\ ~ Usable(d, p)

(* A dir used between the first read of an idle sweep and its lock is kept *)
(* (test_sweep_unreachable_commits_with_used_before_lock_kept).            *)
UsedBeforeLockKept ==
    \A p \in Procs :
        kind[p] \in IdleSweeps /\ pc[p] \in {"sync", "retire"}
            => victims[p] \cap used[p] = {}

(* What readers pick for a SHA never goes back to a lower generation and   *)
(* never disappears, except when an idle sweep retires it or the power     *)
(* goes: a generation sweep and a publish only move it up.                 *)
CurrentOnlyRises ==
    [][ \/ \A d \in dirs \ dirs' : \E e \in dirs' : e.sha = d.sha /\ e.gen >= d.gen
        \/ \E p \in Procs : kind[p] \in IdleSweeps /\ Retire(p)
        \/ PowerLoss ]_vars

(* The store implements GenerationStore: with processes, locks, reads,     *)
(* staging dirs and the wall clock hidden, every step on names is one of   *)
(* the abstract steps: a publish outranks, a retire leaves a durable build *)
(* of its SHA that outranks what went, or retires a SHA that is durable,   *)
(* and a power loss undoes no more than what no fsync covered.             *)
Store == INSTANCE GenerationStore
    WITH Builders <- Procs, builds <- dirs, kept <- promised

Implements == Store!StoreSpec

-----------------------------------------------------------------------------
(* The inductive invariant: what the properties above rest on.             *)

(* Which kind of run may stand at which point.                             *)
JobInv ==
    \A p \in Procs :
        /\ pc[p] = "idle" => kind[p] = "none"
        /\ pc[p] \in {"trylock", "judge", "sync", "retire"} => kind[p] \in SweepKinds
        /\ pc[p] \in {"look", "attach", "wait", "recheck"} => kind[p] \in BuildKinds
        /\ pc[p] = "invalidate" => kind[p] = "force"

(* A process past the lock still holds it.                                 *)
LockInv ==
    \A p \in Procs : pc[p] \in Locked => lock[Stripe[sha[p]]] = p

(* Everything published was flushed, and so is what is about to be.        *)
WholeInv ==
    /\ dirs \cup durable \subseteq flushed
    /\ \A p \in Procs : pc[p] = "rename" => OwnStaging(p) \in flushed

(* What a sweep is about to retire: dirs of its SHA only, and for a        *)
(* generation sweep never the current one.                                 *)
VictimInv ==
    \A p \in Procs : pc[p] \in {"sync", "retire"} =>
        /\ \A v \in victims[p] : v.sha = sha[p]
        /\ kind[p] = "staging" => victims[p] \subseteq StagingDirs
        /\ kind[p] # "staging" => victims[p] \subseteq Dirs
        /\ kind[p] = "generations" =>
            \E c \in Same(sha[p]) \ victims[p] : IsCurrent(c, Same(sha[p]))

(* What a sweep leaves of its SHA survives a power loss.                   *)
RetireInv ==
    \A p \in Procs : pc[p] = "retire" => Same(sha[p]) \subseteq durable

(* Where mapping refreshes access times, a used dir is not idle.           *)
UsedInv ==
    \A p \in Procs :
        /\ kind[p] \notin IdleSweeps => used[p] = {}
        /\ Atime => used[p] \cap idle = {}

IInv ==
    /\ TypeOK
    /\ JobInv
    /\ LockInv
    /\ OwnStagingKept
    /\ NameOutranks
    /\ WholeInv
    /\ VictimInv
    /\ RetireInv
    /\ UsedInv
    /\ NeverLost
    /\ NoRepeatedBuild
    /\ Atime => UsedBeforeLockKept
==============================================================================
