--------------------------- MODULE SessionOverlay ---------------------------
(***************************************************************************)
(* The overlay of one session dir: the fragments of the files a worktree   *)
(* has changed since its HEAD commit, kept by every query of that session  *)
(* for the next one.  Queries of one session are processes of their own    *)
(* and run at the same time; they share the dir with `admin gc`, with      *)
(* `--force` builds and with the user, who edits files and moves HEAD.     *)
(*                                                                         *)
(* A fragment bin is named after the content it was parsed from, a file of *)
(* the worktree is its content and its mtime.  Every edit gives a file an  *)
(* mtime it never had.  The manifest maps a path to the mtime and content  *)
(* of its fragment, or to a tombstone; a missing manifest and an empty one *)
(* are the same here.                                                      *)
(***************************************************************************)
EXTENDS Naturals, FiniteSets, FiniteSetsExt

CONSTANTS
    Procs,       \* processes that query this session or sweep it
    Paths,       \* source files, numbered in the order a batch takes them
    Contents,    \* contents a file may have
    Absent,      \* the content of a file that does not exist
    Commits,     \* commits HEAD may name
    First,       \* the commit HEAD names first
    Tree,        \* the content of each path at each commit
    Forward,     \* pairs <<old, new>> whose merge base is old
    MaxEdits,    \* bound of the edits
    FewEdits,    \* bound of the edits where HEAD moves or there is a mishap
    Busy,        \* files that are edited after the first FewEdits edits
    MaxMoves,    \* bound of the moves of HEAD
    MaxMishaps,  \* bound of the renames of the dir or its l1 and of the crashes
    MaxRuns,     \* bound of the queries and sweeps
    None,        \* nothing
    Tombstone    \* the entry of a deleted file

ASSUME PathsAssumption == Paths \in SUBSET (Nat \ {0}) /\ IsFiniteSet(Paths)
ASSUME ContentAssumption == {Absent, None, Tombstone} \cap Contents = {}
ASSUME NoneAssumption == None \notin Procs
ASSUME CommitAssumption ==
    /\ First \in Commits
    /\ Tree \in [Commits -> [Paths -> Contents \cup {Absent}]]
    /\ Forward \in SUBSET (Commits \X Commits)

ASSUME BoundAssumption == MaxEdits \in Nat /\ FewEdits \in 0..MaxEdits

Stamps == 0..(MaxEdits + 1)
FileNames == [content : Contents, idx : 0..(Cardinality(Paths) - 1)]
(* A file is settled once it is an hour old.                               *)
Files == [writers : SUBSET Procs, whole : BOOLEAN, settled : BOOLEAN]
Entries == [stamp : Stamps, content : Contents] \cup {Tombstone, None}
Manifests == [Paths -> Entries]

ASSUME NothingAssumption ==
    /\ None # Tombstone /\ None \notin Commits \cup Files
    /\ {None, Tombstone} \cap [stamp : Stamps, content : Contents] = {}

VARIABLES
    file,    \* the worktree: content and mtime of each path
    clock,   \* the newest mtime
    head,    \* the commit HEAD names
    dir,     \* the session dir
    holder,  \* who holds the overlay.lock of this dir
    me,      \* what each process is doing and what it knows
    spent    \* how many moves, mishaps and runs there were

vars == <<file, clock, head, dir, holder, me, spent>>

NoEntries == [q \in Paths |-> None]
NoDir == [exists |-> FALSE, meta |-> None, manifest |-> NoEntries, fragments |-> FALSE,
          bins |-> [c \in Contents |-> None], tmps |-> [n \in FileNames |-> None]]

(* What a process knows: snap is the manifest as it read it last, mine the *)
(* one it holds the lock for, dirty the files git named, stale the ones it *)
(* parses, seen the mtimes before the parse, parsed the contents the parse *)
(* found, base the session's commit at the gate, target the one to write,  *)
(* orphans what a sweep deletes; stray: its lock file is one of an older   *)
(* dir.  The last three only serve the properties: alone while no other    *)
(* process takes a step, calm while nobody takes entries or bins away for  *)
(* another reason than that they are stale, over the paths of which others *)
(* have written an older look into the manifest since snap was read.       *)
Idle == [pc |-> "idle", snap |-> NoEntries, mine |-> NoEntries, dirty |-> {}, stale |-> {},
         seen |-> [q \in Paths |-> 0], parsed |-> [q \in Paths |-> None],
         base |-> None, target |-> None, orphans |-> {}, ok |-> FALSE, stray |-> FALSE,
         alone |-> FALSE, calm |-> FALSE, over |-> {}]

ControlPoints ==
    {"idle", "beat", "snapshot", "probe", "gate", "parse", "decide",
     "promote", "promoteMeta", "promoteManifest",
     "rebase", "rebaseMake", "rebaseMeta", "rebaseManifest",
     "stage", "fill", "publish", "commit", "touch", "touched",
     "retire", "retireWrite", "read", "serve", "sweep"}

(* Points where a process reads the manifest no more or not yet.           *)
Unread == {"idle", "beat", "snapshot", "serve", "sweep"}

(* Points whose next step takes overlay.lock.                              *)
LockPoints == {"promote", "publish", "retire"}

Init ==
    /\ file = [q \in Paths |-> [content |-> Tree[First][q],
                               stamp |-> IF Tree[First][q] = Absent THEN 0 ELSE 1]]
    /\ clock = 1
    /\ head = First
    /\ dir = NoDir
    /\ holder = None
    /\ me = [p \in Procs |-> Idle]
    /\ spent = [moves |-> 0, mishaps |-> 0, runs |-> 0]

-----------------------------------------------------------------------------
(* Helpers.                                                                *)

(* Process p goes on as `mine`: nobody else is alone any more.             *)
Step(p, mine) == me' = [r \in Procs |-> IF r = p THEN mine ELSE [me[r] EXCEPT !.alone = FALSE]]

(* A step that may take entries or bins from under a running query.        *)
Disturb(p, mine) ==
    me' = [r \in Procs |->
              IF r = p THEN mine ELSE [me[r] EXCEPT !.alone = FALSE, !.calm = FALSE]]

DisturbAll == me' = [r \in Procs |-> [me[r] EXCEPT !.alone = FALSE, !.calm = FALSE]]

At(p, here) == me[p].pc = here
Goto(p, there) == [me[p] EXCEPT !.pc = there]

(* Mutant of Unlocked: nobody releases the lock.                           *)
UnlockedNever(p) == IF holder = p THEN p ELSE holder

(* FileLock::acquire_exclusive on overlay.lock.  A stray process opened    *)
(* the lock file of a dir that was renamed away since: it excludes nobody. *)
CanLock(p) == me[p].stray \/ (dir.exists /\ holder = None)
Locked(p) == IF me[p].stray THEN holder ELSE p
LockGone(p) == ~me[p].stray /\ ~dir.exists
Unlocked(p) == IF holder = p THEN None ELSE holder

Fragment(e) == e \notin {None, Tombstone}

(* valid_fragment on the bin of content c                                  *)
ValidBin(c) == dir.bins[c] # None /\ dir.bins[c].whole

(* The tmp names of p's batch: <fragment_id>.<batch_seq>.<input_idx>.tmp.  *)
(* A process counts its batches from 0 and a query writes one, so the      *)
(* names of two processes differ in content and index only.                *)
Batch(p) == {q \in Paths : me[p].parsed[q] # None}
TmpName(p, q) ==
    [content |-> me[p].parsed[q], idx |-> Cardinality({r \in Batch(p) : r < q})]
TmpNames(p) == {TmpName(p, q) : q \in Batch(p)}

(* Mutant: the stat after the parse.                                       *)
StampOfLate(p, q) == IF me[p].parsed[q] = None THEN 0 ELSE file[q].stamp

(* What p dates its entries with: the mtime of the stat before the parse.  *)
StampOf(p, q) == me[p].seen[q]
Tombs(p) == {q \in me[p].stale : me[p].seen[q] = 0}

(* Mutant: the other entries as p knew them before it had the lock.        *)
NewEntryUnread(p, q) ==
    IF q \in Tombs(p) THEN Tombstone
    ELSE IF q \in Batch(p) THEN [stamp |-> StampOf(p, q), content |-> me[p].parsed[q]]
    ELSE me[p].snap[q]

(* What p puts into the manifest for path q; the other entries stay as     *)
(* they are under the lock.                                                *)
NewEntry(p, q) ==
    IF q \in Tombs(p) THEN Tombstone
    ELSE IF q \in Batch(p) THEN [stamp |-> StampOf(p, q), content |-> me[p].parsed[q]]
    ELSE me[p].mine[q]

(* manifest_inputs: the entries of snapshot s that pass the reader's rules *)
ServedFragments(s) ==
    {q \in Paths : /\ Fragment(s[q])
                   /\ file[q].content # Absent
                   /\ file[q].stamp = s[q].stamp
                   /\ ValidBin(s[q].content)}
ServedTombs(s) == {q \in Paths : s[q] = Tombstone /\ file[q].content = Absent}

-----------------------------------------------------------------------------
(* A query: ensure_fresh_with_rebuild, then the reader.                    *)

Run(p) == spent' = [spent EXCEPT !.runs = @ + 1]
CanRun(p) == At(p, "idle") /\ spent.runs < MaxRuns
Others(p) == Procs \ {p}
Started(p) ==
    [Idle EXCEPT !.ok = TRUE,
                 !.alone = \A r \in Others(p) : At(r, "idle"),
                 !.calm = \A r \in Others(p) : At(r, "idle") \/ me[r].calm]

(* The query begins; beat_meta_heartbeat reads the meta unless it is       *)
(* younger than a minute.                                                  *)
Begin(p) ==
    /\ CanRun(p)
    /\ Run(p)
    /\ \/ Step(p, [Started(p) EXCEPT !.pc = "snapshot"])
       \/ dir.meta # None /\ Step(p, [Started(p) EXCEPT !.pc = "beat", !.target = dir.meta])
    /\ UNCHANGED <<file, clock, head, dir, holder>>

(* ... and writes all of it back; the write makes a missing dir again.     *)
Beat(p) ==
    /\ At(p, "beat")
    /\ dir' = [dir EXCEPT !.exists = TRUE, !.meta = me[p].target]
    /\ Step(p, [Goto(p, "snapshot") EXCEPT !.target = None])
    /\ UNCHANGED <<file, clock, head, holder, spent>>

(* manifest_snapshot, before the probe                                     *)
Snapshot(p) ==
    /\ At(p, "snapshot")
    /\ Step(p, [Goto(p, "probe") EXCEPT !.snap = dir.manifest])
    /\ UNCHANGED <<file, clock, head, dir, holder, spent>>

(* probe_index: git status.  Ready when nothing is dirty.                  *)
Probe(p) ==
    /\ At(p, "probe")
    /\ LET dirty == {q \in Paths : file[q].content # Tree[head][q]}
       IN Step(p, [Goto(p, IF dirty = {} THEN "retire" ELSE "gate") EXCEPT !.dirty = dirty])
    /\ UNCHANGED <<file, clock, head, dir, holder, spent>>

(* Mutant: a gate that trusts the manifest and never looks for the bin.    *)
CurrentUnchecked(e, q) ==
    CASE e = None -> FALSE
      [] e = Tombstone -> file[q].content = Absent
      [] OTHER -> file[q].content # Absent /\ file[q].stamp = e.stamp

(* An entry that proves its path needs no parse                            *)
Current(e, q) ==
    CASE e = None -> FALSE
      [] e = Tombstone -> file[q].content = Absent
      [] OTHER -> /\ file[q].content # Absent
                  /\ file[q].stamp = e.stamp
                  /\ ValidBin(e.content)

(* retain_stale_fragments and the stats that date what will be parsed      *)
Gate(p) ==
    /\ At(p, "gate")
    /\ LET stale == {q \in me[p].dirty : dir.meta # head \/ ~Current(me[p].snap[q], q)}
       IN Step(p, [Goto(p, IF stale = {} THEN "retire" ELSE "parse") EXCEPT
                      !.stale = stale,
                      !.base = dir.meta,
                      !.seen = [q \in Paths |-> IF q \in me[p].dirty THEN file[q].stamp ELSE 0]])
    /\ UNCHANGED <<file, clock, head, dir, holder, spent>>

(* reanalyze_expanded_under: a file that is gone by now is skipped         *)
Parse(p) ==
    /\ At(p, "parse")
    /\ Step(p, [Goto(p, "decide") EXCEPT
                   !.parsed = [q \in Paths |->
                       IF q \in me[p].stale /\ file[q].content # Absent
                       THEN file[q].content ELSE None]])
    /\ UNCHANGED <<file, clock, head, dir, holder, spent>>

(* apply_l1_overlay_updates up to the promotion: make the dir and its      *)
(* meta, and compare HEAD with the base the gate read.                     *)
Decide(p) ==
    /\ At(p, "decide")
    /\ LET meta == IF dir.meta = None THEN head ELSE dir.meta
           base == IF me[p].base = None THEN meta ELSE me[p].base
           there == IF base = head THEN "stage"
                    ELSE IF <<base, head>> \in Forward THEN "promote" ELSE "rebase"
       IN /\ dir' = [dir EXCEPT !.exists = TRUE, !.meta = meta]
          /\ Step(p, [Goto(p, there) EXCEPT !.target = head])
    /\ UNCHANGED <<file, clock, head, holder, spent>>

(* An error that ends the query without an answer.                         *)
Fail(p) == Step(p, Idle)

-----------------------------------------------------------------------------
(* Promotion of the session to the commit p saw as HEAD.                   *)

(* Whether the commit p promotes to holds what the entry describes         *)
Absorbed(p, q) ==
    LET e == dir.manifest[q]
        there == Tree[me[p].target][q]
    IN IF e = Tombstone THEN there = Absent ELSE Fragment(e) /\ there = e.content

(* promote_case_a: under the lock, drop what the commit absorbed, bins     *)
(* first, ...                                                              *)
Promote(p) ==
    /\ At(p, "promote")
    /\ CanLock(p)
    /\ LET gone == {q \in Paths : Absorbed(p, q)}
           unlinked == {dir.manifest[q].content : q \in {r \in gone : Fragment(dir.manifest[r])}}
       IN /\ dir' = [dir EXCEPT !.bins = [c \in Contents |-> IF c \in unlinked THEN None ELSE @[c]]]
          /\ Disturb(p, [Goto(p, "promoteMeta") EXCEPT
                            !.stray = FALSE,
                            !.mine = [q \in Paths |-> IF q \in gone THEN None ELSE dir.manifest[q]]])
    /\ holder' = Locked(p)
    /\ UNCHANGED <<file, clock, head, spent>>

PromoteNoDir(p) ==
    /\ At(p, "promote")
    /\ LockGone(p)
    /\ Fail(p)
    /\ UNCHANGED <<file, clock, head, dir, holder, spent>>

(* ... then the meta, if there is one, ...                                 *)
PromoteMeta(p) ==
    /\ At(p, "promoteMeta")
    /\ dir' = [dir EXCEPT !.meta = IF @ = None THEN None ELSE me[p].target]
    /\ Step(p, Goto(p, "promoteManifest"))
    /\ UNCHANGED <<file, clock, head, holder, spent>>

(* ... and the manifest last.                                              *)
PromoteManifest(p) ==
    /\ At(p, "promoteManifest")
    /\ dir' = [dir EXCEPT !.exists = TRUE, !.manifest = me[p].mine]
    /\ holder' = Unlocked(p)
    /\ Disturb(p, [Goto(p, "stage") EXCEPT !.mine = NoEntries])
    /\ UNCHANGED <<file, clock, head, spent>>

(* The dir goes away, and overlay.lock with it: its holder holds nothing   *)
(* any more.  Of the processes about to lock, some have the old lock file  *)
(* open.                                                                   *)
Retired(known) ==
    /\ dir' = NoDir
    /\ holder' = None
    /\ \E strays \in SUBSET {r \in Procs : known[r].pc \in LockPoints} :
          me' = [r \in Procs |->
                    IF known[r].pc = "idle" THEN known[r]
                    ELSE [known[r] EXCEPT !.stray = (@ \/ r \in strays)]]

(* promote_case_b: rename the session dir away without the lock, ...       *)
Rebase(p) ==
    /\ At(p, "rebase")
    /\ Retired([r \in Procs |->
                   IF r = p
                   THEN [Goto(p, "rebaseMake") EXCEPT !.calm = @ /\ \A o \in Others(p) : At(o, "idle")]
                   ELSE [me[r] EXCEPT !.alone = FALSE, !.calm = FALSE]])
    /\ UNCHANGED <<file, clock, head, spent>>

(* ... make a new one, which fails if somebody did, ...                    *)
RebaseMake(p) ==
    /\ At(p, "rebaseMake")
    /\ IF dir.exists
       THEN Fail(p) /\ UNCHANGED dir
       ELSE Step(p, Goto(p, "rebaseMeta")) /\ dir' = [NoDir EXCEPT !.exists = TRUE]
    /\ UNCHANGED <<file, clock, head, holder, spent>>

RebaseMeta(p) ==
    /\ At(p, "rebaseMeta")
    /\ dir' = [dir EXCEPT !.exists = TRUE, !.meta = me[p].target]
    /\ Step(p, Goto(p, "rebaseManifest"))
    /\ UNCHANGED <<file, clock, head, holder, spent>>

(* ... with a meta and an empty manifest.                                  *)
RebaseManifest(p) ==
    /\ At(p, "rebaseManifest")
    /\ dir' = [dir EXCEPT !.exists = TRUE, !.manifest = NoEntries]
    /\ Disturb(p, Goto(p, "stage"))
    /\ UNCHANGED <<file, clock, head, holder, spent>>

-----------------------------------------------------------------------------
(* write_dirty_events: stage the bins, publish them, commit the manifest.  *)

(* The refresh is over, and what it was about to write forgotten.          *)
Refreshed(p) ==
    [Goto(p, "retire") EXCEPT !.stale = {}, !.parsed = Idle.parsed, !.base = None,
                              !.target = None, !.stray = FALSE]

(* It goes on without having written: Refresh::WriteFailed.                *)
WriteFailed(p) == [Refreshed(p) EXCEPT !.ok = FALSE]

(* Whether p truncates a tmp that another process is about to publish.     *)
Collides(p) ==
    \E r \in Others(p) : me[r].pc \in {"fill", "publish"} /\ TmpNames(r) \cap TmpNames(p) # {}

(* stage_archive, first half: make fragments/ and open a tmp per fragment, *)
(* which truncates the one that is there.                                  *)
Stage(p) ==
    /\ At(p, "stage")
    /\ IF Batch(p) = {}
       THEN /\ Step(p, IF Tombs(p) = {} THEN Refreshed(p) ELSE Goto(p, "publish"))
            /\ dir' = [dir EXCEPT !.exists = @ \/ Tombs(p) # {},
                                  !.fragments = @ \/ Tombs(p) # {}]
       ELSE /\ dir' = [dir EXCEPT
                  !.exists = TRUE,
                  !.fragments = TRUE,
                  !.tmps = [n \in FileNames |->
                      IF n \notin TmpNames(p) THEN @[n]
                      ELSE [whole |-> FALSE, settled |-> FALSE,
                            writers |-> {p} \cup IF @[n] = None THEN {} ELSE @[n].writers]]]
            /\ me' = [r \in Procs |->
                  IF r = p THEN [Goto(p, "fill") EXCEPT !.calm = @ /\ ~Collides(p)]
                  ELSE [me[r] EXCEPT !.alone = FALSE, !.calm = @ /\ ~Collides(p)]]
    /\ UNCHANGED <<file, clock, head, holder, spent>>

WroteTo(f, p) ==
    IF f = None \/ p \notin f.writers THEN f
    ELSE [f EXCEPT !.whole = TRUE, !.writers = @ \ {p}]

(* stage_archive, second half: write through the handle, wherever the file *)
(* is by now, then open it by its tmp name for the fsync.                  *)
Fill(p) ==
    /\ At(p, "fill")
    /\ dir' = [dir EXCEPT
          !.tmps = [n \in FileNames |-> WroteTo(@[n], p)],
          !.bins = [c \in Contents |-> WroteTo(@[c], p)]]
    /\ Step(p, IF \A n \in TmpNames(p) : dir.tmps[n] # None
               THEN Goto(p, "publish") ELSE WriteFailed(p))
    /\ UNCHANGED <<file, clock, head, holder, spent>>

(* commit_fragment_results under the lock: rename the tmps in the order of *)
(* the batch up to the first that is gone, then read the manifest.  One    *)
(* step: what disturbs it takes the dir away, before or after.             *)
Publish(p) ==
    /\ At(p, "publish")
    /\ CanLock(p)
    /\ LET landed == {q \in Batch(p) : \A r \in Batch(p) : r <= q => dir.tmps[TmpName(p, r)] # None}
           of(c) == {q \in landed : me[p].parsed[q] = c}
           done == landed = Batch(p)
       IN /\ dir' = [dir EXCEPT
                !.bins = [c \in Contents |->
                    IF of(c) = {} THEN @[c] ELSE dir.tmps[TmpName(p, Max(of(c)))]],
                !.tmps = [n \in FileNames |->
                    IF \E q \in landed : n = TmpName(p, q) THEN None ELSE @[n]]]
          /\ holder' = IF done THEN Locked(p) ELSE holder
          /\ Step(p, IF done
                     THEN [Goto(p, "commit") EXCEPT !.stray = FALSE, !.mine = dir.manifest]
                     ELSE WriteFailed(p))
    /\ UNCHANGED <<file, clock, head, spent>>

PublishNoDir(p) ==
    /\ At(p, "publish")
    /\ LockGone(p)
    /\ Step(p, WriteFailed(p))
    /\ UNCHANGED <<file, clock, head, dir, holder, spent>>

(* The paths that changed since p looked at them.                          *)
Outdated(p) == {q \in Batch(p) \cup Tombs(p) : me[p].seen[q] # file[q].stamp}

(* ... and write the manifest with the new entries, and unlock.            *)
Commit(p) ==
    /\ At(p, "commit")
    /\ dir' = [dir EXCEPT !.exists = TRUE, !.manifest = [q \in Paths |-> NewEntry(p, q)]]
    /\ holder' = Unlocked(p)
    /\ me' = [r \in Procs |->
          IF r = p THEN [Goto(p, "touch") EXCEPT !.mine = NoEntries]
          ELSE [me[r] EXCEPT !.alone = FALSE,
                             !.over = IF me[r].pc \in Unread THEN @ ELSE @ \cup Outdated(p)]]
    /\ UNCHANGED <<file, clock, head, spent>>

(* The bump of overlay_version: read the meta, ...                         *)
Touch(p) ==
    /\ At(p, "touch")
    /\ Step(p, IF dir.meta = None THEN WriteFailed(p)
               ELSE [Goto(p, "touched") EXCEPT !.target = dir.meta])
    /\ UNCHANGED <<file, clock, head, dir, holder, spent>>

(* ... and write all of it back, without the lock.                         *)
TouchWrite(p) ==
    /\ At(p, "touched")
    /\ dir' = [dir EXCEPT !.exists = TRUE, !.meta = me[p].target]
    /\ Step(p, Refreshed(p))
    /\ UNCHANGED <<file, clock, head, holder, spent>>

-----------------------------------------------------------------------------
(* retire_unclaimed_entries, best effort, then the reader.                 *)

Unclaimed(p) == {q \in Paths \ me[p].dirty : me[p].snap[q] # None}

(* The entries retire_entries drops from manifest m                        *)
Stale(p, m) == {q \in Unclaimed(p) : m[q] = me[p].snap[q]}

RetireNothing(p) ==
    /\ At(p, "retire")
    /\ Unclaimed(p) = {} \/ LockGone(p)
    /\ Step(p, Goto(p, "read"))
    /\ UNCHANGED <<file, clock, head, dir, holder, spent>>

Retire(p) ==
    /\ At(p, "retire")
    /\ Unclaimed(p) # {}
    /\ CanLock(p)
    /\ IF Stale(p, dir.manifest) = {}
       THEN Step(p, [Goto(p, "read") EXCEPT !.stray = FALSE]) /\ UNCHANGED holder
       ELSE /\ Step(p, [Goto(p, "retireWrite") EXCEPT !.stray = FALSE, !.mine = dir.manifest])
            /\ holder' = Locked(p)
    /\ UNCHANGED <<file, clock, head, dir, spent>>

RetireWrite(p) ==
    /\ At(p, "retireWrite")
    /\ LET kept == [q \in Paths |-> IF q \in Stale(p, me[p].mine) THEN None ELSE me[p].mine[q]]
       IN dir' = [dir EXCEPT !.exists = @ \/ kept # NoEntries, !.manifest = kept]
    /\ holder' = Unlocked(p)
    /\ Step(p, [Goto(p, "read") EXCEPT !.mine = NoEntries])
    /\ UNCHANGED <<file, clock, head, spent>>

(* manifest_inputs: read the manifest, ...                                 *)
Read(p) ==
    /\ At(p, "read")
    /\ Step(p, [Goto(p, "serve") EXCEPT !.snap = dir.manifest])
    /\ UNCHANGED <<file, clock, head, dir, holder, spent>>

(* ... then check the entries against the disk and answer.  What a process *)
(* at "serve" would answer is ServedFragments and ServedTombs of its       *)
(* snapshot.                                                               *)
Serve(p) ==
    /\ At(p, "serve")
    /\ Step(p, Idle)
    /\ UNCHANGED <<file, clock, head, dir, holder, spent>>

-----------------------------------------------------------------------------
(* sweep_stale_fragments of admin gc, on this session.                     *)

Named(m) == {m[q].content : q \in {r \in Paths : Fragment(m[r])}}
Old(f) == f # None /\ f.settled

(* Under the lock, or not at all, the settled bins the manifest does not   *)
(* name and the settled tmps are judged ...                                *)
SweepBegin(p) ==
    /\ CanRun(p)
    /\ Run(p)
    /\ dir.fragments
    /\ holder = None
    /\ holder' = p
    /\ Step(p, [Started(p) EXCEPT
                   !.pc = "sweep",
                   !.orphans = {c \in Contents \ Named(dir.manifest) : Old(dir.bins[c])}])
    /\ UNCHANGED <<file, clock, head, dir>>

(* ... and unlinked by name.                                               *)
SweepDelete(p) ==
    /\ At(p, "sweep")
    /\ dir' = [dir EXCEPT
          !.bins = [c \in Contents |-> IF c \in me[p].orphans THEN None ELSE @[c]],
          !.tmps = [n \in FileNames |-> IF Old(@[n]) THEN None ELSE @[n]]]
    /\ holder' = Unlocked(p)
    /\ Step(p, Idle)
    /\ UNCHANGED <<file, clock, head, spent>>

-----------------------------------------------------------------------------
(* The user and the other programs.                                        *)

(* The user writes, makes or deletes a file.                               *)
Edit(q, c) ==
    /\ clock <= IF spent.moves + spent.mishaps = 0 THEN MaxEdits ELSE FewEdits
    /\ q \in Busy \/ clock <= FewEdits
    /\ c # file[q].content \/ c # Absent
    /\ clock' = clock + 1
    /\ file' = [file EXCEPT ![q] = [content |-> c, stamp |-> IF c = Absent THEN 0 ELSE clock + 1]]
    /\ me' = [r \in Procs |-> [me[r] EXCEPT !.alone = FALSE]]
    /\ UNCHANGED <<head, dir, holder, spent>>

(* git commit, reset --soft, or the last step of a checkout                *)
MoveHead(h) ==
    /\ h # head
    /\ spent.moves < MaxMoves /\ clock <= FewEdits + 1
    /\ spent' = [spent EXCEPT !.moves = @ + 1]
    /\ head' = h
    /\ DisturbAll
    /\ UNCHANGED <<file, clock, dir, holder>>

Mishap ==
    /\ spent.mishaps < MaxMishaps /\ clock <= FewEdits + 1
    /\ spent' = [spent EXCEPT !.mishaps = @ + 1]

(* sweep_sessions renames a session it judged idle before                  *)
RetireSession ==
    /\ dir.exists
    /\ Mishap
    /\ Retired([r \in Procs |-> [me[r] EXCEPT !.alone = FALSE, !.calm = FALSE]])
    /\ UNCHANGED <<file, clock, head>>

(* invalidate_sessions of a --force build renames l1 away                  *)
RetireL1 ==
    /\ dir.exists
    /\ Mishap
    /\ dir' = [NoDir EXCEPT !.exists = TRUE, !.meta = dir.meta]
    /\ DisturbAll
    /\ UNCHANGED <<file, clock, head, holder>>

(* An hour passes.  No query and no sweep runs that long.                  *)
HourPasses ==
    LET aged(f) == IF f = None THEN None ELSE [f EXCEPT !.settled = TRUE]
    IN /\ \A p \in Procs : At(p, "idle")
       /\ dir' = [dir EXCEPT !.tmps = [n \in FileNames |-> aged(@[n])],
                             !.bins = [c \in Contents |-> aged(@[c])]]
       /\ dir' # dir
       /\ UNCHANGED <<file, clock, head, holder, me, spent>>

(* Process p dies: its lock and its handles go with it.                    *)
Crash(p) ==
    /\ ~At(p, "idle")
    /\ Mishap
    /\ holder' = Unlocked(p)
    /\ LET closed(f) == IF f = None THEN None ELSE [f EXCEPT !.writers = @ \ {p}]
       IN dir' = [dir EXCEPT !.tmps = [n \in FileNames |-> closed(@[n])],
                             !.bins = [c \in Contents |-> closed(@[c])]]
    /\ Step(p, Idle)
    /\ UNCHANGED <<file, clock, head>>

Query(p) ==
    \/ Begin(p) \/ Beat(p) \/ Snapshot(p) \/ Probe(p) \/ Gate(p) \/ Parse(p) \/ Decide(p)
    \/ Promote(p) \/ PromoteNoDir(p) \/ PromoteMeta(p) \/ PromoteManifest(p)
    \/ Rebase(p) \/ RebaseMake(p) \/ RebaseMeta(p) \/ RebaseManifest(p)
    \/ Stage(p) \/ Fill(p) \/ Publish(p) \/ PublishNoDir(p) \/ Commit(p)
    \/ Touch(p) \/ TouchWrite(p)
    \/ RetireNothing(p) \/ Retire(p) \/ RetireWrite(p) \/ Read(p) \/ Serve(p)

Next ==
    \/ \E p \in Procs : Query(p) \/ SweepBegin(p) \/ SweepDelete(p) \/ Crash(p)
    \/ \E q \in Paths, c \in Contents \cup {Absent} : Edit(q, c)
    \/ \E h \in Commits : MoveHead(h)
    \/ RetireSession
    \/ RetireL1
    \/ HourPasses

Spec == Init /\ [][Next]_vars

-----------------------------------------------------------------------------
(* Properties.                                                             *)

(* Every variable stays in its set, and only a running process holds the   *)
(* overlay lock.                                                           *)
TypeOK ==
    /\ file \in [Paths -> [content : Contents \cup {Absent}, stamp : Stamps]]
    /\ clock \in Stamps
    /\ head \in Commits
    /\ dir \in [exists : BOOLEAN, meta : Commits \cup {None}, manifest : Manifests,
                fragments : BOOLEAN, bins : [Contents -> Files \cup {None}],
                tmps : [FileNames -> Files \cup {None}]]
    /\ holder \in Procs \cup {None}
    /\ holder # None => ~At(holder, "idle")
    /\ \A p \in Procs : me[p].pc \in ControlPoints /\ me[p].snap \in Manifests

(* Whatever the interleaving, a fragment the reader accepts was parsed     *)
(* from the content its file has when the reader stats it: an edit before, *)
(* between or after the stat and the parse of any refresh never makes a    *)
(* query answer from old content.                                          *)
ServedIsCurrent ==
    \A p \in Procs : At(p, "serve") =>
        \A q \in ServedFragments(me[p].snap) : me[p].snap[q].content = file[q].content

(* A query that runs alone, from any state crashes, collisions, moves of   *)
(* HEAD and sweeps left behind, answers from a fragment of each dirty file *)
(* that exists, a tombstone of each that is gone, and nothing else.        *)
SelfHeals ==
    \A p \in Procs : At(p, "serve") /\ me[p].alone =>
        /\ me[p].ok
        /\ ServedFragments(me[p].snap) = {q \in me[p].dirty : file[q].content # Absent}
        /\ ServedTombs(me[p].snap) = {q \in me[p].dirty : file[q].content = Absent}

(* The dirty files a refresh that reported success must have covered: the  *)
(* ones nobody wrote since the gate looked at them.  (One edited back to   *)
(* its committed content between the probe and the gate is served by the   *)
(* commit's graph, and another query may retire its entry.)                *)
Settled(p) ==
    {q \in me[p].dirty : /\ file[q].content \notin {Absent, Tree[head][q]}
                         /\ file[q].stamp = me[p].seen[q]}

(* While other queries and sweeps of the session run, a query whose        *)
(* refresh succeeded finds the fragment of every file it covered: no entry *)
(* is dropped, and no bin of one is taken away, by a clean-up that saw the *)
(* path clean, a sweep or a write of other files.  Excepted are the paths  *)
(* a slower query wrote an older look at meanwhile.  This holds unless     *)
(* HEAD moved, the session was promoted or taken away, or two processes    *)
(* staged the same tmp, while the query or one it overlaps was running.    *)
OwnRefreshServed ==
    \A p \in Procs : At(p, "serve") /\ me[p].ok /\ me[p].calm =>
        Settled(p) \ me[p].over \subseteq ServedFragments(me[p].snap)
==============================================================================
