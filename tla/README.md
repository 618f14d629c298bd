# TLA+ models of EgentCodePlexus (`ecp`)

These modules model the parts of `ecp` where several processes meet on one
file system: the per-commit graph store, its locks and sweeps, the session
overlays, the peer inboxes and the watcher that fills them, the registry, and
the rules by which a query decides which graph it answers from.  TLC checks
each module on small instances; of every module that a passing run checks,
TLAPS proves the safety properties for any processes, commits, files, messages,
repositories and bounds.  Liveness is checked by TLC only.

## 1. The system

`ecp` is a command-line program (and a thin MCP server around it) that indexes
a git repository into one memory-mapped graph per commit and answers queries
from it.  There is **no daemon**: every query, build, hook and `ecp admin gc` is a
process of its own, possibly of different installed versions, and they meet
only through files below `~/.ecp` (a session may have one watcher process that
stays):

```
~/.ecp/registry.json (+ .lock)            which repositories exist
~/.ecp/.build-slots/slot-<i>              machine-wide build throttle
~/.ecp/<repo>/meta.json (+ .meta.lock)    what the registry is rebuilt from
~/.ecp/<repo>/commits/<prefix>__<sha>[.gen.<ts>.<pid>.<n>]/   one published graph
~/.ecp/<repo>/commits/<base>.building.<pid>.<n>/       one build attempt
~/.ecp/<repo>/commits/.locks/<xx>.lock    the SHA stripe locks
~/.ecp/<repo>/sessions/<sid>~<h8>/        overlay, inbox, meta of one session
~/.ecp/<repo>/parse_cache/<fingerprint>/  parsed files by content
```

| component | state | operations | what makes it correct |
|---|---|---|---|
| commit store: `build/orchestrator.rs`, `build/force.rs`, `commit_lookup.rs`, `admin/gc.rs` | dirs of `commits/`, their durability, staging dirs, stripe locks | build, force, attach, publish, the sweeps of gc | a durable build is never lost; readers never go back; a live build keeps its staging dir |
| build slots and stripe locks: `build/semaphore.rs`, `registry/lock.rs` | lock files, owner sidecar | acquire, report the holder, give up after a bound | at most k throttled builds; a wait ends; nobody gives up on a holder that works |
| scan cache: `commit_lookup.rs` | per-process map dir -> (mtime, index), epoch | scan_cached, invalidate | a process never answers from before its own publish; others are stale for a bounded time |
| session overlay: `session/*`, `overlay_writer.rs`, `promotion.rs`, `auto_ensure.rs` | fragment bins, manifest, overlay version | commit fragments, retire, promote, sweep bins, read | an answer is never from old content; a refresh that succeeded is served; whatever breaks is repaired by the next query |
| freshness: `auto_ensure.rs`, `background.rs`, `read_context.rs` | sidecars, the rebuild lock | probe, refresh, warm attach, build, background rebuild | an answer is of the worktree or says that it may not be; HEAD gets its graph |
| HEAD cache: `git_cache.rs` | per-process HEAD and the mtime it was read under | head_sha | a process never answers for a HEAD that moved |
| peer inbox: `peer/inbox.rs` | log, generation sidecar, lock | append, deliver and consume, clear | each message written whole is taken once, in order |
| peer watcher: `peer/watcher.rs`, `peer/dispatch.rs`, `concern.rs` | stamps of manifests, the cached own surface, neighbours | handle event, rescan, sweep of stamps, dispatch | every overlap of two sessions is raised |
| registry: `registry/store.rs`, `commands/admin/*` | `registry.json`, `RepoMeta` | upsert, prune, drop, groups, migrate | commands at the same time lose no repository and no group |
| analyzer (`ecp-analyzer`), session view, algorithms, Cypher, search, MCP transport, output | pure or per-process | parse, resolve, rank | functions of their inputs; no shared state |

How they interact: a query asks **freshness**, which asks the **HEAD cache** and
`git status`, may run a build of the **commit store** (which takes the **build
locks**) or start one in the background, and refreshes the **session overlay**; it
reads `commits/` through the **scan cache**.  A build ends with an upsert into
the **registry**.  A commit of an overlay replaces the manifest the **watcher** of
every peer waits for, and the watcher appends to its session's **inbox**.
Promotion and gc rename session dirs away under overlay and inbox alike.

What is hard: interleavings of processes that were never written for one
another (builder against gc, two binaries), death of a process between any two
system calls, power loss between a rename and its fsync, wall clocks that go
back, time-outs that race the answer, lock files that move with the dir they
guard, file events that are dropped or come late, and read-modify-write cycles
on JSON files.

## 2. Plan

In the order of what would cost a user most.  All of it is done:

1. **CommitStore**, its abstract specification **GenerationStore**, and the
   proofs (**CommitStoreProofs**).
2. **BuildLocks**: stripe lock, owner sidecar and build slots together, since a
   builder waits for a slot while it holds the stripe; **BuildLocksProofs**.
3. **ScanCache**: two threads, two clocks.
4. **SessionOverlay**: refresh, promotion, retire, sweep, reader.
5. **PeerInbox**: append, deliver and consume, clear, under a lock file that
   may be renamed away.
6. **PeerWatch**: the watcher beside peers that write, with lost events.
7. **Registry** and **RegistryProofs**: updates under the lock against readers
   that migrate without it.
8. **Freshness**, which composes the promises of CommitStore and SessionOverlay,
   and **HeadCache**.

9. The proofs of the other modules: **ScanCacheProofs**,
   **SessionOverlayProofs**, **PeerInboxProofs**, **PeerWatchProofs**,
   **FreshnessProofs**.

What could come next: the markers of failed rebuilds; the parts section 7 names.

## 3. The modules and the code

### CommitStore (with GenerationStore, CommitStoreProofs, MCCommitStore)

`build/orchestrator.rs`, `build/force.rs`, `commit_lookup.rs`, `admin/gc.rs`.
`dirs` is what is in `commits/`; `durable` are the names that survive a loss of
power, `flushed` the dirs whose files do; `staging` the `.building.` dirs;
`lock` the flock of each stripe; `idle` the dirs whose age is past the grace.
A dir is a record of its SHA, its generation and the process that built it, which
stands for the rest of the name (branch, PID, counter) and for the binary.
A run of a process is a build, a force or one of four sweeps.  Its actions, in
the order of the code: `Look`, `Attach`/`Decline` (the unlocked look of
`build_l2`), `Acquire`/`TimeOut`, `RecheckAttach`/`RecheckMiss`
(or `Invalidate` of a force), `ChooseName` (`next_publish_name`),
`RetireAbandoned`, `CreateStaging`, `Analyze`, `FlushTree`, `Publish` (the
rename), `FsyncCommits`, `Finish`, with `GiveUp`, `BuildError`, `RetireOwn`
and `FsyncError` for the error paths; `TryLock`/`SkipBusy`, `Judge`,
`SkipSweep`, `SyncBeforeRetire`, `Retire`, `EndSweep` for `sweep_sha_lock` and
`retire_under_sha_lock`.  `Crash` kills one process; `PowerLoss` kills all and
undoes any rename, publish or retire no fsync of `commits/` covered, so that two
dirs of one generation may be left: a retire nobody synced comes back after a
build took the generation that was free again.

`GenerationStore` says what a reader may count on, each guarantee as the guard of
a step.  A build is published above every build of its SHA, its name not yet
durable (`PublishBuild`); a sync makes what is there durable and its SHAs kept
(`SyncBuilds`); a superseded build goes only while a durable one of no lower
generation is there (`DropSuperseded`); an unused one goes only once all of its
SHA are durable, and the SHA stops being kept only with the last (`Evict`);
a power loss undoes what no sync covered and nothing else (`LosePower`).
`Implements` is the refinement, with processes, locks, reads, staging and the
clock hidden.  `KeptIsDurable`, a property of the abstract store alone, is what
those guards are for: a kept SHA has a durable build.

### BuildLocks (with BuildLocksProofs)

`registry/lock.rs`, `build/semaphore.rs`, and the waits and reports of
`build/orchestrator.rs` and `admin/gc.rs`.  `lock` and `slot` are the flocks,
`sidecar` the owner line of each stripe, `elapsed` the minutes since a wait or a
build began.  A builder tries the stripe, reports the holder it reads from the
sidecar and from the staging dirs, waits at most `LockWait`, takes the stripe,
writes the sidecar in two steps (PID, then role and SHA), takes a slot or gives
up after `SlotWait`, builds, publishes and drops both.  `Wedge` stops a process
for good with its locks held, which no kernel cleans up; `Crash` releases them.

### ScanCache (with ScanCacheProofs)

`CommitIndex::scan_cached` and `invalidate`.  `content` counts the changes of
`commits/`, `mtime` is its coarse stamp, `wall` and `mono` the two clocks;
`scan` and `epoch` are the cache.  Threads publish (rename, then invalidate) and
read (stat, lookup, scan, store under the lock, answer); other processes change
`commits/` at any time; the wall clock may be set.

### SessionOverlay (with SessionOverlayProofs)

`auto_ensure.rs` (refresh), `session/overlay_writer.rs`, `session/promotion.rs`,
`session/overlay_reader.rs`, and the sweeps of `admin/gc.rs` and
`build/force.rs` that meet them.  `file` is the worktree, `dir` the session dir
(its meta's `base_sha`, manifest, bins and tmps), `holder` the holder of
`overlay.lock`, `me` what each process knows.  One query is `Begin`, `Beat`
(the heartbeat), `Snapshot`, `Probe` (git status), `Gate`, `Parse`, `Decide`
(dir, meta, HEAD drift), then `Promote...` (case A), `Rebase...` (case B) or
neither, `Stage`, `Fill`, `Publish`, `Commit`, `Touch`/`TouchWrite` (the
`overlay_version`), `Retire...`, `Read` and `Serve`.  A read and the write it
leads to are separate steps wherever the code holds no lock over both: the
heartbeat, the version bump, the promotion decided on the base the gate read.
A lock file is a file of the dir it guards, so a rename of the dir takes it
along: a process that opened it before locks a lock nobody else looks at
(`stray`).  `fs::write` truncates when it opens and fills later, and a handle
follows its file through a rename (`writers`).  Four fields of `me` only serve
the properties: `alone`, `calm`, `ok` (`Refresh::WriteFailed`, negated), and
`over`, the paths at which another process committed an older look (`Outdated`)
while the query was between its snapshot and its answer (not `Unread`).

### PeerInbox (with PeerInboxProofs)

`peer/inbox.rs`, with the hook that drains (`hook/common.rs`), the payload's
budget (`peer/render.rs`) and `peers_msg.rs`.  `lines` is the file of each
session dir there was, `open` says that its last line has no newline, `short`
that the generation sidecar is not whole.  An append is `Say`, `MakeDir` (before
the lock), `OpenLock`, `Lock`, `OpenInbox` and, where they apply, the end of a
half line (`EndTail`), the bump of the generation and the line; a drain takes
what fits (`Fitting`), replaces the file, bumps, and prints after the lock fell
(`Present`); `truncate_inbox` clears.  `RetireDir` and `RemakeDir` are gc and a
rebase.  Lock file and inbox are both opened by path, so a process may hold the
lock of a retired dir while it works on the inbox of the new one: `crossed`
records such dirs.  `Die` strikes between any two steps and half way through
a write.  A concern and a message of a user are one kind of message here.

### PeerWatch (with PeerWatchProofs)

`peer/watcher.rs`, `peer/dispatch.rs`, `concern.rs`, and `peers status --pairs`
as the reference of what should be raised.  `manifest` is the surface each
session wrote, `events` what notify queued, `stamps` the manifests as last
handled, `cache` the own surface (`my_dirty_cache`).  `seeds`, `source` and
`impact` are `SoftState`: the first declarations of the own surface up to the cap
(`SeedsOf`), the graph it opened, and what `impacted_names` answered on it.
`Rebuild` does nothing while the seeds are the same and a graph is there; it
opens one if it has none (`Attach`: whether one loads is open), keeps it for the
watcher's life, and has no neighbours without one.  `Start`, `StampAll`, `Receive`, `Reconcile` and `Sweep` are the
loop, `Gained`, `Visit`, `ReadPeer`, `Tell` one rescan or dispatch: the own
manifest is read by `rebuild`, by `my_dirty_gained_symbols` and into the cache,
with no lock over the three.  `Write` may drop its event or repeat it; a
peer may fall silent and beat again; the watcher may die.  `told` and
`excused` are history.

### Registry (with RegistryProofs)

`registry/store.rs`, and the commands that rewrite the file: `index`, `group`,
`drop`, `prune`.  `reg` is the file (version, entries, groups of an entry,
members of a group by dir name or alias), `dir` the index dirs, `gone` the
checkouts deleted.  A build is `StartBuild`, `OpenMetaLock`, `WriteMeta`, then
`Lock`, `Read`, `Judge`, `Write`; an index whose entry is missing is found by
`StartEnsure` and `Check`.  Whoever reads a file of an old version goes through
`Migrate`, with the lock or (a list) without.  A drop renames the dir away
(`RetireDropped`) before it has the lock.

### Freshness (with FreshnessProofs)

`auto_ensure.rs`, `background.rs`, `read_context.rs`, `engine.rs`,
`graph_path.rs`, and the builder's check of the worktree.  The content of the
worktree is the commit it equals, or `Edited`; `graph` is what is published for
each commit (of this binary, pure or torn; of an older one, in this format or
another), `sidecar` its `.head_sha`,
`overlay` the commits whose graph the session overlay completes to the present
worktree: the promises SessionOverlay and CommitStore check are taken as single
steps here.  A query is `Ask` (by directory or by repository), `Probe...`, then
`Retire`, or one of the outcomes of a refresh (`RefreshCurrent`, where every
fragment is current and a status verdict writes no sidecar; `RefreshParsed` and
`RefreshWalked`, which go on to `Mark` the sidecar; `RefreshNotWritten`), or
`AttachSibling` and `Cover`, or a build of its own;
then `LoadCwd` or `LoadRepo` (which flags a graph behind HEAD and starts the
rebuild), and `Answer`.  The rebuild is a builder that holds
`.warm-attach-rebuild.lock`.  The user edits, commits and checks out between
any two steps.

### HeadCache

`git_cache::head_sha` beside git: a file that git writes gets the next mtime.
`Stat`, `Hit`/`Miss`, `Read`, `Return` are the call; `Commit`, `Checkout`,
`Detach` and `PackRefs` are git.

## 4. What the runs check

| run | instance | shows |
|---|---|---|
| `commit_store` | 2 processes of two formats, 1 SHA, 2 generations, 1 staging name each, torn reads for one of them | safety of the store, the inductive invariant, the refinement; ties of generation come from power losses only |
| `build_locks` | 2 processes, 3 SHAs, 2 of them on one stripe, cap 1, one wedge, minutes 2/5/1, fair | a builder gives up on wedged holders only, names the holder, at most the cap build, nothing hangs |
| `scan_cache` | 2 threads, 2 changes, 1 step of the wall clock | own publishes at once, others within the bound, exact while the clock runs |
| `session_overlay` | 2 processes, 2 files, 2 contents, 3 runs; 3 edits, the last two of one file, or 1 with a move of HEAD and a crash or rename | answers are never old; a refresh that succeeded is served; the next query alone repairs everything |
| `peer_inbox` | 1 sender, 2 hooks, 2 messages, 2 session dirs, 1 death or time-out, fair | what was written whole is there or was taken, in order; it is printed once; nothing stays |
| `peer_watch` | 2 peers, 2 files, 1 text with 2 declarations, a cap of 1 seed, a graph that loads or not, one peer with an earlier overlay, 2 writes, 1 repeat, 1 fault, fair | every overlap is raised but those the code loses sight of; a lasting one is raised at last |
| `peer_watch_missed` | *violation*: 4 writes, no faults | a gain the cache already held is not announced |
| `registry` | 2 processes, 2 repositories, 1 group, 1 administrative command, 1 death or time-out, fair | updates are serial and keep the others', records agree, a lost entry comes back |
| `freshness` | 2 queries, a rebuild, 2 commits, 2 events out of edits, commits, checkouts and failures, fair | an answer is right or flagged; HEAD gets its graph |
| `freshness_torn_graph` | *violation*: 1 edit | an edit during the build is published under the SHA |
| `freshness_old_graph` | *violation*: 2 queries, 2 commits, 2 events | an older binary's graph answers for HEAD without a caveat |
| `head_cache_stale` | *violation*: 2 branches | a checkout between packed branches is not seen |

**Findings.**  The four violation runs, each with the lines in `PROJECT.json`:

* `freshness_torn_graph`: the builder asks once whether the worktree is clean
  and then reads it for as long as the analysis takes.  What an editor saves in
  between is indexed under the SHA, for every worktree of the repository, until
  a force or another binary builds it again.  `HonestAnswers` excepts such graphs.
* `freshness_old_graph`: the gate on the builder's fingerprint looks at the graph
  of HEAD.  When HEAD has none, the warm attach takes the parent's, and asks of it
  the format only (`sibling_graph_compatible`, `auto_ensure.rs:1371-1377`), while
  every release moves the fingerprint.  After an upgrade, an edit and its commit,
  a query therefore answers from the old binary's nodes, without a caveat once
  `cover_warm_attach` has covered the changed files.  `auto_ensure.rs:224-225` and
  `:993-995` and `commands/admin/index.rs:442-444` say that a drifted graph is built
  again before any query loads it.  It lasts until the background rebuild the
  attach starts has published HEAD.  `HonestAnswers` excepts such answers.
* `peer_watch_missed`: the own surface is cached from the newest manifest while
  a peer is handled, so the own event that follows sees nothing new and the
  other peers are not looked at.  `excused` names these peers, and
  `OverlapsHeard` says there are no others.
* `head_cache_stale`: two packed branches share one mtime.

**Also noticed** while modelling, and excepted where a property would fail
(`PROJECT.json` has no run for them):

* *Freshness.*  A query that builds its own graph answers without the
  uncommitted edits and without a caveat (`auto_ensure.rs:734`, `:756`; excepted
  by `built`); a refresh whose fragments were not written gives an unflagged
  answer in the ordinary arm while the warm arm reports it (`auto_ensure.rs:806-810`;
  excepted by `wrote`); a query by repository name whose graph is of another
  commit goes by mtimes and retires the overlay entries of files edited before
  that graph was built, under a query that has refreshed and not yet read them
  (`auto_ensure.rs:694-697`; excepted by `robbed`, and the next query writes them
  again); on a host without `flock(1)` a killed rebuild leaves
  `.warm-attach-rebuild.lock.d` for good and no rebuild starts again (`Flock =
  FALSE` breaks `Heals`).
* *Inbox.*  A death between the truncation and the write of `inbox.jsonl.gen`
  leaves it short, and `read_gen` then fails every append (`inbox.rs:100-120`),
  although `dispatch.rs:78-80` counts on the next write; a message too large for
  any payload starves the smaller ones behind it (`Oversized`); case B of a
  promotion retires pending messages, which a force keeps; the doc of `peers
  inbox` says the file is never rotated or truncated, and both hook and
  `--clear` rewrite it.
* *Watcher.*  `my_dirty_gained_symbols` compares names, not texts, so a file that
  stops being the same text as a peer's in another worktree raises nothing.
* *Registry.*  A member added by its alias stays when the entry goes, and removal
  by the alias leaves the member by dir name; the rebuild from disk also takes
  `<name>.dead.*` dirs that hold a meta; a drop that renames a dir before it has
  the lock can erase the entry of the index just built there, and a migration
  without the lock can undo an update (both are `mislaid` or `overtaken`, and
  `FoundAgain` says that the entry comes back).
* *Session overlay.*  Two processes of one session that stage one content write
  one tmp (`overlay_writer.rs:500`, `:847`); a fast-forward promotion deletes a
  bin another kept entry names (`promotion.rs:78`); two queries may commit in the
  wrong order, and the older entry then counts as the one a third query saw, which
  retires it as unchanged (`over`; this needs three processes, so it was the proof
  of `OwnRefreshServed` and not the run that showed it).  All cost an answer from
  the commit's graph until the next refresh (`SelfHeals`).
* *Locks and store.*  A waiter may read the owner line of the previous holder and
  report another SHA; the comment at `build/semaphore.rs:99-102` says `acquire`
  returns `None` only on I/O errors; on a `noatime` mount an attach that rewrites
  sidecars in place is not seen by the idle sweep (`Atime`).

**Why the bounds are enough.**  The store's steps under the lock concern one
SHA, and what other SHAs of the stripe, more generations or more attempts could
add is covered by the theorems, which hold for all of them (as for the other
modules wherever section 6 has a theorem of the property); two processes give
every pair of builder, force and sweep (`Jobs` gives the sweeps to the new binary
and the force to the old one; both build), and the third role in the hazards is
always a crash or a power loss.  The minutes of `build_locks` keep the order of
the constants in the code (slot wait and build within the lock wait).
`scan_cache` needs two changes to tell an answer from one before and one
between, and two ticks of settling with a stamp one tick late.  A session needs
two files for a batch published in part and for two entries that share a bin,
two contents for an edit, one commit that absorbs a file and one on another
branch for the two promotions, and three runs for "broken by two, found by a
third".  Three edits (change, revert, change) let a clean-up meet an entry
published again, for which one `Busy` file is enough; with a move or a mishap
there is one edit (`FewEdits`).  The
inbox needs two hooks to race for one message and two dirs for one rename;
`MaxDirs` ends the renames, not the rest.  The watcher needs a peer to be handled
and one to be overlooked, two files for a neighbour, two declarations for a seed past the
cap, a peer that was dirty before for an own write that comes second, and two
writes so that each of two sessions goes dirty; the violation needs four.  The registry needs
two repositories for an update to lose the other's, and one administrative
command against any number of builds and looks.  A query in `freshness` meets
one other query and the rebuild; two commits give a sibling behind and one
ahead, and two events every pair of an edit, a commit, a checkout and a failure.

`peer_inbox` lets every message fit (`Oversized` is empty: with one, `Shown`
fails as "Also noticed" has it), and `build_locks` gives all builders one cap (the
theorem `CapsHold` has any mix).

**Symmetry** is over threads, over the processes of a session, over peers and over
queries, in runs without temporal properties.  Deadlock is not checked where the
bounds or the users may stop everything: `session_overlay`, `peer_inbox`,
`peer_watch`, `registry` and `head_cache_stale`.

## 5. Fairness

`commit_store` has no fairness: it is about safety, and that builds and sweeps
end is `NoHang` of `build_locks`.  There, weak fairness of each process's own
steps, since a process that runs and is not wedged is scheduled until it ends
(starts, crashes and wedges are not fair), and time that passes: strong fairness of `Tick`, which is enabled whenever no process has
something instant to do, and infinitely many such moments, that is, there are
not endlessly many instant runs within a minute.  Without the second a wait
bounded in minutes need never end.  A waiter polls, so it is never owed the
lock, and no property says it gets it.

`peer_inbox`: a sender that has begun goes on, and hooks fire while the agent
works (`Draining`); nobody has to send, clear or retire.  `peer_watch`: the one
thread of the watcher goes on, its timer included, and it is started again
after a death; no session has to write.  `registry`: a process goes on, and each
index is looked for again whenever it could be (strong fairness of
`StartEnsure`): `admin index` looks for the entry whenever it is run, and a
hook runs it.  `freshness`: some query goes on (one may be starved by another), some build that
runs goes on, and a rebuild whose build is over ends; nobody has to edit, and no
fault has to happen.

## 6. Proofs

Each proof holds for every value of the constants under the assumptions the
module declares on them, which are typing, that the bounds are numbers, and that
the "nothing" values are outside their sets.  Some theorems assume more:

* `WaitsPatiently` and `ReportsTruly`: the slot wait and a build fit into the lock
  wait: 120 s and a build measured at 7.5 s at worst into 300 s, says
  `orchestrator.rs:31-37`;
* `AnswersAreYoung`: `MaxAge` is positive;
* `UsedKept`: mapping a graph refreshes its access time (`Atime`).

`IInv` of the commit store is also an invariant of its run.

**CommitStoreProofs**: `TypeCorrect`, `InvCorrect`, and from it `BuildsKept`
(`NeverLost`), `StagingKept`, `BuildsOutrank`, `GenerationsUnique`,
`BuildsNotRepeated`, `UsedKept`, `CurrentRises` and the refinement
`StoreImplements`.  `GenerationsUnique` is about steps: no process adds a dir of a
generation its SHA has; it says nothing of what a power loss leaves, and holds
of the steps after such a tie too.  `StorePromises` is about GenerationStore
alone, from `KeptIsDurable` as its own invariant.  The inductive invariant `IInv` is `TypeOK` with

* `JobInv`: which kind of run is at which point;
* `LockInv`: a process past the lock still holds it, so that two processes
  inside are of different stripes, hence of different SHAs; this makes a
  builder's listing of its SHA stay true from `ChooseName` to `Publish`
  (`NameOutranks`, from which `NamesUnique`) and keeps sweeps off its staging dir
  (`OwnStagingKept`);
* `WholeInv`: what is published or about to be is flushed;
* `VictimInv`: victims are of the sweep's SHA, and a generation sweep leaves a
  current dir;
* `RetireInv`: between the fsync of a sweep and its renames every dir of the
  SHA is durable, so a power loss after the retire still finds the survivor;
* `UsedInv`, `NoRepeatedBuild`, `UsedBeforeLockKept` and `NeverLost` themselves.

`NeverLost` is not inductive alone: a retire keeps it only because the survivor
of `VictimInv` is durable by `RetireInv` and flushed by `WholeInv`.

**BuildLocksProofs**: `TypeCorrect`; `CapsHold` (`Throttle`), where `SlotHeld` says
that who builds has a slot below its cap, and the slots bound their number by
an injection; `WaitsPatiently` (`PatientWait`), where `HoldInv` says that a
blocker still holds the stripe and `TimeInv` that a healthy holder has used at
least what its waiter has waited (`WithinBudget`), never more than slot wait
and build; `ReportsTruly` (`TimeoutNamesHolder`), where `NameInv` says that the
sidecar names a holder that has named itself, and that the last report of a
waiter is about the holder that still blocks it.

**RegistryProofs**: `TypeCorrect`; `SerialCorrect` (`Serial`), with
`ReadsUnderLock`: who reads without the lock never writes from what it read;
`NoUpdateLost` (`NoLostUpdate`), since what a command makes of the registry it
read keeps the rest, and what it read is the file; `RecordsAgreeCorrect`
(`RecordsAgree`), an invariant of the file and of every copy a process has read;
`EntriesComplete` (`Registered`), where `OwedInv` says that for each entry that is
missing and not mislaid some build still owes it, and that where a sweep is about
to drop the entry of a dir that is back, its build waits behind the sweep.

**ScanCacheProofs**: `TypeCorrect`, which counts the epoch against the changes
(`EpochInv`); `OwnPublishesSeen`, from `FloorInv`: a scan about to be stored in the
epoch it began in is no older than the last publish of the process;
`AnswersAreYoung`, from `AgeInv`: whatever a scan misses came after the clock was
read for it; `AnswersAreExact`, from `StampInv`: a settled mtime names one content.

**SessionOverlayProofs**: `TypeCorrect`; `ServedCurrent` (`ServedIsCurrent`), from
`SoundInv`: of every entry, in the manifest, in a snapshot or in what a process is
about to commit, the content is what its file holds, or held until a later mtime.
A step of one process changes no other process's knowledge and no file
(`Keeps`), so each action is one small lemma, and `Edit`, which gives the file an
mtime no entry has, is the only other case.  `HealsAlone` (`SelfHeals`), from
`DiskInv` (a deleted file has no mtime, a dir that is gone no entry) and `AloneInv`,
which says point by point what a query has achieved as long as nobody else took a
step: after the gate every dirty file is proved by an entry with a whole bin or will
be parsed (`Gated`), after a promotion or a rebase all are (`Moved`), its tmps are
there, its own and whole before they are renamed, and what it may not serve is
retired (`Healed`).  Of the state the query started from it needs no more than the
types and `DiskInv`: that is what makes it a repair.

`OwnRefreshFound` (`OwnRefreshServed`) follows an entry and its bin through the
steps of all processes, in three layers:

* `BackInv` holds always: nobody idle has work left, what is staged or published
  under the lock is no hour old, and `Ages`: where an entry matches its file and its
  bin is an hour old, whoever is to parse the path looked at the present file.  (An
  hour passes only while nobody runs; hence a sweep's grace is enough.)
* `QuietInv` holds while any query is `calm`: nobody is stray, so who is at a point
  of the lock has it (`LockOne`); tmps about to be renamed are whole or their own
  writer fills them (`TmpsOne`); a path a probe saw clean has no matching entry,
  unless the file is what HEAD has, so a retire takes nothing live (`CleanOne`); what
  a sweep judged is still an orphan (`OrphansOne`); the bins a commit is to name are
  there (`BinsOne`).
* `CalmInv` says what a calm query itself has achieved.  An entry `Stands` if it
  matches its file and whoever is about to write the manifest has the same entry
  in hand; a path is `Safe` if its entry stands and has its bin.  What the gate does
  not parse again is safe (`SeenOne`, `SafeOne`), after the commit every settled path
  is, and so to the answer (`ServedOne`).

`Stands` must speak of the copies others hold, since a manifest is written from a
copy read under the lock; and `Ages` is what rules out that a sweep deletes a bin
which a slower query is about to name again.  What takes the premises away (a
promotion, a rebase, a move of HEAD, a collision of tmps) leaves no other query
calm, which is how the weak spots of section 4 stay outside the property.

**PeerInboxProofs**: `TypeCorrect`; `InboxKeepsAll` (`NothingLost`) and
`InboxShowsOnce` (`ShownOnce`).  `IntactOf`, the lines a reader can parse, is a
recursive function; that it exists, what it does to an appended line and to a
torn tail are lemmas, by the least length that would be a counterexample
(naturals are well-founded).  `FileInv` is `NothingLost` with

* `HoldInv`: who is between lock and unlock holds the lock;
* `TailInv`: who is about to write a line has seen to the tail, so no line is
  fused with half of another;
* `ReadInv`: what a hook read is still what the file holds when it replaces it.

`ShowInv` is `FileInv` with `WrittenInv` (a message is written once, and what is
under way was written), `TakenInv` (what was taken is in no file and no hand that
could write it back, and is printed, dropped or with one hook) and `WaitInv` (what
waits is in one file only, and unshown).  The lemma `StepKinds` sorts the actions
by what they do to the file (a line, a take, a replacement, a clear, ...), and
the three parts are proved about these kinds.

**PeerWatchProofs**: `TypeCorrect`; `EverythingHeard` (`OverlapsHeard`), from
`HeardInv`: of a peer at which no look is still to come, every overlap with the
own manifest as it was last compared is told or excused.  `KnowInv` says when the
stamps, the cache, the seeds and the neighbours are those of the present manifest
and graph, which a rescan that reads the own manifest three times without a lock
does not ensure by itself.  Caps, and graphs that answer in part, come late or
never load, are parameters: nothing is assumed of them but that seeds are
declarations of the manifest.

**FreshnessProofs**: `TypeCorrect`, with `BuildInv` and `PathInv` (a query past its
probe holds a graph this binary can load, and one in the gate, `Gated`, a graph
this binary built); `AnswersAreHonest` (`HonestAnswers`), where `QuietInv` says,
step by step of the gate, what a query knows about HEAD's graph and the overlay
while neither HEAD nor a file changes, `StatusInv` how old the `git status` it goes
by may be, and `OwnBuild` that what it builds meanwhile is HEAD.  Graphs of older
binaries in the present format are among its states: that the warm attach is the
only way to an unflagged answer from one is part of what it says.

**Model-checked only.**  Liveness, since this prover knows no ENABLED:
`NoHang`, `Shown`, `OverlapReported`, `FoundAgain` and `Heals`.
Every invariant the runs check is a theorem.  The violation runs have nothing to
prove.

## 7. What is abstracted or left out

* **CommitStore**: the subtree sweep (`gc.rs:463-478`), names no version parses,
  dry runs, builders of versions without SHA locks, Windows.  Ages are
  nondeterministic (`GoIdle`), but none passes within a sweep.  A power loss
  keeps a rename or undoes it; it leaves no name half way, and after one an
  abandoned staging dir counts as not flushed.  Two names that one process of
  `Procs` gives one generation of a SHA are one dir (only a power loss could leave
  both), and between tied dirs of different processes any may be the current one:
  the PID, the mtime and the name that decide (`commit_lookup.rs:235-253`) are not
  in the model.  In the run each process is started for the kinds `Jobs` gives it;
  the theorems have all.
* **BuildLocks**: `try_existing` and `compute_cap`.  A sidecar may be read empty
  while it is written.  A slot file that does not open counts as busy.
* **ScanCache**: a scan of `commits/` is one step.
* **SessionOverlay**: files that shadow others, config files and the closure,
  failed parses, formats, builder and size cap of a manifest, lock time-outs, and
  the arms of a query whose commit has no graph (Freshness has them).  All
  paths have one route, so a bin is named by content alone.  The stats and the
  parses of a batch are one step each, a bin is filled by one system call, and
  each edit gives a file a new mtime (an edit that restores an old mtime is
  invisible to the code too).  A query writes one batch.  The hour of a sweep's grace
  passes only while nobody runs (`HourPasses`): no query takes that long.
* **PeerInbox**: `drain` and its watermarks, which only tests call; that a later
  concern supersedes an earlier one in a payload.  Dirs used under the lock of
  another dir are excepted from `NothingLost` and `ShownOnce`: there the code
  gives no promise.
* **PeerWatch**: the rotation of logs, symbols of one name in one file, and how a
  graph answers (`Graphs`, against the true neighbours `Reach`).  Whether a graph
  loads is decided anew at each `Rebuild` that has none, which allows a retry of a
  path that failed, where the code waits for the path to move.  SOFT is not owed
  for a peer that was compared (`SoftShort`) while no graph was loaded, with
  neighbours that a cap or a graph that does not know a seed had cut, or
  with neighbours older than the cache.
* **Registry**: the audit log, aliases as strings, and a file that does not
  parse.  Two builds of one repository may both be inside `.meta.lock` here,
  which allows more than the code does.
* **Freshness**: the markers of rebuilds that failed or completed, a slot built
  below the root (counted as drift), and a `git status` that fails: the walk by
  mtimes then misses edits made before the build, as `auto_ensure.rs:426-440`
  says itself.  HEAD is read afresh; HeadCache says when a process that stays
  does not.  An overlay is present for a commit or not; SessionOverlay says what
  that takes.  An edit makes every fragment stale, so the refresh after it parses;
  the code parses the file that was edited.  A query is one process, so that one
  process starts at most one rebuild (`BEHIND_HEAD_SPAWNED`, `auto_ensure.rs:1034`)
  needs no guard.
* **HeadCache**: the caches of the git dirs, which do not move under a process.
* **Not modelled**: the components `PROJECT.json` lists as such, with the reason
  of each.  Most of the repository's lines are parsers, resolution, the session
  view, Cypher and output: functions of one graph or of the bytes of one tree,
  computed within one process.  They have no step another process could come
  between, and a model of one over inputs small enough to enumerate would
  restate the function.  They hold no state that two processes share, so the map
  covers a small share of the lines and most of the shared state.

## 8. Running

```
tlc -config CommitStore.cfg MCCommitStore
tlc -config PeerInbox.cfg MCPeerInbox
tlapm CommitStoreProofs.tla
tlapm PeerInboxProofs.tla
```

`PROJECT.json` pairs each run with its module and configuration.  Definitions
whose comment calls them a mutant are variants of the definition after them with
a plausible bug, used to see that the properties notice it; `PROJECT.json` names
the property each of them breaks.
