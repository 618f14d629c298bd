------------------------------ MODULE Freshness ------------------------------
(***************************************************************************)
(* Which graph a query answers from, and what it says of that graph: the   *)
(* freshness gate, the warm attach of a sibling commit's graph, the build  *)
(* a query runs itself and the background rebuild it starts.               *)
(*                                                                         *)
(* The content of the worktree is the commit it equals, or Edited.  What a *)
(* build of one commit and a refresh of the overlay do inside is modelled  *)
(* in CommitStore and SessionOverlay; here a build is three steps and the  *)
(* overlay is the set of commits whose graph it completes to the present   *)
(* worktree.                                                               *)
(***************************************************************************)
EXTENDS Naturals

CONSTANTS
    Queries,     \* processes that query this worktree, one query at a time
    Rebuilder,   \* the background rebuild
    Last,        \* the history is the line of commits 1..Last
    Edited,      \* the content of a worktree that equals no commit
    None,        \* nothing
    Flock,       \* this host has flock(1)
    MaxEvents    \* bound of the edits, commits, checkouts and failures

Commits == 1..Last

ASSUME FreshnessAssumption ==
    /\ Last \in Nat \ {0} /\ MaxEvents \in Nat /\ Flock \in BOOLEAN
    /\ {None, Edited} \cap Commits = {} /\ None # Edited /\ Rebuilder \notin Queries

Builders == Queries \cup {Rebuilder}

VARIABLES
    head,     \* the commit HEAD names
    tip,      \* the newest commit there is
    tree,     \* what the worktree holds
    graph,    \* the published graph of each commit: none, of an older binary in
              \* another format (foreign) or in this one (old), pure or torn
    newer,    \* the graphs some source file is newer than
    sidecar,  \* .head_sha beside each graph
    overlay,  \* the commits whose graph the session overlay completes
    query,    \* what each query does and knows
    build,    \* the build each of them runs
    lock,     \* the rebuild lock: free, held, or the dir a killed job left
    events    \* how many of them there were

vars == <<head, tip, tree, graph, newer, sidecar, overlay, query, build, lock, events>>
worktree == <<head, tip, tree>>
store == <<graph, newer, sidecar>>

Published(c) == graph[c] # "none"
Drifted(c) == graph[c] \in {"foreign", "old"}
Readable(c) == Published(c) /\ graph[c] # "foreign"

NoBuild == [pc |-> "off", sha |-> None, live |-> FALSE, pure |-> FALSE, newer |-> FALSE]
Starting == [NoBuild EXCEPT !.pc = "start"]

(* A query: quiet while neither HEAD nor a file changed since it began,    *)
(* still while no file changed since its git status, same while the        *)
(* overlay is what it was when it began, held while the manifest it read   *)
(* then completes the graph of HEAD, robbed once a query that went by      *)
(* mtimes retired the entries it rests on.  Of a query that is not quiet it *)
(* no longer counts whether it built, wrote or was robbed.                 *)
Idle == [pc |-> "idle", kind |-> "cwd", path |-> None, warm |-> FALSE, covered |-> FALSE,
         behind |-> FALSE, built |-> FALSE, base |-> None, wrote |-> TRUE,
         quiet |-> FALSE, still |-> FALSE, same |-> FALSE, held |-> FALSE, robbed |-> FALSE]

Points == {"idle", "probe", "retire", "refresh", "mark", "attach", "cover", "build", "load", "answer"}

TypeOK ==
    /\ head \in 1..tip /\ tip \in Commits /\ tree \in (1..tip) \cup {Edited}
    /\ graph \in [Commits -> {"none", "foreign", "old", "pure", "torn"}]
    /\ newer \subseteq {c \in Commits : Published(c)}
    /\ sidecar \in [Commits -> Commits \cup {None}]
    /\ \A c \in Commits : Published(c) => c \in 1..tip /\ sidecar[c] # None
    /\ overlay \subseteq 1..tip
    /\ query \in [Queries -> [pc : Points, kind : {"cwd", "repo"}, path : Commits \cup {None},
                              warm : BOOLEAN, covered : BOOLEAN, behind : BOOLEAN, built : BOOLEAN,
                              base : Commits \cup {None}, wrote : BOOLEAN, quiet : BOOLEAN, still : BOOLEAN, same : BOOLEAN,
                              held : BOOLEAN, robbed : BOOLEAN]]
    /\ build \in [Builders -> [pc : {"off", "start", "check", "read", "publish", "done", "failed"},
                               sha : Commits \cup {None}, live : BOOLEAN, pure : BOOLEAN,
                               newer : BOOLEAN]]
    /\ \A p, r \in Builders :
           {build[p].pc, build[r].pc} \subseteq {"read", "publish"} /\ build[p].sha = build[r].sha
           => p = r
    /\ (lock = "held") = (build[Rebuilder].pc # "off")
    /\ lock \in {"free", "held", "left"}
    /\ events \in 0..MaxEvents

Init ==
    /\ head = 1 /\ tree = 1
    /\ \E first \in {"none", "foreign", "old", "pure"} :
           /\ tip \in IF first = "pure" THEN Commits ELSE {1}
           /\ graph = [c \in Commits |-> IF c = 1 THEN first ELSE "none"]
           /\ sidecar = [c \in Commits |-> IF c = 1 /\ first # "none" THEN 1 ELSE None]
    /\ newer = {} /\ overlay = {}
    /\ query = [q \in Queries |-> Idle]
    /\ build = [p \in Builders |-> NoBuild]
    /\ lock = "free"
    /\ events = 0

At(q, here) == query[q].pc = here
Go(q, mine) == query' = [query EXCEPT ![q] = mine]
Goto(q, there) == [query[q] EXCEPT !.pc = there]
Forget(mine) == [mine EXCEPT !.base = None, !.still = FALSE, !.same = FALSE, !.held = FALSE]
ToLoad(q) == Forget(Goto(q, "load"))
ToAnswer(q) == [Forget(Goto(q, "answer")) EXCEPT !.kind = Idle.kind]

(* Something changed under a query.                                        *)
Disturbed(mine) == [mine EXCEPT !.quiet = FALSE, !.held = FALSE, !.built = FALSE,
                                !.wrote = TRUE, !.robbed = FALSE]

(* Where a query has read the entries and not yet answered from them.      *)
Resting == {"probe", "refresh", "mark", "load", "answer"}

(* Query q goes on as `mine` and leaves the overlay as `now`.              *)
GoOverlay(q, mine, now) ==
    /\ overlay' = now
    /\ query' = [r \in Queries |->
           IF r = q THEN mine
           ELSE [query[r] EXCEPT !.same = @ /\ now = overlay,
                                 !.robbed = @ \/ (/\ query[r].quiet /\ query[q].base = None
                                                  /\ query[r].pc \in Resting
                                                  /\ query[r].path \in overlay \ now)]]

Event == events < MaxEvents /\ events' = events + 1

-----------------------------------------------------------------------------
(* The user.                                                               *)

(* Files are written: every graph is older than they are, and no fragment  *)
(* of the overlay is of their content.  The next refresh parses them.      *)
Written ==
    /\ newer' = {c \in Commits : Published(c)}
    /\ overlay' = {}
    /\ build' = [p \in Builders |-> [build[p] EXCEPT !.newer = @ \/ build[p].pc = "publish"]]
    /\ query' = [q \in Queries |-> [Disturbed(query[q]) EXCEPT !.still = FALSE]]

(* An edit of any kind; one may take the last edit back.                   *)
Edit ==
    /\ Event
    /\ tree' \in IF tree = Edited THEN {Edited, head} ELSE {Edited}
    /\ Written
    /\ UNCHANGED <<head, tip, graph, sidecar, lock>>

Checkout ==
    /\ Event
    /\ tree = head
    /\ \E c \in (1..tip) \ {head} : head' = c /\ tree' = c
    /\ Written
    /\ UNCHANGED <<tip, graph, sidecar, lock>>

(* The edits become a commit; no file is written.                          *)
Commit ==
    /\ Event
    /\ tree = Edited /\ head = tip /\ tip < Last
    /\ head' = tip + 1 /\ tip' = tip + 1 /\ tree' = tip + 1
    /\ query' = [q \in Queries |-> Disturbed(query[q])]
    /\ UNCHANGED <<store, overlay, build, lock>>

-----------------------------------------------------------------------------
(* A build of one commit, of a query or of the rebuild.                    *)

Builds(p, mine) == build' = [build EXCEPT ![p] = mine]
BuildAt(p, there) == [build[p] EXCEPT !.pc = there]

BuildStart(p) ==
    /\ build[p].pc = "start"
    /\ Builds(p, [BuildAt(p, "check") EXCEPT !.sha = head])
    /\ UNCHANGED <<worktree, store, overlay, query, lock, events>>

(* Mutant: the stripe lock is not taken.                                   *)
UnlockedAlways(p) == p \in Builders

(* The stripe lock of the commit is free.                                  *)
Unlocked(p) ==
    \A r \in Builders \ {p} :
        ~(build[r].pc \in {"read", "publish"} /\ build[r].sha = build[p].sha)

(* A graph of this binary is there, perhaps since another builder let go   *)
(* of the lock: it is attached.                                            *)
BuildAttach(p) ==
    /\ build[p].pc = "check"
    /\ Published(build[p].sha) /\ ~Drifted(build[p].sha)
    /\ sidecar' = [sidecar EXCEPT ![build[p].sha] = build[p].sha]
    /\ Builds(p, BuildAt(p, "done"))
    /\ UNCHANGED <<worktree, graph, newer, overlay, query, lock, events>>

(* worktree_clean_and_head_matches: a clean worktree at the commit is read *)
(* itself, any other commit is extracted from git.                         *)
BuildCheck(p) ==
    /\ build[p].pc = "check"
    /\ Unlocked(p)
    /\ ~Published(build[p].sha) \/ Drifted(build[p].sha)
    /\ Builds(p, [BuildAt(p, "read") EXCEPT !.live = head = build[p].sha /\ tree = head])
    /\ UNCHANGED <<worktree, store, overlay, query, lock, events>>

(* The analyzer reads the files and writes graph.bin.                      *)
BuildRead(p) ==
    /\ build[p].pc = "read"
    /\ Builds(p, [BuildAt(p, "publish") EXCEPT !.live = FALSE,
                                           !.pure = build[p].live => tree = build[p].sha])
    /\ UNCHANGED <<worktree, store, overlay, query, lock, events>>

BuildPublish(p) ==
    /\ build[p].pc = "publish"
    /\ graph' = [graph EXCEPT ![build[p].sha] = IF build[p].pure THEN "pure" ELSE "torn"]
    /\ newer' = IF build[p].newer THEN newer \cup {build[p].sha} ELSE newer \ {build[p].sha}
    /\ sidecar' = [sidecar EXCEPT ![build[p].sha] = build[p].sha]
    /\ Builds(p, [NoBuild EXCEPT !.pc = "done", !.sha = build[p].sha])
    /\ UNCHANGED <<worktree, overlay, query, lock, events>>

BuildFail(p) ==
    /\ build[p].pc \in {"check", "read", "publish"}
    /\ Event
    /\ Builds(p, [NoBuild EXCEPT !.pc = "failed"])
    /\ UNCHANGED <<worktree, store, overlay, query, lock>>

-----------------------------------------------------------------------------
(* The background rebuild.                                                 *)

(* A launcher is started, if it can be; it leaves at once where the lock   *)
(* is taken.                                                               *)
SpawnRebuild ==
    \/ /\ lock = "free" /\ lock' = "held"
       /\ Builds(Rebuilder, Starting)
       /\ UNCHANGED events
    \/ lock # "free" /\ UNCHANGED <<lock, build, events>>
    \/ Event /\ UNCHANGED <<lock, build>>

RebuildEnds ==
    /\ build[Rebuilder].pc \in {"done", "failed"}
    /\ lock' = "free"
    /\ Builds(Rebuilder, NoBuild)
    /\ UNCHANGED <<worktree, store, overlay, query, events>>

(* Mutant: the lock is a dir on every host.                                *)
RebuildKilledInDir ==
    /\ build[Rebuilder].pc # "off"
    /\ Event
    /\ lock' = "left"
    /\ Builds(Rebuilder, NoBuild)
    /\ UNCHANGED <<worktree, store, overlay, query>>

(* The job is killed: the kernel drops a flock, nobody removes a dir.      *)
RebuildKilled ==
    /\ build[Rebuilder].pc # "off"
    /\ Event
    /\ lock' = IF Flock THEN "free" ELSE "left"
    /\ Builds(Rebuilder, NoBuild)
    /\ UNCHANGED <<worktree, store, overlay, query>>

-----------------------------------------------------------------------------
(* A query.                                                                *)

(* It asks about the current directory, whose graph is the one of HEAD, or *)
(* about a repository by name, whose graph is the newest by mtime; which   *)
(* one that is stays open.  The manifest is read before git status.        *)
Ask(q) ==
    /\ At(q, "idle")
    /\ LET asked == [Idle EXCEPT !.pc = "probe", !.quiet = TRUE, !.same = TRUE,
                                 !.held = head \in overlay]
       IN \/ Go(q, [asked EXCEPT !.path = IF Published(head) THEN head ELSE None])
          \/ \E c \in Commits :
                 Published(c) /\ Go(q, [asked EXCEPT !.kind = "repo", !.path = c])
    /\ UNCHANGED <<worktree, store, overlay, build, lock, events>>

Path(q) == query[q].path

ProbeMissing(q) ==
    /\ At(q, "probe")
    /\ Path(q) = None
    /\ Go(q, Goto(q, "attach"))
    /\ UNCHANGED <<worktree, store, overlay, build, lock, events>>

(* A graph of another binary is never refreshed, only built again.         *)
ProbeDrifted(q) ==
    /\ At(q, "probe")
    /\ Path(q) # None /\ Drifted(Path(q))
    /\ Go(q, Goto(q, "build"))
    /\ Builds(q, Starting)
    /\ UNCHANGED <<worktree, store, overlay, lock, events>>

Probing(q) == At(q, "probe") /\ Path(q) # None /\ ~Drifted(Path(q))

(* git_fingerprint_shortcut: git status says all where the graph is of     *)
(* HEAD by its sidecar or by its dir.                                      *)
OfHead(c) == head \in {sidecar[c], c}

ProbeStatus(q) ==
    /\ Probing(q) /\ OfHead(Path(q))
    /\ Go(q, [Goto(q, IF tree = head THEN "retire" ELSE "refresh")
                EXCEPT !.base = head, !.still = TRUE])
    /\ UNCHANGED <<worktree, store, overlay, build, lock, events>>

(* any_source_newer_than: otherwise the mtimes say it.                     *)
ProbeWalk(q) ==
    /\ Probing(q) /\ ~OfHead(Path(q))
    /\ Go(q, [Goto(q, IF Path(q) \in newer THEN "refresh" ELSE "retire") EXCEPT !.still = TRUE])
    /\ UNCHANGED <<worktree, store, overlay, build, lock, events>>

(* Entries that are not what they were when the query began stay.          *)
Kept(q) == IF query[q].same THEN {} ELSE overlay

(* Ready: retire_all_best_effort, which a busy lock may stop.              *)
Retire(q) ==
    /\ At(q, "retire")
    /\ \E now \in {Kept(q), overlay} : GoOverlay(q, ToLoad(q), now)
    /\ UNCHANGED <<worktree, store, build, lock, events>>

(* refresh_overlay for the files git status or the walk named.  After the  *)
(* files have been written again it completes nothing.                     *)
Refreshed(q, mine, claimed) ==
    \E left \in {Kept(q), overlay} :
        GoOverlay(q, mine, IF query[q].still THEN left \cup claimed ELSE overlay)

(* Refresh::Current: every file git status named has a fragment in the     *)
(* manifest that was read before it.  Nothing is written.                  *)
RefreshCurrent(q) ==
    /\ At(q, "refresh") /\ query[q].base # None
    /\ query[q].still => query[q].held
    /\ Refreshed(q, ToLoad(q), overlay \cap {query[q].base})
    /\ UNCHANGED <<worktree, store, build, lock, events>>

(* Refresh::Parsed: the overlay holds the files that differ from `base`,   *)
(* the HEAD of the status.                                                 *)
RefreshParsed(q) ==
    /\ At(q, "refresh") /\ query[q].base # None
    /\ Refreshed(q, [Forget(Goto(q, "mark")) EXCEPT !.robbed = FALSE], {query[q].base})
    /\ UNCHANGED <<worktree, store, build, lock, events>>

(* The walk misses what was edited before the build, so nothing rests on   *)
(* its files, and it may retire the entries of others.  The sidecar is     *)
(* written whether it found anything stale or not.                         *)
RefreshWalked(q) ==
    /\ At(q, "refresh") /\ query[q].base = None
    /\ Refreshed(q, Forget(Goto(q, "mark")), {})
    /\ UNCHANGED <<worktree, store, build, lock, events>>

(* The parse ran and its fragments were not written: the query goes on.    *)
RefreshNotWritten(q) ==
    /\ At(q, "refresh")
    /\ Event
    /\ Go(q, [ToLoad(q) EXCEPT !.wrote = ~query[q].quiet])
    /\ UNCHANGED <<worktree, store, overlay, build, lock>>

(* write_head_sha_sidecar, after the refresh.                              *)
Mark(q) ==
    /\ At(q, "mark")
    /\ sidecar' = [sidecar EXCEPT ![Path(q)] = head]
    /\ Go(q, Goto(q, "load"))
    /\ UNCHANGED <<worktree, graph, newer, overlay, build, lock, events>>

(* attach_latest_sibling_sha: a graph at most one commit behind HEAD.  Of  *)
(* the binary that built it only the format counts.                        *)
Siblings == {c \in Commits : Readable(c) /\ head <= c + 1}

AttachSibling(q) ==
    /\ At(q, "attach")
    /\ \E c \in Siblings : Go(q, [Goto(q, "cover") EXCEPT !.path = c, !.warm = TRUE])
    /\ SpawnRebuild
    /\ UNCHANGED <<worktree, store, overlay>>

AttachNone(q) ==
    /\ At(q, "attach")
    /\ Siblings = {}
    /\ Go(q, Goto(q, "build"))
    /\ Builds(q, Starting)
    /\ UNCHANGED <<worktree, store, overlay, lock, events>>

(* cover_warm_attach: the files that differ between the sibling and HEAD   *)
(* and those git status names go through the refresh ...                   *)
Cover(q) ==
    /\ At(q, "cover")
    /\ GoOverlay(q, [ToAnswer(q) EXCEPT !.covered = TRUE], Kept(q) \cup {Path(q), head})
    /\ UNCHANGED <<worktree, store, build, lock, events>>

(* ... unless they are too many, or git or the overlay fails.              *)
CoverNot(q) ==
    /\ At(q, "cover")
    /\ Go(q, ToAnswer(q))
    /\ UNCHANGED <<worktree, store, overlay, build, lock, events>>

QueryBuilt(q) ==
    /\ At(q, "build") /\ build[q].pc = "done"
    /\ Go(q, [ToLoad(q) EXCEPT !.path = build[q].sha, !.built = query[q].quiet])
    /\ Builds(q, NoBuild)
    /\ UNCHANGED <<worktree, store, overlay, lock, events>>

QueryFails(q) ==
    /\ At(q, "build") /\ build[q].pc = "failed"
    /\ Go(q, Idle)
    /\ Builds(q, NoBuild)
    /\ UNCHANGED <<worktree, store, overlay, lock, events>>

(* for_dir resolves again; a HEAD that has no graph by now is an error.    *)
LoadCwd(q) ==
    /\ At(q, "load") /\ query[q].kind = "cwd"
    /\ Go(q, IF Readable(head)
             THEN [ToAnswer(q) EXCEPT !.path = head] ELSE Idle)
    /\ UNCHANGED <<worktree, store, overlay, build, lock, events>>

(* Mutant: the sidecar, not the dir, says which commit a graph is of.      *)
BehindHeadBySidecar(c) == sidecar[c] # head

(* graph_behind_head                                                       *)
BehindHead(c) == c # head

(* for_graph loads what it probed or built and flags it.  A query is one   *)
(* process, so the guard that starts one rebuild a process is left out.    *)
LoadRepo(q) ==
    /\ At(q, "load") /\ query[q].kind = "repo"
    /\ Go(q, [ToAnswer(q) EXCEPT !.behind = BehindHead(Path(q))])
    /\ IF BehindHead(Path(q)) THEN SpawnRebuild ELSE UNCHANGED <<build, lock, events>>
    /\ UNCHANGED <<worktree, store, overlay>>

Answer(q) ==
    /\ At(q, "answer")
    /\ Go(q, Idle)
    /\ UNCHANGED <<worktree, store, overlay, build, lock, events>>

-----------------------------------------------------------------------------

User == Edit \/ Checkout \/ Commit
BuildStep(p) == BuildStart(p) \/ BuildAttach(p) \/ BuildCheck(p) \/ BuildRead(p) \/ BuildPublish(p)
Probe(q) == ProbeMissing(q) \/ ProbeDrifted(q) \/ ProbeStatus(q) \/ ProbeWalk(q)
Query(q) ==
    \/ Ask(q) \/ Probe(q) \/ Retire(q)
    \/ RefreshCurrent(q) \/ RefreshParsed(q) \/ RefreshWalked(q) \/ Mark(q)
    \/ AttachSibling(q) \/ AttachNone(q) \/ Cover(q) \/ CoverNot(q)
    \/ QueryBuilt(q) \/ QueryFails(q) \/ LoadCwd(q) \/ LoadRepo(q) \/ Answer(q)

Next ==
    \/ User
    \/ \E p \in Builders : BuildStep(p) \/ BuildFail(p)
    \/ RebuildEnds \/ RebuildKilled
    \/ \E q \in Queries : Query(q) \/ RefreshNotWritten(q)

Spec == Init /\ [][Next]_vars

(* Some query goes on, and some build that runs, which is less than that   *)
(* every process takes its steps; nothing makes the user act or a step     *)
(* fail.                                                                   *)
FairSpec ==
    /\ Spec
    /\ WF_vars(\E q \in Queries : Query(q))
    /\ WF_vars(\E p \in Builders : BuildStep(p))
    /\ WF_vars(RebuildEnds)

-----------------------------------------------------------------------------
(* Properties.                                                             *)

(* unverified_reason and behind_head: the answer says that it may lack     *)
(* something.  The view is checked as the answer is made.                  *)
Flagged(q) ==
    IF query[q].warm THEN ~query[q].covered \/ Path(q) \notin overlay ELSE query[q].behind

(* What q would answer is what the worktree holds.                         *)
Right(q) == graph[Path(q)] = "pure" /\ (tree = Path(q) \/ Path(q) \in overlay)

(* An answer without a caveat, of a query during which nothing changed.    *)
Plain(q) == At(q, "answer") /\ query[q].quiet /\ ~Flagged(q)

(* A query during which neither HEAD nor a file changes answers what the   *)
(* worktree holds or says that it may not, whatever other queries, the     *)
(* rebuild and their writes to the sidecar and the overlay do meanwhile.   *)
(* Five ways to answer are known to be wrong and excepted: right after a   *)
(* build of its own in a dirty worktree, over fragments it could not       *)
(* write, from a graph torn by an edit during the build, beside a query    *)
(* about another graph that retires what it cannot see, and from a sibling *)
(* graph an older binary built in the same format.                         *)
HonestAnswers ==
    \A q \in Queries :
        Plain(q) => \/ Right(q)
                    \/ query[q].built /\ tree # head
                    \/ ~query[q].wrote
                    \/ query[q].robbed
                    \/ graph[Path(q)] = "torn"
                    \/ query[q].warm /\ graph[Path(q)] = "old"

(* A graph an older binary built answers no query without a caveat, which  *)
(* is what the gate on the builder's fingerprint is for.                   *)
NoDriftedAnswers == \A q \in Queries : Plain(q) => ~Drifted(Path(q))

(* While queries keep being asked, HEAD gets a graph of this binary at     *)
(* last, whatever builds failed and whichever launchers never started.     *)
Heals == <>[](Published(head) /\ ~Drifted(head))

(* "L2 is SHA-pure" (orchestrator.rs): a published graph holds the tree of *)
(* its commit, whatever is edited or checked out while it is built.        *)
GraphsArePure == \A c \in Commits : graph[c] # "torn"
=============================================================================
