--------------------------- MODULE FreshnessProofs ---------------------------
(***************************************************************************)
(* Machine-checked theorems about Freshness, for any queries, any length   *)
(* of the history and any bound of the events.                             *)
(***************************************************************************)
EXTENDS Freshness, TLAPS

USE FreshnessAssumption

QueryRecords ==
    [pc : Points, kind : {"cwd", "repo"}, path : Commits \cup {None},
     warm : BOOLEAN, covered : BOOLEAN, behind : BOOLEAN, built : BOOLEAN,
     base : Commits \cup {None}, wrote : BOOLEAN, quiet : BOOLEAN, still : BOOLEAN,
     same : BOOLEAN, held : BOOLEAN, robbed : BOOLEAN]
BuildRecords ==
    [pc : {"off", "start", "check", "read", "publish", "done", "failed"},
     sha : Commits \cup {None}, live : BOOLEAN, pure : BOOLEAN, newer : BOOLEAN]

Built == {"pure", "torn"}
Usable == Built \cup {"old"}

(* What a builder knows of the graph of its commit: while it holds the     *)
(* stripe lock nobody else publishes it, and when it is done it is there.  *)
BuildInv ==
    \A p \in Builders :
        /\ build[p].pc \in {"check", "read", "publish", "done"} => build[p].sha \in 1..tip
        /\ build[p].pc \in {"read", "publish"} => graph[build[p].sha] \in {"none", "foreign", "old"}
        /\ build[p].pc = "done" => graph[build[p].sha] \in Built

(* A query past its probe holds a graph this binary can read, and as long  *)
(* as it is in the gate one that this binary built: only a warm attach and *)
(* the load at the end take a graph of an older one.                       *)
PathInv ==
    \A q \in Queries :
        /\ query[q].base \in (1..tip) \cup {None}
        /\ query[q].pc \in {"retire", "refresh", "mark", "cover", "load", "answer"} =>
               query[q].path \in 1..tip /\ graph[query[q].path] \in Usable
        /\ query[q].pc \in {"retire", "refresh", "mark", "load"} => graph[query[q].path] \in Built
        /\ query[q].pc = "probe" /\ query[q].path # None =>
               query[q].path \in 1..tip /\ Published(query[q].path)

TypeInv == TypeOK /\ BuildInv /\ PathInv

-----------------------------------------------------------------------------
(* Parts of the invariant, and what keeps them.                            *)

Knows == {"retire", "refresh", "mark", "cover", "load", "answer"}
Gated == {"retire", "refresh", "mark", "load"}

(* What TypeInv says of one query and of one builder.                      *)
Sane(k) ==
    /\ k \in QueryRecords
    /\ k.base \in (1..tip) \cup {None}
    /\ k.pc \in Knows => k.path \in 1..tip /\ graph[k.path] \in Usable
    /\ k.pc \in Gated => graph[k.path] \in Built
    /\ k.pc = "probe" /\ k.path # None => k.path \in 1..tip /\ Published(k.path)
Able(b) ==
    /\ b \in BuildRecords
    /\ b.pc \in {"check", "read", "publish", "done"} => b.sha \in 1..tip
    /\ b.pc \in {"read", "publish"} => graph[b.sha] \in {"none", "foreign", "old"}
    /\ b.pc = "done" => graph[b.sha] \in Built

Alone ==
    \A p, r \in Builders :
        {build[p].pc, build[r].pc} \subseteq {"read", "publish"} /\ build[p].sha = build[r].sha
        => p = r
RebuildLock ==
    (lock = "held") = (build[Rebuilder].pc # "off") /\ lock \in {"free", "held", "left"}
QueryPart == query \in [Queries -> QueryRecords] /\ \A q \in Queries : Sane(query[q])
BuildPart ==
    /\ build \in [Builders -> BuildRecords] /\ \A p \in Builders : Able(build[p])
    /\ Alone /\ RebuildLock
TreePart == head \in 1..tip /\ tip \in Commits /\ tree \in (1..tip) \cup {Edited}
StorePart ==
    /\ graph \in [Commits -> {"none", "foreign", "old", "pure", "torn"}]
    /\ newer \subseteq {c \in Commits : Published(c)}
    /\ sidecar \in [Commits -> Commits \cup {None}]
    /\ \A c \in Commits : Published(c) => c \in 1..tip /\ sidecar[c] # None
    /\ overlay \subseteq 1..tip
    /\ events \in 0..MaxEvents

LEMMA Parts ==
    /\ TypeInv => QueryPart /\ BuildPart /\ TreePart /\ StorePart
    /\ QueryPart' /\ BuildPart' /\ TreePart' /\ StorePart' => TypeInv'
  BY DEF TypeInv, TypeOK, BuildInv, PathInv, QueryPart, BuildPart, TreePart, StorePart, Sane,
         Able, Alone, RebuildLock, QueryRecords, BuildRecords, Knows, Gated

LEMMA Truth == ASSUME NEW x, NEW S PROVE \E h \in BOOLEAN : h = (x \in S)
<1>1. (x \in S) \in BOOLEAN
  OBVIOUS
<1>2. QED
  BY <1>1

LEMMA Numbers == /\ \A t \in Commits : t \in Nat /\ 1..t \subseteq Commits
                 /\ None \notin Commits /\ Edited \notin Commits /\ 1 \in Commits
                 /\ Rebuilder \in Builders /\ Queries \subseteq Builders
  BY DEF Commits, Builders

(* One query goes on as `mine`, the others stay.                           *)
LEMMA GoKeeps ==
    ASSUME QueryPart, NEW q \in Queries, NEW mine, Go(q, mine), Sane(mine),
           UNCHANGED <<tip, graph>>
    PROVE  QueryPart'
<1>1. mine \in QueryRecords
  BY DEF Sane
<1>2. query' \in [Queries -> QueryRecords]
  BY <1>1 DEF QueryPart, Go
<1>3. ASSUME NEW r \in Queries PROVE Sane(query[r])'
  <2>1. query'[r] \in {mine, query[r]}
    BY DEF QueryPart, Go
  <2>2. Sane(query'[r])
    BY <2>1 DEF QueryPart
  <2>3. QED
    BY <2>2 DEF Sane, Knows, Gated, Usable, Built, Published
<1>4. QED
  BY <1>2, <1>3 DEF QueryPart

LEMMA OverlayKeeps ==
    ASSUME QueryPart, NEW q \in Queries, NEW mine, NEW now, GoOverlay(q, mine, now), Sane(mine),
           UNCHANGED <<tip, graph>>
    PROVE  QueryPart'
<1>1. ASSUME NEW r \in Queries PROVE query'[r] \in QueryRecords /\ Sane(query'[r])
  <2>1. CASE r = q
    BY <2>1 DEF GoOverlay, Sane
  <2>2. CASE r # q
    <3>1. PICK k \in QueryRecords : k = query[r]
      BY DEF QueryPart
    <3>2. PICK s \in BOOLEAN, d \in BOOLEAN : query'[r] = [k EXCEPT !.same = s, !.robbed = d]
      BY <2>2, <3>1 DEF GoOverlay, QueryRecords
    <3>3. query'[r] \in QueryRecords
      BY <3>1, <3>2 DEF QueryRecords
    <3>4. /\ query'[r].pc = k.pc /\ query'[r].path = k.path /\ query'[r].base = k.base
      BY <3>1, <3>2 DEF QueryRecords
    <3>5. Sane(k)
      BY <3>1 DEF QueryPart
    <3>6. QED
      BY <3>3, <3>4, <3>5 DEF Sane
  <2>3. QED
    BY <2>1, <2>2
<1>2. query' = [r \in Queries |-> query'[r]]
  BY DEF GoOverlay
<1>3. QED
  BY <1>1, <1>2 DEF QueryPart, Sane, Knows, Gated, Usable, Built, Published

(* A builder goes on as `mine`, and no other has its commit.               *)
LEMMA BuildKeeps ==
    ASSUME BuildPart, NEW p \in Builders, NEW mine, Builds(p, mine), Able(mine),
           \A r \in Builders \ {p} :
               {mine.pc, build[r].pc} \subseteq {"read", "publish"} => mine.sha # build[r].sha,
           (lock' = "held") = (IF p = Rebuilder THEN mine.pc # "off" ELSE lock = "held"),
           lock' \in {"free", "held", "left"},
           UNCHANGED <<tip, graph>>
    PROVE  BuildPart'
<1>1. mine \in BuildRecords
  BY DEF Able
<1>2. build' \in [Builders -> BuildRecords]
  BY <1>1 DEF BuildPart, Builds
<1>3. build'[p] = mine /\ \A r \in Builders \ {p} : build'[r] = build[r]
  BY DEF BuildPart, Builds
<1>4. ASSUME NEW r \in Builders PROVE Able(build[r])'
  <2>1. Able(build'[r])
    BY <1>3 DEF BuildPart
  <2>2. QED
    BY <2>1 DEF Able, Built
<1>5. Alone'
  BY <1>3 DEF Alone, BuildPart
<1>6. RebuildLock'
  BY <1>3, Numbers DEF RebuildLock, BuildPart
<1>7. QED
  BY <1>2, <1>4, <1>5, <1>6 DEF BuildPart

LEMMA BuildStays ==
    ASSUME BuildPart, UNCHANGED <<build, lock, tip, graph>>
    PROVE  BuildPart'
  BY DEF BuildPart, Able, Alone, RebuildLock, Built

(* What moving on and forgetting the status leave as it was.               *)
Alike(g, k) ==
    /\ g.path = k.path /\ g.warm = k.warm /\ g.covered = k.covered
    /\ g.behind = k.behind /\ g.built = k.built /\ g.wrote = k.wrote
    /\ g.quiet = k.quiet /\ g.robbed = k.robbed

LEMMA Gone ==
    ASSUME NEW k \in QueryRecords, NEW there \in Points, NEW g, g = [k EXCEPT !.pc = there]
    PROVE  /\ g \in QueryRecords /\ Alike(g, k) /\ g.pc = there
           /\ g.base = k.base /\ g.kind = k.kind /\ g.still = k.still /\ g.same = k.same
           /\ g.held = k.held
  BY DEF QueryRecords, Alike

LEMMA Forgot ==
    ASSUME NEW k \in QueryRecords, NEW f, f = Forget(k)
    PROVE  /\ f \in QueryRecords /\ Alike(f, k) /\ f.pc = k.pc
           /\ f.base = None /\ f.kind = k.kind /\ f.still = FALSE
  BY DEF QueryRecords, Alike, Forget

LEMMA Troubled ==
    ASSUME NEW k \in QueryRecords, NEW d, d \in {Disturbed(k), [Disturbed(k) EXCEPT !.still = FALSE]}
    PROVE  /\ d \in QueryRecords /\ d.quiet = FALSE
           /\ d.pc = k.pc /\ d.path = k.path /\ d.base = k.base /\ d.same = k.same
           /\ d = Disturbed(k) => d.still = k.still
           /\ d = [Disturbed(k) EXCEPT !.still = FALSE] => d.still = FALSE
<1>1. PICK e : e = Disturbed(k)
  OBVIOUS
<1>2. /\ e \in QueryRecords /\ e.quiet = FALSE /\ e.still = k.still
      /\ e.pc = k.pc /\ e.path = k.path /\ e.base = k.base /\ e.same = k.same
  BY <1>1 DEF QueryRecords, Disturbed
<1>3. CASE d = e
  <2>1. d = [e EXCEPT !.still = FALSE] => d.still = FALSE
    BY <1>2 DEF QueryRecords
  <2>2. QED
    BY <1>1, <1>2, <1>3, <2>1
<1>4. CASE d = [e EXCEPT !.still = FALSE]
  <2>1. /\ d \in QueryRecords /\ d.quiet = FALSE /\ d.still = FALSE
        /\ d.pc = e.pc /\ d.path = e.path /\ d.base = e.base /\ d.same = e.same
    BY <1>2, <1>4 DEF QueryRecords
  <2>2. d = e => d.still = k.still
    BY <1>2
  <2>3. QED
    BY <1>1, <1>2, <2>1, <2>2
<1>5. QED
  BY <1>1, <1>3, <1>4

LEMMA IdleSane == Sane(Idle)
<1>1. Idle \in QueryRecords
  BY DEF Idle, QueryRecords, Points
<1>2. Idle.pc = "idle" /\ Idle.base = None
  BY DEF Idle
<1>3. QED
  BY <1>1, <1>2 DEF Sane, Knows, Gated

(* Where a query goes on, to load or to answer.                            *)
LEMMA Moved ==
    ASSUME QueryPart, NEW q \in Queries, NEW there \in Points, NEW g, g = Goto(q, there)
    PROVE  /\ query[q] \in QueryRecords /\ Sane(query[q])
           /\ g \in QueryRecords /\ Alike(g, query[q]) /\ g.pc = there
           /\ g.base = query[q].base /\ g.kind = query[q].kind /\ g.still = query[q].still
           /\ g.held = query[q].held
           /\ /\ there # "probe"
              /\ there \in Knows => Path(q) \in 1..tip /\ graph[Path(q)] \in Usable
              /\ there \in Gated => graph[Path(q)] \in Built
              => Sane(g)
<1>1. query[q] \in QueryRecords /\ Sane(query[q])
  BY DEF QueryPart
<1>2. /\ g \in QueryRecords /\ Alike(g, query[q]) /\ g.pc = there
      /\ g.base = query[q].base /\ g.kind = query[q].kind /\ g.still = query[q].still
      /\ g.held = query[q].held
  BY <1>1, Gone DEF Goto
<1>3. QED
  BY <1>1, <1>2 DEF Sane, Alike, Path

LEMMA MovedToLoad ==
    ASSUME QueryPart, NEW q \in Queries, NEW g, g = ToLoad(q)
    PROVE  /\ g \in QueryRecords /\ Alike(g, query[q]) /\ g.pc = "load"
           /\ g.base = None /\ g.kind = query[q].kind
           /\ (Path(q) \in 1..tip /\ graph[Path(q)] \in Built) => Sane(g)
<1>1. PICK k : k = Goto(q, "load")
  OBVIOUS
<1>2. "load" \in Points
  BY DEF Points
<1>3. /\ k \in QueryRecords /\ Alike(k, query[q]) /\ k.pc = "load" /\ k.kind = query[q].kind
  BY <1>1, <1>2, Moved
<1>4. /\ g \in QueryRecords /\ Alike(g, k) /\ g.pc = k.pc /\ g.base = None /\ g.kind = k.kind
  BY <1>1, <1>3, Forgot DEF ToLoad
<1>5. QED
  BY <1>3, <1>4 DEF Alike, Sane, Path, Knows, Gated, Usable

LEMMA MovedToAnswer ==
    ASSUME QueryPart, NEW q \in Queries, NEW g, g = ToAnswer(q)
    PROVE  /\ g \in QueryRecords /\ Alike(g, query[q]) /\ g.pc = "answer"
           /\ g.base = None
           /\ (Path(q) \in 1..tip /\ graph[Path(q)] \in Usable) => Sane(g)
<1>1. PICK k : k = Goto(q, "answer")
  OBVIOUS
<1>2. "answer" \in Points
  BY DEF Points
<1>3. /\ k \in QueryRecords /\ Alike(k, query[q]) /\ k.pc = "answer"
  BY <1>1, <1>2, Moved
<1>4. PICK f : f = Forget(k)
  OBVIOUS
<1>5. f \in QueryRecords /\ Alike(f, k) /\ f.pc = k.pc /\ f.base = None
  BY <1>3, <1>4, Forgot
<1>6. g = [f EXCEPT !.kind = "cwd"]
  BY <1>1, <1>4 DEF ToAnswer, Idle
<1>7. g \in QueryRecords /\ Alike(g, f) /\ g.pc = f.pc /\ g.base = f.base
  BY <1>5, <1>6 DEF QueryRecords, Alike
<1>8. QED
  BY <1>3, <1>5, <1>7 DEF Alike, Sane, Path, Knows, Gated

-----------------------------------------------------------------------------
(* Type correctness: the steps of a query.                                 *)

LEMMA StoreStays ==
    ASSUME StorePart, TreePart, UNCHANGED <<worktree, store, overlay, events>>
    PROVE  StorePart' /\ TreePart'
  BY DEF StorePart, TreePart, worktree, store, Published

LEMMA EventCounted ==
    ASSUME StorePart, Event
    PROVE  events' \in 0..MaxEvents
  BY DEF StorePart, Event

LEMMA PublishedPath ==
    ASSUME StorePart, NEW c \in Commits, Published(c)
    PROVE  /\ c \in 1..tip
           /\ ~Drifted(c) => graph[c] \in Built
           /\ Readable(c) => graph[c] \in Usable
  BY DEF StorePart, Published, Drifted, Readable, Built, Usable

(* A query as it begins.                                                   *)
Asked(h) == [Idle EXCEPT !.pc = "probe", !.quiet = TRUE, !.same = TRUE, !.held = h]

LEMMA AskType ==
    ASSUME TypeInv, NEW q \in Queries, Ask(q)
    PROVE  TypeInv'
<1>1. QueryPart /\ BuildPart /\ TreePart /\ StorePart
  BY Parts
<1>2. \A c \in Commits \cup {None}, d \in {"cwd", "repo"}, h \in BOOLEAN :
         (c # None => Published(c)) => Sane([Asked(h) EXCEPT !.kind = d, !.path = c])
  <2> SUFFICES ASSUME NEW c \in Commits \cup {None}, NEW d \in {"cwd", "repo"},
                      NEW h \in BOOLEAN, c # None => Published(c),
                      NEW k, k = [Asked(h) EXCEPT !.kind = d, !.path = c]
               PROVE  Sane(k)
    OBVIOUS
  <2>1. k \in QueryRecords /\ k.pc = "probe" /\ k.base = None /\ k.path = c
    BY DEF Asked, Idle, QueryRecords, Points
  <2>2. QED
    BY <1>1, <2>1, PublishedPath DEF Sane, Knows, Gated
<1>3. PICK mine : Go(q, mine) /\ Sane(mine)
  <2>1. PICK h \in BOOLEAN : h = (head \in overlay)
    BY Truth
  <2>2. \A c \in Commits \cup {None} :
           [Asked(h) EXCEPT !.path = c] = [Asked(h) EXCEPT !.kind = "cwd", !.path = c]
    <3>1. Asked(h).kind = "cwd"
      BY DEF Asked, Idle
    <3>2. QED
      BY <3>1 DEF Asked, Idle
  <2>3. head \in Commits
    BY <1>1, Numbers DEF TreePart
  <2>4. \/ Go(q, [Asked(h) EXCEPT !.path = IF Published(head) THEN head ELSE None])
        \/ \E c \in Commits :
               Published(c) /\ Go(q, [Asked(h) EXCEPT !.kind = "repo", !.path = c])
    BY <2>1 DEF Ask, Asked
  <2>5. QED
    BY <1>2, <2>2, <2>3, <2>4
<1>4. UNCHANGED <<worktree, store, overlay, build, lock, events>>
  BY DEF Ask
<1>5. UNCHANGED <<tip, graph>>
  BY <1>4 DEF worktree, store
<1>6. QED
  BY <1>1, <1>3, <1>4, <1>5, GoKeeps, BuildStays, StoreStays, Parts

LEMMA QueryOnly ==
    ASSUME TypeInv, NEW q \in Queries, NEW mine, Go(q, mine), Sane(mine),
           UNCHANGED <<worktree, store, overlay, build, lock, events>>
    PROVE  TypeInv'
<1>1. UNCHANGED <<tip, graph>>
  BY DEF worktree, store
<1>2. QED
  BY <1>1, GoKeeps, BuildStays, StoreStays, Parts

LEMMA NewBuilds ==
    /\ NoBuild \in BuildRecords /\ NoBuild.pc = "off"
    /\ Starting \in BuildRecords /\ Starting.pc = "start"
<1>1. PICK b \in BuildRecords : b = NoBuild
  BY DEF NoBuild, BuildRecords
<1>2. NoBuild.pc = "off"
  BY DEF NoBuild
<1>3. Starting = [b EXCEPT !.pc = "start"]
  BY <1>1 DEF Starting
<1>4. [b EXCEPT !.pc = "start"] \in BuildRecords /\ [b EXCEPT !.pc = "start"].pc = "start"
  BY DEF BuildRecords
<1>5. QED
  BY <1>1, <1>2, <1>3, <1>4

(* A query that starts a build of its own, or drops it.                    *)
LEMMA QueryAndBuild ==
    ASSUME TypeInv, NEW q \in Queries, NEW mine, NEW b, Go(q, mine), Sane(mine), Builds(q, b),
           b \in {NoBuild, Starting}, UNCHANGED <<worktree, store, overlay, lock, events>>
    PROVE  TypeInv'
<1>1. UNCHANGED <<tip, graph>>
  BY DEF worktree, store
<1>2. QueryPart /\ BuildPart /\ TreePart /\ StorePart
  BY Parts
<1>3. b.pc \in {"off", "start"} /\ b \in BuildRecords
  BY NewBuilds
<1>4. Able(b)
  BY <1>3 DEF Able
<1>5. q \in Builders /\ q # Rebuilder
  BY DEF Builders
<1>6. (lock' = "held") = (lock = "held") /\ lock' \in {"free", "held", "left"}
  BY <1>2 DEF BuildPart, RebuildLock
<1>7. BuildPart'
  BY <1>1, <1>2, <1>3, <1>4, <1>5, <1>6, BuildKeeps
<1>8. QED
  BY <1>1, <1>2, <1>7, GoKeeps, StoreStays, Parts

LEMMA Spawned ==
    ASSUME TypeInv, SpawnRebuild, UNCHANGED <<tip, graph>>
    PROVE  BuildPart' /\ events' \in 0..MaxEvents
<1>1. BuildPart /\ StorePart
  BY Parts
<1>2. CASE lock = "free" /\ lock' = "held" /\ Builds(Rebuilder, Starting) /\ UNCHANGED events
  <2>1. Starting.pc = "start" /\ Starting \in BuildRecords
    BY NewBuilds
  <2>2. Able(Starting)
    BY <2>1 DEF Able
  <2>3. (lock' = "held") = (IF Rebuilder = Rebuilder THEN Starting.pc # "off" ELSE lock = "held")
    BY <1>2, <2>1
  <2>4. QED
    BY <1>1, <1>2, <2>1, <2>2, <2>3, Numbers, BuildKeeps DEF StorePart
<1>3. CASE UNCHANGED <<lock, build, events>>
  BY <1>1, <1>3, BuildStays DEF StorePart
<1>4. CASE Event /\ UNCHANGED <<lock, build>>
  BY <1>1, <1>4, BuildStays, EventCounted
<1>5. QED
  BY <1>2, <1>3, <1>4 DEF SpawnRebuild

LEMMA ProbeType ==
    ASSUME TypeInv, NEW q \in Queries, Probe(q)
    PROVE  TypeInv'
<1>1. QueryPart /\ StorePart /\ TreePart
  BY Parts
<1>2. {"attach", "build", "retire", "refresh"} \subseteq Points
  BY DEF Points
<1>3. CASE ProbeMissing(q)
  <2>1. Sane(Goto(q, "attach"))
    BY <1>1, <1>2, Moved DEF Knows, Gated
  <2>2. QED
    BY <1>3, <2>1, QueryOnly DEF ProbeMissing
<1>4. CASE ProbeDrifted(q)
  <2>1. Sane(Goto(q, "build"))
    BY <1>1, <1>2, Moved DEF Knows, Gated
  <2>2. QED
    BY <1>4, <2>1, QueryAndBuild DEF ProbeDrifted
<1>5. ASSUME Probing(q)
      PROVE  Path(q) \in 1..tip /\ graph[Path(q)] \in Built /\ graph[Path(q)] \in Usable
  <2>1. query[q] \in QueryRecords /\ Sane(query[q])
    BY <1>1 DEF QueryPart
  <2>2. query[q].path = Path(q) /\ query[q].pc = "probe" /\ Path(q) # None /\ ~Drifted(Path(q))
    BY <1>5 DEF Probing, Path, At
  <2>3. Path(q) \in 1..tip /\ Published(Path(q)) /\ Path(q) \in Commits
    BY <2>1, <2>2 DEF Sane, QueryRecords
  <2>4. QED
    BY <1>1, <2>2, <2>3, PublishedPath DEF Usable
<1>6. CASE ProbeStatus(q)
  <2>1. PICK there, mine :
           /\ there = IF tree = head THEN "retire" ELSE "refresh"
           /\ mine = [Goto(q, there) EXCEPT !.base = head, !.still = TRUE]
    OBVIOUS
  <2>1a. Go(q, mine) /\ there \in {"retire", "refresh"}
    BY <1>6, <2>1 DEF ProbeStatus
  <2>2. PICK g \in QueryRecords :
           g = Goto(q, there) /\ g.path = Path(q) /\ g.pc = there
    BY <1>1, <1>2, <2>1a, Moved DEF Alike, Path
  <2>3. head \in 1..tip /\ head \in Commits
    BY <1>1, Numbers DEF TreePart
  <2>4. mine = [g EXCEPT !.base = head, !.still = TRUE]
    BY <2>1, <2>2
  <2>5. mine \in QueryRecords /\ mine.base = head /\ mine.path = Path(q) /\ mine.pc = there
    BY <2>2, <2>3, <2>4 DEF QueryRecords
  <2>6. Sane(mine)
    BY <1>5, <1>6, <2>1a, <2>3, <2>5 DEF ProbeStatus, Sane
  <2>7. QED
    BY <1>6, <2>1a, <2>6, QueryOnly DEF ProbeStatus
<1>7. CASE ProbeWalk(q)
  <2>1. PICK there, mine :
           /\ there \in {"retire", "refresh"}
           /\ Go(q, mine) /\ mine = [Goto(q, there) EXCEPT !.still = TRUE]
    BY <1>7 DEF ProbeWalk
  <2>2. PICK g \in QueryRecords :
           g = Goto(q, there) /\ Sane(g) /\ g.path = Path(q) /\ g.pc = there
    BY <1>1, <1>2, <1>5, <1>7, <2>1, Moved DEF Alike, Path, ProbeWalk
  <2>3. mine = [g EXCEPT !.still = TRUE]
    BY <2>1, <2>2
  <2>4. mine \in QueryRecords /\ mine.base = g.base /\ mine.path = Path(q) /\ mine.pc = there
    BY <2>2, <2>3 DEF QueryRecords
  <2>5. Sane(mine)
    BY <2>2, <2>4 DEF Sane
  <2>6. QED
    BY <1>7, <2>1, <2>5, QueryOnly DEF ProbeWalk
<1>8. QED
  BY <1>3, <1>4, <1>6, <1>7 DEF Probe

(* What Sane says of a query at a point where it has a graph.              *)
LEMMA HasGraph ==
    ASSUME QueryPart, NEW q \in Queries, query[q].pc \in Knows
    PROVE  /\ Path(q) \in 1..tip /\ graph[Path(q)] \in Usable
           /\ query[q].pc \in Gated => graph[Path(q)] \in Built
  BY DEF QueryPart, Sane, Path

(* A step that leaves the overlay a set of commits and the rest alone.     *)
LEMMA OverlayOnly ==
    ASSUME TypeInv, NEW q \in Queries, NEW mine, NEW now, GoOverlay(q, mine, now), Sane(mine),
           now \subseteq 1..tip, UNCHANGED <<worktree, store, build, lock, events>>
    PROVE  TypeInv'
<1>1. UNCHANGED <<tip, graph>>
  BY DEF worktree, store
<1>2. StorePart /\ TreePart
  BY Parts
<1>3. StorePart' /\ TreePart'
  BY <1>2 DEF StorePart, TreePart, worktree, store, Published, GoOverlay
<1>4. QED
  BY <1>1, <1>3, OverlayKeeps, BuildStays, Parts

LEMMA RetireType ==
    ASSUME TypeInv, NEW q \in Queries, Retire(q)
    PROVE  TypeInv'
<1>1. QueryPart /\ StorePart
  BY Parts
<1>2. Sane(ToLoad(q))
  <2>1. query[q].pc \in Knows /\ query[q].pc \in Gated
    BY DEF Retire, At, Knows, Gated
  <2>2. QED
    BY <1>1, <2>1, HasGraph, MovedToLoad
<1>3. PICK now \in {Kept(q), overlay} : GoOverlay(q, ToLoad(q), now)
  BY DEF Retire
<1>4. now \subseteq 1..tip
  BY <1>1 DEF StorePart, Kept
<1>5. QED
  BY <1>2, <1>3, <1>4, OverlayOnly DEF Retire

LEMMA RefreshType ==
    ASSUME TypeInv, NEW q \in Queries,
           RefreshCurrent(q) \/ RefreshParsed(q) \/ RefreshWalked(q)
    PROVE  TypeInv'
<1>1. QueryPart /\ StorePart /\ TreePart /\ BuildPart
  BY Parts
<1>2. Path(q) \in 1..tip /\ graph[Path(q)] \in Built
  BY <1>1, HasGraph DEF RefreshCurrent, RefreshParsed, RefreshWalked, At, Knows, Gated
<1>3. query[q].base \in (1..tip) \cup {None}
  BY <1>1 DEF QueryPart, Sane
<1>4. ASSUME NEW mine, NEW claimed, Refreshed(q, mine, claimed), Sane(mine),
             claimed \subseteq 1..tip, UNCHANGED <<worktree, store, build, lock, events>>
      PROVE  TypeInv'
  <2>1. PICK left, now :
           /\ left \in {Kept(q), overlay} /\ GoOverlay(q, mine, now)
           /\ now = IF query[q].still THEN left \cup claimed ELSE overlay
    BY <1>4 DEF Refreshed
  <2>2. now \subseteq 1..tip
    BY <1>1, <1>4, <2>1 DEF StorePart, Kept
  <2>3. QED
    BY <1>4, <2>1, <2>2, OverlayOnly
<1>5. PICK f \in QueryRecords : f = Forget(Goto(q, "mark")) /\ f.pc = "mark" /\ Sane(f)
  <2>1. PICK g : g = Goto(q, "mark")
    OBVIOUS
  <2>2. "mark" \in Points
    BY DEF Points
  <2>3. g \in QueryRecords /\ Alike(g, query[q]) /\ g.pc = "mark"
    BY <1>1, <2>1, <2>2, Moved
  <2>4. PICK f : f = Forget(g)
    OBVIOUS
  <2>5. f \in QueryRecords /\ Alike(f, g) /\ f.pc = "mark" /\ f.base = None
    BY <2>3, <2>4, Forgot
  <2>6. Sane(f)
    BY <1>2, <2>3, <2>5 DEF Sane, Alike, Path, Usable
  <2>7. QED
    BY <2>1, <2>4, <2>5, <2>6
<1>6. CASE RefreshCurrent(q)
  <2>1. Sane(ToLoad(q))
    BY <1>1, <1>2, MovedToLoad
  <2>2. overlay \cap {query[q].base} \subseteq 1..tip
    BY <1>1 DEF StorePart
  <2>3. QED
    BY <1>4, <1>6, <2>1, <2>2 DEF RefreshCurrent
<1>7. CASE RefreshParsed(q)
  <2>1. PICK mine : mine = [f EXCEPT !.robbed = FALSE]
    OBVIOUS
  <2>2. mine \in QueryRecords /\ mine.pc = f.pc /\ mine.path = f.path /\ mine.base = f.base
    BY <2>1 DEF QueryRecords
  <2>3. Sane(mine)
    BY <1>5, <2>2 DEF Sane
  <2>4. {query[q].base} \subseteq 1..tip
    BY <1>3, <1>7 DEF RefreshParsed
  <2>5. Refreshed(q, mine, {query[q].base})
    BY <1>5, <1>7, <2>1 DEF RefreshParsed
  <2>6. QED
    BY <1>4, <1>7, <2>3, <2>4, <2>5 DEF RefreshParsed
<1>8. CASE RefreshWalked(q)
  <2>1. Refreshed(q, f, {}) /\ UNCHANGED <<worktree, store, build, lock, events>>
    BY <1>5, <1>8 DEF RefreshWalked
  <2>2. QED
    BY <1>4, <1>5, <2>1
<1>9. QED
  BY <1>6, <1>7, <1>8

LEMMA NotWrittenType ==
    ASSUME TypeInv, NEW q \in Queries, RefreshNotWritten(q)
    PROVE  TypeInv'
<1>1. QueryPart /\ StorePart /\ TreePart /\ BuildPart
  BY Parts
<1>2. Path(q) \in 1..tip /\ graph[Path(q)] \in Built
  BY <1>1, HasGraph DEF RefreshNotWritten, At, Knows, Gated
<1>3. PICK g \in QueryRecords : g = ToLoad(q) /\ Sane(g)
  BY <1>1, <1>2, MovedToLoad
<1>4. PICK w \in BOOLEAN : w = ~query[q].quiet
  OBVIOUS
<1>5. PICK mine : Go(q, mine) /\ mine = [g EXCEPT !.wrote = w]
  BY <1>3, <1>4 DEF RefreshNotWritten
<1>6. mine \in QueryRecords /\ mine.pc = g.pc /\ mine.path = g.path /\ mine.base = g.base
  BY <1>5 DEF QueryRecords
<1>7. Sane(mine)
  BY <1>3, <1>6 DEF Sane
<1>8. UNCHANGED <<worktree, store, overlay, build, lock>> /\ Event
  BY DEF RefreshNotWritten
<1>9. UNCHANGED <<tip, graph>>
  BY <1>8 DEF worktree, store
<1>10. StorePart' /\ TreePart'
  BY <1>1, <1>8, EventCounted DEF StorePart, TreePart, worktree, store, Published
<1>11. QED
  BY <1>1, <1>5, <1>7, <1>8, <1>9, <1>10, GoKeeps, BuildStays, Parts

LEMMA MarkType ==
    ASSUME TypeInv, NEW q \in Queries, Mark(q)
    PROVE  TypeInv'
<1>1. QueryPart /\ StorePart /\ TreePart /\ BuildPart
  BY Parts
<1>2. UNCHANGED <<worktree, graph, newer, overlay, build, lock, events>>
  BY DEF Mark
<1>3. UNCHANGED <<tip, graph>>
  BY <1>2 DEF worktree
<1>4. Path(q) \in 1..tip /\ graph[Path(q)] \in Usable /\ graph[Path(q)] \in Built
  BY <1>1, HasGraph DEF Mark, At, Knows, Gated
<1>5. Sane(Goto(q, "load"))
  <2>1. "load" \in Points
    BY DEF Points
  <2>2. QED
    BY <1>1, <1>4, <2>1, Moved
<1>6. QueryPart'
  BY <1>1, <1>3, <1>5, GoKeeps DEF Mark
<1>7. head \in Commits /\ head # None
  BY <1>1, Numbers DEF TreePart
<1>8. StorePart' /\ TreePart'
  BY <1>1, <1>2, <1>7 DEF Mark, StorePart, TreePart, worktree, Published
<1>9. QED
  BY <1>1, <1>2, <1>3, <1>6, <1>8, BuildStays, Parts

LEMMA AttachType ==
    ASSUME TypeInv, NEW q \in Queries, AttachSibling(q) \/ AttachNone(q)
    PROVE  TypeInv'
<1>1. QueryPart /\ StorePart /\ TreePart /\ BuildPart
  BY Parts
<1>2. CASE AttachSibling(q)
  <2>1. PICK c, mine :
           /\ c \in Siblings
           /\ Go(q, mine) /\ mine = [Goto(q, "cover") EXCEPT !.path = c, !.warm = TRUE]
    BY <1>2 DEF AttachSibling
  <2>2. c \in Commits /\ c \in 1..tip /\ graph[c] \in Usable
    BY <1>1, <2>1, PublishedPath DEF Siblings, Readable
  <2>3. "cover" \in Points
    BY DEF Points
  <2>4. PICK g \in QueryRecords : g = Goto(q, "cover") /\ g.pc = "cover" /\ g.base = query[q].base
    BY <1>1, <2>3, Moved
  <2>5. mine = [g EXCEPT !.path = c, !.warm = TRUE]
    BY <2>1, <2>4
  <2>6. mine \in QueryRecords /\ mine.pc = "cover" /\ mine.path = c /\ mine.base = query[q].base
    BY <2>2, <2>4, <2>5 DEF QueryRecords
  <2>7. query[q].base \in (1..tip) \cup {None}
    BY <1>1 DEF QueryPart, Sane
  <2>8. Sane(mine)
    BY <2>2, <2>6, <2>7 DEF Sane, Gated
  <2>9. UNCHANGED <<worktree, store, overlay>> /\ UNCHANGED <<tip, graph>>
    BY <1>2 DEF AttachSibling, worktree, store
  <2>10. BuildPart' /\ events' \in 0..MaxEvents
    BY <1>2, <2>9, Spawned DEF AttachSibling
  <2>11. StorePart' /\ TreePart'
    BY <1>1, <2>9, <2>10 DEF StorePart, TreePart, worktree, store, Published
  <2>12. QED
    BY <1>1, <2>1, <2>8, <2>9, <2>10, <2>11, GoKeeps, Parts
<1>3. CASE AttachNone(q)
  <2>1. "build" \in Points
    BY DEF Points
  <2>2. Sane(Goto(q, "build"))
    BY <1>1, <2>1, Moved DEF Knows, Gated
  <2>3. QED
    BY <1>3, <2>2, QueryAndBuild DEF AttachNone
<1>4. QED
  BY <1>2, <1>3

LEMMA CoverType ==
    ASSUME TypeInv, NEW q \in Queries, Cover(q) \/ CoverNot(q)
    PROVE  TypeInv'
<1>1. QueryPart /\ StorePart /\ TreePart
  BY Parts
<1>2. Path(q) \in 1..tip /\ graph[Path(q)] \in Usable
  BY <1>1, HasGraph DEF Cover, CoverNot, At, Knows
<1>3. PICK a \in QueryRecords : a = ToAnswer(q) /\ Sane(a)
  BY <1>1, <1>2, MovedToAnswer
<1>4. CASE Cover(q)
  <2>1. PICK mine, now :
           /\ mine = [a EXCEPT !.covered = TRUE] /\ now = Kept(q) \cup {Path(q), head}
           /\ GoOverlay(q, mine, now)
    BY <1>3, <1>4 DEF Cover
  <2>2. /\ mine \in QueryRecords /\ mine.pc = a.pc /\ mine.path = a.path
        /\ mine.base = a.base
    BY <2>1 DEF QueryRecords
  <2>3. Sane(mine)
    BY <1>3, <2>2 DEF Sane
  <2>4. now \subseteq 1..tip
    BY <1>1, <1>2, <2>1 DEF StorePart, TreePart, Kept
  <2>5. QED
    BY <1>4, <2>1, <2>3, <2>4, OverlayOnly DEF Cover
<1>5. CASE CoverNot(q)
  BY <1>3, <1>5, QueryOnly DEF CoverNot
<1>6. QED
  BY <1>4, <1>5

LEMMA QueryBuiltType ==
    ASSUME TypeInv, NEW q \in Queries, QueryBuilt(q) \/ QueryFails(q)
    PROVE  TypeInv'
<1>1. QueryPart /\ BuildPart
  BY Parts
<1>2. CASE QueryBuilt(q)
  <2>1. PICK g \in QueryRecords : g = ToLoad(q) /\ g.pc = "load" /\ g.base = None
    BY <1>1, MovedToLoad
  <2>2. Able(build[q]) /\ build[q].pc = "done" /\ build[q] \in BuildRecords
    BY <1>1, <1>2, Numbers DEF BuildPart, QueryBuilt
  <2>3. PICK c \in Commits \cup {None} : c = build[q].sha /\ c \in 1..tip /\ graph[c] \in Built
    BY <2>2 DEF Able, BuildRecords
  <2>4. PICK mine : Go(q, mine) /\ mine = [g EXCEPT !.path = c, !.built = query[q].quiet]
    BY <1>2, <2>1, <2>3 DEF QueryBuilt
  <2>5. mine \in QueryRecords /\ mine.pc = "load" /\ mine.base = None /\ mine.path = c
    <3>1. query[q].quiet \in BOOLEAN
      BY <1>1 DEF QueryPart, QueryRecords
    <3>2. QED
      BY <2>1, <2>4, <3>1 DEF QueryRecords
  <2>6. Sane(mine)
    BY <2>3, <2>5 DEF Sane, Usable
  <2>7. QED
    BY <1>2, <2>4, <2>6, QueryAndBuild DEF QueryBuilt
<1>3. CASE QueryFails(q)
  BY <1>3, IdleSane, QueryAndBuild DEF QueryFails
<1>4. QED
  BY <1>2, <1>3

LEMMA LoadType ==
    ASSUME TypeInv, NEW q \in Queries, LoadCwd(q) \/ LoadRepo(q) \/ Answer(q)
    PROVE  TypeInv'
<1>1. QueryPart /\ StorePart /\ TreePart
  BY Parts
<1>2. LoadCwd(q) \/ LoadRepo(q) => Path(q) \in 1..tip /\ graph[Path(q)] \in Usable
  BY <1>1, HasGraph DEF LoadCwd, LoadRepo, At, Knows
<1>3. PICK a \in QueryRecords : a = ToAnswer(q) /\ a.pc = "answer" /\ a.base = None /\ a.path = Path(q)
  BY <1>1, MovedToAnswer DEF Alike, Path
<1>4. CASE LoadCwd(q)
  <2>1. PICK mine : Go(q, mine) /\ mine = IF Readable(head)
                                          THEN [a EXCEPT !.path = head] ELSE Idle
    BY <1>3, <1>4 DEF LoadCwd
  <2>2. Sane(mine)
    <3>1. CASE Readable(head)
      <4>1. head \in 1..tip /\ head \in Commits /\ graph[head] \in Usable
        BY <1>1, <3>1, Numbers, PublishedPath DEF TreePart, Readable
      <4>2. /\ mine \in QueryRecords /\ mine.pc = "answer" /\ mine.path = head
            /\ mine.base = None
        BY <1>3, <2>1, <3>1, <4>1 DEF QueryRecords
      <4>3. QED
        BY <4>1, <4>2 DEF Sane, Gated
    <3>2. QED
      BY <2>1, <3>1, IdleSane
  <2>3. QED
    BY <1>4, <2>1, <2>2, QueryOnly DEF LoadCwd
<1>5. CASE LoadRepo(q)
  <2>1. PICK mine : Go(q, mine) /\ mine = [a EXCEPT !.behind = BehindHead(Path(q))]
    BY <1>3, <1>5 DEF LoadRepo
  <2>2. /\ mine \in QueryRecords /\ mine.pc = "answer" /\ mine.path = Path(q)
        /\ mine.base = None
    BY <1>3, <2>1 DEF QueryRecords, BehindHead
  <2>3. Sane(mine)
    BY <1>2, <1>5, <2>2 DEF Sane, Gated
  <2>4. UNCHANGED <<worktree, store, overlay>> /\ UNCHANGED <<tip, graph>>
    BY <1>5 DEF LoadRepo, worktree, store
  <2>5. BuildPart' /\ events' \in 0..MaxEvents
    <3>1. CASE SpawnRebuild
      BY <2>4, <3>1, Spawned
    <3>2. CASE UNCHANGED <<build, lock, events>>
      BY <1>1, <2>4, <3>2, BuildStays, Parts DEF StorePart
    <3>3. QED
      BY <1>5, <3>1, <3>2 DEF LoadRepo
  <2>6. StorePart' /\ TreePart'
    BY <1>1, <2>4, <2>5 DEF StorePart, TreePart, worktree, store, Published
  <2>7. QED
    BY <1>1, <2>1, <2>3, <2>4, <2>5, <2>6, GoKeeps, Parts
<1>6. CASE Answer(q)
  BY <1>6, IdleSane, QueryOnly DEF Answer
<1>7. QED
  BY <1>4, <1>5, <1>6

-----------------------------------------------------------------------------
(* Type correctness: the steps of a builder, of the rebuild and of the     *)
(* user.                                                                   *)

LEMMA QueryStays ==
    ASSUME QueryPart, UNCHANGED <<query, tip, graph>>
    PROVE  QueryPart'
  BY DEF QueryPart, Sane, Knows, Gated, Usable, Built, Published

LEMMA Advanced ==
    ASSUME BuildPart, NEW p \in Builders,
           NEW there \in {"off", "start", "check", "read", "publish", "done", "failed"},
           NEW b, b = BuildAt(p, there)
    PROVE  /\ build[p] \in BuildRecords /\ Able(build[p])
           /\ b \in BuildRecords /\ b.pc = there /\ b.sha = build[p].sha
  BY DEF BuildPart, BuildRecords, BuildAt

(* A step that only moves a builder, which neither starts nor ends.        *)
LEMMA BuildOnly ==
    ASSUME TypeInv, NEW p \in Builders, NEW b, Builds(p, b), Able(b),
           b.pc # "off", build[p].pc # "off",
           \A r \in Builders \ {p} :
               {b.pc, build[r].pc} \subseteq {"read", "publish"} => b.sha # build[r].sha,
           UNCHANGED <<query, lock, tip, graph>>, StorePart', TreePart'
    PROVE  TypeInv'
<1>1. BuildPart /\ QueryPart
  BY Parts
<1>2. (lock' = "held") = (IF p = Rebuilder THEN b.pc # "off" ELSE lock = "held")
  BY <1>1 DEF BuildPart, RebuildLock
<1>3. lock' \in {"free", "held", "left"}
  BY <1>1 DEF BuildPart, RebuildLock
<1>4. BuildPart'
  BY <1>1, <1>2, <1>3, BuildKeeps
<1>5. QED
  BY <1>1, <1>4, QueryStays, Parts

LEMMA BuildBeginsType ==
    ASSUME TypeInv, NEW p \in Builders, BuildStart(p) \/ BuildCheck(p) \/ BuildRead(p)
    PROVE  TypeInv'
<1>1. BuildPart /\ StorePart /\ TreePart
  BY Parts
<1>2. StorePart' /\ TreePart' /\ UNCHANGED <<query, lock, tip, graph>>
  BY <1>1, StoreStays DEF BuildStart, BuildCheck, BuildRead, worktree, store
<1>3. CASE BuildStart(p)
  <2>1. PICK b \in BuildRecords : b = BuildAt(p, "check") /\ b.pc = "check"
    BY <1>1, Advanced
  <2>2. PICK mine : Builds(p, mine) /\ mine = [b EXCEPT !.sha = head]
    BY <1>3, <2>1 DEF BuildStart
  <2>3. head \in 1..tip /\ head \in Commits
    BY <1>1, Numbers DEF TreePart
  <2>4. mine \in BuildRecords /\ mine.pc = "check" /\ mine.sha = head
    BY <2>1, <2>2, <2>3 DEF BuildRecords
  <2>5. Able(mine)
    BY <2>3, <2>4 DEF Able
  <2>6. QED
    BY <1>2, <1>3, <2>2, <2>4, <2>5, BuildOnly DEF BuildStart
<1>4. CASE BuildCheck(p)
  <2>1. PICK b \in BuildRecords :
           b = BuildAt(p, "read") /\ b.pc = "read" /\ b.sha = build[p].sha
    BY <1>1, Advanced
  <2>2. PICK mine : Builds(p, mine)
                    /\ mine = [b EXCEPT !.live = head = build[p].sha /\ tree = head]
    BY <1>4, <2>1 DEF BuildCheck
  <2>3. mine \in BuildRecords /\ mine.pc = "read" /\ mine.sha = build[p].sha
    BY <2>1, <2>2 DEF BuildRecords
  <2>4. build[p].sha \in 1..tip /\ build[p].sha \in Commits
    BY <1>1, <1>4, Numbers DEF BuildCheck, BuildPart, Able, TreePart
  <2>5. graph[build[p].sha] \in {"none", "foreign", "old"}
    BY <1>4, <2>4 DEF BuildCheck, Published, Drifted
  <2>6. Able(mine)
    BY <2>3, <2>4, <2>5 DEF Able
  <2>7. \A r \in Builders \ {p} :
           {mine.pc, build[r].pc} \subseteq {"read", "publish"} => mine.sha # build[r].sha
    BY <1>4, <2>3 DEF BuildCheck, Unlocked
  <2>8. mine.pc # "off" /\ build[p].pc # "off"
    BY <1>4, <2>3 DEF BuildCheck
  <2>9. QED
    BY <1>2, <2>2, <2>6, <2>7, <2>8, BuildOnly
<1>5. CASE BuildRead(p)
  <2>1. PICK b \in BuildRecords :
           b = BuildAt(p, "publish") /\ b.pc = "publish" /\ b.sha = build[p].sha
    BY <1>1, Advanced
  <2>2. PICK mine : Builds(p, mine)
                    /\ mine = [b EXCEPT !.live = FALSE, !.pure = build[p].live => tree = build[p].sha]
    BY <1>5, <2>1 DEF BuildRead
  <2>3. mine \in BuildRecords /\ mine.pc = "publish" /\ mine.sha = build[p].sha
    BY <2>1, <2>2 DEF BuildRecords
  <2>4. Able(mine)
    BY <1>1, <1>5, <2>3 DEF BuildRead, BuildPart, Able
  <2>5. \A r \in Builders \ {p} :
           {mine.pc, build[r].pc} \subseteq {"read", "publish"} => mine.sha # build[r].sha
    BY <1>1, <1>5, <2>3 DEF BuildRead, BuildPart, Alone
  <2>6. QED
    BY <1>2, <1>5, <2>2, <2>3, <2>4, <2>5, BuildOnly DEF BuildRead
<1>6. QED
  BY <1>3, <1>4, <1>5

LEMMA BuildAttachType ==
    ASSUME TypeInv, NEW p \in Builders, BuildAttach(p)
    PROVE  TypeInv'
<1>1. BuildPart /\ StorePart /\ TreePart
  BY Parts
<1>2. PICK b \in BuildRecords : b = BuildAt(p, "done") /\ b.pc = "done" /\ b.sha = build[p].sha
  BY <1>1, Advanced
<1>3. build[p].sha \in 1..tip /\ build[p].sha \in Commits /\ build[p].sha # None
  BY <1>1, Numbers DEF BuildAttach, BuildPart, Able, TreePart
<1>4. graph[build[p].sha] \in Built
  BY <1>1, <1>3, PublishedPath DEF BuildAttach
<1>5. Able(b)
  BY <1>2, <1>3, <1>4 DEF Able
<1>6. UNCHANGED <<worktree, graph, newer, overlay, query, lock, events>> /\ UNCHANGED tip
  BY DEF BuildAttach, worktree
<1>7. StorePart' /\ TreePart'
  BY <1>1, <1>3, <1>6 DEF BuildAttach, StorePart, TreePart, worktree, Published
<1>8. QED
  BY <1>2, <1>5, <1>6, <1>7, BuildOnly DEF BuildAttach

LEMMA BuildPublishType ==
    ASSUME TypeInv, NEW p \in Builders, BuildPublish(p)
    PROVE  TypeInv'
<1>1. QueryPart /\ BuildPart /\ StorePart /\ TreePart
  BY Parts
<1>2. PICK c \in Commits : c = build[p].sha /\ c \in 1..tip /\ c # None
  BY <1>1, Numbers DEF BuildPublish, BuildPart, Able, TreePart
<1>3. UNCHANGED <<worktree, overlay, query, lock, events>> /\ UNCHANGED tip
  BY DEF BuildPublish, worktree
<1>4. graph'[c] \in Built /\ \A d \in Commits \ {c} : graph'[d] = graph[d]
  BY <1>1, <1>2 DEF BuildPublish, StorePart, Built
<1>5. graph' \in [Commits -> {"none", "foreign", "old", "pure", "torn"}]
  BY <1>1, <1>2 DEF BuildPublish, StorePart
<1>6. newer' \subseteq newer \cup {c}
  BY <1>2 DEF BuildPublish
<1>7. StorePart' /\ TreePart'
  BY <1>1, <1>2, <1>3, <1>4, <1>5, <1>6
  DEF BuildPublish, StorePart, TreePart, worktree, Published, Built
<1>8. QueryPart'
  <2>1. \A k \in QueryRecords : Sane(k) => k.path = None \/ k.path \in Commits
    BY DEF QueryRecords
  <2>2. \A d \in Commits : /\ graph[d] \in Usable => graph'[d] \in Usable
                           /\ graph[d] \in Built => graph'[d] \in Built
                           /\ Published(d) => graph'[d] # "none"
    BY <1>4 DEF Usable, Built, Published
  <2>3. 1..tip \subseteq Commits
    BY <1>1, Numbers DEF TreePart
  <2>4. QED
    BY <1>1, <1>3, <2>2, <2>3 DEF QueryPart, Sane, Published, Knows, Gated
<1>9. PICK b : Builds(p, b) /\ b = [NoBuild EXCEPT !.pc = "done", !.sha = c]
  BY <1>2 DEF BuildPublish
<1>10. b \in BuildRecords /\ b.pc = "done" /\ b.sha = c
  <2>1. PICK n \in BuildRecords : n = NoBuild
    BY NewBuilds
  <2>2. b = [n EXCEPT !.pc = "done", !.sha = c]
    BY <1>9, <2>1
  <2>3. QED
    BY <2>2 DEF BuildRecords
<1>11. build'[p] = b /\ \A r \in Builders \ {p} : build'[r] = build[r]
  BY <1>1, <1>9 DEF BuildPart, Builds
<1>12. build' \in [Builders -> BuildRecords]
  BY <1>1, <1>9, <1>10 DEF BuildPart, Builds
<1>13. \A r \in Builders \ {p} : build[r].pc \in {"read", "publish"} => build[r].sha # c
  BY <1>1, <1>2 DEF BuildPublish, BuildPart, Alone
<1>14. ASSUME NEW r \in Builders PROVE Able(build[r])'
  <2>1. CASE r = p
    BY <1>2, <1>3, <1>4, <1>10, <1>11, <2>1 DEF Able, Built
  <2>2. CASE r # p
    <3>1. build'[r] = build[r] /\ Able(build[r])
      BY <1>1, <1>11, <2>2 DEF BuildPart
    <3>2. 1..tip \subseteq Commits
      BY <1>1, Numbers DEF TreePart
    <3>3. QED
      BY <1>3, <1>4, <1>13, <2>2, <3>1, <3>2 DEF Able, Built
  <2>3. QED
    BY <2>1, <2>2
<1>15. Alone'
  BY <1>1, <1>10, <1>11 DEF BuildPart, Alone
<1>16. RebuildLock'
  BY <1>1, <1>3, <1>10, <1>11, Numbers DEF BuildPart, RebuildLock, BuildPublish
<1>17. QED
  BY <1>7, <1>8, <1>12, <1>14, <1>15, <1>16, Parts DEF BuildPart

(* A build that fails, and the end of the rebuild.                         *)
LEMMA BuildEndsType ==
    ASSUME TypeInv, (\E p \in Builders : BuildFail(p)) \/ RebuildEnds \/ RebuildKilled
    PROVE  TypeInv'
<1>1. QueryPart /\ BuildPart /\ StorePart /\ TreePart
  BY Parts
<1>2. /\ UNCHANGED <<worktree, store, overlay, query>> /\ UNCHANGED <<tip, graph>>
      /\ events' \in 0..MaxEvents
  BY <1>1, EventCounted DEF BuildFail, RebuildEnds, RebuildKilled, worktree, store, StorePart
<1>3. QueryPart' /\ StorePart' /\ TreePart'
  BY <1>1, <1>2, QueryStays DEF StorePart, TreePart, worktree, store, Published
<1>4. ASSUME NEW p \in Builders, BuildFail(p) PROVE BuildPart'
  <2>1. PICK n \in BuildRecords : n = NoBuild
    BY NewBuilds
  <2>2. PICK b : Builds(p, b) /\ b = [n EXCEPT !.pc = "failed"]
    BY <1>4, <2>1 DEF BuildFail
  <2>3. b \in BuildRecords /\ b.pc = "failed"
    BY <2>2 DEF BuildRecords
  <2>4. Able(b)
    BY <2>3 DEF Able
  <2>5. /\ (lock' = "held") = (IF p = Rebuilder THEN b.pc # "off" ELSE lock = "held")
        /\ lock' \in {"free", "held", "left"}
    BY <1>1, <1>4, <2>3 DEF BuildFail, BuildPart, RebuildLock
  <2>6. QED
    BY <1>1, <1>2, <2>2, <2>3, <2>4, <2>5, BuildKeeps
<1>5. CASE RebuildEnds \/ RebuildKilled
  <2>1. PICK p \in Builders : p = Rebuilder /\ Builds(p, NoBuild)
    BY <1>5, Numbers DEF RebuildEnds, RebuildKilled
  <2>2. PICK b : b = NoBuild /\ Able(b) /\ b.pc = "off"
    BY NewBuilds DEF Able
  <2>3. lock' \in {"free", "left"}
    BY <1>5 DEF RebuildEnds, RebuildKilled
  <2>4. (lock' = "held") = (IF p = Rebuilder THEN b.pc # "off" ELSE lock = "held")
    BY <2>1, <2>2, <2>3
  <2>5. \A r \in Builders \ {p} :
           {b.pc, build[r].pc} \subseteq {"read", "publish"} => b.sha # build[r].sha
    BY <2>2
  <2>6. lock' \in {"free", "held", "left"}
    BY <2>3
  <2>7. Builds(p, b) /\ Able(b) /\ UNCHANGED <<tip, graph>>
    BY <1>2, <2>1, <2>2
  <2>8. QED
    BY <1>1, <1>3, <2>4, <2>5, <2>6, <2>7, BuildKeeps, Parts
<1>6. QED
  BY <1>3, <1>4, <1>5, Parts

LEMMA UserType ==
    ASSUME TypeInv, User
    PROVE  TypeInv'
<1>1. QueryPart /\ BuildPart /\ StorePart /\ TreePart
  BY Parts
<1>2. events' \in 0..MaxEvents /\ UNCHANGED <<graph, sidecar, lock>>
  BY <1>1, EventCounted DEF User, Edit, Checkout, Commit, store
<1>3. tip' \in Commits /\ tip <= tip' /\ 1..tip \subseteq 1..tip' /\ TreePart'
  <2>1. tip \in Nat /\ tip \in Commits /\ tip >= 1
    BY <1>1 DEF TreePart, Commits
  <2>2. CASE Edit
    BY <1>1, <2>1, <2>2 DEF Edit, TreePart
  <2>3. CASE Checkout
    BY <1>1, <2>1, <2>3 DEF Checkout, TreePart
  <2>4. CASE Commit
    BY <1>1, <2>1, <2>4 DEF Commit, TreePart, Commits
  <2>5. QED
    BY <2>2, <2>3, <2>4 DEF User
<1>4. overlay' \in {overlay, {}} /\ newer' \in {newer, {c \in Commits : Published(c)}}
  <2>1. CASE Commit
    BY <2>1 DEF Commit, store
  <2>2. CASE Written
    BY <2>2 DEF Written
  <2>3. QED
    BY <2>1, <2>2 DEF User, Edit, Checkout
<1>5. StorePart'
  <2>1. overlay' \subseteq 1..tip'
    BY <1>1, <1>3, <1>4 DEF StorePart
  <2>2. newer' \subseteq {c \in Commits : Published(c)}
    BY <1>1, <1>4 DEF StorePart
  <2>3. QED
    BY <1>1, <1>2, <1>3, <2>1, <2>2 DEF StorePart, Published
<1>6. \A q \in Queries : /\ query'[q] \in QueryRecords /\ query'[q].pc = query[q].pc
                         /\ query'[q].path = query[q].path /\ query'[q].base = query[q].base
  <2> TAKE q \in Queries
  <2>1. PICK k \in QueryRecords : k = query[q]
    BY <1>1 DEF QueryPart
  <2>2. query'[q] \in {Disturbed(k), [Disturbed(k) EXCEPT !.still = FALSE]}
    BY <2>1 DEF User, Edit, Checkout, Commit, Written
  <2>3. QED
    BY <2>1, <2>2, Troubled
<1>7. query' = [q \in Queries |-> query'[q]]
  BY DEF User, Edit, Checkout, Commit, Written
<1>8. QueryPart'
  <2>1. \A q \in Queries : Sane(query[q])'
    BY <1>1, <1>2, <1>3, <1>6 DEF QueryPart, Sane, Usable, Built, Published, Knows, Gated
  <2>2. QED
    BY <1>6, <1>7, <2>1 DEF QueryPart
<1>9. \A p \in Builders : /\ build'[p] \in BuildRecords /\ build'[p].pc = build[p].pc
                          /\ build'[p].sha = build[p].sha
  <2> TAKE p \in Builders
  <2>1. PICK b \in BuildRecords : b = build[p]
    BY <1>1 DEF BuildPart
  <2>2. PICK n \in BOOLEAN : build'[p] \in {b, [b EXCEPT !.newer = n]}
    BY <2>1 DEF User, Edit, Checkout, Commit, Written, BuildRecords
  <2>3. QED
    BY <2>1, <2>2 DEF BuildRecords
<1>10. build' \in [Builders -> BuildRecords]
  <2>1. CASE Commit
    BY <1>1, <2>1 DEF Commit, BuildPart
  <2>2. CASE Written
    BY <1>9, <2>2 DEF Written
  <2>3. QED
    BY <2>1, <2>2 DEF User, Edit, Checkout
<1>11. BuildPart'
  <2>1. \A p \in Builders : Able(build[p])'
    BY <1>1, <1>2, <1>3, <1>9 DEF BuildPart, Able, Built
  <2>2. Alone' /\ RebuildLock'
    BY <1>1, <1>2, <1>9, Numbers DEF BuildPart, Alone, RebuildLock
  <2>3. QED
    BY <1>10, <2>1, <2>2 DEF BuildPart
<1>12. QED
  BY <1>3, <1>5, <1>8, <1>11, Parts

LEMMA TypeStays == ASSUME TypeInv, UNCHANGED vars PROVE TypeInv'
<1>1. UNCHANGED <<worktree, store, overlay, events, build, lock, query>> /\ UNCHANGED <<tip, graph>>
  BY DEF vars, worktree, store
<1>2. QED
  BY <1>1, QueryStays, BuildStays, StoreStays, Parts

LEMMA TypeStep == TypeInv /\ [Next]_vars => TypeInv'
<1> SUFFICES ASSUME TypeInv, [Next]_vars PROVE TypeInv'
  OBVIOUS
<1>1. CASE User
  BY <1>1, UserType
<1>2. ASSUME NEW p \in Builders, BuildStep(p) \/ BuildFail(p) PROVE TypeInv'
  BY <1>2, BuildBeginsType, BuildAttachType, BuildPublishType, BuildEndsType DEF BuildStep
<1>3. CASE RebuildEnds \/ RebuildKilled
  BY <1>3, BuildEndsType
<1>4. ASSUME NEW q \in Queries, Query(q) \/ RefreshNotWritten(q) PROVE TypeInv'
  BY <1>4, AskType, ProbeType, RetireType, RefreshType, NotWrittenType, MarkType, AttachType, CoverType,
     QueryBuiltType, LoadType DEF Query
<1>5. CASE UNCHANGED vars
  BY <1>5, TypeStays
<1>6. QED
  BY <1>1, <1>2, <1>3, <1>4, <1>5 DEF Next

LEMMA TypeInit == Init => TypeInv
<1> SUFFICES ASSUME Init PROVE TypeInv
  OBVIOUS
<1>1. /\ query = [q \in Queries |-> Idle] /\ build = [p \in Builders |-> NoBuild]
  BY DEF Init
<1>2. QueryPart
  BY <1>1, IdleSane DEF QueryPart, Sane
<1>3. Able(NoBuild)
  BY NewBuilds DEF Able
<1>4. BuildPart
  BY <1>1, <1>3, NewBuilds, Numbers DEF BuildPart, Alone, RebuildLock, Init
<1>5. tip \in Commits /\ 1 \in 1..tip /\ TreePart
  BY DEF Init, Commits, TreePart
<1>6. StorePart
  BY <1>5, Numbers DEF Init, StorePart, Published
<1>7. QED
  BY <1>2, <1>4, <1>5, <1>6
  DEF TypeInv, TypeOK, BuildInv, PathInv, QueryPart, BuildPart, TreePart, StorePart, Sane,
      Able, Alone, RebuildLock, QueryRecords, BuildRecords, Knows, Gated

LEMMA Typing == Spec => []TypeInv
<1>1. QED
  BY TypeInit, TypeStep, PTL DEF Spec

(* TypeOK of the freshness gate: beside the types, no two builders work on *)
(* one commit at once, a published graph has its sidecar, and the rebuild  *)
(* lock is held exactly while the rebuild runs.                            *)
THEOREM TypeCorrect == Spec => []TypeOK
<1>1. TypeInv => TypeOK
  BY DEF TypeInv
<1>2. QED
  BY <1>1, Typing, PTL

-----------------------------------------------------------------------------
(* Honest answers.                                                         *)

(* The HEAD of a git status is still the present one, or was committed     *)
(* over without an edit since; a query about to retire what it found in a  *)
(* clean worktree finds it clean, or the overlay emptied by an edit.       *)
StatusOf(k) ==
    /\ k.base # None /\ k.still => k.base = head \/ tree = head
    /\ k.base # None /\ k.pc = "retire" =>
           IF k.still THEN tree = head ELSE k.same => overlay = {}
    /\ k.base # None => k.pc \in {"retire", "refresh"}

(* The graph of HEAD and what completes it make up the worktree.           *)
Whole == tree = head \/ head \in overlay

Excused(k) == k.built \/ ~k.wrote \/ k.robbed

(* A query about the current directory is about HEAD.                      *)
AboutHead(k) == k.kind = "cwd" => k.path = head

(* What a query knows while neither HEAD nor a file changes, by where it   *)
(* is: each step of the gate brings the graph of HEAD nearer to the        *)
(* worktree, and no other query undoes it unseen.                          *)
Gate(k) ==
    /\ k.pc = "probe" => k.path = None \/ AboutHead(k)
    /\ k.pc \in {"retire", "refresh"} => AboutHead(k) /\ k.still
    /\ k.pc = "retire" /\ k.path = head => tree = head
    /\ k.pc = "refresh" /\ k.path = head => k.base = head
    /\ k.pc \in {"probe", "refresh"} /\ k.held /\ k.path = head => Whole \/ k.robbed
    /\ k.pc = "mark" => AboutHead(k)
    /\ k.pc = "cover" => k.warm
    /\ k.pc = "load" => AboutHead(k)
    /\ k.pc = "answer" => k.warm \/ k.behind \/ (k.path = head /\ graph[head] \in Built)
    /\ k.pc \in {"mark", "load", "answer"} =>
           k.warm \/ (k.path = head => Whole \/ Excused(k))

StatusInv == \A q \in Queries : StatusOf(query[q])
QuietInv == \A q \in Queries : query[q].quiet => Gate(query[q])

AnswerInv == TypeInv /\ StatusInv /\ QuietInv

(* The build that such a query runs itself is of HEAD.                     *)
OwnBuild ==
    \A q \in Queries :
        query[q].quiet /\ query[q].pc = "build"
        /\ build[q].pc \in {"check", "read", "publish", "done"} => build[q].sha = head

LEMMA AnswerHonest ==
    ASSUME AnswerInv
    PROVE  HonestAnswers
<1> SUFFICES ASSUME NEW q \in Queries, Plain(q), graph[Path(q)] # "torn",
                    ~(query[q].built /\ tree # head), query[q].wrote, ~query[q].robbed,
                    ~(query[q].warm /\ graph[Path(q)] = "old")
             PROVE  Right(q)
  BY DEF HonestAnswers
<1>1. query[q].pc = "answer" /\ query[q].quiet /\ ~Flagged(q) /\ Gate(query[q])
  BY DEF Plain, At, AnswerInv, QuietInv
<1>2. graph[Path(q)] = "pure"
  <2>1. graph[Path(q)] \in Usable
    BY <1>1, Parts, HasGraph DEF AnswerInv, Knows
  <2>2. CASE query[q].warm
    BY <2>1, <2>2 DEF Usable, Built
  <2>3. CASE ~query[q].warm
    BY <1>1, <2>3 DEF Flagged, Gate, Path, Built
  <2>4. QED
    BY <2>2, <2>3
<1>3. CASE query[q].warm
  BY <1>1, <1>2, <1>3 DEF Flagged, Right
<1>4. CASE ~query[q].warm
  BY <1>1, <1>2, <1>4 DEF Flagged, Right, Gate, Whole, Excused, Path
<1>5. QED
  BY <1>3, <1>4

(* What StatusInv and QuietInv say of one query.                           *)
Settled(k) == StatusOf(k) /\ (k.quiet => Gate(k))

LEMMA SettledAll ==
    /\ AnswerInv => TypeInv /\ \A q \in Queries : Settled(query[q])
    /\ TypeInv' /\ (\A q \in Queries : Settled(query[q])') => AnswerInv'
  BY DEF AnswerInv, StatusInv, QuietInv, Settled

(* The others see nothing of a step that leaves worktree and overlay.      *)
LEMMA GoSettles ==
    ASSUME AnswerInv, TypeInv', NEW a \in Queries, NEW mine, Go(a, mine), Settled(mine),
           UNCHANGED <<head, tree, overlay, graph>>
    PROVE  AnswerInv'
<1>1. ASSUME NEW q \in Queries PROVE Settled(query[q])'
  <2>1. query'[q] \in {mine, query[q]}
    BY Parts DEF AnswerInv, QueryPart, Go
  <2>2. Settled(query'[q])
    BY <2>1, SettledAll
  <2>3. QED
    BY <2>2 DEF Settled, StatusOf, Gate, Whole, Excused, AboutHead, Built
<1>2. QED
  BY <1>1, SettledAll

(* A query that takes what completes HEAD out of the overlay robs those    *)
(* that rest on it, unless the worktree is HEAD.                           *)
LEMMA OverlaySettles ==
    ASSUME AnswerInv, TypeInv', NEW a \in Queries, NEW mine, NEW now, GoOverlay(a, mine, now),
           Settled(mine)', UNCHANGED <<head, tree, graph>>, mine = query'[a],
           query[a].base # None /\ head \in overlay \ now => tree = head
    PROVE  AnswerInv'
<1>1. ASSUME NEW q \in Queries PROVE Settled(query[q])'
  <2>1. CASE q = a
    BY <2>1 DEF Settled
  <2>2. CASE q # a
    <3>1. PICK k \in QueryRecords : k = query[q] /\ Settled(k)
      BY SettledAll, Parts DEF AnswerInv, QueryPart
    <3>2. PICK s \in BOOLEAN, d \in BOOLEAN :
             /\ query'[q] = [k EXCEPT !.same = s, !.robbed = d]
             /\ s = (k.same /\ now = overlay)
             /\ d = (k.robbed \/ (/\ k.quiet /\ query[a].base = None /\ k.pc \in Resting
                                  /\ k.path \in overlay \ now))
      BY <2>2, <3>1 DEF GoOverlay, QueryRecords
    <3>3. PICK g : g = query'[q]
      OBVIOUS
    <3>4. /\ g.path = k.path /\ g.warm = k.warm /\ g.behind = k.behind /\ g.built = k.built
          /\ g.wrote = k.wrote /\ g.quiet = k.quiet /\ g.pc = k.pc /\ g.base = k.base
          /\ g.kind = k.kind /\ g.still = k.still /\ g.same = s /\ g.robbed = d
          /\ g.held = k.held
      BY <3>1, <3>2, <3>3 DEF QueryRecords
    <3>5. overlay' = now
      BY DEF GoOverlay
    <3>6. StatusOf(g)'
      BY <3>1, <3>2, <3>4, <3>5 DEF Settled, StatusOf
    <3>7. ASSUME g.quiet PROVE Gate(g)'
      <4>1. Gate(k)
        BY <3>1, <3>4, <3>7 DEF Settled
      <4>2. ASSUME g.pc \in Resting, g.path = head, Whole
            PROVE  Whole' \/ g.robbed
        <5>1. CASE tree = head
          BY <5>1 DEF Whole
        <5>2. CASE head \in overlay /\ tree # head
          <6>1. head \in now \/ query[a].base = None
            BY <5>2
          <6>2. CASE head \in now
            BY <3>5, <6>2 DEF Whole
          <6>3. CASE query[a].base = None /\ head \notin now
            BY <3>2, <3>4, <3>7, <4>2, <5>2, <6>3
          <6>4. QED
            BY <6>1, <6>2, <6>3
        <5>3. QED
          BY <4>2, <5>1, <5>2 DEF Whole
      <4>3. ASSUME g.pc \in {"probe", "refresh"}, g.held, g.path = head
            PROVE  Whole' \/ g.robbed
        <5>1. Whole \/ k.robbed
          BY <3>4, <4>1, <4>3 DEF Gate
        <5>2. g.pc \in Resting
          BY <4>3 DEF Resting
        <5>3. QED
          BY <3>2, <3>4, <4>2, <4>3, <5>1, <5>2
      <4>4. ASSUME g.pc \in {"mark", "load", "answer"}, ~g.warm, g.path = head
            PROVE  Whole' \/ Excused(g)'
        <5>1. Whole \/ Excused(k)
          BY <3>4, <4>1, <4>4 DEF Gate
        <5>2. CASE Excused(k)
          BY <3>2, <3>4, <5>2 DEF Excused
        <5>3. g.pc \in Resting
          BY <4>4 DEF Resting
        <5>4. QED
          BY <4>2, <4>4, <5>1, <5>2, <5>3 DEF Excused
      <4>5. QED
        BY <3>4, <4>1, <4>3, <4>4 DEF Gate, AboutHead, Built
    <3>8. QED
      BY <3>3, <3>6, <3>7 DEF Settled
  <2>3. QED
    BY <2>1, <2>2
<1>2. QED
  BY <1>1, SettledAll

LEMMA IdleSettled == Settled(Idle) /\ Settled(Idle)'
<1>1. Idle.base = None /\ Idle.quiet = FALSE
  BY DEF Idle
<1>2. QED
  BY <1>1 DEF Settled, StatusOf

LEMMA Known ==
    ASSUME AnswerInv, NEW q \in Queries
    PROVE  /\ QueryPart /\ query[q] \in QueryRecords
           /\ StatusOf(query[q]) /\ (query[q].quiet => Gate(query[q]))
           /\ query[q].pc \notin {"retire", "refresh"} => query[q].base = None
<1>1. QueryPart /\ query[q] \in QueryRecords
  BY Parts DEF AnswerInv, QueryPart
<1>2. Settled(query[q])
  BY SettledAll
<1>3. QED
  BY <1>1, <1>2 DEF Settled, StatusOf

LEMMA AskHonest ==
    ASSUME AnswerInv, TypeInv', NEW q \in Queries, Ask(q)
    PROVE  AnswerInv'
<1>1. PICK h \in BOOLEAN : h = (head \in overlay)
  BY Truth
<1>2. PICK k \in QueryRecords :
         k = Asked(h) /\ k.pc = "probe" /\ k.base = None /\ k.kind = "cwd" /\ k.held = h
  <2>1. PICK i \in QueryRecords : i = Idle /\ i.base = None /\ i.kind = "cwd"
    <3>1. Idle \in QueryRecords
      BY IdleSane DEF Sane
    <3>2. Idle.base = None /\ Idle.kind = "cwd"
      BY DEF Idle
    <3>3. QED
      BY <3>1, <3>2
  <2>2. PICK k : k = [i EXCEPT !.pc = "probe", !.quiet = TRUE, !.same = TRUE, !.held = h]
    OBVIOUS
  <2>3. /\ k \in QueryRecords /\ k.pc = "probe" /\ k.base = None /\ k.kind = "cwd"
        /\ k.held = h
    BY <2>1, <2>2 DEF QueryRecords, Points
  <2>4. QED
    BY <2>1, <2>2, <2>3 DEF Asked
<1>3. head \in Commits
  BY Parts, Numbers DEF AnswerInv, TreePart
<1>4. PICK c, mine :
         /\ Go(q, mine)
         /\ \/ mine = [k EXCEPT !.path = c] /\ c \in {head, None}
            \/ mine = [k EXCEPT !.kind = "repo", !.path = c]
  <2>1. \/ Go(q, [Asked(h) EXCEPT !.path = IF Published(head) THEN head ELSE None])
        \/ \E c \in Commits : Go(q, [Asked(h) EXCEPT !.kind = "repo", !.path = c])
    BY <1>1 DEF Ask, Asked
  <2>2. QED
    BY <1>2, <2>1
<1>5. /\ mine.pc = "probe" /\ mine.base = None /\ mine.held = h
      /\ mine.kind = "cwd" => mine.path \in {head, None}
  BY <1>2, <1>4 DEF QueryRecords
<1>6. Settled(mine)
  BY <1>1, <1>5 DEF Settled, StatusOf, Gate, AboutHead, Whole
<1>7. QED
  BY <1>4, <1>6, GoSettles DEF Ask, worktree, store

LEMMA ProbeHonest ==
    ASSUME AnswerInv, TypeInv', NEW q \in Queries, Probe(q)
    PROVE  AnswerInv'
<1>1. /\ QueryPart /\ query[q].base = None /\ (query[q].quiet => Gate(query[q]))
      /\ query[q] \in QueryRecords /\ query[q].pc = "probe"
  BY Known DEF Probe, ProbeMissing, ProbeDrifted, ProbeStatus, ProbeWalk, Probing, At
<1>2. {"attach", "build", "retire", "refresh"} \subseteq Points
  BY DEF Points
<1>3. UNCHANGED <<head, tree, overlay, graph>>
  BY DEF Probe, ProbeMissing, ProbeDrifted, ProbeStatus, ProbeWalk, worktree, store
<1>4. CASE ProbeMissing(q) \/ ProbeDrifted(q)
  <2>1. PICK there, g : there \in {"attach", "build"} /\ Go(q, g) /\ g = Goto(q, there)
    BY <1>4 DEF ProbeMissing, ProbeDrifted
  <2>2. g.pc = there /\ g.base = None
    BY <1>1, <1>2, <2>1, Moved
  <2>3. Settled(g)
    BY <2>1, <2>2 DEF Settled, StatusOf, Gate
  <2>4. QED
    BY <1>3, <2>1, <2>3, GoSettles
<1>5. CASE ProbeStatus(q)
  <2>1. PICK there, mine :
           /\ there = IF tree = head THEN "retire" ELSE "refresh"
           /\ mine = [Goto(q, there) EXCEPT !.base = head, !.still = TRUE]
    OBVIOUS
  <2>1a. Go(q, mine) /\ there \in {"retire", "refresh"}
    BY <1>5, <2>1 DEF ProbeStatus
  <2>2. PICK g \in QueryRecords :
           /\ g = Goto(q, there) /\ Alike(g, query[q]) /\ g.pc = there
           /\ g.kind = query[q].kind /\ g.held = query[q].held
    BY <1>1, <1>2, <2>1a, Moved
  <2>3. mine = [g EXCEPT !.base = head, !.still = TRUE]
    BY <2>1, <2>2
  <2>4. /\ mine.pc = there /\ mine.base = head /\ mine.still = TRUE /\ mine.kind = query[q].kind
        /\ mine.path = query[q].path /\ mine.quiet = query[q].quiet
        /\ mine.held = query[q].held /\ mine.robbed = query[q].robbed
    BY <2>2, <2>3 DEF QueryRecords, Alike
  <2>5. query[q].path # None
    BY <1>5 DEF ProbeStatus, Probing, Path
  <2>6. StatusOf(mine)
    BY <2>1, <2>4 DEF StatusOf
  <2>7. mine.quiet => Gate(mine)
    BY <1>1, <2>1, <2>4, <2>5 DEF Gate, AboutHead
  <2>8. QED
    BY <1>3, <2>1a, <2>6, <2>7, GoSettles DEF Settled
<1>6. CASE ProbeWalk(q)
  <2>1. PICK there, mine :
           /\ there \in {"retire", "refresh"}
           /\ Go(q, mine) /\ mine = [Goto(q, there) EXCEPT !.still = TRUE]
    BY <1>6 DEF ProbeWalk
  <2>2. PICK g \in QueryRecords :
           /\ g = Goto(q, there) /\ Alike(g, query[q]) /\ g.pc = there /\ g.kind = query[q].kind
           /\ g.base = None
    BY <1>1, <1>2, <2>1, Moved
  <2>3. mine = [g EXCEPT !.still = TRUE]
    BY <2>1, <2>2
  <2>4. /\ mine.pc = there /\ mine.base = None /\ mine.still = TRUE /\ mine.kind = query[q].kind
        /\ mine.path = query[q].path /\ mine.quiet = query[q].quiet
    BY <2>2, <2>3 DEF QueryRecords, Alike
  <2>5. query[q].path # None /\ query[q].path # head
    BY <1>6 DEF ProbeWalk, Probing, Path, OfHead
  <2>6. Settled(mine)
    BY <1>1, <2>1, <2>4, <2>5 DEF Settled, StatusOf, Gate, AboutHead
  <2>7. QED
    BY <1>3, <2>1, <2>6, GoSettles
<1>7. QED
  BY <1>4, <1>5, <1>6 DEF Probe

LEMMA RetireHonest ==
    ASSUME AnswerInv, TypeInv', NEW q \in Queries, Retire(q)
    PROVE  AnswerInv'
<1>1. /\ QueryPart /\ StatusOf(query[q]) /\ (query[q].quiet => Gate(query[q]))
      /\ query[q] \in QueryRecords /\ query[q].pc = "retire"
  BY Known DEF Retire, At
<1>2. UNCHANGED <<head, tree, graph>>
  BY DEF Retire, worktree, store
<1>3. PICK now, mine : now \in {Kept(q), overlay} /\ mine = ToLoad(q) /\ GoOverlay(q, mine, now)
  BY DEF Retire
<1>4. mine.pc = "load" /\ mine.base = None /\ mine.kind = query[q].kind /\ Alike(mine, query[q])
  BY <1>1, <1>3, MovedToLoad
<1>5. Settled(mine)'
  BY <1>1, <1>2, <1>4 DEF Settled, StatusOf, Gate, AboutHead, Alike, Whole
<1>6. query[q].base # None /\ head \in overlay \ now => tree = head
  BY <1>1, <1>3 DEF StatusOf, Kept
<1>7. mine = query'[q]
  BY <1>3 DEF GoOverlay
<1>8. QED
  BY <1>2, <1>3, <1>5, <1>6, <1>7, OverlaySettles

LEMMA RefreshHonest ==
    ASSUME AnswerInv, TypeInv', NEW q \in Queries,
           RefreshCurrent(q) \/ RefreshParsed(q) \/ RefreshWalked(q)
    PROVE  AnswerInv'
<1>1. /\ QueryPart /\ StatusOf(query[q]) /\ (query[q].quiet => Gate(query[q]))
      /\ query[q] \in QueryRecords /\ query[q].pc = "refresh"
  BY Known DEF RefreshCurrent, RefreshParsed, RefreshWalked, At
<1>2. UNCHANGED <<head, tree, graph>> /\ head # None
  BY Parts, Numbers
  DEF RefreshCurrent, RefreshParsed, RefreshWalked, worktree, store, AnswerInv, TreePart
<1>3. ASSUME NEW mine, NEW claimed, NEW now, GoOverlay(q, mine, now), Settled(mine)',
             now = overlay \/ (query[q].still /\ now \in {Kept(q) \cup claimed, overlay \cup claimed}),
             query[q].base # None /\ query[q].still /\ head \in overlay /\ tree # head => head \in claimed
      PROVE  AnswerInv'
  <2>1. mine = query'[q]
    BY <1>3 DEF GoOverlay
  <2>2. query[q].base # None /\ head \in overlay \ now => tree = head
    BY <1>3
  <2>3. QED
    BY <1>2, <1>3, <2>1, <2>2, OverlaySettles
<1>4. PICK f \in QueryRecords :
         /\ f = Forget(Goto(q, "mark")) /\ Alike(f, query[q]) /\ f.pc = "mark"
         /\ f.base = None /\ f.kind = query[q].kind
  <2>1. "mark" \in Points
    BY DEF Points
  <2>2. PICK g \in QueryRecords :
           /\ g = Goto(q, "mark") /\ Alike(g, query[q]) /\ g.pc = "mark" /\ g.kind = query[q].kind
    BY <1>1, <2>1, Moved
  <2>3. PICK f : f = Forget(g)
    OBVIOUS
  <2>4. /\ f \in QueryRecords /\ Alike(f, query[q]) /\ f.pc = "mark" /\ f.base = None
        /\ f.kind = query[q].kind
    <3>1. /\ f \in QueryRecords /\ Alike(f, g) /\ f.pc = g.pc /\ f.base = None
          /\ f.kind = g.kind
      BY <2>2, <2>3, Forgot
    <3>2. QED
      BY <2>2, <3>1 DEF Alike
  <2>5. QED
    BY <2>2, <2>3, <2>4
<1>5. CASE RefreshCurrent(q)
  <2>1. PICK mine : mine = ToLoad(q)
    OBVIOUS
  <2>2. mine.pc = "load" /\ mine.base = None /\ mine.kind = query[q].kind /\ Alike(mine, query[q])
    BY <1>1, <2>1, MovedToLoad
  <2>3. PICK claimed, now :
           /\ claimed = overlay \cap {query[q].base} /\ GoOverlay(q, mine, now)
           /\ now = overlay \/ (query[q].still /\ now \in {Kept(q) \cup claimed, overlay \cup claimed})
           /\ query[q].still => claimed \subseteq now
    BY <1>5, <2>1 DEF RefreshCurrent, Refreshed
  <2>4. overlay' = now /\ query[q].base # None /\ (query[q].still => query[q].held)
    BY <1>5, <2>3 DEF GoOverlay, RefreshCurrent
  <2>5. ASSUME mine.quiet, mine.path = head PROVE Whole' \/ mine.robbed
    <3>1. query[q].quiet /\ query[q].path = head
      BY <2>2, <2>5 DEF Alike
    <3>2. query[q].still /\ query[q].base = head /\ query[q].held
      BY <1>1, <2>4, <3>1 DEF Gate
    <3>3. Whole \/ query[q].robbed
      BY <1>1, <3>1, <3>2 DEF Gate
    <3>4. CASE head \in overlay
      BY <2>3, <2>4, <3>2, <3>4, <1>2 DEF Whole
    <3>5. QED
      BY <1>2, <2>2, <3>3, <3>4 DEF Whole, Alike
  <2>6. mine.quiet => AboutHead(mine)'
    BY <1>1, <1>2, <2>2 DEF Gate, AboutHead, Alike
  <2>7. Settled(mine)'
    BY <1>2, <2>2, <2>5, <2>6 DEF Settled, StatusOf, Gate, Excused, AboutHead
  <2>8. query[q].base # None /\ query[q].still /\ head \in overlay /\ tree # head => head \in claimed
    BY <1>1, <2>3 DEF StatusOf
  <2>9. QED
    BY <1>3, <2>3, <2>7, <2>8
<1>6. CASE RefreshParsed(q)
  <2>1. PICK mine : mine = [f EXCEPT !.robbed = FALSE]
    OBVIOUS
  <2>2. /\ mine.pc = "mark" /\ mine.base = None /\ mine.kind = query[q].kind
        /\ mine.path = query[q].path /\ mine.quiet = query[q].quiet
    BY <1>4, <2>1 DEF QueryRecords, Alike
  <2>3. PICK claimed, now :
           /\ claimed = {query[q].base} /\ GoOverlay(q, mine, now)
           /\ now = overlay \/ (query[q].still /\ now \in {Kept(q) \cup claimed, overlay \cup claimed})
           /\ query[q].still => claimed \subseteq now
    <3>1. Refreshed(q, mine, {query[q].base})
      BY <1>4, <1>6, <2>1 DEF RefreshParsed
    <3>2. PICK left, now :
             /\ left \in {Kept(q), overlay} /\ GoOverlay(q, mine, now)
             /\ now = IF query[q].still THEN left \cup {query[q].base} ELSE overlay
      BY <3>1 DEF Refreshed
    <3>3. QED
      BY <3>2
  <2>4. overlay' = now
    BY <2>3 DEF GoOverlay
  <2>5. ASSUME mine.quiet, mine.path = head PROVE Whole'
    BY <1>1, <1>2, <2>2, <2>3, <2>4, <2>5 DEF Gate, Whole
  <2>6. mine.quiet => AboutHead(mine)'
    BY <1>1, <1>2, <2>2 DEF Gate, AboutHead
  <2>7. Settled(mine)'
    BY <1>2, <2>2, <2>5, <2>6 DEF Settled, StatusOf, Gate, AboutHead
  <2>8. query[q].base # None /\ query[q].still /\ head \in overlay /\ tree # head => head \in claimed
    BY <1>1, <2>3 DEF StatusOf
  <2>9. QED
    BY <1>3, <2>3, <2>7, <2>8
<1>7. CASE RefreshWalked(q)
  <2>1. PICK now :
           /\ GoOverlay(q, f, now) /\ query[q].base = None
           /\ now = overlay \/ (query[q].still /\ now \in {Kept(q) \cup {}, overlay \cup {}})
    BY <1>4, <1>7 DEF RefreshWalked, Refreshed
  <2>2. f.quiet => AboutHead(f)' /\ f.path # head'
    BY <1>1, <1>2, <1>4, <2>1 DEF Gate, AboutHead, Alike
  <2>3. Settled(f)'
    BY <1>4, <2>2 DEF Settled, StatusOf, Gate
  <2>4. QED
    BY <1>3, <2>1, <2>3
<1>8. QED
  BY <1>5, <1>6, <1>7

LEMMA NotWrittenHonest ==
    ASSUME AnswerInv, TypeInv', NEW q \in Queries, RefreshNotWritten(q)
    PROVE  AnswerInv'
<1>1. /\ QueryPart /\ (query[q].quiet => Gate(query[q]))
      /\ query[q] \in QueryRecords /\ query[q].pc = "refresh"
  BY Known DEF RefreshNotWritten, At
<1>2. PICK g \in QueryRecords :
         /\ g = ToLoad(q) /\ g.pc = "load" /\ g.base = None /\ g.kind = query[q].kind
         /\ Alike(g, query[q])
  BY <1>1, MovedToLoad
<1>3. PICK mine : Go(q, mine) /\ mine = [g EXCEPT !.wrote = ~query[q].quiet]
  BY <1>2 DEF RefreshNotWritten
<1>4. /\ mine.pc = "load" /\ mine.base = None /\ mine.kind = query[q].kind
      /\ mine.path = query[q].path /\ mine.quiet = query[q].quiet
      /\ mine.wrote = ~query[q].quiet
  BY <1>2, <1>3 DEF QueryRecords, Alike
<1>5. Settled(mine)
  BY <1>1, <1>4 DEF Settled, StatusOf, Gate, AboutHead, Excused
<1>6. UNCHANGED <<head, tree, overlay, graph>>
  BY DEF RefreshNotWritten, worktree, store
<1>7. QED
  BY <1>3, <1>5, <1>6, GoSettles

LEMMA MarkHonest ==
    ASSUME AnswerInv, TypeInv', NEW q \in Queries, Mark(q)
    PROVE  AnswerInv'
<1>1. /\ QueryPart /\ query[q].base = None /\ (query[q].quiet => Gate(query[q]))
      /\ query[q] \in QueryRecords /\ query[q].pc = "mark"
  BY Known DEF Mark, At
<1>2. "load" \in Points
  BY DEF Points
<1>3. PICK g : g = Goto(q, "load") /\ Go(q, g)
  BY DEF Mark
<1>4. g.pc = "load" /\ g.base = None /\ g.kind = query[q].kind /\ Alike(g, query[q])
  BY <1>1, <1>2, <1>3, Moved
<1>5. Settled(g)
  BY <1>1, <1>4 DEF Settled, StatusOf, Gate, AboutHead, Alike, Excused
<1>6. QED
  BY <1>3, <1>5, GoSettles DEF Mark, worktree, store

LEMMA AttachHonest ==
    ASSUME AnswerInv, TypeInv', NEW q \in Queries, AttachSibling(q) \/ AttachNone(q)
    PROVE  AnswerInv'
<1>1. QueryPart /\ query[q].base = None /\ query[q] \in QueryRecords
  BY Known DEF AttachSibling, AttachNone, At
<1>2. UNCHANGED <<head, tree, overlay, graph>> /\ "cover" \in Points /\ "build" \in Points
  BY DEF AttachSibling, AttachNone, worktree, store, Points
<1>3. CASE AttachSibling(q)
  <2>1. PICK g \in QueryRecords : g = Goto(q, "cover") /\ g.pc = "cover" /\ g.base = None
    BY <1>1, <1>2, Moved
  <2>2. PICK c, mine : c \in Siblings /\ Go(q, mine) /\ mine = [g EXCEPT !.path = c, !.warm = TRUE]
    BY <1>3, <2>1 DEF AttachSibling
  <2>3. mine.pc = "cover" /\ mine.base = None /\ mine.warm = TRUE
    BY <2>1, <2>2 DEF QueryRecords
  <2>4. Settled(mine)
    BY <2>3 DEF Settled, StatusOf, Gate
  <2>5. QED
    BY <1>2, <2>2, <2>4, GoSettles
<1>4. CASE AttachNone(q)
  <2>1. PICK g : g = Goto(q, "build") /\ Go(q, g)
    BY <1>4 DEF AttachNone
  <2>2. g.pc = "build" /\ g.base = None
    BY <1>1, <1>2, <2>1, Moved
  <2>3. Settled(g)
    BY <2>2 DEF Settled, StatusOf, Gate
  <2>4. QED
    BY <1>2, <2>1, <2>3, GoSettles
<1>5. QED
  BY <1>3, <1>4

LEMMA CoverHonest ==
    ASSUME AnswerInv, TypeInv', NEW q \in Queries, Cover(q) \/ CoverNot(q)
    PROVE  AnswerInv'
<1>1. /\ QueryPart /\ query[q].base = None /\ (query[q].quiet => Gate(query[q]))
      /\ query[q] \in QueryRecords /\ query[q].pc = "cover"
  BY Known DEF Cover, CoverNot, At
<1>2. UNCHANGED <<head, tree, graph>>
  BY DEF Cover, CoverNot, worktree, store
<1>3. PICK a \in QueryRecords :
         a = ToAnswer(q) /\ a.pc = "answer" /\ a.base = None /\ Alike(a, query[q])
  BY <1>1, MovedToAnswer
<1>4. a.quiet => a.warm
  BY <1>1, <1>3 DEF Gate, Alike
<1>5. CASE Cover(q)
  <2>1. PICK mine, now :
           /\ mine = [a EXCEPT !.covered = TRUE] /\ now = Kept(q) \cup {Path(q), head}
           /\ GoOverlay(q, mine, now)
    BY <1>3, <1>5 DEF Cover
  <2>2. mine.pc = "answer" /\ mine.base = None /\ (mine.quiet => mine.warm)
    BY <1>3, <1>4, <2>1 DEF QueryRecords
  <2>3. Settled(mine)'
    BY <2>2 DEF Settled, StatusOf, Gate
  <2>4. mine = query'[q]
    BY <2>1 DEF GoOverlay
  <2>5. QED
    BY <1>1, <1>2, <2>1, <2>3, <2>4, OverlaySettles
<1>6. CASE CoverNot(q)
  <2>1. Settled(a)
    BY <1>3, <1>4 DEF Settled, StatusOf, Gate
  <2>2. QED
    BY <1>2, <1>3, <1>6, <2>1, GoSettles DEF CoverNot
<1>7. QED
  BY <1>5, <1>6

LEMMA BuiltHonest ==
    ASSUME AnswerInv, TypeInv', OwnBuild, NEW q \in Queries,
           QueryBuilt(q) \/ QueryFails(q) \/ Answer(q)
    PROVE  AnswerInv'
<1>1. UNCHANGED <<head, tree, overlay, graph>>
  BY DEF QueryBuilt, QueryFails, Answer, worktree, store
<1>2. CASE QueryBuilt(q)
  <2>1. PICK g \in QueryRecords :
           g = ToLoad(q) /\ g.pc = "load" /\ g.base = None /\ Alike(g, query[q])
    BY Known, MovedToLoad
  <2>2. PICK mine : /\ Go(q, mine)
                    /\ mine = [g EXCEPT !.path = build[q].sha, !.built = query[q].quiet]
    BY <1>2, <2>1 DEF QueryBuilt
  <2>3. /\ mine.pc = "load" /\ mine.base = None /\ mine.built = query[q].quiet
        /\ mine.path = build[q].sha /\ mine.quiet = query[q].quiet
    BY <2>1, <2>2 DEF QueryRecords, Alike
  <2>3a. query[q].quiet => build[q].sha = head
    BY <1>2 DEF OwnBuild, QueryBuilt, At
  <2>4. Settled(mine)
    BY <2>3, <2>3a DEF Settled, StatusOf, Gate, AboutHead, Excused
  <2>5. QED
    BY <1>1, <2>2, <2>4, GoSettles
<1>3. CASE QueryFails(q) \/ Answer(q)
  BY <1>1, <1>3, IdleSettled, GoSettles DEF QueryFails, Answer
<1>4. QED
  BY <1>2, <1>3

LEMMA LoadHonest ==
    ASSUME AnswerInv, TypeInv', NEW q \in Queries, LoadCwd(q) \/ LoadRepo(q)
    PROVE  AnswerInv'
<1>1. /\ QueryPart /\ query[q].base = None /\ (query[q].quiet => Gate(query[q]))
      /\ query[q] \in QueryRecords /\ query[q].pc = "load"
  BY Known DEF LoadCwd, LoadRepo, At
<1>2. UNCHANGED <<head, tree, overlay, graph>>
  BY DEF LoadCwd, LoadRepo, worktree, store
<1>2a. query[q].path = head => graph[head] \in Built
  BY <1>1, HasGraph DEF Knows, Gated, Path
<1>3. PICK a \in QueryRecords :
         a = ToAnswer(q) /\ a.pc = "answer" /\ a.base = None /\ Alike(a, query[q])
  BY <1>1, MovedToAnswer
<1>4. CASE LoadCwd(q)
  <2>1. PICK mine : Go(q, mine) /\ mine \in {[a EXCEPT !.path = head], Idle}
    BY <1>3, <1>4 DEF LoadCwd
  <2>2. CASE mine = [a EXCEPT !.path = head]
    <3>1. /\ mine.pc = "answer" /\ mine.base = None /\ mine.path = head
          /\ mine.quiet = query[q].quiet /\ mine.warm = query[q].warm
          /\ mine.built = query[q].built /\ mine.wrote = query[q].wrote
          /\ mine.robbed = query[q].robbed
      BY <1>3, <2>2 DEF QueryRecords, Alike
    <3>2. Settled(mine)
      BY <1>1, <1>2a, <1>4, <3>1 DEF LoadCwd, Settled, StatusOf, Gate, AboutHead, Excused
    <3>3. QED
      BY <1>2, <2>1, <3>2, GoSettles
  <2>3. CASE mine = Idle
    BY <1>2, <2>1, <2>3, IdleSettled, GoSettles
  <2>4. QED
    BY <2>1, <2>2, <2>3
<1>5. CASE LoadRepo(q)
  <2>1. PICK mine : Go(q, mine) /\ mine = [a EXCEPT !.behind = Path(q) # head]
    BY <1>3, <1>5 DEF LoadRepo, BehindHead
  <2>2. /\ mine.pc = "answer" /\ mine.base = None /\ mine.path = query[q].path
        /\ mine.quiet = query[q].quiet /\ mine.warm = query[q].warm
        /\ mine.built = query[q].built /\ mine.wrote = query[q].wrote
        /\ mine.robbed = query[q].robbed /\ mine.behind = (query[q].path # head)
    BY <1>3, <2>1 DEF QueryRecords, Alike, Path
  <2>3. Settled(mine)
    BY <1>1, <1>2a, <2>2 DEF Settled, StatusOf, Gate, Excused
  <2>4. QED
    BY <1>2, <2>1, <2>3, GoSettles
<1>6. QED
  BY <1>4, <1>5

(* Steps of builders, which no query sees.                                 *)
LEMMA UnseenHonest ==
    ASSUME AnswerInv, TypeInv', UNCHANGED <<head, tree, overlay, query>>,
           graph[head] \in Built => graph'[head] \in Built
    PROVE  AnswerInv'
<1>1. \A q \in Queries : Settled(query[q])'
  BY SettledAll DEF Settled, StatusOf, Gate, Whole, Excused, AboutHead, Built
<1>2. QED
  BY <1>1, SettledAll

LEMMA UserHonest ==
    ASSUME AnswerInv, TypeInv', User
    PROVE  AnswerInv'
<1>1. ASSUME NEW q \in Queries PROVE Settled(query[q])'
  <2>1. PICK k \in QueryRecords : k = query[q] /\ StatusOf(k)
    BY Known
  <2>2. CASE Written
    <3>1. query'[q] = [Disturbed(k) EXCEPT !.still = FALSE] /\ overlay' = {}
      BY <2>1, <2>2 DEF Written
    <3>2. PICK g : g = query'[q]
      OBVIOUS
    <3>3. g.quiet = FALSE /\ g.still = FALSE /\ g.pc = k.pc /\ g.base = k.base
      BY <2>1, <3>1, <3>2, Troubled
    <3>4. Settled(g)'
      BY <2>1, <3>1, <3>3 DEF Settled, StatusOf
    <3>5. QED
      BY <3>2, <3>4
  <2>3. CASE Commit
    <3>1. query'[q] = Disturbed(k) /\ overlay' = overlay
      BY <2>1, <2>3 DEF Commit
    <3>2. PICK g : g = query'[q]
      OBVIOUS
    <3>3. /\ g.quiet = FALSE /\ g.still = k.still /\ g.pc = k.pc /\ g.base = k.base
          /\ g.same = k.same
      BY <2>1, <3>1, <3>2, Troubled
    <3>4. tree' = head'
      BY <2>3 DEF Commit
    <3>5. Settled(g)'
      BY <2>1, <3>1, <3>3, <3>4 DEF Settled, StatusOf
    <3>6. QED
      BY <3>2, <3>5
  <2>4. QED
    BY <2>2, <2>3 DEF User, Edit, Checkout
<1>2. QED
  BY <1>1, SettledAll

(* Only a query with no graph to go on comes to its own build.             *)
LEMMA NotToBuild ==
    ASSUME QueryPart, NEW q \in Queries, Query(q) \/ RefreshNotWritten(q),
           ~(ProbeDrifted(q) \/ AttachNone(q))
    PROVE  query'[q].pc # "build"
<1>1. query[q] \in QueryRecords
  BY DEF QueryPart
<1>2. \A there \in {"attach", "retire", "refresh", "mark", "load", "cover"} :
         Goto(q, there) \in QueryRecords /\ Goto(q, there).pc = there
  BY Moved DEF Points
<1>3. ToLoad(q) \in QueryRecords /\ ToLoad(q).pc = "load"
  BY MovedToLoad
<1>4. ToAnswer(q) \in QueryRecords /\ ToAnswer(q).pc = "answer"
  BY MovedToAnswer
<1>5. Forget(Goto(q, "mark")) \in QueryRecords /\ Forget(Goto(q, "mark")).pc = "mark"
  BY <1>2, Forgot
<1>6. Idle \in QueryRecords /\ Idle.pc = "idle"
  BY IdleSane DEF Sane, Idle
<1>7. \A mine : Go(q, mine) => query'[q] = mine
  BY DEF Go, QueryPart
<1>8. \A mine, now : GoOverlay(q, mine, now) => query'[q] = mine
  BY DEF GoOverlay
<1>9. CASE Ask(q)
  <2>1. PICK k \in QueryRecords :
           /\ k = [Idle EXCEPT !.pc = "probe", !.quiet = TRUE, !.same = TRUE, !.held = head \in overlay]
           /\ k.pc = "probe"
    <3>1. PICK h \in BOOLEAN : h = (head \in overlay)
      BY Truth
    <3>2. PICK k : k = [Idle EXCEPT !.pc = "probe", !.quiet = TRUE, !.same = TRUE, !.held = h]
      OBVIOUS
    <3>3. k \in QueryRecords /\ k.pc = "probe"
      BY <1>6, <3>2 DEF QueryRecords, Points
    <3>4. QED
      BY <3>1, <3>2, <3>3
  <2>2. PICK c, mine :
           Go(q, mine) /\ mine \in {[k EXCEPT !.path = c], [k EXCEPT !.kind = "repo", !.path = c]}
    BY <1>9, <2>1 DEF Ask
  <2>3. mine.pc = "probe"
    BY <2>1, <2>2 DEF QueryRecords
  <2>4. QED
    BY <1>7, <2>2, <2>3
<1>10. CASE ProbeMissing(q) \/ Mark(q)
  BY <1>2, <1>7, <1>10 DEF ProbeMissing, Mark
<1>11. CASE ProbeStatus(q) \/ ProbeWalk(q)
  <2>1. PICK there \in {"retire", "refresh"} :
           \/ Go(q, [Goto(q, there) EXCEPT !.base = head, !.still = TRUE])
           \/ Go(q, [Goto(q, there) EXCEPT !.still = TRUE])
    BY <1>11 DEF ProbeStatus, ProbeWalk
  <2>2. PICK g \in QueryRecords : g = Goto(q, there) /\ g.pc = there
    BY <1>2
  <2>3. /\ [g EXCEPT !.base = head, !.still = TRUE].pc = there
        /\ [g EXCEPT !.still = TRUE].pc = there
    BY <2>2 DEF QueryRecords
  <2>4. PICK mine : Go(q, mine) /\ mine.pc = there
    <3>1. CASE Go(q, [Goto(q, there) EXCEPT !.base = head, !.still = TRUE])
      BY <2>2, <2>3, <3>1
    <3>2. CASE Go(q, [Goto(q, there) EXCEPT !.still = TRUE])
      BY <2>2, <2>3, <3>2
    <3>3. QED
      BY <2>1, <3>1, <3>2
  <2>5. QED
    BY <1>7, <2>4
<1>12. CASE AttachSibling(q)
  <2>1. PICK c, mine : Go(q, mine) /\ mine = [Goto(q, "cover") EXCEPT !.path = c, !.warm = TRUE]
    BY <1>12 DEF AttachSibling
  <2>2. mine.pc = "cover"
    BY <1>2, <2>1 DEF QueryRecords
  <2>3. QED
    BY <1>7, <2>1, <2>2
<1>13. CASE Retire(q) \/ RefreshCurrent(q)
  BY <1>3, <1>8, <1>13 DEF Retire, RefreshCurrent, Refreshed
<1>14. CASE RefreshNotWritten(q) \/ QueryBuilt(q)
  <2>1. PICK c, b, mine :
           /\ Go(q, mine)
           /\ mine \in {[ToLoad(q) EXCEPT !.wrote = b], [ToLoad(q) EXCEPT !.path = c, !.built = b]}
    BY <1>14 DEF RefreshNotWritten, QueryBuilt
  <2>2. mine.pc = "load"
    BY <1>3, <2>1 DEF QueryRecords
  <2>3. QED
    BY <1>7, <2>1, <2>2
<1>15. CASE RefreshParsed(q) \/ RefreshWalked(q)
  <2>1. PICK mine, now :
           /\ GoOverlay(q, mine, now)
           /\ mine \in {Forget(Goto(q, "mark")), [Forget(Goto(q, "mark")) EXCEPT !.robbed = FALSE]}
    BY <1>15 DEF RefreshParsed, RefreshWalked, Refreshed
  <2>2. mine.pc = "mark"
    BY <1>5, <2>1 DEF QueryRecords
  <2>3. QED
    BY <1>8, <2>1, <2>2
<1>16. CASE Cover(q) \/ CoverNot(q)
  <2>1. [ToAnswer(q) EXCEPT !.covered = TRUE].pc = "answer"
    BY <1>4 DEF QueryRecords
  <2>2. QED
    BY <1>4, <1>7, <1>8, <1>16, <2>1 DEF Cover, CoverNot
<1>17. CASE LoadCwd(q) \/ LoadRepo(q)
  <2>1. PICK b, mine :
           /\ Go(q, mine)
           /\ mine \in {Idle, [ToAnswer(q) EXCEPT !.path = head], [ToAnswer(q) EXCEPT !.behind = b]}
    BY <1>17 DEF LoadCwd, LoadRepo
  <2>2. mine.pc \in {"idle", "answer"}
    BY <1>4, <1>6, <2>1 DEF QueryRecords
  <2>3. QED
    BY <1>7, <2>1, <2>2
<1>18. CASE QueryFails(q) \/ Answer(q)
  BY <1>6, <1>7, <1>18 DEF QueryFails, Answer
<1>19. QED
  BY <1>9, <1>10, <1>11, <1>12, <1>13, <1>14, <1>15, <1>16, <1>17, <1>18 DEF Query, Probe

(* The step of a query that comes to be, or stays, with a build.           *)
LEMMA OwnBuildQuery ==
    ASSUME TypeInv, OwnBuild, NEW q \in Queries, Query(q) \/ RefreshNotWritten(q),
           NEW r \in Queries, (query[r].quiet /\ query[r].pc = "build")',
           build'[r].pc \in {"check", "read", "publish", "done"}
    PROVE  build'[r].sha = head'
<1>1. /\ QueryPart /\ query[r] \in QueryRecords /\ build \in [Builders -> BuildRecords]
      /\ r \in Builders /\ r # Rebuilder /\ q \in Builders
  BY Parts DEF QueryPart, BuildPart, Builders
<1>2. UNCHANGED head
  BY DEF Query, Ask, Probe, ProbeMissing, ProbeDrifted, ProbeStatus, ProbeWalk, Retire,
         RefreshCurrent, RefreshParsed, RefreshWalked, RefreshNotWritten, Mark, AttachSibling,
         AttachNone, Cover, CoverNot, QueryBuilt, QueryFails, LoadCwd, LoadRepo, Answer, worktree
<1>3. build'[r] \in {build[r], NoBuild, Starting}
  <2>1. CASE UNCHANGED build
    BY <2>1
  <2>2. CASE Builds(q, NoBuild) \/ Builds(q, Starting) \/ Builds(Rebuilder, Starting)
    BY <1>1, <2>2 DEF Builds
  <2>3. QED
    BY <2>1, <2>2
    DEF Query, Ask, Probe, ProbeMissing, ProbeDrifted, ProbeStatus, ProbeWalk, Retire,
        RefreshCurrent, RefreshParsed, RefreshWalked, RefreshNotWritten, Mark, AttachSibling,
        AttachNone, Cover, CoverNot, QueryBuilt, QueryFails, LoadCwd, LoadRepo, Answer, SpawnRebuild
<1>4. build'[r] = build[r]
  BY <1>3, NewBuilds
<1>5. query[r].quiet /\ query[r].pc = "build"
  <2>1. CASE r # q
    <3>1. query'[r].quiet = query[r].quiet /\ query'[r].pc = query[r].pc
      <4>1. CASE \E mine : Go(q, mine)
        BY <1>1, <2>1, <4>1 DEF Go, QueryPart
      <4>2. CASE \E mine, now : GoOverlay(q, mine, now)
        <5>1. PICK k \in QueryRecords : k = query[r]
          BY <1>1
        <5>2. PICK s \in BOOLEAN, d \in BOOLEAN : query'[r] = [k EXCEPT !.same = s, !.robbed = d]
          <6>1. PICK mine, now : GoOverlay(q, mine, now)
            BY <4>2
          <6>2. QED
            BY <2>1, <5>1, <6>1 DEF GoOverlay, QueryRecords
        <5>3. QED
          BY <5>1, <5>2 DEF QueryRecords
      <4>3. QED
        BY <4>1, <4>2
        DEF Query, Ask, Probe, ProbeMissing, ProbeDrifted, ProbeStatus, ProbeWalk, Retire,
            RefreshCurrent, RefreshParsed, RefreshWalked, RefreshNotWritten, Mark, AttachSibling,
            AttachNone, Cover, CoverNot, QueryBuilt, QueryFails, LoadCwd, LoadRepo, Answer, Refreshed
    <3>2. QED
      BY <3>1
  <2>2. CASE r = q
    <3>1. CASE ProbeDrifted(q) \/ AttachNone(q)
      BY <1>1, <1>4, <2>2, <3>1, NewBuilds DEF ProbeDrifted, AttachNone, Builds
    <3>2. CASE ~(ProbeDrifted(q) \/ AttachNone(q))
      BY <1>1, <2>2, <3>2, NotToBuild
    <3>3. QED
      BY <3>1, <3>2
  <2>3. QED
    BY <2>1, <2>2
<1>6. QED
  BY <1>2, <1>4, <1>5 DEF OwnBuild

LEMMA OwnBuildStep == TypeInv /\ OwnBuild /\ [Next]_vars => OwnBuild'
<1> SUFFICES ASSUME TypeInv, OwnBuild, [Next]_vars, NEW r \in Queries,
                    (query[r].quiet /\ query[r].pc = "build")',
                    build'[r].pc \in {"check", "read", "publish", "done"}
             PROVE  build'[r].sha = head'
  BY DEF OwnBuild
<1>1. /\ query \in [Queries -> QueryRecords] /\ build \in [Builders -> BuildRecords]
      /\ r \in Builders /\ r # Rebuilder
  BY Parts DEF QueryPart, BuildPart, Builders
<1>2. CASE User
  <2>1. PICK k \in QueryRecords : k = query[r]
    BY <1>1
  <2>2. query'[r] \in {Disturbed(k), [Disturbed(k) EXCEPT !.still = FALSE]}
    BY <1>2, <2>1 DEF User, Edit, Checkout, Commit, Written
  <2>3. query'[r].quiet = FALSE
    BY <2>1, <2>2, Troubled
  <2>4. QED
    BY <2>3
<1>3. ASSUME NEW p \in Builders, BuildStep(p) \/ BuildFail(p) PROVE build'[r].sha = head'
  <2>1. UNCHANGED <<head, query>>
    BY <1>3 DEF BuildStep, BuildFail, BuildStart, BuildAttach, BuildCheck, BuildRead,
                BuildPublish, worktree
  <2>2. CASE r # p
    <3>1. build'[r] = build[r]
      BY <1>1, <1>3, <2>2 DEF BuildStep, BuildFail, BuildStart, BuildAttach, BuildCheck, BuildRead,
                         BuildPublish, Builds
    <3>2. QED
      BY <2>1, <3>1 DEF OwnBuild
  <2>3. CASE r = p
    <3>1. PICK b \in BuildRecords : b = build[r]
      BY <1>1
    <3>2. CASE BuildStart(p)
      <4>1. build'[r] = [[b EXCEPT !.pc = "check"] EXCEPT !.sha = head]
        BY <1>1, <2>3, <3>1, <3>2 DEF BuildStart, Builds, BuildAt
      <4>2. build'[r].sha = head
        BY <4>1 DEF BuildRecords
      <4>3. QED
        BY <2>1, <4>2
    <3>3. CASE BuildFail(p)
      <4>1. build'[r] = [NoBuild EXCEPT !.pc = "failed"]
        BY <1>1, <2>3, <3>3 DEF BuildFail, Builds
      <4>2. build'[r].pc = "failed"
        BY <4>1 DEF NoBuild
      <4>3. QED
        BY <4>2
    <3>4. CASE BuildPublish(p)
      <4>1. build'[r] = [NoBuild EXCEPT !.pc = "done", !.sha = b.sha]
        BY <1>1, <2>3, <3>1, <3>4 DEF BuildPublish, Builds
      <4>2. build'[r].sha = b.sha
        BY <4>1 DEF NoBuild
      <4>3. QED
        BY <2>1, <2>3, <3>1, <3>4, <4>2 DEF OwnBuild, BuildPublish
    <3>5. CASE BuildAttach(p) \/ BuildCheck(p) \/ BuildRead(p)
      <4>1. PICK there : build'[r].sha = [b EXCEPT !.pc = there].sha
        <5>1. CASE BuildAttach(p)
          BY <1>1, <2>3, <3>1, <5>1 DEF BuildAttach, Builds, BuildAt
        <5>2. CASE BuildCheck(p)
          BY <1>1, <2>3, <3>1, <5>2 DEF BuildCheck, Builds, BuildAt, BuildRecords
        <5>3. CASE BuildRead(p)
          BY <1>1, <2>3, <3>1, <5>3 DEF BuildRead, Builds, BuildAt, BuildRecords
        <5>4. QED
          BY <3>5, <5>1, <5>2, <5>3
      <4>2. build'[r].sha = b.sha
        BY <4>1 DEF BuildRecords
      <4>3. QED
        BY <2>1, <2>3, <3>1, <3>5, <4>2 DEF OwnBuild, BuildAttach, BuildCheck, BuildRead
    <3>6. QED
      BY <1>3, <3>2, <3>3, <3>4, <3>5 DEF BuildStep
  <2>4. QED
    BY <2>2, <2>3
<1>4. CASE RebuildEnds \/ RebuildKilled
  <2>1. UNCHANGED <<head, query>> /\ build'[r] = build[r]
    BY <1>1, <1>4 DEF RebuildEnds, RebuildKilled, worktree, Builds
  <2>2. QED
    BY <2>1 DEF OwnBuild
<1>5. ASSUME NEW q \in Queries, Query(q) \/ RefreshNotWritten(q) PROVE build'[r].sha = head'
  BY <1>1, <1>5, OwnBuildQuery
<1>6. CASE UNCHANGED vars
  BY <1>6 DEF vars, OwnBuild
<1>7. QED
  BY <1>2, <1>3, <1>4, <1>5, <1>6 DEF Next

LEMMA AnswerStep == AnswerInv /\ OwnBuild /\ [Next]_vars => AnswerInv'
<1> SUFFICES ASSUME AnswerInv, OwnBuild, [Next]_vars PROVE AnswerInv'
  OBVIOUS
<1>1. TypeInv'
  BY TypeStep DEF AnswerInv
<1>2. CASE User
  BY <1>1, <1>2, UserHonest
<1>3. ASSUME NEW p \in Builders, BuildStep(p) \/ BuildFail(p) PROVE AnswerInv'
  <2>1. UNCHANGED <<head, tree, overlay, query>>
    BY <1>3 DEF BuildStep, BuildFail, BuildStart, BuildAttach, BuildCheck, BuildRead,
                BuildPublish, worktree
  <2>2. graph[head] \in Built => graph'[head] \in Built
    <3>1. graph \in [Commits -> {"none", "foreign", "old", "pure", "torn"}] /\ head \in Commits
      BY Parts, Numbers DEF AnswerInv, StorePart, TreePart
    <3>2. CASE BuildPublish(p)
      BY <3>1, <3>2 DEF BuildPublish, Built
    <3>3. CASE UNCHANGED graph
      BY <3>3 DEF Built
    <3>4. QED
      BY <1>3, <3>2, <3>3 DEF BuildStep, BuildFail, BuildStart, BuildAttach, BuildCheck, BuildRead,
                              store
  <2>3. QED
    BY <1>1, <2>1, <2>2, UnseenHonest
<1>4. CASE RebuildEnds \/ RebuildKilled
  BY <1>1, <1>4, UnseenHonest DEF RebuildEnds, RebuildKilled, worktree, store
<1>5. ASSUME NEW q \in Queries, Query(q) \/ RefreshNotWritten(q) PROVE AnswerInv'
  BY <1>1, <1>5, AskHonest, ProbeHonest, RetireHonest, RefreshHonest, NotWrittenHonest, MarkHonest,
     AttachHonest, CoverHonest, BuiltHonest, LoadHonest DEF Query
<1>6. CASE UNCHANGED vars
  BY <1>1, <1>6, UnseenHonest DEF vars
<1>7. QED
  BY <1>2, <1>3, <1>4, <1>5, <1>6 DEF Next

LEMMA AnswerInit == Init => AnswerInv /\ OwnBuild
<1>1. Init => \A q \in Queries : query[q] = Idle
  BY DEF Init
<1>2. Idle.quiet = FALSE
  BY DEF Idle
<1>3. QED
  BY <1>1, <1>2, TypeInit, IdleSettled DEF AnswerInv, StatusInv, QuietInv, Settled, OwnBuild

(* Whatever the other queries, the builders and the rebuild do, a query    *)
(* during which neither HEAD nor a file changes answers what the worktree  *)
(* holds, or flags the answer, or is one of the five exceptions that       *)
(* HonestAnswers names.  It begins with a graph of an older binary, of any *)
(* format, or without one.                                                 *)
THEOREM AnswersAreHonest == Spec => []HonestAnswers
<1>1. AnswerInv => HonestAnswers
  BY AnswerHonest
<1>2. AnswerInv => TypeInv
  BY DEF AnswerInv
<1>3. Spec => [](AnswerInv /\ OwnBuild)
  BY <1>2, AnswerInit, AnswerStep, OwnBuildStep, PTL DEF Spec
<1>4. QED
  BY <1>1, <1>3, PTL
=============================================================================
