------------------------------ MODULE PeerWatch ------------------------------
(***************************************************************************)
(* The watcher of one session (`Me`) and the peers of its repository.      *)
(* Every session keeps a manifest of the files its overlay holds; a watch  *)
(* on all of them wakes the watcher, which compares the peer's manifest    *)
(* with its own and puts a concern into its own inbox: HARD for a file     *)
(* both hold, SOFT for a declaration that is a graph neighbour of one of   *)
(* its own.  The file system may drop an event or repeat it.  The watcher  *)
(* holds no lock over what it reads: its own manifest is read three times  *)
(* on the way to one concern.                                              *)
(***************************************************************************)
EXTENDS Integers, Sequences

CONSTANTS
    Me,             \* the session of the watcher
    Peers,          \* the other sessions
    OtherWorktree,  \* peers whose session runs in another worktree
    Files, Names,   \* paths, and names declared in them
    Texts,          \* contents of a file that two sessions can tell apart
    Gone,           \* the entry of a deleted file
    NoEntry,        \* the file is not in the overlay
    Decls,          \* [Texts -> SUBSET Names]
    Reach,          \* symbol -> its neighbours, within SOFT_IMPACT_DEPTH
    SeedsOf,        \* declarations -> the first SOFT_IMPACT_MAX_SEEDS of them
    Graphs,         \* the graphs a watcher may open, each with what
                    \* impacted_names answers on it for a list of seeds
    NoGraph,        \* no graph is attached
    MaxWrites,      \* bound: writes of manifests
    MaxRepeats,     \* bound: events the watch reports for one write
    MaxFaults,      \* bound: deaths of the watcher, failed dispatches, silences
    NoSurface,      \* my_dirty_cache holds nothing
    Earlier         \* [Peers -> manifests a peer may have from before]

ASSUME SessionAssumption == Me \notin Peers /\ OtherWorktree \subseteq Peers
ASSUME DeclAssumption == Decls \in [Texts -> SUBSET Names]
ASSUME BoundAssumption == {MaxWrites, MaxRepeats, MaxFaults} \subseteq Nat

Sessions == Peers \cup {Me}
Entries == Texts \cup {Gone, NoEntry}
Surfaces == [Files -> Entries]
Symbols == Files \X Names

ASSUME ReachAssumption == Reach \in [Symbols -> SUBSET Symbols]
ASSUME SeedAssumption ==
    /\ SeedsOf \in [SUBSET Symbols -> SUBSET Symbols]
    /\ \A S \in SUBSET Symbols : SeedsOf[S] \subseteq S
ASSUME GraphAssumption ==
    Graphs \subseteq [SUBSET Symbols -> SUBSET Symbols] /\ NoGraph \notin Graphs
ASSUME NoneAssumption == NoSurface \notin Surfaces /\ NoEntry \notin Texts

Clean == [f \in Files |-> NoEntry]

ASSUME EarlierAssumption == Earlier \in [Peers -> SUBSET Surfaces]

(* The keys of a manifest, and the declarations of its entries.            *)
Keys(m) == {f \in Files : m[f] # NoEntry}
DirtyIn(m, f) == IF m[f] \in Texts THEN {f} \X Decls[m[f]] ELSE {}
DirtySymbols(m) == UNION {DirtyIn(m, f) : f \in Files}

VARIABLES
    manifest,  \* [Sessions -> Surfaces]
    written,   \* [Sessions -> Nat], the stamp (mtime, len) of each manifest;
               \* 0 before the session has one
    silent,    \* peers whose last sign of life is past SESSION_LIVE_TTL_MINS
    events,    \* sessions whose manifest changed, as notify queues them
    pc,        \* what the watcher is about to do
    stamps,    \* ManifestStamps: each manifest as last handled
    batch,     \* manifests a sweep of the stamps found changed
    todo,      \* peers a rescan has yet to visit
    peer,      \* the peer being handled, Me when none is
    theirs,    \* the manifest of the peer, as read
    cache,     \* my_dirty_cache
    prev,      \* what handle_event took out of it
    impact,    \* SoftState.cache
    seeds,     \* SoftState.seeds
    source,    \* SoftState.source: the graph it opened, for the watcher's life
    told,      \* history: concerns <<peer, file>> raised since the peer last wrote
    excused,   \* history: kinds and peers of which the watcher lost sight
    ownSeen,   \* history: the own manifest SoftState.rebuild last read
    cacheOf,   \* history: the own manifest the cache was filled from
    counts     \* how many writes and faults there were

diskVars == <<manifest, written, silent>>
softVars == <<impact, seeds, source, ownSeen>>
ownVars == <<cache, prev, softVars, cacheOf>>
historyVars == <<told, excused>>
vars == <<diskVars, events, pc, stamps, batch, todo, peer, theirs, ownVars, historyVars, counts>>

Points == {"down", "stamp", "idle", "gained", "next", "read", "tell"}
Kinds == {"HARD", "SOFT"}

TypeOK ==
    /\ manifest \in [Sessions -> Surfaces]
    /\ written \in [Sessions -> Nat] /\ stamps \in [Sessions -> Nat]
    /\ silent \subseteq Peers
    /\ events \in Seq(Sessions)
    /\ pc \in Points
    /\ batch \subseteq Sessions /\ todo \subseteq Peers
    /\ peer \in Sessions
    /\ theirs \in Surfaces
    /\ {cache, prev} \subseteq Surfaces \cup {NoSurface}
    /\ impact \subseteq Symbols /\ seeds \subseteq Symbols
    /\ source \in Graphs \cup {NoGraph}
    /\ told \subseteq Peers \X Files /\ excused \subseteq Kinds \X Peers
    /\ ownSeen \in Nat /\ cacheOf \in Nat
    /\ counts \in [write : 0..MaxWrites, fault : 0..MaxFaults]

Init ==
    /\ \E old \in [Peers -> Surfaces] :
        /\ \A p \in Peers : old[p] \in Earlier[p] \cup {Clean}
        /\ manifest = [s \in Sessions |-> IF s = Me THEN Clean ELSE old[s]]
        /\ written = [s \in Sessions |-> IF manifest[s] = Clean THEN 0 ELSE 1]
    /\ stamps = [s \in Sessions |-> 0]
    /\ silent = {} /\ told = {} /\ excused = {}
    /\ events = <<>> /\ pc = "down"
    /\ batch = {} /\ todo = {} /\ peer = Me /\ theirs = Clean
    /\ cache = NoSurface /\ prev = NoSurface
    /\ impact = {} /\ seeds = {} /\ source = NoGraph
    /\ ownSeen = 0 /\ cacheOf = 0
    /\ counts = [write |-> 0, fault |-> 0]

------------------------------------------------------------------------------
(* The sessions.                                                           *)

(* A session beats its heart and replaces its manifest, which may say the  *)
(* same again.  The watch reports the change, several times (a rename is   *)
(* two events) or not at all: its queue overflows, and a new dir is        *)
(* watched only some time after it is made.                                *)
Write(s, f, entry) ==
    /\ counts.write < MaxWrites
    /\ manifest' = [manifest EXCEPT ![s][f] = entry]
    /\ written' = [written EXCEPT ![s] = @ + 1]
    /\ silent' = silent \ {s}
    /\ \E n \in 0..MaxRepeats :
        events' = IF pc = "down" THEN <<>> ELSE events \o [i \in 1..n |-> s]
    /\ told' = {c \in told : c[1] # s}
    /\ excused' = {e \in excused : e[2] # s}
    /\ counts' = [counts EXCEPT !.write = @ + 1]
    /\ UNCHANGED <<pc, stamps, batch, todo, peer, theirs, ownVars>>

Fault == counts.fault < MaxFaults /\ counts' = [counts EXCEPT !.fault = @ + 1]

(* A peer that gave no sign of life for two hours counts as dead.          *)
Silence(p) ==
    /\ p \notin silent /\ Fault
    /\ silent' = silent \cup {p}
    /\ UNCHANGED <<manifest, written, events, pc, stamps, batch, todo, peer, theirs, ownVars, historyVars>>

(* It comes back with a query that leaves its manifest alone.              *)
Beat(p) ==
    /\ p \in silent
    /\ silent' = silent \ {p}
    /\ excused' = excused \cup (Kinds \X {p})
    /\ UNCHANGED <<manifest, written, events, pc, stamps, batch, todo, peer, theirs, ownVars, told, counts>>

------------------------------------------------------------------------------
(* What the watcher computes from a manifest.                              *)

(* The neighbours a complete answer would name.                            *)
ImpactOf(m) == UNION {Reach[x] : x \in DirtySymbols(m)}

(* The declarations SOFT starts from: seed_symbols.                        *)
SeedsIn(m) == SeedsOf[DirtySymbols(m)]

(* What SoftState holds of a list of seeds: impacted_names on the graph,   *)
(* which skips a seed the graph does not know and stops at a number of     *)
(* names, or nothing.  Mutant: the bare names.                             *)
ImpactedBare(graph, from) ==
    IF from = {} \/ graph = NoGraph THEN {} ELSE {x[2] : x \in graph[from]}
Impacted(graph, from) == IF from = {} \/ graph = NoGraph THEN {} ELSE graph[from]

(* my_dirty_gained_symbols                                                 *)
Gains(now, before) ==
    \/ before = NoSurface
    \/ ~ (Keys(now) \subseteq Keys(before))
    \/ ~ (DirtySymbols(now) \subseteq DirtySymbols(before))

(* same_text_elsewhere                                                     *)
SameTextElsewhere(p, mine, other) ==
    p \in OtherWorktree /\ other \in Texts /\ mine = other

(* classify, on the peer's entry of file f                                 *)
Hard(mine, f) == f \in Keys(mine)
Soft(mine, other, reached, f) ==
    DirtySymbols(mine) # {} /\ DirtyIn(other, f) \cap reached # {}

(* The files of peer p whose entries raise a concern.                      *)
Raised(p, mine, other, reached) ==
    {f \in Keys(other) :
        /\ ~ SameTextElsewhere(p, mine[f], other[f])
        /\ Hard(mine, f) \/ Soft(mine, other, reached, f)}

------------------------------------------------------------------------------
(* The watcher.                                                            *)

(* load_impact_source, for want of a graph.  Whether one loads is open: the*)
(* index may still be building, and a path that failed is not tried again. *)
Attach(now) ==
    IF now = {} \/ source # NoGraph THEN {source} ELSE Graphs \cup {NoGraph}

(* The same seeds have the same neighbours, once there is a graph.         *)
Unmoved == source # NoGraph /\ SeedsIn(manifest[Me]) = seeds

(* Mutant of Rebuild: the neighbours come before the graph is loaded.      *)
RebuildThenLoad ==
    /\ ownSeen' = written[Me]
    /\ \/ Unmoved /\ UNCHANGED <<impact, seeds, source>>
       \/ /\ ~ Unmoved
          /\ seeds' = SeedsIn(manifest[Me])
          /\ impact' = Impacted(source, seeds')
          /\ source' \in Attach(seeds')

(* SoftState.rebuild                                                       *)
Rebuild ==
    /\ ownSeen' = written[Me]
    /\ \/ Unmoved /\ UNCHANGED <<impact, seeds, source>>
       \/ /\ ~ Unmoved
          /\ seeds' = SeedsIn(manifest[Me])
          /\ source' \in Attach(seeds')
          /\ impact' = Impacted(source', seeds')

(* run_watcher up to the watch: the soft state comes first.                *)
Start ==
    /\ pc = "down"
    /\ Rebuild
    /\ pc' = "stamp"
    /\ UNCHANGED <<diskVars, events, stamps, batch, todo, peer, theirs, cache, prev, cacheOf, historyVars, counts>>

(* Stamps before the rescan: what is written in between is told twice.     *)
StampAll ==
    /\ pc = "stamp"
    /\ stamps' = written
    /\ todo' = Peers
    /\ pc' = "next"
    /\ UNCHANGED <<diskVars, events, batch, peer, theirs, ownVars, historyVars, counts>>

(* handle_event: the stamp, then the own manifest or a peer's.             *)
Handle(s) ==
    /\ stamps' = [stamps EXCEPT ![s] = written[s]]
    /\ IF s = Me
       THEN /\ Rebuild
            /\ prev' = cache /\ cache' = NoSurface
            /\ pc' = "gained" /\ peer' = peer
       ELSE pc' = "read" /\ peer' = s /\ UNCHANGED <<prev, cache, softVars>>
    /\ UNCHANGED <<diskVars, todo, theirs, cacheOf, historyVars, counts>>

Receive ==
    /\ pc = "idle" /\ batch = {} /\ events # <<>>
    /\ Handle(Head(events))
    /\ events' = Tail(events)
    /\ UNCHANGED batch

(* Mutant of Sweep: the manifests of the peers only.                       *)
SweepPeers ==
    /\ pc = "idle" /\ batch = {}
    /\ stamps # written
    /\ batch' = {p \in Peers : stamps[p] # written[p]}
    /\ stamps' = written
    /\ UNCHANGED <<diskVars, events, pc, todo, peer, theirs, ownVars, historyVars, counts>>

(* The reconcile of every second, which misses no change of a stamp.       *)
Sweep ==
    /\ pc = "idle" /\ batch = {}
    /\ stamps # written
    /\ batch' = {s \in Sessions : stamps[s] # written[s]}
    /\ stamps' = written
    /\ UNCHANGED <<diskVars, events, pc, todo, peer, theirs, ownVars, historyVars, counts>>

Reconcile(s) ==
    /\ pc = "idle" /\ s \in batch
    /\ Handle(s)
    /\ batch' = batch \ {s}
    /\ UNCHANGED events

(* The own manifest is read again: only a gain is worth a rescan.          *)
Gained ==
    /\ pc = "gained"
    /\ IF Gains(manifest[Me], prev) THEN todo' = Peers /\ pc' = "next"
                                    ELSE todo' = {} /\ pc' = "idle"
    /\ prev' = NoSurface
    /\ UNCHANGED <<diskVars, events, stamps, batch, peer, theirs, cache, softVars, cacheOf, historyVars, counts>>

After(rest) == IF rest = {} THEN "idle" ELSE "next"

(* rescan_peers goes on to a peer; one without a manifest is passed over.  *)
Visit(p) ==
    /\ pc = "next" /\ p \in todo
    /\ todo' = todo \ {p}
    /\ IF written[p] > 0 THEN peer' = p /\ pc' = "read"
                        ELSE peer' = peer /\ pc' = After(todo \ {p})
    /\ UNCHANGED <<diskVars, events, stamps, batch, theirs, ownVars, historyVars, counts>>

(* dispatch_peer: the peer's manifest first.                               *)
ReadPeer ==
    /\ pc = "read"
    /\ theirs' = manifest[peer]
    /\ pc' = "tell"
    /\ UNCHANGED <<diskVars, events, stamps, batch, todo, peer, ownVars, historyVars, counts>>

EndPeer == pc' = After(todo) /\ peer' = Me /\ theirs' = Clean

(* Then the own one, a third time, unless the cache holds it.  If it is    *)
(* newer than the event being handled, the event that would announce it    *)
(* finds nothing gained, and the peers this rescan is not about to visit   *)
(* are not looked at again.                                                *)
Mine == IF cache = NoSurface THEN manifest[Me] ELSE cache
MineOf == IF cache = NoSurface THEN written[Me] ELSE cacheOf
FillCache ==
    /\ cache' = Mine /\ cacheOf' = MineOf
    /\ UNCHANGED <<prev, softVars>>
Overlooked ==
    IF cache = NoSurface /\ written[Me] # ownSeen
    THEN Kinds \X (Peers \ (todo \cup {peer})) ELSE {}

(* The neighbours are those of an older own manifest, or not all of them:  *)
(* no graph was loaded, there were more declarations than seeds, the graph *)
(* does not know one or the answer was cut short.  An own write that gains *)
(* nothing may complete them later, and the peer is not looked at again.   *)
SoftShort ==
    /\ DirtySymbols(Mine) # {}
    /\ \/ MineOf # ownSeen
       \/ ~ (ImpactOf(Mine) \subseteq Impacted(source, SeedsIn(Mine)))

(* A peer that counts as dead raises nothing.                              *)
Tell ==
    /\ pc = "tell"
    /\ FillCache
    /\ told' = IF peer \in silent \/ theirs # manifest[peer] THEN told
               ELSE told \cup ({peer} \X Raised(peer, Mine, theirs, impact))
    /\ excused' = excused \cup Overlooked
                    \cup (IF SoftShort THEN {<<"SOFT", peer>>} ELSE {})
    /\ EndPeer
    /\ UNCHANGED <<diskVars, events, stamps, batch, todo, counts>>

(* The peer's manifest or its meta does not read, or the own inbox does    *)
(* not take the concern: the error is logged and the loop goes on.         *)
DispatchError ==
    /\ Fault
    /\ \/ pc = "read" /\ UNCHANGED ownVars
       \/ pc = "tell" /\ FillCache
    /\ excused' = excused \cup (Kinds \X {peer})
                    \cup (IF pc = "tell" THEN Overlooked ELSE {})
    /\ EndPeer
    /\ UNCHANGED <<diskVars, events, stamps, batch, todo, told>>

Die ==
    /\ pc # "down" /\ Fault
    /\ pc' = "down"
    /\ events' = <<>> /\ batch' = {} /\ todo' = {}
    /\ stamps' = [s \in Sessions |-> 0] /\ peer' = Me /\ theirs' = Clean
    /\ cache' = NoSurface /\ prev' = NoSurface
    /\ impact' = {} /\ seeds' = {} /\ source' = NoGraph
    /\ ownSeen' = 0 /\ cacheOf' = 0
    /\ UNCHANGED <<diskVars, historyVars>>

Watch ==
    \/ Start \/ StampAll \/ Receive \/ Sweep
    \/ \E s \in Sessions : Reconcile(s)
    \/ Gained \/ ReadPeer \/ Tell
    \/ \E p \in Peers : Visit(p)

Next ==
    \/ Watch
    \/ DispatchError \/ Die
    \/ \E p \in Peers : Silence(p) \/ Beat(p)
    \/ \E s \in Sessions : \E f \in Files : \E entry \in Entries : Write(s, f, entry)

Spec == Init /\ [][Next]_vars
FairSpec == Spec /\ WF_vars(Watch)

------------------------------------------------------------------------------
(* Properties.                                                             *)

(* Nothing is left to handle.                                              *)
Quiet == pc = "idle" /\ batch = {} /\ events = <<>> /\ stamps = written

(* What `peers status --pairs` shows of me and p.                          *)
PairRow(p, f) ==
    /\ p \notin silent
    /\ f \in Keys(manifest[Me]) \cap Keys(manifest[p])
    /\ ~ SameTextElsewhere(p, manifest[Me][f], manifest[p][f])

(* A declaration of the peer's file is a neighbour of one of mine.         *)
Neighbour(p, f) ==
    /\ p \notin silent /\ p \notin OtherWorktree
    /\ Soft(manifest[Me], manifest[p], ImpactOf(manifest[Me]), f)

Owed(p) ==
    {f \in Files : PairRow(p, f) /\ <<"HARD", p>> \notin excused}
        \cup {f \in Files : Neighbour(p, f) /\ <<"SOFT", p>> \notin excused}

(* Once everything is handled, a concern has been raised for every file    *)
(* two sessions of one worktree share, and for every neighbour: whatever   *)
(* events were lost or repeated, whoever wrote last, and across restarts.  *)
(* The peers the code loses sight of (`excused`) are heard of again at     *)
(* their next write.  SOFT is a hint: a peer that was compared while no    *)
(* graph was loaded, or with neighbours a cap had cut, is owed none until  *)
(* it writes again.                                                        *)
OverlapsHeard ==
    Quiet => \A p \in Peers \ OtherWorktree : {p} \X Owed(p) \subseteq told

(* The same for the file a peer in another worktree holds with another     *)
(* text, as concern.rs:3-4 has it.                                         *)
PairsHeard == Quiet => \A p \in Peers : \A f \in Files : PairRow(p, f) => <<p, f>> \in told

(* An overlap that lasts is reported, unless the code loses sight of it:   *)
(* an event that never came is made up for by the sweep.                   *)
OverlapReported ==
    \A p \in Peers \ OtherWorktree : \A f \in Files :
        f \in Owed(p) ~> (<<p, f>> \in told \/ f \notin Owed(p))
==============================================================================
