--------------------------- MODULE PeerWatchProofs ---------------------------
(***************************************************************************)
(* Machine-checked theorems about PeerWatch, for any peers, files, texts   *)
(* and graph and any bounds of the writes, repeats and faults.             *)
(***************************************************************************)
EXTENDS PeerWatch, SequenceTheorems, TLAPS

USE SessionAssumption, DeclAssumption, ReachAssumption, SeedAssumption,
    GraphAssumption, EarlierAssumption, BoundAssumption, NoneAssumption

-----------------------------------------------------------------------------
(* Types.                                                                  *)

LEMMA CleanType == Clean \in Surfaces /\ Keys(Clean) = {} /\ Me \in Sessions
  BY DEF Clean, Surfaces, Entries, Keys, Sessions

LEMMA SeedsType ==
    ASSUME NEW m \in Surfaces
    PROVE  DirtySymbols(m) \subseteq Symbols /\ SeedsIn(m) \subseteq Symbols
<1>1. \A f \in Files : DirtyIn(m, f) \subseteq Symbols
  BY DEF DirtyIn, Symbols
<1>2. DirtySymbols(m) \subseteq Symbols
  BY <1>1 DEF DirtySymbols
<1>3. QED
  BY <1>2 DEF SeedsIn

LEMMA ImpactedType ==
    ASSUME NEW graph \in Graphs \cup {NoGraph}, NEW from \in SUBSET Symbols
    PROVE  Impacted(graph, from) \subseteq Symbols
  BY DEF Impacted

LEMMA RebuildType ==
    ASSUME TypeOK, Rebuild
    PROVE  /\ impact' \subseteq Symbols /\ seeds' \subseteq Symbols
           /\ source' \in Graphs \cup {NoGraph} /\ ownSeen' \in Nat
<1>1. manifest[Me] \in Surfaces /\ written[Me] \in Nat
  BY CleanType DEF TypeOK
<1>2. CASE Unmoved
  BY <1>1, <1>2 DEF Rebuild, TypeOK
<1>3. CASE ~ Unmoved
  <2>1. seeds' \in SUBSET Symbols /\ source' \in Graphs \cup {NoGraph}
    BY <1>1, <1>3, SeedsType DEF Rebuild, Attach, TypeOK
  <2>2. impact' \subseteq Symbols
    BY <1>3, <2>1, ImpactedType DEF Rebuild
  <2>3. QED
    BY <1>1, <2>1, <2>2 DEF Rebuild
<1>4. QED
  BY <1>2, <1>3

LEMMA CountType ==
    ASSUME TypeOK
    PROVE  /\ counts.write < MaxWrites =>
                [counts EXCEPT !.write = @ + 1] \in [write : 0..MaxWrites, fault : 0..MaxFaults]
           /\ Fault => counts' \in [write : 0..MaxWrites, fault : 0..MaxFaults]
<1>1. MaxWrites \in Nat /\ MaxFaults \in Nat
  OBVIOUS
<1>2. PICK k \in [write : 0..MaxWrites, fault : 0..MaxFaults] : k = counts
  BY DEF TypeOK
<1>3. k.write < MaxWrites => k.write + 1 \in 0..MaxWrites
  BY <1>1
<1>4. k.fault < MaxFaults => k.fault + 1 \in 0..MaxFaults
  BY <1>1
<1>5. QED
  BY <1>2, <1>3, <1>4 DEF Fault

LEMMA WriteType ==
    ASSUME TypeOK, NEW s \in Sessions, NEW f \in Files, NEW entry \in Entries, Write(s, f, entry)
    PROVE  TypeOK'
<1>1. manifest' \in [Sessions -> Surfaces] /\ written' \in [Sessions -> Nat]
  BY DEF Write, TypeOK, Surfaces
<1>2. events' \in Seq(Sessions)
  <2>1. PICK n \in 0..MaxRepeats :
           events' = IF pc = "down" THEN <<>> ELSE events \o [i \in 1..n |-> s]
    BY DEF Write
  <2>2. n \in Nat
    OBVIOUS
  <2>3. [i \in 1..n |-> s] \in Seq(Sessions)
    BY <2>2
  <2>4. events \in Seq(Sessions) /\ <<>> \in Seq(Sessions)
    BY DEF TypeOK
  <2>5. events \o [i \in 1..n |-> s] \in Seq(Sessions)
    BY <2>3, <2>4, ConcatProperties
  <2>6. QED
    BY <2>1, <2>4, <2>5
<1>3. counts' \in [write : 0..MaxWrites, fault : 0..MaxFaults]
  BY CountType DEF Write
<1>4. silent' \subseteq Peers /\ told' \subseteq Peers \X Files /\ excused' \subseteq Kinds \X Peers
  BY DEF Write, TypeOK
<1>5. QED
  BY <1>1, <1>2, <1>3, <1>4 DEF Write, ownVars, softVars, TypeOK

LEMMA SignType ==
    ASSUME TypeOK, NEW p \in Peers, Silence(p) \/ Beat(p)
    PROVE  TypeOK'
<1>1. CASE Silence(p)
  BY <1>1, CountType DEF Silence, TypeOK, ownVars, softVars, historyVars
<1>2. CASE Beat(p)
  BY <1>2 DEF Beat, TypeOK, ownVars, softVars
<1>3. QED
  BY <1>1, <1>2

LEMMA HandleType ==
    ASSUME TypeOK, NEW s \in Sessions, Handle(s), events' \in Seq(Sessions),
           batch' \subseteq Sessions
    PROVE  TypeOK'
<1>1. stamps' \in [Sessions -> Nat]
  BY DEF Handle, TypeOK
<1>2. /\ impact' \subseteq Symbols /\ seeds' \subseteq Symbols
      /\ source' \in Graphs \cup {NoGraph} /\ ownSeen' \in Nat
  BY RebuildType DEF Handle, softVars, TypeOK
<1>3. pc' \in Points /\ peer' \in Sessions /\ {cache', prev'} \subseteq Surfaces \cup {NoSurface}
  BY DEF Handle, TypeOK, Points
<1>4. QED
  BY <1>1, <1>2, <1>3 DEF Handle, diskVars, historyVars, TypeOK

LEMMA MineType ==
    ASSUME TypeOK
    PROVE  Mine \in Surfaces /\ MineOf \in Nat /\ Overlooked \subseteq Kinds \X Peers
  BY CleanType DEF TypeOK, Mine, MineOf, Overlooked

LEMMA TellType ==
    ASSUME TypeOK, Tell \/ DispatchError, pc \in {"read", "tell"} => peer \in Peers
    PROVE  TypeOK'
<1>1. peer \in Peers
  BY DEF Tell, DispatchError
<1>2. /\ {cache', prev'} \subseteq Surfaces \cup {NoSurface} /\ cacheOf' \in Nat
      /\ UNCHANGED softVars
  <2>1. /\ UNCHANGED prev /\ UNCHANGED softVars
        /\ \/ UNCHANGED <<cache, cacheOf>>
           \/ cache' = Mine /\ cacheOf' = MineOf
    BY DEF Tell, DispatchError, FillCache, ownVars
  <2>2. {cache, prev} \subseteq Surfaces \cup {NoSurface} /\ cacheOf \in Nat
    BY DEF TypeOK
  <2>3. QED
    BY <2>1, <2>2, MineType
<1>3. told' \subseteq Peers \X Files
  BY <1>1 DEF Tell, DispatchError, TypeOK, Raised, Keys
<1>4. excused' \subseteq Kinds \X Peers
  <2>1. <<"SOFT", peer>> \in Kinds \X Peers /\ Kinds \X {peer} \subseteq Kinds \X Peers
    BY <1>1 DEF Kinds
  <2>2. QED
    BY <2>1, MineType DEF Tell, DispatchError, TypeOK
<1>5. pc' \in Points /\ peer' \in Sessions /\ theirs' \in Surfaces
  BY CleanType DEF Tell, DispatchError, EndPeer, After, Points
<1>6. counts' \in [write : 0..MaxWrites, fault : 0..MaxFaults]
  BY CountType DEF Tell, DispatchError, TypeOK
<1>7. QED
  BY <1>2, <1>3, <1>4, <1>5, <1>6 DEF Tell, DispatchError, diskVars, softVars, TypeOK

LEMMA WatchType ==
    ASSUME TypeOK, pc \in {"read", "tell"} => peer \in Peers, Watch \/ Die
    PROVE  TypeOK'
<1>1. CASE Start
  BY <1>1, RebuildType DEF Start, TypeOK, Points, diskVars, historyVars
<1>2. CASE StampAll
  BY <1>2 DEF StampAll, TypeOK, Points, diskVars, ownVars, softVars, historyVars
<1>3. CASE Receive
  <2>1. Head(events) \in Sessions /\ Tail(events) \in Seq(Sessions)
    BY <1>3, HeadTailProperties DEF Receive, TypeOK
  <2>2. QED
    BY <1>3, <2>1, HandleType DEF Receive, TypeOK
<1>4. CASE Sweep
  BY <1>4 DEF Sweep, TypeOK, diskVars, ownVars, softVars, historyVars
<1>5. CASE \E s \in Sessions : Reconcile(s)
  <2>1. PICK s \in Sessions : Reconcile(s)
    BY <1>5
  <2>2. Handle(s) /\ events' \in Seq(Sessions) /\ batch' \subseteq Sessions
    BY <2>1 DEF Reconcile, TypeOK
  <2>3. QED
    BY <2>2, HandleType
<1>6. CASE Gained
  BY <1>6 DEF Gained, TypeOK, Points, diskVars, softVars, historyVars
<1>7. CASE ReadPeer
  BY <1>7 DEF ReadPeer, TypeOK, Points, diskVars, ownVars, softVars, historyVars
<1>8. CASE Tell
  BY <1>8, TellType
<1>9. CASE \E p \in Peers : Visit(p)
  BY <1>9 DEF Visit, After, TypeOK, Points, Sessions, diskVars, ownVars, softVars, historyVars
<1>10. CASE Die
  <2>1. counts' \in [write : 0..MaxWrites, fault : 0..MaxFaults]
    BY <1>10, CountType DEF Die
  <2>2. /\ UNCHANGED <<diskVars, historyVars>> /\ pc' \in Points /\ stamps' \in [Sessions -> Nat]
        /\ events' \in Seq(Sessions) /\ batch' = {} /\ todo' = {} /\ peer' = Me /\ theirs' = Clean
        /\ cache' = NoSurface /\ prev' = NoSurface /\ ownSeen' = 0 /\ cacheOf' = 0
        /\ impact' = {} /\ seeds' = {} /\ source' = NoGraph
    BY <1>10 DEF Die, Points
  <2>3. QED
    BY <2>1, <2>2, CleanType DEF TypeOK, diskVars, historyVars
<1>11. QED
  BY <1>1, <1>2, <1>3, <1>4, <1>5, <1>6, <1>7, <1>8, <1>9, <1>10 DEF Watch

-----------------------------------------------------------------------------
(* What the watcher knows of its own manifest and of the peer it handles.  *)

Settled == stamps[Me] = written[Me] /\ Me \notin batch

PlaceInv ==
    /\ pc \in {"down", "stamp"} => cache = NoSurface /\ batch = {}
    /\ pc = "gained" => cache = NoSurface
    /\ pc # "next" /\ pc \notin {"read", "tell"} => todo = {}
    /\ pc \in {"read", "tell"} => peer \in Peers
    /\ pc = "tell" => theirs = manifest[peer] \/ stamps[peer] # written[peer]

StampInv ==
    /\ \A s \in Sessions : /\ stamps[s] <= written[s]
                           /\ written[s] = 0 => manifest[s] = Clean
    /\ ownSeen <= written[Me] /\ cacheOf <= written[Me]
    /\ pc \notin {"down", "stamp"} /\ ownSeen = written[Me] => Settled
    /\ cache # NoSurface /\ Settled => cacheOf = written[Me]

CacheInv ==
    /\ cache # NoSurface /\ cacheOf = written[Me] => cache = manifest[Me]
    /\ pc # "down" /\ ownSeen = written[Me] => seeds = SeedsIn(manifest[Me])
    /\ cache # NoSurface /\ cacheOf = ownSeen => seeds = SeedsIn(cache)
    /\ impact = Impacted(source, seeds)

(* A look at p is still to come.                                           *)
Pending(p) ==
    \/ pc \in {"down", "stamp"}
    \/ stamps[p] # written[p] \/ p \in batch \/ p \in todo
    \/ peer = p /\ pc \in {"read", "tell"}

(* The own manifest the peers were compared with, if it still counts: one  *)
(* that is gone, with no cache left of it, makes the next look at the own  *)
(* manifest visit everybody.                                               *)
Compared == IF pc = "gained" THEN prev ELSE Mine
Counts == IF pc = "gained" THEN prev # NoSurface ELSE cache # NoSurface \/ Settled

Heard(p, m) ==
    \A f \in Files :
        \/ <<p, f>> \in told
        \/ /\ f \in Keys(m) \cap Keys(manifest[p]) => <<"HARD", p>> \in excused
           /\ Soft(m, manifest[p], ImpactOf(m), f) => <<"SOFT", p>> \in excused

HeardInv ==
    \A p \in Peers \ (OtherWorktree \cup silent) :
        ~ Pending(p) /\ Counts => Heard(p, Compared)


LEMMA PlaceInit == Init => PlaceInv /\ StampInv /\ CacheInv
<1> SUFFICES ASSUME Init PROVE PlaceInv /\ StampInv /\ CacheInv
  OBVIOUS
<1>1. PlaceInv
  BY DEF Init, PlaceInv
<1>2. manifest[Me] = Clean /\ written \in [Sessions -> {0, 1}]
      /\ \A s \in Sessions : written[s] = 0 => manifest[s] = Clean
  <2>1. PICK old \in [Peers -> Surfaces] :
          /\ manifest = [s \in Sessions |-> IF s = Me THEN Clean ELSE old[s]]
          /\ written = [s \in Sessions |-> IF manifest[s] = Clean THEN 0 ELSE 1]
    BY DEF Init
  <2>2. QED
    BY <2>1, CleanType
<1>3. StampInv
  BY <1>2, CleanType DEF Init, StampInv
<1>4. CacheInv
  BY DEF Init, CacheInv, Impacted
<1>5. QED
  BY <1>1, <1>3, <1>4

LEMMA PlaceWrite ==
    ASSUME TypeOK, PlaceInv, StampInv, CacheInv, NEW s \in Sessions, NEW f \in Files,
           NEW entry \in Entries, Write(s, f, entry)
    PROVE  PlaceInv' /\ StampInv' /\ CacheInv'
<1> USE DEF Write, ownVars, softVars
<1>1. /\ written'[s] = written[s] + 1 /\ written[s] \in Nat /\ stamps[s] \in Nat
      /\ \A r \in Sessions \ {s} : written'[r] = written[r] /\ manifest'[r] = manifest[r]
      /\ \A r \in Sessions : written[r] \in Nat /\ stamps[r] \in Nat
      /\ ownSeen \in Nat /\ cacheOf \in Nat
  BY DEF TypeOK
<1>2. stamps[s] # written'[s] /\ stamps[s] <= written'[s]
  BY <1>1 DEF StampInv
<1>3. PlaceInv'
  BY <1>1, <1>2 DEF PlaceInv, Sessions
<1>4. StampInv'
  BY <1>1, <1>2, CleanType DEF StampInv, Settled
<1>5. CacheInv'
  <2>1. CASE s = Me
    BY <1>1, <2>1 DEF CacheInv, StampInv
  <2>2. CASE s # Me
    BY <1>1, <2>2, CleanType DEF CacheInv
  <2>3. QED
    BY <2>1, <2>2
<1>6. QED
  BY <1>3, <1>4, <1>5

LEMMA RebuildSeeds ==
    ASSUME Rebuild, impact = Impacted(source, seeds)
    PROVE  seeds' = SeedsIn(manifest[Me]) /\ impact' = Impacted(source', seeds')
  BY DEF Rebuild, Unmoved

LEMMA PlaceHandle ==
    ASSUME TypeOK, PlaceInv, StampInv, CacheInv, NEW s \in Sessions, Handle(s),
           pc = "idle", batch' = batch \ {s}
    PROVE  PlaceInv' /\ StampInv' /\ CacheInv'
<1> USE DEF Handle, diskVars, historyVars, softVars
<1>1. PlaceInv'
  BY DEF PlaceInv, Sessions
<1>2. /\ stamps'[s] = written[s]
      /\ \A r \in Sessions \ {s} : stamps'[r] = stamps[r]
      /\ \A r \in Sessions : written[r] \in Nat /\ stamps[r] \in Nat
  BY DEF TypeOK
<1>3. StampInv'
  <2>1. \A r \in Sessions : stamps'[r] <= written[r]
    BY <1>2 DEF StampInv
  <2>2. CASE s = Me
    BY <1>2, <2>1, <2>2 DEF Rebuild, StampInv, Settled, TypeOK
  <2>3. CASE s # Me
    <3>1. stamps'[Me] = stamps[Me]
      BY <1>2, <2>3, CleanType
    <3>2. Settled <=> Settled'
      BY <2>3, <3>1 DEF Settled
    <3>3. QED
      BY <2>1, <2>3, <3>2 DEF StampInv
  <2>4. QED
    BY <2>2, <2>3
<1>4. CacheInv'
  BY RebuildSeeds DEF CacheInv
<1>5. QED
  BY <1>1, <1>3, <1>4

LEMMA PlaceTell ==
    ASSUME TypeOK, PlaceInv, StampInv, CacheInv, Tell \/ DispatchError
    PROVE  PlaceInv' /\ StampInv' /\ CacheInv'
<1>1. /\ UNCHANGED <<diskVars, stamps, batch, todo, softVars>>
      /\ pc \in {"read", "tell"} /\ pc' = (IF todo = {} THEN "idle" ELSE "next")
      /\ \/ UNCHANGED <<cache, cacheOf>>
         \/ cache' = Mine /\ cacheOf' = MineOf
  BY DEF Tell, DispatchError, EndPeer, After, FillCache, ownVars, softVars
<1>2. PlaceInv'
  BY <1>1 DEF PlaceInv
<1>3. Mine \in Surfaces /\ Mine # NoSurface
  BY MineType
<1>4. Settled' <=> Settled
  BY <1>1 DEF Settled, diskVars
<1>5. written[Me] \in Nat
  BY CleanType DEF TypeOK
<1>6. StampInv'
  BY <1>1, <1>3, <1>4, <1>5 DEF StampInv, diskVars, softVars, MineOf
<1>7. CacheInv'
  BY <1>1, <1>3 DEF CacheInv, diskVars, softVars, Mine, MineOf
<1>8. QED
  BY <1>2, <1>6, <1>7

LEMMA PlaceWatch ==
    ASSUME TypeOK, PlaceInv, StampInv, CacheInv, Watch
    PROVE  PlaceInv' /\ StampInv' /\ CacheInv'
<1> USE DEF diskVars, historyVars, ownVars, softVars
<1>0. \A s \in Sessions : written[s] \in Nat /\ stamps[s] \in Nat
  BY DEF TypeOK
<1>1. CASE Start
  <2>1. PlaceInv' /\ StampInv'
    BY <1>0, <1>1, CleanType DEF Start, Rebuild, PlaceInv, StampInv, Settled
  <2>2. CacheInv'
    BY <1>1, RebuildSeeds DEF Start, PlaceInv, CacheInv
  <2>3. QED
    BY <2>1, <2>2
<1>2. CASE StampAll
  BY <1>0, <1>2, CleanType DEF StampAll, PlaceInv, StampInv, CacheInv, Settled
<1>3. CASE Receive
  <2>1. Head(events) \in Sessions
    <3>1. events \in Seq(Sessions) /\ events # <<>>
      BY <1>3 DEF Receive, TypeOK
    <3>2. QED
      BY <3>1, HeadTailProperties
  <2>2. Handle(Head(events)) /\ pc = "idle" /\ batch' = batch \ {Head(events)}
    BY <1>3 DEF Receive
  <2>3. QED
    BY <2>1, <2>2, PlaceHandle
<1>4. CASE Sweep
  BY <1>0, <1>4, CleanType DEF Sweep, PlaceInv, StampInv, CacheInv, Settled
<1>5. CASE \E s \in Sessions : Reconcile(s)
  BY <1>5, PlaceHandle DEF Reconcile
<1>6. CASE Gained
  BY <1>6 DEF Gained, PlaceInv, StampInv, CacheInv, Settled
<1>7. CASE ReadPeer
  BY <1>7 DEF ReadPeer, PlaceInv, StampInv, CacheInv, Settled
<1>8. CASE Tell
  BY <1>8, PlaceTell
<1>9. CASE \E p \in Peers : Visit(p)
  BY <1>9 DEF Visit, After, PlaceInv, StampInv, CacheInv, Settled
<1>10. QED
  BY <1>1, <1>2, <1>3, <1>4, <1>5, <1>6, <1>7, <1>8, <1>9 DEF Watch

LEMMA PlaceOther ==
    ASSUME TypeOK, PlaceInv, StampInv, CacheInv,
           Die \/ (\E p \in Peers : Silence(p) \/ Beat(p)) \/ UNCHANGED vars
    PROVE  PlaceInv' /\ StampInv' /\ CacheInv'
<1> USE DEF diskVars, historyVars, ownVars, softVars
<1>1. CASE Die
  <2>1. \A s \in Sessions : stamps'[s] = 0 /\ written'[s] = written[s] /\ written[s] \in Nat
    BY <1>1 DEF Die, TypeOK
  <2>2. QED
    BY <1>1, <2>1, CleanType DEF Die, PlaceInv, StampInv, CacheInv, Settled, Impacted
<1>2. CASE \E p \in Peers : Silence(p) \/ Beat(p)
  BY <1>2 DEF Silence, Beat, PlaceInv, StampInv, CacheInv, Settled
<1>3. CASE UNCHANGED vars
  BY <1>3 DEF vars, PlaceInv, StampInv, CacheInv, Settled
<1>4. QED
  BY <1>1, <1>2, <1>3

KnowInv == TypeOK /\ PlaceInv /\ StampInv /\ CacheInv

LEMMA KnowStep == KnowInv /\ [Next]_vars => KnowInv'
<1> SUFFICES ASSUME TypeOK, PlaceInv, StampInv, CacheInv, [Next]_vars PROVE KnowInv'
  BY DEF KnowInv
<1>1. TypeOK'
  <2>1. CASE UNCHANGED vars
    BY <2>1 DEF vars, diskVars, historyVars, ownVars, softVars, TypeOK
  <2>2. pc \in {"read", "tell"} => peer \in Peers
    BY DEF PlaceInv
  <2>3. QED
    BY <2>1, <2>2, WriteType, SignType, TellType, WatchType DEF Next
<1>2. PlaceInv' /\ StampInv' /\ CacheInv'
  BY PlaceWrite, PlaceTell, PlaceWatch, PlaceOther DEF Next
<1>3. QED
  BY <1>1, <1>2 DEF KnowInv

LEMMA TypeInit == Init => TypeOK
<1> SUFFICES ASSUME Init PROVE TypeOK
  OBVIOUS
<1>1. manifest \in [Sessions -> Surfaces] /\ written \in [Sessions -> Nat]
  <2>1. PICK old \in [Peers -> Surfaces] :
          /\ manifest = [s \in Sessions |-> IF s = Me THEN Clean ELSE old[s]]
          /\ written = [s \in Sessions |-> IF manifest[s] = Clean THEN 0 ELSE 1]
    BY DEF Init
  <2>2. \A s \in Sessions \ {Me} : old[s] \in Surfaces
    BY CleanType DEF Sessions
  <2>3. QED
    BY <2>1, <2>2, CleanType
<1>2. 0 \in 0..MaxWrites /\ 0 \in 0..MaxFaults
  OBVIOUS
<1>3. QED
  BY <1>1, <1>2, CleanType DEF Init, TypeOK, Points

LEMMA KnowInvCorrect == Spec => []KnowInv
<1>1. Init => KnowInv
  BY TypeInit, PlaceInit DEF KnowInv
<1>2. QED
  BY <1>1, KnowStep, PTL DEF Spec

(* Every variable stays in its set, whatever the peers, the files and the  *)
(* bounds.                                                                 *)
THEOREM TypeCorrect == Spec => []TypeOK
<1>1. KnowInv => TypeOK
  BY DEF KnowInv
<1>2. QED
  BY <1>1, KnowInvCorrect, PTL

-----------------------------------------------------------------------------
(* What has been told.                                                     *)

(* A smaller own manifest concerns no more files of a peer.                *)
LEMMA HeardLess ==
    ASSUME NEW p \in Peers, NEW m, NEW n, Heard(p, m),
           Keys(n) \subseteq Keys(m), DirtySymbols(n) \subseteq DirtySymbols(m)
    PROVE  Heard(p, n)
<1>1. ImpactOf(n) \subseteq ImpactOf(m)
  BY DEF ImpactOf
<1>2. \A f \in Files : Soft(n, manifest[p], ImpactOf(n), f) => Soft(m, manifest[p], ImpactOf(m), f)
  BY <1>1 DEF Soft
<1>3. QED
  BY <1>2 DEF Heard

(* A step that takes nothing away, compares with the same own manifest and *)
(* leaves no peer it looks at behind.                                      *)
LEMMA HeardStill ==
    ASSUME HeardInv, UNCHANGED manifest, silent \subseteq silent',
           told \subseteq told', excused \subseteq excused',
           \A p \in Peers : Pending(p) => Pending(p)',
           Counts' => Counts /\ Compared' = Compared
    PROVE  HeardInv'
<1> SUFFICES ASSUME NEW p \in Peers \ (OtherWorktree \cup silent'), ~ Pending(p)', Counts'
             PROVE  Heard(p, Compared)'
  BY DEF HeardInv
<1>1. Heard(p, Compared)
  BY DEF HeardInv
<1>2. QED
  BY <1>1 DEF Heard, Soft

(* Where every peer is still to be looked at.                              *)
LEMMA HeardLater ==
    ASSUME \A p \in Peers : Pending(p)'
    PROVE  HeardInv'
  BY DEF HeardInv

(* A peer the code lost sight of is owed nothing.                          *)
LEMMA HeardExcused ==
    ASSUME NEW p, \A k \in Kinds : <<k, p>> \in excused'
    PROVE  \A m : \A f \in Files :
               /\ f \in Keys(m) \cap Keys(manifest'[p]) => <<"HARD", p>> \in excused'
               /\ Soft(m, manifest'[p], ImpactOf(m), f) => <<"SOFT", p>> \in excused'
  BY DEF Kinds

LEMMA HeardWrite ==
    ASSUME KnowInv, HeardInv, NEW s \in Sessions, NEW f \in Files, NEW entry \in Entries,
           Write(s, f, entry)
    PROVE  HeardInv'
<1> SUFFICES ASSUME NEW p \in Peers \ (OtherWorktree \cup silent'), ~ Pending(p)', Counts'
             PROVE  Heard(p, Compared)'
  BY DEF HeardInv
<1>1. /\ \A r \in Sessions \ {s} : written'[r] = written[r] /\ manifest'[r] = manifest[r]
      /\ stamps[s] # written'[s]
      /\ silent' = silent \ {s}
      /\ UNCHANGED <<pc, stamps, batch, todo, peer, cache, prev>>
  BY DEF Write, ownVars, softVars, KnowInv, TypeOK, StampInv
<1>2. p # s /\ p \in Sessions /\ Me \in Sessions
  BY <1>1 DEF Pending, Sessions
<1>3. p \notin silent /\ manifest'[p] = manifest[p] /\ written'[p] = written[p]
  BY <1>1, <1>2
<1>4. ~ Pending(p)
  BY <1>1, <1>3 DEF Pending
<1>5. Counts /\ Compared' = Compared
  <2>1. CASE s = Me
    BY <1>1, <1>2, <2>1 DEF Counts, Compared, Settled, Mine
  <2>2. CASE s # Me
    BY <1>1, <1>2, <2>2 DEF Counts, Compared, Settled, Mine
  <2>3. QED
    BY <2>1, <2>2
<1>6. Heard(p, Compared)
  BY <1>3, <1>4, <1>5 DEF HeardInv
<1>7. \A g : <<p, g>> \in told => <<p, g>> \in told'
  BY <1>2 DEF Write
<1>8. \A k : <<k, p>> \in excused => <<k, p>> \in excused'
  BY <1>2 DEF Write
<1>9. QED
  BY <1>3, <1>5, <1>6, <1>7, <1>8 DEF Heard, Soft

LEMMA HeardHandle ==
    ASSUME KnowInv, HeardInv, NEW s \in Sessions, Handle(s), pc = "idle", batch' = batch \ {s}
    PROVE  HeardInv'
<1> USE DEF Handle, diskVars, historyVars
<1>1. \A r \in Sessions \ {s} : stamps'[r] = stamps[r]
  BY DEF KnowInv, TypeOK
<1>2. \A p \in Peers : Pending(p) => Pending(p)'
  BY <1>1 DEF Pending, Sessions
<1>3. Counts' => Counts /\ Compared' = Compared
  <2>1. CASE s = Me
    BY <2>1 DEF Counts, Compared, Mine
  <2>2. CASE s # Me
    <3>1. Settled' <=> Settled
      BY <1>1, <2>2, CleanType DEF Settled
    <3>2. QED
      BY <2>2, <3>1 DEF Counts, Compared, Mine
  <2>3. QED
    BY <2>1, <2>2
<1>4. QED
  BY <1>2, <1>3, HeardStill

LEMMA HeardGained ==
    ASSUME KnowInv, HeardInv, Gained
    PROVE  HeardInv'
<1>1. CASE Gains(manifest[Me], prev)
  BY <1>1, HeardLater DEF Gained, Pending
<1>2. CASE ~ Gains(manifest[Me], prev)
  <2> SUFFICES ASSUME NEW p \in Peers \ (OtherWorktree \cup silent), ~ Pending(p)', Counts'
               PROVE  Heard(p, Compared)'
    BY DEF HeardInv, Gained, diskVars
  <2>1. todo = {} /\ pc = "gained" /\ cache = NoSurface
    BY DEF KnowInv, PlaceInv, Gained
  <2>2. ~ Pending(p)
    BY <1>2, <2>1 DEF Gained, Pending, diskVars
  <2>3. /\ prev # NoSurface /\ Keys(manifest[Me]) \subseteq Keys(prev)
        /\ DirtySymbols(manifest[Me]) \subseteq DirtySymbols(prev)
    BY <1>2 DEF Gains
  <2>4. Heard(p, prev)
    BY <2>1, <2>2, <2>3 DEF HeardInv, Counts, Compared
  <2>5. Heard(p, manifest[Me])
    BY <2>3, <2>4, HeardLess
  <2>6. Compared' = manifest[Me]
    BY <1>2, <2>1 DEF Gained, Compared, Mine, diskVars
  <2>7. QED
    BY <2>5, <2>6 DEF Heard, Soft, Gained, diskVars, historyVars
<1>3. QED
  BY <1>1, <1>2

LEMMA HeardVisit ==
    ASSUME KnowInv, HeardInv, NEW p \in Peers, Visit(p)
    PROVE  HeardInv'
<1> USE DEF Visit, diskVars, historyVars, ownVars, softVars
<1>1. Counts' => Counts /\ Compared' = Compared
  BY DEF Counts, Compared, Mine, Settled, After
<1>2. CASE written[p] > 0
  <2>1. \A q \in Peers : Pending(q) => Pending(q)'
    BY <1>2 DEF Pending
  <2>2. QED
    BY <1>1, <2>1, HeardStill
<1>3. CASE ~ (written[p] > 0)
  <2>1. p \in Sessions /\ written[p] \in Nat
    BY DEF KnowInv, TypeOK, Sessions
  <2>2. manifest[p] = Clean
    BY <1>3, <2>1 DEF KnowInv, StampInv
  <2>3. \A m : Heard(p, m)
    BY <2>2, CleanType DEF Heard, Soft, DirtyIn, Clean
  <2>4. \A q \in Peers \ {p} : Pending(q) => Pending(q)'
    BY <1>3 DEF Pending
  <2> SUFFICES ASSUME NEW q \in Peers \ (OtherWorktree \cup silent), ~ Pending(q)', Counts'
               PROVE  Heard(q, Compared)'
    BY DEF HeardInv
  <2>5. Heard(q, Compared)
    BY <1>1, <2>3, <2>4 DEF HeardInv
  <2>6. QED
    BY <1>1, <2>5 DEF Heard, Soft
<1>4. QED
  BY <1>2, <1>3

(* A concern is compared with the cache, or with the own manifest as it is.*)
LEMMA HeardTell ==
    ASSUME KnowInv, HeardInv, Tell \/ DispatchError
    PROVE  HeardInv'
<1>1. /\ UNCHANGED <<manifest, written, silent, stamps, batch, todo, softVars, prev>>
      /\ pc \in {"read", "tell"} /\ pc' \in {"idle", "next"}
      /\ told \subseteq told' /\ excused \subseteq excused'
  BY DEF Tell, DispatchError, EndPeer, After, FillCache, ownVars, softVars, diskVars
<1>2. \/ UNCHANGED <<cache, cacheOf>>
      \/ cache' = Mine /\ cacheOf' = MineOf /\ Overlooked \subseteq excused'
  BY DEF Tell, DispatchError, FillCache, ownVars, softVars
<1>3. Mine \in Surfaces /\ Mine # NoSurface
  BY MineType DEF KnowInv
<1>4. Compared = Mine /\ Compared' = Mine' /\ Mine' = Mine
  BY <1>1, <1>2, <1>3 DEF Compared, Mine
<1> SUFFICES ASSUME NEW p \in Peers \ (OtherWorktree \cup silent), ~ Pending(p)', Counts'
             PROVE  Heard(p, Compared)'
  BY <1>1 DEF HeardInv
<1>5. CASE p # peer
  <2>1. ~ Pending(p) /\ p \notin todo
    BY <1>1, <1>5 DEF Pending
  <2>2. CASE Counts
    <3>1. Heard(p, Mine)
      BY <1>4, <2>1, <2>2 DEF HeardInv
    <3>2. QED
      BY <1>1, <1>4, <3>1 DEF Heard, Soft
  <2>3. CASE ~ Counts
    <3>1. cache = NoSurface /\ ~ Settled
      BY <1>1, <2>3 DEF Counts
    <3>2. cache' # NoSurface
      BY <1>1, <2>3, <3>1 DEF Counts, Settled
    <3>3. ownSeen # written[Me]
      BY <1>1, <3>1 DEF KnowInv, StampInv
    <3>4. \A k \in Kinds : <<k, p>> \in excused'
      BY <1>2, <1>5, <2>1, <3>1, <3>2, <3>3 DEF Overlooked
    <3>5. QED
      BY <3>4 DEF Heard, Kinds
  <2>4. QED
    BY <2>2, <2>3
<1>6. CASE p = peer /\ DispatchError
  <2>1. \A k \in Kinds : <<k, p>> \in excused'
    BY <1>6 DEF DispatchError
  <2>2. QED
    BY <2>1 DEF Heard, Kinds
<1>7. CASE p = peer /\ Tell
  <2>1. theirs = manifest[p]
    BY <1>1, <1>7 DEF KnowInv, PlaceInv, Tell, Pending
  <2>2. \A f \in Raised(p, Mine, manifest[p], impact) : <<p, f>> \in told'
    BY <1>7, <2>1 DEF Tell
  <2>3. ~ SameTextElsewhere(p, Mine, Mine) /\ \A x, y : ~ SameTextElsewhere(p, x, y)
    BY DEF SameTextElsewhere
  <2>4. MineOf = ownSeen => impact = Impacted(source, SeedsIn(Mine))
    BY <1>7 DEF KnowInv, CacheInv, Mine, MineOf, Tell
  <2>5. SoftShort => <<"SOFT", p>> \in excused'
    BY <1>7 DEF Tell
  <2>6. ASSUME NEW f \in Files
        PROVE  \/ <<p, f>> \in told'
               \/ /\ f \notin Keys(Mine) \cap Keys(manifest[p])
                  /\ Soft(Mine, manifest[p], ImpactOf(Mine), f) => <<"SOFT", p>> \in excused'
    <3>1. f \in Keys(Mine) \cap Keys(manifest[p]) => <<p, f>> \in told'
      BY <2>2, <2>3 DEF Raised, Hard
    <3>2. Soft(Mine, manifest[p], ImpactOf(Mine), f) => f \in Keys(manifest[p])
      BY DEF Soft, DirtyIn, Keys
    <3>3. ASSUME Soft(Mine, manifest[p], ImpactOf(Mine), f), ~ SoftShort
          PROVE  <<p, f>> \in told'
      <4>1. ImpactOf(Mine) \subseteq impact
        BY <2>4, <3>3 DEF SoftShort, Soft
      <4>2. Soft(Mine, manifest[p], impact, f)
        BY <3>3, <4>1 DEF Soft
      <4>3. QED
        BY <2>2, <2>3, <3>2, <3>3, <4>2 DEF Raised
    <3>4. QED
      BY <2>5, <3>1, <3>3
  <2>7. QED
    BY <1>1, <1>4, <2>6 DEF Heard, Soft
<1>8. QED
  BY <1>5, <1>6, <1>7

LEMMA HeardStep == KnowInv /\ HeardInv /\ [Next]_vars => HeardInv'
<1> SUFFICES ASSUME KnowInv, HeardInv, [Next]_vars PROVE HeardInv'
  OBVIOUS
<1> USE DEF diskVars, historyVars, ownVars, softVars
<1>1. CASE Start \/ StampAll \/ Die
  BY <1>1, HeardLater DEF Start, StampAll, Die, Pending
<1>2. CASE Receive
  <2>1. Head(events) \in Sessions
    <3>1. events \in Seq(Sessions) /\ events # <<>>
      BY <1>2 DEF Receive, KnowInv, TypeOK
    <3>2. QED
      BY <3>1, HeadTailProperties
  <2>2. Handle(Head(events)) /\ pc = "idle" /\ batch' = batch \ {Head(events)}
    BY <1>2 DEF Receive
  <2>3. QED
    BY <2>1, <2>2, HeardHandle
<1>3. CASE \E s \in Sessions : Reconcile(s)
  BY <1>3, HeardHandle DEF Reconcile
<1>4. CASE Sweep
  <2>1. \A p \in Peers : Pending(p) => Pending(p)'
    BY <1>4 DEF Sweep, Pending, Sessions
  <2>2. Counts' => Counts /\ Compared' = Compared
    BY <1>4, CleanType DEF Sweep, Counts, Compared, Mine, Settled
  <2>3. QED
    BY <1>4, <2>1, <2>2, HeardStill DEF Sweep
<1>5. CASE ReadPeer
  BY <1>5, HeardStill DEF ReadPeer, Pending, Counts, Compared, Mine, Settled
<1>6. CASE \E p \in Peers : Silence(p)
  BY <1>6, HeardStill DEF Silence, Pending, Counts, Compared, Mine, Settled
<1>7. ASSUME NEW b \in Peers, Beat(b)
      PROVE  HeardInv'
  <2> SUFFICES ASSUME NEW p \in Peers \ (OtherWorktree \cup silent'), ~ Pending(p)', Counts'
               PROVE  Heard(p, Compared)'
    BY DEF HeardInv
  <2>1. CASE p = b
    <3>1. \A k \in Kinds : <<k, p>> \in excused'
      BY <1>7, <2>1 DEF Beat
    <3>2. QED
      BY <3>1 DEF Heard, Kinds
  <2>2. CASE p # b
    <3>1. p \notin silent /\ ~ Pending(p) /\ Counts /\ Compared' = Compared
      BY <1>7, <2>2 DEF Beat, Pending, Counts, Compared, Mine, Settled
    <3>2. Heard(p, Compared)
      BY <3>1 DEF HeardInv
    <3>3. QED
      BY <1>7, <3>1, <3>2 DEF Heard, Soft, Beat
  <2>3. QED
    BY <2>1, <2>2
<1>8. CASE UNCHANGED vars
  BY <1>8, HeardStill DEF vars, Pending, Counts, Compared, Mine, Settled
<1>9. QED
  BY <1>1, <1>2, <1>3, <1>4, <1>5, <1>6, <1>7, <1>8, HeardWrite, HeardGained, HeardVisit,
     HeardTell DEF Next, Watch

(* Once everything is handled, a concern has been raised for every file    *)
(* two sessions of one worktree share and for every neighbour, whatever    *)
(* events were lost or repeated, whoever wrote last, and across restarts.  *)
THEOREM EverythingHeard == Spec => []OverlapsHeard
<1>1. Init => HeardInv
  BY DEF Init, HeardInv, Pending
<1>2. KnowInv /\ HeardInv => OverlapsHeard
  <2> SUFFICES ASSUME KnowInv, HeardInv, Quiet, NEW p \in Peers \ OtherWorktree,
                      NEW f \in Owed(p)
               PROVE  <<p, f>> \in told
    BY DEF OverlapsHeard
  <2>1. p \notin silent /\ f \in Files
    BY DEF Owed, PairRow, Neighbour
  <2>2. Settled /\ todo = {} /\ pc = "idle"
    BY DEF Quiet, Settled, KnowInv, PlaceInv
  <2>3. Counts /\ Compared = manifest[Me]
    BY <2>2 DEF Counts, Compared, Mine, KnowInv, StampInv, CacheInv
  <2>4. ~ Pending(p)
    BY <2>2 DEF Pending, Quiet
  <2>5. Heard(p, manifest[Me])
    BY <2>1, <2>3, <2>4 DEF HeardInv
  <2>6. QED
    BY <2>1, <2>5 DEF Heard, Owed, PairRow, Neighbour
<1>3. QED
  BY <1>1, <1>2, HeardStep, KnowInvCorrect, PTL DEF Spec
==============================================================================
