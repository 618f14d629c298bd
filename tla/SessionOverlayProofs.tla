------------------------ MODULE SessionOverlayProofs ------------------------
(***************************************************************************)
(* Machine-checked theorems about SessionOverlay, for any processes, any   *)
(* paths and contents, any history of commits and any bounds.              *)
(***************************************************************************)
EXTENDS SessionOverlay, FiniteSetTheorems, WellFoundedInduction, TLAPS

USE PathsAssumption, ContentAssumption, NoneAssumption, CommitAssumption,
    BoundAssumption

-----------------------------------------------------------------------------
(* Numbers.                                                                *)

(* The order of the naturals as a relation, for the theorems on            *)
(* well-founded ones.                                                      *)
LEMMA NaturalOrder ==
    \E R : IsWellFoundedOn(R, Nat) /\ \A m, n \in Nat : m < n => <<m, n>> \in R
<1>1. \A m, n \in Nat : m < n => <<m, n>> \in OpToRel(<, Nat)
  BY DEF OpToRel
<1> DEFINE R == OpToRel(<, Nat)
<1>2. IsWellFoundedOn(R, Nat)
  BY NatLessThanWellFounded
<1>3. \A m, n \in Nat : m < n => <<m, n>> \in R
  BY <1>1
<1> HIDE DEF R
<1>4. QED
  BY <1>2, <1>3

LEMMA MinimumOn ==
    \A R, S : \A T : IsWellFoundedOn(R, S) /\ T \subseteq S /\ T # {}
        => \E x \in T : \A y \in T : ~ (<<y, x>> \in R)
  BY WFMin

LEMMA LeastNatural ==
    ASSUME NEW T \in SUBSET Nat, T # {}
    PROVE  \E n \in T : \A m \in T : n <= m
<1>1. PICK R : IsWellFoundedOn(R, Nat) /\ \A m, n \in Nat : m < n => <<m, n>> \in R
  BY NaturalOrder
<1>2. T \subseteq Nat
  OBVIOUS
<1>3. \E n \in T : \A m \in T : ~ (<<m, n>> \in R)
  <2>1. IsWellFoundedOn(R, Nat) /\ T # {}
    BY <1>1
  <2>2. QED
    BY <2>1, <1>2, MinimumOn, Zenon
<1>4. PICK n \in T : \A m \in T : ~ (<<m, n>> \in R)
  BY <1>3
<1>5. ASSUME NEW m \in T PROVE n <= m
  <2>1. n \in Nat /\ m \in Nat
    BY <1>2
  <2>2. ~ (m < n)
    BY <1>1, <1>4, <2>1
  <2>3. QED
    BY <2>1, <2>2
<1>6. QED
  BY <1>5

(* A finite set of numbers has a greatest one.                             *)
LEMMA MaxExists ==
    ASSUME NEW S \in SUBSET Nat, IsFiniteSet(S), S # {}
    PROVE  \E x \in S : \A y \in S : x >= y
<1> DEFINE Topless(T) == T # {} /\ \A x \in T : \E y \in T : x < y
<1> DEFINE Sizes == {n \in Nat : \E T \in SUBSET Nat :
                        IsFiniteSet(T) /\ Cardinality(T) = n /\ Topless(T)}
<1>1. Sizes = {}
  <2> SUFFICES ASSUME Sizes # {} PROVE FALSE
    OBVIOUS
  <2>1. PICK n \in Sizes : \A m \in Sizes : n <= m
    BY LeastNatural
  <2>2. PICK T \in SUBSET Nat : IsFiniteSet(T) /\ Cardinality(T) = n /\ Topless(T)
    BY <2>1
  <2>3. PICK x \in T : TRUE
    BY <2>2
  <2>4. IsFiniteSet(T \ {x}) /\ Cardinality(T \ {x}) = n - 1
    BY <2>2, <2>3, FS_RemoveElement
  <2>5. n - 1 \in Nat
    BY <2>4, FS_CardinalityType
  <2>6. ~ Topless(T \ {x})
    <3> SUFFICES ASSUME Topless(T \ {x}) PROVE FALSE
      OBVIOUS
    <3>1. T \ {x} \in SUBSET Nat
      OBVIOUS
    <3>2. n - 1 \in Sizes
      BY <2>4, <2>5, <3>1
    <3>3. n <= n - 1 /\ n \in Nat
      BY <2>1, <3>2
    <3>4. QED
      BY <3>3
  <2>7. PICK y \in T : x < y
    BY <2>2, <2>3
  <2>8. x \in Nat /\ y \in T \ {x}
    BY <2>3, <2>7
  <2>9. PICK z \in T \ {x} : \A u \in T \ {x} : ~ (z < u)
    BY <2>6, <2>8
  <2>10. x < z
    BY <2>3, <2>7, <2>8, <2>9
  <2>11. \A u \in T : ~ (z < u)
    BY <2>3, <2>9, <2>10
  <2>12. QED
    BY <2>2, <2>9, <2>11
<1>2. Cardinality(S) \in Nat
  BY FS_CardinalityType
<1>3. ~ Topless(S)
  BY <1>1, <1>2
<1>4. QED
  BY <1>3

LEMMA MaxMember ==
    ASSUME NEW S \in SUBSET Nat, IsFiniteSet(S), S # {}
    PROVE  Max(S) \in S
  BY MaxExists DEF Max

-----------------------------------------------------------------------------
(* Types.                                                                  *)

Maybe(S) == S \cup {None}
WorkFiles == [content : Contents \cup {Absent}, stamp : Stamps]
SessionDirs == [exists : BOOLEAN, meta : Maybe(Commits), manifest : Manifests,
                fragments : BOOLEAN, bins : [Contents -> Maybe(Files)],
                tmps : [FileNames -> Maybe(Files)]]
Minds == [pc : ControlPoints, snap : Manifests, mine : Manifests, dirty : SUBSET Paths,
          stale : SUBSET Paths, seen : [Paths -> Stamps], parsed : [Paths -> Maybe(Contents)],
          base : Maybe(Commits), target : Maybe(Commits), orphans : SUBSET Contents,
          ok : BOOLEAN, stray : BOOLEAN, alone : BOOLEAN, calm : BOOLEAN,
          over : SUBSET Paths]

(* Where a process holds the overlay lock, unless its dir is gone.         *)
HoldPoints == {"promoteMeta", "promoteManifest", "commit", "retireWrite", "sweep"}

TypeInv ==
    /\ file \in [Paths -> WorkFiles]
    /\ clock \in Stamps /\ head \in Commits
    /\ dir \in SessionDirs
    /\ me \in [Procs -> Minds]
    /\ holder \in Maybe(Procs) /\ (holder # None => me[holder].pc \in HoldPoints)

-----------------------------------------------------------------------------
(* What an entry rests on.  Every edit gives a file an mtime it never had: *)
(* an entry no younger than its file has either another mtime or the       *)
(* content the file has.  The same goes for what a refresh is about to     *)
(* write, the mtimes of its gate and the contents of its parse.            *)

Sound(e, f, now) ==
    Fragment(e) => /\ e.stamp <= now
                   /\ f.stamp = e.stamp /\ f.content # Absent => f.content = e.content
AllSound(m, fs, now) == \A q \in Paths : Sound(m[q], fs[q], now)

BeforeParse == {"idle", "beat", "snapshot", "probe", "gate", "parse"}
ParseSound(k, fs, now) ==
    /\ \A q \in Paths : k.seen[q] <= now
    /\ k.pc \in BeforeParse => \A q \in Paths : k.parsed[q] = None
    /\ \A q \in Paths :
        k.parsed[q] # None /\ fs[q].stamp = k.seen[q] /\ fs[q].content # Absent
            => fs[q].content = k.parsed[q]

MindSound(k, fs, now) ==
    AllSound(k.snap, fs, now) /\ AllSound(k.mine, fs, now) /\ ParseSound(k, fs, now)

SoundInv ==
    /\ \A q \in Paths : file[q].stamp <= clock
    /\ AllSound(dir.manifest, file, clock)
    /\ \A p \in Procs : MindSound(me[p], file, clock)

(* What a step of p leaves alone of the others.                            *)
SameMind(k, l) ==
    /\ l.pc = k.pc /\ l.snap = k.snap /\ l.mine = k.mine
    /\ l.seen = k.seen /\ l.parsed = k.parsed

(* A step of p that keeps both invariants, seen from p.                    *)
Keeps(p) ==
    /\ dir' \in SessionDirs /\ AllSound(dir'.manifest, file, clock)
    /\ me' \in [Procs -> Minds] /\ MindSound(me'[p], file, clock)
    /\ \A r \in Procs \ {p} : SameMind(me[r], me'[r])
    /\ holder' \in {holder, None, p}
    /\ holder' = p => me'[p].pc \in HoldPoints
    /\ UNCHANGED <<file, clock, head>>

LEMMA KeepsInv ==
    ASSUME TypeInv, SoundInv, NEW p \in Procs, Keeps(p)
    PROVE  TypeInv' /\ SoundInv'
<1>1. TypeInv'
  <2>1. holder' # None => me'[holder'].pc \in HoldPoints
    BY DEF TypeInv, Keeps, SameMind, Maybe
  <2>2. QED
    BY <2>1 DEF TypeInv, Keeps, Maybe
<1>2. ASSUME NEW r \in Procs
      PROVE  MindSound(me'[r], file, clock)
  <2>1. CASE r = p
    BY <2>1 DEF Keeps
  <2>2. CASE r # p
    BY <2>2 DEF Keeps, SameMind, SoundInv, MindSound, ParseSound
  <2>3. QED
    BY <2>1, <2>2
<1>3. SoundInv'
  BY <1>2 DEF SoundInv, Keeps
<1>4. QED
  BY <1>1, <1>3

LEMMA EntryTypes ==
    /\ NoEntries \in Manifests /\ \A fs, now : AllSound(NoEntries, fs, now)
    /\ None \in Entries /\ Tombstone \in Entries
    /\ Stamps \subseteq Nat /\ 0 \in Stamps
  BY DEF NoEntries, Manifests, Entries, AllSound, Sound, Fragment, Stamps

LEMMA IdleMind ==
    ASSUME TypeInv
    PROVE  Idle \in Minds /\ MindSound(Idle, file, clock)
<1>1. Idle \in Minds
  BY EntryTypes DEF Idle, Minds, Maybe, ControlPoints
<1>2. MindSound(Idle, file, clock)
  BY EntryTypes DEF Idle, MindSound, ParseSound, BeforeParse, TypeInv
<1>3. QED
  BY <1>1, <1>2

LEMMA MyMind ==
    ASSUME TypeInv, SoundInv, NEW p \in Procs
    PROVE  /\ me[p] \in Minds /\ MindSound(me[p], file, clock)
           /\ dir \in SessionDirs /\ AllSound(dir.manifest, file, clock)
           /\ dir.manifest \in Manifests /\ dir.meta \in Maybe(Commits)
           /\ me[p].pc \notin HoldPoints => holder # p
           /\ me[p].target \in Maybe(Commits) /\ me[p].mine \in Manifests
           /\ AllSound(me[p].mine, file, clock)
  BY DEF TypeInv, SoundInv, SessionDirs, Maybe, Minds, MindSound

(* Changing one field of a mind.                                           *)
LEMMA MindFields ==
    ASSUME NEW k \in Minds
    PROVE  /\ \A v \in Maybe(Commits) :
               /\ [k EXCEPT !.target = v] \in Minds
               /\ SameMind(k, [k EXCEPT !.target = v])
           /\ \A v \in Maybe(Commits) :
               /\ [k EXCEPT !.base = v] \in Minds
               /\ SameMind(k, [k EXCEPT !.base = v])
           /\ \A v \in SUBSET Paths :
               /\ [k EXCEPT !.dirty = v] \in Minds /\ SameMind(k, [k EXCEPT !.dirty = v])
               /\ [k EXCEPT !.stale = v] \in Minds /\ SameMind(k, [k EXCEPT !.stale = v])
           /\ \A v \in SUBSET Contents :
               /\ [k EXCEPT !.orphans = v] \in Minds
               /\ SameMind(k, [k EXCEPT !.orphans = v])
           /\ \A v \in BOOLEAN :
               /\ [k EXCEPT !.ok = v] \in Minds /\ SameMind(k, [k EXCEPT !.ok = v])
               /\ [k EXCEPT !.stray = v] \in Minds /\ SameMind(k, [k EXCEPT !.stray = v])
               /\ [k EXCEPT !.calm = v] \in Minds /\ SameMind(k, [k EXCEPT !.calm = v])
               /\ [k EXCEPT !.alone = v] \in Minds /\ SameMind(k, [k EXCEPT !.alone = v])
<1>1. ASSUME NEW v \in Maybe(Commits)
      PROVE  [k EXCEPT !.target = v] \in Minds /\ SameMind(k, [k EXCEPT !.target = v])
  BY DEF Minds, SameMind
<1>2. ASSUME NEW v \in Maybe(Commits)
      PROVE  [k EXCEPT !.base = v] \in Minds /\ SameMind(k, [k EXCEPT !.base = v])
  BY DEF Minds, SameMind
<1>3. ASSUME NEW v \in SUBSET Paths
      PROVE  [k EXCEPT !.dirty = v] \in Minds /\ SameMind(k, [k EXCEPT !.dirty = v])
  BY DEF Minds, SameMind
<1>4. ASSUME NEW v \in SUBSET Paths
      PROVE  [k EXCEPT !.stale = v] \in Minds /\ SameMind(k, [k EXCEPT !.stale = v])
  BY DEF Minds, SameMind
<1>5. ASSUME NEW v \in SUBSET Contents
      PROVE  [k EXCEPT !.orphans = v] \in Minds /\ SameMind(k, [k EXCEPT !.orphans = v])
  BY DEF Minds, SameMind
<1>6. ASSUME NEW v \in BOOLEAN
      PROVE  [k EXCEPT !.ok = v] \in Minds /\ SameMind(k, [k EXCEPT !.ok = v])
  BY DEF Minds, SameMind
<1>7. ASSUME NEW v \in BOOLEAN
      PROVE  [k EXCEPT !.stray = v] \in Minds /\ SameMind(k, [k EXCEPT !.stray = v])
  BY DEF Minds, SameMind
<1>8. ASSUME NEW v \in BOOLEAN
      PROVE  [k EXCEPT !.calm = v] \in Minds /\ SameMind(k, [k EXCEPT !.calm = v])
  BY DEF Minds, SameMind
<1>9. ASSUME NEW v \in BOOLEAN
      PROVE  [k EXCEPT !.alone = v] \in Minds /\ SameMind(k, [k EXCEPT !.alone = v])
  BY DEF Minds, SameMind
<1>10. QED
  BY <1>1, <1>2, <1>3, <1>4, <1>5, <1>6, <1>7, <1>8, <1>9

LEMMA MindPoint ==
    ASSUME NEW k \in Minds, NEW there \in ControlPoints
    PROVE  /\ [k EXCEPT !.pc = there] \in Minds
           /\ [k EXCEPT !.pc = there].pc = there
           /\ [k EXCEPT !.pc = there].snap = k.snap
           /\ [k EXCEPT !.pc = there].mine = k.mine
           /\ [k EXCEPT !.pc = there].seen = k.seen
           /\ [k EXCEPT !.pc = there].parsed = k.parsed
  BY DEF Minds, SameMind

LEMMA MindManifests ==
    ASSUME NEW k \in Minds, NEW m \in Manifests
    PROVE  /\ [k EXCEPT !.snap = m] \in Minds /\ [k EXCEPT !.mine = m] \in Minds
           /\ [k EXCEPT !.snap = m].snap = m /\ [k EXCEPT !.mine = m].mine = m
           /\ [k EXCEPT !.snap = m].mine = k.mine /\ [k EXCEPT !.mine = m].snap = k.snap
           /\ [k EXCEPT !.snap = m].pc = k.pc /\ [k EXCEPT !.mine = m].pc = k.pc
           /\ [k EXCEPT !.snap = m].seen = k.seen /\ [k EXCEPT !.mine = m].seen = k.seen
           /\ [k EXCEPT !.snap = m].parsed = k.parsed /\ [k EXCEPT !.mine = m].parsed = k.parsed
  BY DEF Minds, SameMind

(* A step that takes p to k and changes the dir soundly.                   *)
LEMMA StepKeeps ==
    ASSUME TypeInv, SoundInv, NEW p \in Procs, NEW k \in Minds,
           MindSound(k, file, clock), Step(p, k) \/ Disturb(p, k),
           dir' \in SessionDirs, AllSound(dir'.manifest, file, clock),
           holder' \in {holder, None, p}, holder' = p => k.pc \in HoldPoints,
           UNCHANGED <<file, clock, head>>
    PROVE  Keeps(p)
<1>1. me \in [Procs -> Minds]
  BY DEF TypeInv
<1>2. me' \in [Procs -> Minds] /\ me'[p] = k
  <2>1. \A r \in Procs : /\ [me[r] EXCEPT !.alone = FALSE] \in Minds
                        /\ [me[r] EXCEPT !.alone = FALSE, !.calm = FALSE] \in Minds
    BY <1>1 DEF Minds
  <2>2. CASE Step(p, k)
    <3>1. \A r \in Procs : (IF r = p THEN k ELSE [me[r] EXCEPT !.alone = FALSE]) \in Minds
      BY <2>1
    <3>2. QED
      BY <2>2, <3>1 DEF Step
  <2>3. CASE Disturb(p, k)
    <3>1. \A r \in Procs :
             (IF r = p THEN k ELSE [me[r] EXCEPT !.alone = FALSE, !.calm = FALSE]) \in Minds
      BY <2>1
    <3>2. QED
      BY <2>3, <3>1 DEF Disturb
  <2>4. QED
    BY <2>2, <2>3
<1>3. \A r \in Procs \ {p} : SameMind(me[r], me'[r])
  <2>1. ASSUME NEW r \in Procs \ {p}
        PROVE  \/ me'[r] = [me[r] EXCEPT !.alone = FALSE]
               \/ me'[r] = [me[r] EXCEPT !.alone = FALSE, !.calm = FALSE]
    BY DEF Step, Disturb
  <2>2. ASSUME NEW l \in Minds
        PROVE  /\ SameMind(l, [l EXCEPT !.alone = FALSE])
               /\ SameMind(l, [l EXCEPT !.alone = FALSE, !.calm = FALSE])
    BY DEF Minds, SameMind
  <2>3. QED
    BY <1>1, <2>1, <2>2
<1>4. QED
  BY <1>2, <1>3 DEF Keeps

(* The same where the dir is left alone.                                   *)
LEMMA ThinkKeeps ==
    ASSUME TypeInv, SoundInv, NEW p \in Procs, NEW k \in Minds,
           MindSound(k, file, clock), Step(p, k),
           holder' = holder /\ me[p].pc \notin HoldPoints,
           UNCHANGED <<file, clock, head, dir>>
    PROVE  Keeps(p)
<1>1. holder # p
  BY DEF TypeInv, Maybe
<1>2. QED
  BY <1>1, MyMind, StepKeeps

(* A mind that only goes on: nothing but its control point changes that    *)
(* the invariants speak of.                                                *)
LEMMA GoSound ==
    ASSUME TypeInv, SoundInv, NEW p \in Procs, NEW k \in Minds,
           k.snap = me[p].snap \/ AllSound(k.snap, file, clock),
           k.mine \in {me[p].mine, NoEntries} \/ AllSound(k.mine, file, clock),
           k.seen = me[p].seen,
           \/ k.parsed = Idle.parsed
           \/ /\ k.parsed = me[p].parsed
              /\ k.pc \in BeforeParse => me[p].pc \in BeforeParse
    PROVE  MindSound(k, file, clock)
<1>1. AllSound(k.snap, file, clock) /\ AllSound(k.mine, file, clock)
  BY MyMind, EntryTypes DEF MindSound
<1>2. \A q \in Paths : k.seen[q] <= clock
  BY MyMind DEF MindSound, ParseSound
<1>3. \A q \in Paths : Idle.parsed[q] = None
  BY DEF Idle
<1>4. ParseSound(me[p], file, clock)
  BY MyMind DEF MindSound
<1>5. ParseSound(k, file, clock)
  BY <1>2, <1>3, <1>4 DEF ParseSound
<1>6. QED
  BY <1>1, <1>5 DEF MindSound

LEMMA Going ==
    ASSUME TypeInv, NEW p \in Procs, NEW there \in ControlPoints
    PROVE  /\ Goto(p, there) \in Minds
           /\ Goto(p, there).pc = there /\ Goto(p, there).snap = me[p].snap
           /\ Goto(p, there).mine = me[p].mine /\ Goto(p, there).seen = me[p].seen
           /\ Goto(p, there).parsed = me[p].parsed
<1>1. me[p] \in Minds
  BY DEF TypeInv
<1>2. ASSUME NEW l \in Minds
      PROVE  /\ [l EXCEPT !.pc = there] \in Minds
             /\ [l EXCEPT !.pc = there].pc = there
             /\ [l EXCEPT !.pc = there].snap = l.snap
             /\ [l EXCEPT !.pc = there].mine = l.mine
             /\ [l EXCEPT !.pc = there].seen = l.seen
             /\ [l EXCEPT !.pc = there].parsed = l.parsed
  <2>1. [l EXCEPT !.pc = there] \in Minds
    BY DEF Minds
  <2>2. QED
    BY DEF Minds
<1>3. QED
  BY <1>1, <1>2 DEF Goto

-----------------------------------------------------------------------------
(* The steps of a query up to the write.                                   *)

LEMMA KeepBegin ==
    ASSUME TypeInv, SoundInv, NEW p \in Procs, Begin(p)
    PROVE  Keeps(p)
<1>1. Started(p) \in Minds /\ Started(p).snap = NoEntries /\ Started(p).mine = NoEntries
      /\ Started(p).seen = Idle.seen /\ Started(p).parsed = Idle.parsed
  BY IdleMind DEF Started, Minds, Idle
<1>2. PICK k : /\ Step(p, k)
               /\ \/ k = [Started(p) EXCEPT !.pc = "snapshot"]
                  \/ dir.meta # None /\ k = [Started(p) EXCEPT !.pc = "beat", !.target = dir.meta]
  BY DEF Begin
<1>3. ASSUME NEW l \in Minds, NEW v \in Maybe(Commits),
             \/ k = [l EXCEPT !.pc = "snapshot"]
             \/ k = [l EXCEPT !.pc = "beat", !.target = v]
      PROVE  k \in Minds /\ k.pc \in BeforeParse /\ k.snap = l.snap /\ k.mine = l.mine
             /\ k.seen = l.seen /\ k.parsed = l.parsed
  <2>1. CASE k = [l EXCEPT !.pc = "snapshot"]
    BY <2>1 DEF Minds, ControlPoints, BeforeParse
  <2>2. CASE k = [l EXCEPT !.pc = "beat", !.target = v]
    BY <2>2 DEF Minds, ControlPoints, BeforeParse
  <2>3. QED
    BY <1>3, <2>1, <2>2
<1>4. k \in Minds /\ k.pc \in BeforeParse
      /\ k.snap = NoEntries /\ k.mine = NoEntries /\ k.seen = Idle.seen
      /\ k.parsed = Idle.parsed
  BY <1>1, <1>2, <1>3, MyMind
<1>5. MindSound(k, file, clock)
  BY <1>4, EntryTypes, IdleMind DEF MindSound, ParseSound, Idle
<1>6. QED
  BY <1>2, <1>4, <1>5, ThinkKeeps DEF Begin, CanRun, At, HoldPoints

LEMMA KeepBeat ==
    ASSUME TypeInv, SoundInv, NEW p \in Procs, Beat(p)
    PROVE  Keeps(p)
<1> DEFINE k == [Goto(p, "snapshot") EXCEPT !.target = None]
<1>1. k \in Minds /\ k.pc = "snapshot" /\ k.snap = me[p].snap /\ k.mine = me[p].mine
      /\ k.seen = me[p].seen /\ k.parsed = me[p].parsed
  <2>1. "snapshot" \in ControlPoints /\ None \in Maybe(Commits)
    BY DEF ControlPoints, Maybe
  <2>2. /\ Goto(p, "snapshot") \in Minds /\ Goto(p, "snapshot").pc = "snapshot"
        /\ Goto(p, "snapshot").snap = me[p].snap /\ Goto(p, "snapshot").mine = me[p].mine
        /\ Goto(p, "snapshot").seen = me[p].seen
        /\ Goto(p, "snapshot").parsed = me[p].parsed
    BY <2>1, Going
  <2>3. k \in Minds /\ SameMind(Goto(p, "snapshot"), k)
    BY <2>1, <2>2, MindFields
  <2> HIDE DEF k
  <2>4. QED
    BY <2>2, <2>3 DEF SameMind
<1>2. MindSound(k, file, clock)
  BY <1>1, GoSound DEF BeforeParse, Beat, At
<1>3. dir' \in SessionDirs /\ dir'.manifest = dir.manifest
  BY MyMind DEF Beat, SessionDirs, Minds
<1>4. holder # p
  BY DEF Beat, At, HoldPoints, TypeInv
<1>5. Step(p, k) /\ holder' = holder /\ UNCHANGED <<file, clock, head>>
  BY DEF Beat
<1> HIDE DEF k
<1>6. QED
  BY <1>1, <1>2, <1>3, <1>4, <1>5, MyMind, StepKeeps

LEMMA KeepSnapshot ==
    ASSUME TypeInv, SoundInv, NEW p \in Procs, Snapshot(p)
    PROVE  Keeps(p)
<1> DEFINE k == [Goto(p, "probe") EXCEPT !.snap = dir.manifest]
<1>1. k \in Minds /\ k.pc = "probe" /\ k.snap = dir.manifest /\ k.mine = me[p].mine
      /\ k.seen = me[p].seen /\ k.parsed = me[p].parsed
  <2>1. "probe" \in ControlPoints
    BY DEF ControlPoints
  <2>2. /\ Goto(p, "probe") \in Minds /\ Goto(p, "probe").pc = "probe"
        /\ Goto(p, "probe").mine = me[p].mine /\ Goto(p, "probe").seen = me[p].seen
        /\ Goto(p, "probe").parsed = me[p].parsed
    BY <2>1, Going
  <2>3. dir.manifest \in Manifests
    BY MyMind
  <2>4. /\ k \in Minds /\ k.pc = Goto(p, "probe").pc /\ k.snap = dir.manifest
        /\ k.mine = Goto(p, "probe").mine /\ k.seen = Goto(p, "probe").seen
        /\ k.parsed = Goto(p, "probe").parsed
    BY <2>2, <2>3, MindManifests, Zenon
  <2> HIDE DEF k
  <2>5. QED
    BY <2>2, <2>4
<1>2. MindSound(k, file, clock)
  BY <1>1, MyMind DEF MindSound, ParseSound, BeforeParse, Snapshot, At
<1>3. Step(p, k) /\ holder' = holder /\ UNCHANGED <<file, clock, head, dir>>
      /\ me[p].pc \notin HoldPoints
  BY DEF Snapshot, At, HoldPoints
<1> HIDE DEF k
<1>4. QED
  BY <1>1, <1>2, <1>3, ThinkKeeps

LEMMA KeepProbe ==
    ASSUME TypeInv, SoundInv, NEW p \in Procs, Probe(p)
    PROVE  Keeps(p)
<1>1. PICK dirty \in SUBSET Paths, there \in {"retire", "gate"} :
         Step(p, [Goto(p, there) EXCEPT !.dirty = dirty])
  BY DEF Probe
<1> DEFINE k == [Goto(p, there) EXCEPT !.dirty = dirty]
<1>2. /\ Goto(p, there) \in Minds /\ Goto(p, there).pc = there
      /\ Goto(p, there).snap = me[p].snap /\ Goto(p, there).mine = me[p].mine
      /\ Goto(p, there).seen = me[p].seen /\ Goto(p, there).parsed = me[p].parsed
  BY Going DEF ControlPoints
<1>3. k \in Minds /\ SameMind(Goto(p, there), k)
  BY <1>2, MindFields
<1>4. me[p].pc = "probe"
  BY DEF Probe, At
<1>5. Step(p, k) /\ holder' = holder /\ UNCHANGED <<file, clock, head, dir>>
  BY <1>1 DEF Probe
<1> HIDE DEF k
<1>6. MindSound(k, file, clock)
  BY <1>2, <1>3, <1>4, GoSound DEF BeforeParse, SameMind
<1>7. QED
  BY <1>3, <1>4, <1>5, <1>6, ThinkKeeps DEF HoldPoints

LEMMA KeepGate ==
    ASSUME TypeInv, SoundInv, NEW p \in Procs, Gate(p)
    PROVE  Keeps(p)
<1>1. PICK stale \in SUBSET Paths, there \in {"retire", "parse"} :
         Step(p, [Goto(p, there) EXCEPT
                     !.stale = stale,
                     !.base = dir.meta,
                     !.seen = [q \in Paths |-> IF q \in me[p].dirty THEN file[q].stamp ELSE 0]])
  <2> DEFINE stale == {q \in me[p].dirty : dir.meta # head \/ ~Current(me[p].snap[q], q)}
  <2>1. stale \in SUBSET Paths
    BY MyMind DEF Minds
  <2>2. QED
    BY <2>1 DEF Gate
<1> DEFINE seen == [q \in Paths |-> IF q \in me[p].dirty THEN file[q].stamp ELSE 0]
<1> DEFINE k == [Goto(p, there) EXCEPT !.stale = stale, !.base = dir.meta, !.seen = seen]
<1>2. seen \in [Paths -> Stamps] /\ \A q \in Paths : seen[q] <= clock
  BY EntryTypes DEF TypeInv, SoundInv, WorkFiles
<1>3. ASSUME NEW l \in Minds, NEW sn \in [Paths -> Stamps], NEW b \in Maybe(Commits), NEW n,
             n = [l EXCEPT !.stale = stale, !.base = b, !.seen = sn]
      PROVE  /\ n \in Minds
             /\ n.pc = l.pc /\ n.snap = l.snap /\ n.mine = l.mine
             /\ n.seen = sn /\ n.parsed = l.parsed
  BY <1>3 DEF Minds
<1>4. /\ Goto(p, there) \in Minds /\ Goto(p, there).pc = there
      /\ Goto(p, there).snap = me[p].snap /\ Goto(p, there).mine = me[p].mine
      /\ Goto(p, there).parsed = me[p].parsed
  BY Going DEF ControlPoints
<1>5. me[p].pc = "gate"
  BY DEF Gate, At
<1>6. Step(p, k) /\ holder' = holder /\ UNCHANGED <<file, clock, head, dir>>
  BY <1>1 DEF Gate
<1> HIDE DEF seen
<1>7. /\ k \in Minds /\ k.pc = there /\ k.snap = me[p].snap /\ k.mine = me[p].mine
      /\ k.seen = seen /\ k.parsed = me[p].parsed
  <2>1. dir.meta \in Maybe(Commits)
    BY MyMind
  <2>2. k = [Goto(p, there) EXCEPT !.stale = stale, !.base = dir.meta, !.seen = seen]
    OBVIOUS
  <2> HIDE DEF k
  <2>3. PICK g \in Minds : g = Goto(p, there)
    BY <1>4
  <2>4. k = [g EXCEPT !.stale = stale, !.base = dir.meta, !.seen = seen]
    BY <2>2, <2>3
  <2>5. /\ k \in Minds /\ k.pc = g.pc /\ k.snap = g.snap /\ k.mine = g.mine
        /\ k.seen = seen /\ k.parsed = g.parsed
    BY <1>2, <2>1, <2>4 DEF Minds
  <2>6. QED
    BY <1>4, <2>3, <2>5
<1> HIDE DEF k
<1>8. MindSound(k, file, clock)
  BY <1>2, <1>5, <1>7, MyMind DEF MindSound, ParseSound, BeforeParse
<1>9. QED
  BY <1>5, <1>6, <1>7, <1>8, ThinkKeeps DEF HoldPoints

(* g is what p knows, at another control point.                            *)
Onward(p, there, g) ==
    /\ g = Goto(p, there)
    /\ g.pc = there /\ g.snap = me[p].snap /\ g.mine = me[p].mine
    /\ g.seen = me[p].seen /\ g.parsed = me[p].parsed

LEMMA GoingOn ==
    ASSUME TypeInv, NEW p \in Procs, NEW there \in ControlPoints
    PROVE  \E g \in Minds : Onward(p, there, g)
  BY Going DEF Onward

LEMMA KeepParse ==
    ASSUME TypeInv, SoundInv, NEW p \in Procs, Parse(p)
    PROVE  Keeps(p)
<1> DEFINE found == [q \in Paths |-> IF q \in me[p].stale /\ file[q].content # Absent
                                     THEN file[q].content ELSE None]
<1>1. PICK g \in Minds : Onward(p, "decide", g)
  BY GoingOn DEF ControlPoints
<1>2. PICK k : k = [g EXCEPT !.parsed = found] /\ Step(p, k)
  BY <1>1 DEF Parse, Onward
<1>3. found \in [Paths -> Maybe(Contents)]
      /\ \A q \in Paths : found[q] # None => found[q] = file[q].content
  BY DEF TypeInv, WorkFiles, Maybe
<1> HIDE DEF found
<1>4. /\ k \in Minds /\ k.pc = "decide" /\ k.snap = me[p].snap /\ k.mine = me[p].mine
      /\ k.seen = me[p].seen /\ k.parsed = found
  BY <1>1, <1>2, <1>3 DEF Minds, Onward
<1>5. MindSound(k, file, clock)
  BY <1>3, <1>4, MyMind DEF MindSound, ParseSound, BeforeParse
<1>6. QED
  BY <1>2, <1>4, <1>5, ThinkKeeps DEF Parse, At, HoldPoints

LEMMA KeepDecide ==
    ASSUME TypeInv, SoundInv, NEW p \in Procs, Decide(p)
    PROVE  Keeps(p)
<1>1. PICK there \in {"stage", "promote", "rebase"}, meta \in Maybe(Commits) :
         /\ Step(p, [Goto(p, there) EXCEPT !.target = head])
         /\ dir' = [dir EXCEPT !.exists = TRUE, !.meta = meta]
  <2>1. (IF dir.meta = None THEN head ELSE dir.meta) \in Maybe(Commits)
    BY MyMind DEF TypeInv, Maybe
  <2>2. QED
    BY <2>1 DEF Decide
<1>2. PICK g \in Minds : Onward(p, there, g)
  BY GoingOn DEF ControlPoints
<1>3. PICK k : k = [g EXCEPT !.target = head] /\ Step(p, k)
  BY <1>1, <1>2 DEF Onward
<1>4. /\ k \in Minds /\ k.pc = there /\ k.snap = me[p].snap /\ k.mine = me[p].mine
      /\ k.seen = me[p].seen /\ k.parsed = me[p].parsed
  BY <1>2, <1>3 DEF Minds, Onward, TypeInv, Maybe
<1>5. MindSound(k, file, clock)
  BY <1>4, GoSound DEF BeforeParse
<1>6. dir' \in SessionDirs /\ dir'.manifest = dir.manifest
  BY <1>1, MyMind DEF SessionDirs
<1>7. QED
  BY <1>3, <1>4, <1>5, <1>6, MyMind, StepKeeps DEF Decide, At, HoldPoints

-----------------------------------------------------------------------------
(* Promotion and rebase.                                                   *)

(* A step onto a point outside the lock that fails the query.              *)
LEMMA KeepFail ==
    ASSUME TypeInv, SoundInv, NEW p \in Procs, Fail(p), me[p].pc \notin HoldPoints,
           UNCHANGED <<file, clock, head, dir, holder>>
    PROVE  Keeps(p)
  BY IdleMind, ThinkKeeps DEF Fail

LEMMA KeepPromote ==
    ASSUME TypeInv, SoundInv, NEW p \in Procs, Promote(p)
    PROVE  Keeps(p)
<1> DEFINE kept == [q \in Paths |-> IF q \in {r \in Paths : Absorbed(p, r)}
                                    THEN None ELSE dir.manifest[q]]
<1>1. kept \in Manifests /\ AllSound(kept, file, clock)
  BY MyMind, EntryTypes DEF Manifests, AllSound, Sound, Fragment
<1>2. PICK g \in Minds : Onward(p, "promoteMeta", g)
  BY GoingOn DEF ControlPoints
<1>3. PICK k : k = [g EXCEPT !.stray = FALSE, !.mine = kept] /\ Disturb(p, k)
  BY <1>2 DEF Promote, Onward
<1> HIDE DEF kept
<1>4. /\ k \in Minds /\ k.pc = "promoteMeta" /\ k.snap = me[p].snap /\ k.mine = kept
      /\ k.seen = me[p].seen /\ k.parsed = me[p].parsed
  BY <1>1, <1>2, <1>3 DEF Minds, Onward
<1>5. MindSound(k, file, clock)
  BY <1>1, <1>4, GoSound DEF BeforeParse
<1>6. dir' \in SessionDirs /\ dir'.manifest = dir.manifest
  <2>1. PICK gone : dir' = [dir EXCEPT !.bins = [c \in Contents |-> IF c \in gone THEN None ELSE @[c]]]
    BY DEF Promote
  <2>2. QED
    BY <2>1, MyMind DEF SessionDirs, Maybe
<1>7. holder' \in {holder, p}
  BY DEF Promote, Locked
<1>8. QED
  BY <1>3, <1>4, <1>5, <1>6, <1>7, MyMind, StepKeeps DEF Promote, HoldPoints

LEMMA KeepPromoteMeta ==
    ASSUME TypeInv, SoundInv, NEW p \in Procs, PromoteMeta(p)
    PROVE  Keeps(p)
<1>1. PICK k \in Minds : Onward(p, "promoteManifest", k)
  BY GoingOn DEF ControlPoints
<1>2. MindSound(k, file, clock)
  BY <1>1, GoSound DEF BeforeParse, Onward
<1>3. dir' \in SessionDirs /\ dir'.manifest = dir.manifest
  BY MyMind DEF PromoteMeta, SessionDirs, Maybe
<1>4. QED
  BY <1>1, <1>2, <1>3, MyMind, StepKeeps DEF PromoteMeta, Onward, HoldPoints

LEMMA KeepPromoteManifest ==
    ASSUME TypeInv, SoundInv, NEW p \in Procs, PromoteManifest(p)
    PROVE  Keeps(p)
<1>1. PICK g \in Minds : Onward(p, "stage", g)
  BY GoingOn DEF ControlPoints
<1>2. PICK k : k = [g EXCEPT !.mine = NoEntries] /\ Disturb(p, k)
  BY <1>1 DEF PromoteManifest, Onward
<1>3. /\ k \in Minds /\ k.pc = "stage" /\ k.snap = me[p].snap /\ k.mine = NoEntries
      /\ k.seen = me[p].seen /\ k.parsed = me[p].parsed
  BY <1>1, <1>2, EntryTypes DEF Minds, Onward
<1>4. MindSound(k, file, clock)
  BY <1>3, GoSound DEF BeforeParse
<1>5. dir' \in SessionDirs /\ dir'.manifest = me[p].mine
  BY MyMind DEF PromoteManifest, SessionDirs
<1>6. QED
  BY <1>2, <1>3, <1>4, <1>5, MyMind, StepKeeps DEF PromoteManifest, Unlocked

LEMMA NewDir ==
    /\ NoDir \in SessionDirs /\ \A fs, now : AllSound(NoDir.manifest, fs, now)
    /\ [NoDir EXCEPT !.exists = TRUE] \in SessionDirs
    /\ \A fs, now : AllSound([NoDir EXCEPT !.exists = TRUE].manifest, fs, now)
    /\ \A m \in Maybe(Commits) :
          /\ [NoDir EXCEPT !.exists = TRUE, !.meta = m] \in SessionDirs
          /\ \A fs, now : AllSound([NoDir EXCEPT !.exists = TRUE, !.meta = m].manifest, fs, now)
  BY EntryTypes DEF NoDir, SessionDirs, Maybe

(* What becomes of everybody when the dir goes away.                       *)
LEMMA RetiredMinds ==
    ASSUME NEW known \in [Procs -> Minds], Retired(known)
    PROVE  /\ me' \in [Procs -> Minds] /\ \A r \in Procs : SameMind(known[r], me'[r])
           /\ dir' = NoDir /\ holder' = None
<1>1. PICK strays : me' = [r \in Procs |->
                              IF known[r].pc = "idle" THEN known[r]
                              ELSE [known[r] EXCEPT !.stray = (@ \/ r \in strays)]]
  BY DEF Retired
<1>2. ASSUME NEW r \in Procs
      PROVE  me'[r] \in Minds /\ SameMind(known[r], me'[r])
  <2>1. PICK b \in BOOLEAN : me'[r] = known[r] \/ me'[r] = [known[r] EXCEPT !.stray = b]
    BY <1>1
  <2>2. PICK l \in Minds : l = known[r]
    OBVIOUS
  <2>3. CASE me'[r] = l
    BY <2>2, <2>3 DEF SameMind
  <2>4. CASE me'[r] = [l EXCEPT !.stray = b]
    BY <2>2, <2>4, MindFields
  <2>5. QED
    BY <2>1, <2>2, <2>3, <2>4
<1>3. QED
  BY <1>1, <1>2 DEF Retired

LEMMA KeepRebase ==
    ASSUME TypeInv, SoundInv, NEW p \in Procs, Rebase(p)
    PROVE  Keeps(p)
<1>1. PICK g \in Minds : Onward(p, "rebaseMake", g)
  BY GoingOn DEF ControlPoints
<1> DEFINE k == [g EXCEPT !.calm = @ /\ \A o \in Others(p) : At(o, "idle")]
<1> DEFINE others(r) == [me[r] EXCEPT !.alone = FALSE, !.calm = FALSE]
<1> DEFINE known == [r \in Procs |-> IF r = p THEN k ELSE others(r)]
<1>2. Retired(known)
  BY <1>1 DEF Rebase, Onward
<1>3. k \in Minds /\ SameMind(g, k)
  <2>1. PICK b \in BOOLEAN : k = [g EXCEPT !.calm = b]
    BY DEF Minds
  <2> HIDE DEF k
  <2>2. QED
    BY <2>1, MindFields
<1>4. \A r \in Procs : others(r) \in Minds /\ SameMind(me[r], others(r))
  <2>1. ASSUME NEW l \in Minds
        PROVE  LET n == [l EXCEPT !.alone = FALSE, !.calm = FALSE]
               IN  n \in Minds /\ SameMind(l, n)
    BY DEF Minds, SameMind
  <2>2. me \in [Procs -> Minds]
    BY DEF TypeInv
  <2>3. QED
    BY <2>1, <2>2
<1> HIDE DEF k, others
<1>5. known \in [Procs -> Minds] /\ known[p] = k
      /\ \A r \in Procs \ {p} : known[r] = others(r)
  BY <1>3, <1>4
<1> HIDE DEF known
<1>6. /\ me' \in [Procs -> Minds] /\ \A r \in Procs : SameMind(known[r], me'[r])
      /\ dir' = NoDir /\ holder' = None
  BY <1>2, <1>5, RetiredMinds
<1>7. \A r \in Procs \ {p} : SameMind(me[r], me'[r])
  BY <1>4, <1>5, <1>6 DEF SameMind
<1>8. SameMind(k, me'[p])
  BY <1>5, <1>6
<1>9. MindSound(me'[p], file, clock)
  <2>1. me'[p] \in Minds
    BY <1>6
  <2>2. /\ me'[p].pc = "rebaseMake" /\ me'[p].snap = me[p].snap /\ me'[p].mine = me[p].mine
        /\ me'[p].seen = me[p].seen /\ me'[p].parsed = me[p].parsed
    BY <1>1, <1>3, <1>8 DEF SameMind, Onward
  <2>3. QED
    BY <2>1, <2>2, GoSound DEF BeforeParse
<1>10. QED
  BY <1>6, <1>7, <1>9, NewDir DEF Keeps, Rebase

LEMMA KeepRebaseMake ==
    ASSUME TypeInv, SoundInv, NEW p \in Procs, RebaseMake(p)
    PROVE  Keeps(p)
<1>1. CASE dir.exists
  BY <1>1, KeepFail DEF RebaseMake, At, HoldPoints
<1>2. CASE ~ dir.exists
  <2>1. PICK k \in Minds : Onward(p, "rebaseMeta", k)
    BY GoingOn DEF ControlPoints
  <2>2. MindSound(k, file, clock)
    BY <2>1, GoSound DEF BeforeParse, Onward
  <2>3. dir' \in SessionDirs /\ AllSound(dir'.manifest, file, clock)
    BY <1>2, NewDir DEF RebaseMake
  <2>4. QED
    BY <1>2, <2>1, <2>2, <2>3, MyMind, StepKeeps DEF RebaseMake, Onward, HoldPoints, At
<1>3. QED
  BY <1>1, <1>2

LEMMA KeepRebaseMeta ==
    ASSUME TypeInv, SoundInv, NEW p \in Procs, RebaseMeta(p)
    PROVE  Keeps(p)
<1>1. PICK k \in Minds : Onward(p, "rebaseManifest", k)
  BY GoingOn DEF ControlPoints
<1>2. MindSound(k, file, clock)
  BY <1>1, GoSound DEF BeforeParse, Onward
<1>3. dir' \in SessionDirs /\ dir'.manifest = dir.manifest
  BY MyMind DEF RebaseMeta, SessionDirs
<1>4. QED
  BY <1>1, <1>2, <1>3, MyMind, StepKeeps DEF RebaseMeta, Onward, HoldPoints, At

LEMMA KeepRebaseManifest ==
    ASSUME TypeInv, SoundInv, NEW p \in Procs, RebaseManifest(p)
    PROVE  Keeps(p)
<1>1. PICK k \in Minds : Onward(p, "stage", k)
  BY GoingOn DEF ControlPoints
<1>2. MindSound(k, file, clock)
  BY <1>1, GoSound DEF BeforeParse, Onward
<1>3. dir' \in SessionDirs /\ dir'.manifest = NoEntries
  BY MyMind, EntryTypes DEF RebaseManifest, SessionDirs
<1>4. QED
  BY <1>1, <1>2, <1>3, MyMind, EntryTypes, StepKeeps
     DEF RebaseManifest, Onward, HoldPoints, At

-----------------------------------------------------------------------------
(* The write.                                                              *)

(* A query that goes on to the retirement, with or without a write.        *)
LEMMA RefreshedMind ==
    ASSUME TypeInv, SoundInv, NEW p \in Procs, NEW k,
           k = Refreshed(p) \/ k = WriteFailed(p)
    PROVE  k \in Minds /\ k.pc = "retire" /\ MindSound(k, file, clock)
<1>1. PICK g \in Minds : Onward(p, "retire", g)
  BY GoingOn DEF ControlPoints
<1>2. Idle.parsed \in [Paths -> Maybe(Contents)]
  BY DEF Idle, Maybe
<1>3. PICK n : n = [g EXCEPT !.stale = {}, !.parsed = Idle.parsed, !.base = None,
                             !.target = None, !.stray = FALSE]
  OBVIOUS
<1>4. n = Refreshed(p)
  BY <1>1, <1>3 DEF Refreshed, Onward
<1>5. /\ n \in Minds /\ n.pc = "retire" /\ n.snap = me[p].snap /\ n.mine = me[p].mine
      /\ n.seen = me[p].seen /\ n.parsed = Idle.parsed
  BY <1>1, <1>2, <1>3 DEF Minds, Onward, Maybe
<1>6. k = n \/ k = [n EXCEPT !.ok = FALSE]
  BY <1>4 DEF WriteFailed
<1>7. /\ k \in Minds /\ k.pc = "retire" /\ k.snap = me[p].snap /\ k.mine = me[p].mine
      /\ k.seen = me[p].seen /\ k.parsed = Idle.parsed
  BY <1>5, <1>6 DEF Minds
<1>8. MindSound(k, file, clock)
  BY <1>7, GoSound
<1>9. QED
  BY <1>7, <1>8

(* The names of the tmps of a batch.                                       *)
LEMMA TmpType ==
    ASSUME TypeInv, NEW p \in Procs, NEW q \in Batch(p)
    PROVE  TmpName(p, q) \in FileNames
<1>1. q \in Paths /\ me[p].parsed[q] \in Contents
  BY DEF Batch, TypeInv, Minds, Maybe
<1> DEFINE before == {r \in Batch(p) : r < q}
<1>2. IsFiniteSet(Paths \ {q}) /\ Cardinality(Paths \ {q}) = Cardinality(Paths) - 1
  BY <1>1, FS_RemoveElement
<1>3. before \subseteq Paths \ {q}
  BY <1>1 DEF Batch
<1>4. /\ Cardinality(before) \in Nat /\ Cardinality(before) <= Cardinality(Paths) - 1
      /\ Cardinality(Paths) \in Nat
  BY <1>2, <1>3, FS_Subset, FS_CardinalityType
<1>5. Cardinality(before) \in 0..(Cardinality(Paths) - 1)
  BY <1>4
<1>6. QED
  BY <1>1, <1>5 DEF TmpName, FileNames

LEMMA KeepStage ==
    ASSUME TypeInv, SoundInv, NEW p \in Procs, Stage(p)
    PROVE  Keeps(p)
<1>1. holder # p /\ holder' = holder /\ UNCHANGED <<file, clock, head>>
  BY MyMind DEF Stage, At, HoldPoints
<1>2. me[p].pc = "stage"
  BY DEF Stage, At
<1>3. CASE Batch(p) = {}
  <2>1. PICK k : Step(p, k) /\ k \in {Refreshed(p), Goto(p, "publish")}
    BY <1>3 DEF Stage
  <2>2. k \in Minds /\ MindSound(k, file, clock)
    <3>1. CASE k = Refreshed(p)
      BY <3>1, RefreshedMind
    <3>2. CASE k = Goto(p, "publish")
      <4>1. PICK g \in Minds : Onward(p, "publish", g)
        BY GoingOn DEF ControlPoints
      <4>2. QED
        BY <1>2, <3>2, <4>1, GoSound DEF BeforeParse, Onward
    <3>3. QED
      BY <2>1, <3>1, <3>2
  <2>3. dir' \in SessionDirs /\ dir'.manifest = dir.manifest
    BY <1>3, MyMind DEF Stage, SessionDirs
  <2>4. QED
    BY <1>1, <2>1, <2>2, <2>3, MyMind, StepKeeps
<1>4. CASE Batch(p) # {}
  <2>1. PICK g \in Minds : Onward(p, "fill", g)
    BY GoingOn DEF ControlPoints
  <2> DEFINE k == [g EXCEPT !.calm = @ /\ ~Collides(p)]
  <2> DEFINE others(r) == [me[r] EXCEPT !.alone = FALSE, !.calm = @ /\ ~Collides(p)]
  <2>2. me' = [r \in Procs |-> IF r = p THEN k ELSE others(r)]
    BY <1>4, <2>1 DEF Stage, Onward
  <2>3. ASSUME NEW l \in Minds, NEW b \in BOOLEAN
        PROVE  /\ [l EXCEPT !.calm = b] \in Minds
               /\ SameMind(l, [l EXCEPT !.calm = b])
               /\ [l EXCEPT !.alone = FALSE, !.calm = b] \in Minds
               /\ SameMind(l, [l EXCEPT !.alone = FALSE, !.calm = b])
    BY DEF Minds, SameMind
  <2>4. k \in Minds /\ SameMind(g, k)
    <3>1. PICK b \in BOOLEAN : k = [g EXCEPT !.calm = b]
      BY DEF Minds
    <3> HIDE DEF k
    <3>2. QED
      BY <2>3, <3>1
  <2>5. ASSUME NEW r \in Procs
        PROVE  others(r) \in Minds /\ SameMind(me[r], others(r))
    <3>1. PICK l \in Minds : l = me[r]
      BY DEF TypeInv
    <3>2. PICK b \in BOOLEAN : others(r) = [l EXCEPT !.alone = FALSE, !.calm = b]
      BY <3>1 DEF Minds
    <3> HIDE DEF others
    <3>3. QED
      BY <2>3, <3>1, <3>2
  <2> HIDE DEF k, others
  <2>6. me' \in [Procs -> Minds] /\ me'[p] = k /\ \A r \in Procs \ {p} : SameMind(me[r], me'[r])
    BY <2>2, <2>4, <2>5
  <2>7. /\ k.pc = "fill" /\ k.snap = me[p].snap /\ k.mine = me[p].mine
        /\ k.seen = me[p].seen /\ k.parsed = me[p].parsed
    BY <2>1, <2>4 DEF Onward, SameMind
  <2>8. MindSound(k, file, clock)
    BY <2>4, <2>7, GoSound DEF BeforeParse
  <2> DEFINE opened(f) == [whole |-> FALSE, settled |-> FALSE,
                           writers |-> {p} \cup IF f = None THEN {} ELSE f.writers]
  <2> DEFINE tmps == [n \in FileNames |->
                         IF n \notin TmpNames(p) THEN dir.tmps[n] ELSE opened(dir.tmps[n])]
  <2>9. dir' = [dir EXCEPT !.exists = TRUE, !.fragments = TRUE, !.tmps = tmps]
    BY <1>4 DEF Stage
  <2>10. tmps \in [FileNames -> Maybe(Files)]
    <3>1. ASSUME NEW f \in Maybe(Files) PROVE opened(f) \in Files
      BY DEF Maybe, Files
    <3>2. dir.tmps \in [FileNames -> Maybe(Files)]
      BY MyMind DEF SessionDirs
    <3> HIDE DEF opened
    <3>3. QED
      BY <3>1, <3>2 DEF Maybe
  <2> HIDE DEF tmps
  <2>11. dir' \in SessionDirs /\ dir'.manifest = dir.manifest
    BY <2>9, <2>10, MyMind DEF SessionDirs
  <2>12. QED
    BY <1>1, <2>6, <2>8, <2>11, MyMind DEF Keeps
<1>5. QED
  BY <1>3, <1>4

LEMMA WroteType ==
    ASSUME NEW p, NEW f \in Maybe(Files)
    PROVE  WroteTo(f, p) \in Maybe(Files)
<1>1. CASE f = None \/ p \notin f.writers
  BY <1>1 DEF WroteTo
<1>2. CASE ~ (f = None \/ p \notin f.writers)
  <2>1. f \in Files
    BY <1>2 DEF Maybe
  <2>2. [f EXCEPT !.whole = TRUE, !.writers = @ \ {p}] \in Files
    BY <2>1 DEF Files
  <2>3. QED
    BY <1>2, <2>2 DEF WroteTo, Maybe
<1>3. QED
  BY <1>1, <1>2

(* A step that changes the files of the dir only.                          *)
LEMMA DirFiles ==
    ASSUME TypeInv, NEW bins \in [Contents -> Maybe(Files)], NEW tmps \in [FileNames -> Maybe(Files)],
           dir' = [dir EXCEPT !.bins = bins, !.tmps = tmps] \/ dir' = [dir EXCEPT !.tmps = tmps, !.bins = bins]
    PROVE  dir' \in SessionDirs /\ dir'.manifest = dir.manifest
  BY DEF TypeInv, SessionDirs

LEMMA KeepFill ==
    ASSUME TypeInv, SoundInv, NEW p \in Procs, Fill(p)
    PROVE  Keeps(p)
<1>1. PICK k : Step(p, k) /\ k \in {Goto(p, "publish"), WriteFailed(p)}
  BY DEF Fill
<1>2. k \in Minds /\ MindSound(k, file, clock)
  <2>1. CASE k = Goto(p, "publish")
    <3>1. PICK g \in Minds : Onward(p, "publish", g)
      BY GoingOn DEF ControlPoints
    <3>2. QED
      BY <2>1, <3>1, GoSound DEF BeforeParse, Onward
  <2>2. QED
    BY <1>1, <2>1, RefreshedMind
<1> DEFINE tmps == [n \in FileNames |-> WroteTo(dir.tmps[n], p)]
<1> DEFINE bins == [c \in Contents |-> WroteTo(dir.bins[c], p)]
<1>3. dir' = [dir EXCEPT !.tmps = tmps, !.bins = bins]
  BY DEF Fill
<1>4. tmps \in [FileNames -> Maybe(Files)] /\ bins \in [Contents -> Maybe(Files)]
  <2>1. dir.tmps \in [FileNames -> Maybe(Files)] /\ dir.bins \in [Contents -> Maybe(Files)]
    BY MyMind DEF SessionDirs
  <2>2. QED
    BY <2>1, WroteType
<1> HIDE DEF tmps, bins
<1>5. dir' \in SessionDirs /\ dir'.manifest = dir.manifest
  BY <1>3, <1>4, DirFiles
<1>6. QED
  BY <1>1, <1>2, <1>5, MyMind, StepKeeps DEF Fill, At, HoldPoints

(* A mind that took the lock and read the manifest under it.               *)
LEMMA LockedMind ==
    ASSUME TypeInv, SoundInv, NEW p \in Procs, NEW there \in {"commit", "retireWrite"},
           NEW k, k = [Goto(p, there) EXCEPT !.stray = FALSE, !.mine = dir.manifest],
           me[p].pc \notin BeforeParse
    PROVE  k \in Minds /\ k.pc = there /\ MindSound(k, file, clock)
<1>1. PICK g \in Minds : Onward(p, there, g)
  BY GoingOn DEF ControlPoints
<1>2. PICK m \in Manifests : m = dir.manifest
  BY MyMind
<1>3. k = [g EXCEPT !.stray = FALSE, !.mine = m]
  BY <1>1, <1>2 DEF Onward
<1>4. /\ k \in Minds /\ k.pc = there /\ k.snap = me[p].snap /\ k.mine = dir.manifest
      /\ k.seen = me[p].seen /\ k.parsed = me[p].parsed
  BY <1>1, <1>2, <1>3 DEF Minds, Onward
<1>5. MindSound(k, file, clock)
  BY <1>4, MyMind, GoSound DEF BeforeParse
<1>6. QED
  BY <1>4, <1>5

LEMMA KeepPublish ==
    ASSUME TypeInv, SoundInv, NEW p \in Procs, Publish(p)
    PROVE  Keeps(p)
<1>1. me[p].pc = "publish" /\ holder # p
  BY MyMind DEF Publish, At, HoldPoints
<1> DEFINE landed == {q \in Batch(p) :
                         \A r \in Batch(p) : r <= q => dir.tmps[TmpName(p, r)] # None}
<1> DEFINE of(c) == {q \in landed : me[p].parsed[q] = c}
<1> DEFINE bins == [c \in Contents |->
                       IF of(c) = {} THEN dir.bins[c] ELSE dir.tmps[TmpName(p, Max(of(c)))]]
<1> DEFINE tmps == [n \in FileNames |->
                       IF \E q \in landed : n = TmpName(p, q) THEN None ELSE dir.tmps[n]]
<1>2. dir' = [dir EXCEPT !.bins = bins, !.tmps = tmps]
  BY DEF Publish
<1>3. /\ \/ /\ holder' \in {holder, p}
            /\ Step(p, [Goto(p, "commit") EXCEPT !.stray = FALSE, !.mine = dir.manifest])
         \/ holder' = holder /\ Step(p, WriteFailed(p))
      /\ UNCHANGED <<file, clock, head>>
  BY DEF Publish, Locked
<1>4. ASSUME NEW c \in Contents, of(c) # {}
      PROVE  TmpName(p, Max(of(c))) \in FileNames
  <2>1. of(c) \subseteq Paths
    BY DEF Batch
  <2>2. IsFiniteSet(of(c)) /\ of(c) \in SUBSET Nat
    BY <2>1, FS_Subset
  <2>3. Max(of(c)) \in of(c)
    BY <1>4, <2>2, MaxMember
  <2>4. Max(of(c)) \in Batch(p)
    BY <2>3
  <2>5. QED
    BY <2>4, TmpType
<1>5. dir.tmps \in [FileNames -> Maybe(Files)] /\ dir.bins \in [Contents -> Maybe(Files)]
  BY MyMind DEF SessionDirs
<1> HIDE DEF of
<1>6. bins \in [Contents -> Maybe(Files)]
  BY <1>4, <1>5
<1> HIDE DEF landed
<1>7. tmps \in [FileNames -> Maybe(Files)]
  BY <1>5 DEF Maybe
<1> HIDE DEF bins, tmps
<1>8. dir' \in SessionDirs /\ dir'.manifest = dir.manifest
  BY <1>2, <1>6, <1>7, DirFiles
<1>9. PICK k : /\ Step(p, k)
               /\ \/ /\ holder' \in {holder, p}
                     /\ k = [Goto(p, "commit") EXCEPT !.stray = FALSE, !.mine = dir.manifest]
                  \/ holder' = holder /\ k = WriteFailed(p)
  BY <1>3
<1>10. k \in Minds /\ MindSound(k, file, clock) /\ (holder' = p => k.pc \in HoldPoints)
  <2>1. CASE /\ holder' \in {holder, p}
             /\ k = [Goto(p, "commit") EXCEPT !.stray = FALSE, !.mine = dir.manifest]
    BY <1>1, <2>1, LockedMind DEF BeforeParse, HoldPoints
  <2>2. CASE holder' = holder /\ k = WriteFailed(p)
    BY <1>1, <2>2, RefreshedMind
  <2>3. QED
    BY <1>9, <2>1, <2>2
<1>11. holder' \in {holder, None, p}
  BY <1>9
<1>12. QED
  BY <1>3, <1>8, <1>9, <1>10, <1>11, MyMind, StepKeeps

LEMMA KeepPublishNoDir ==
    ASSUME TypeInv, SoundInv, NEW p \in Procs, PublishNoDir(p)
    PROVE  Keeps(p)
<1>1. PICK k : k = WriteFailed(p) /\ Step(p, k)
  BY DEF PublishNoDir
<1>2. k \in Minds /\ MindSound(k, file, clock)
  BY <1>1, RefreshedMind
<1>3. QED
  BY <1>1, <1>2, ThinkKeeps DEF PublishNoDir, At, HoldPoints

(* What the write puts into the manifest is as sound as the gate and the   *)
(* parse were.                                                             *)
LEMMA EntrySound ==
    ASSUME TypeInv, SoundInv, NEW p \in Procs, NEW q \in Paths
    PROVE  NewEntry(p, q) \in Entries /\ Sound(NewEntry(p, q), file[q], clock)
<1>1. CASE q \in Tombs(p)
  BY <1>1 DEF NewEntry, Entries, Sound, Fragment
<1>2. CASE q \notin Tombs(p) /\ q \in Batch(p)
  <2>1. NewEntry(p, q) = [stamp |-> me[p].seen[q], content |-> me[p].parsed[q]]
    BY <1>2 DEF NewEntry, StampOf
  <2>2. me[p].seen[q] \in Stamps /\ me[p].parsed[q] \in Contents
    BY <1>2, MyMind DEF Batch, Minds, Maybe
  <2>3. /\ me[p].seen[q] <= clock
        /\ file[q].stamp = me[p].seen[q] /\ file[q].content # Absent
              => file[q].content = me[p].parsed[q]
    BY <1>2, MyMind DEF Batch, MindSound, ParseSound
  <2>4. QED
    BY <2>1, <2>2, <2>3 DEF Entries, Sound
<1>3. CASE q \notin Tombs(p) /\ q \notin Batch(p)
  <2>1. NewEntry(p, q) = me[p].mine[q]
    BY <1>3 DEF NewEntry
  <2>2. me[p].mine \in Manifests /\ AllSound(me[p].mine, file, clock)
    BY MyMind
  <2>3. QED
    BY <2>1, <2>2 DEF Manifests, AllSound
<1>4. QED
  BY <1>1, <1>2, <1>3

(* A commit, seen from the others.                                         *)
Overtaken(p, l) ==
    [l EXCEPT !.alone = FALSE,
              !.over = IF l.pc \in Unread THEN @ ELSE @ \cup Outdated(p)]

LEMMA OvertakenMind ==
    ASSUME TypeInv, NEW p \in Procs, NEW l \in Minds
    PROVE  /\ Overtaken(p, l) \in Minds /\ SameMind(l, Overtaken(p, l))
           /\ ~ Overtaken(p, l).alone
<1>1. Outdated(p) \subseteq Paths
  <2>1. Batch(p) \subseteq Paths
    BY DEF Batch
  <2>2. Tombs(p) \subseteq Paths
    BY DEF Tombs, TypeInv, Minds
  <2>3. QED
    BY <2>1, <2>2 DEF Outdated
<1>2. QED
  BY <1>1 DEF Minds, SameMind, Overtaken

LEMMA CommitMinds ==
    ASSUME TypeInv, NEW p \in Procs, NEW g \in Minds, Onward(p, "touch", g), Commit(p)
    PROVE  /\ me'[p] = [g EXCEPT !.mine = NoEntries]
           /\ \A r \in Procs \ {p} : me'[r] = Overtaken(p, me[r])
           /\ me' \in [Procs -> Minds]
<1> DEFINE k == [g EXCEPT !.mine = NoEntries]
<1>1. k \in Minds
  BY EntryTypes DEF Minds
<1>2. me' = [r \in Procs |-> IF r = p THEN k ELSE Overtaken(p, me[r])]
  BY Zenon DEF Commit, Onward, Overtaken
<1> HIDE DEF k
<1>3. \A r \in Procs : Overtaken(p, me[r]) \in Minds
  BY OvertakenMind DEF TypeInv
<1>4. me'[p] = k /\ (\A r \in Procs \ {p} : me'[r] = Overtaken(p, me[r]))
      /\ me' \in [Procs -> Minds]
  BY <1>1, <1>2, <1>3
<1>5. QED
  BY <1>4 DEF k

LEMMA KeepCommit ==
    ASSUME TypeInv, SoundInv, NEW p \in Procs, Commit(p)
    PROVE  Keeps(p)
<1>1. PICK g \in Minds : Onward(p, "touch", g)
  BY GoingOn DEF ControlPoints
<1>2. PICK k : k = [g EXCEPT !.mine = NoEntries]
  OBVIOUS
<1>3. /\ k \in Minds /\ k.pc = "touch" /\ k.snap = me[p].snap /\ k.mine = NoEntries
      /\ k.seen = me[p].seen /\ k.parsed = me[p].parsed
  BY <1>1, <1>2, EntryTypes DEF Minds, Onward
<1>4. MindSound(k, file, clock)
  BY <1>3, GoSound DEF BeforeParse
<1> DEFINE new == [q \in Paths |-> NewEntry(p, q)]
<1>5. new \in Manifests /\ AllSound(new, file, clock)
  BY EntrySound DEF Manifests, AllSound
<1>6. dir' = [dir EXCEPT !.exists = TRUE, !.manifest = new]
  BY DEF Commit
<1> HIDE DEF new
<1>7. dir' \in SessionDirs /\ dir'.manifest = new
  BY <1>5, <1>6, MyMind DEF SessionDirs
<1>8. me'[p] = k /\ me' \in [Procs -> Minds]
  BY <1>1, <1>2, CommitMinds
<1>9. ASSUME NEW r \in Procs \ {p} PROVE SameMind(me[r], me'[r])
  <2>1. me[r] \in Minds /\ me'[r] = Overtaken(p, me[r])
    BY <1>1, CommitMinds DEF TypeInv
  <2>2. QED
    BY <2>1, OvertakenMind
<1>10. /\ holder' \in {holder, None} /\ holder' # p
       /\ UNCHANGED <<file, clock, head>>
  BY DEF Commit, Unlocked
<1>11. QED
  BY <1>4, <1>5, <1>7, <1>8, <1>9, <1>10 DEF Keeps

LEMMA KeepTouch ==
    ASSUME TypeInv, SoundInv, NEW p \in Procs, Touch(p)
    PROVE  Keeps(p)
<1>1. CASE dir.meta = None
  <2>1. PICK k : k = WriteFailed(p) /\ Step(p, k)
    BY <1>1 DEF Touch
  <2>2. k \in Minds /\ MindSound(k, file, clock)
    BY <2>1, RefreshedMind
  <2>3. QED
    BY <2>1, <2>2, ThinkKeeps DEF Touch, At, HoldPoints
<1>2. CASE dir.meta # None
  <2>1. PICK g \in Minds : Onward(p, "touched", g)
    BY GoingOn DEF ControlPoints
  <2>2. PICK m \in Maybe(Commits) : m = dir.meta
    BY MyMind
  <2>3. PICK k : k = [g EXCEPT !.target = m] /\ Step(p, k)
    BY <1>2, <2>1, <2>2 DEF Touch, Onward
  <2>4. /\ k \in Minds /\ k.pc = "touched" /\ k.snap = me[p].snap /\ k.mine = me[p].mine
        /\ k.seen = me[p].seen /\ k.parsed = me[p].parsed
    BY <2>1, <2>3 DEF Minds, Onward
  <2>5. MindSound(k, file, clock)
    BY <2>4, GoSound DEF BeforeParse
  <2>6. QED
    BY <2>3, <2>4, <2>5, ThinkKeeps DEF Touch, At, HoldPoints
<1>3. QED
  BY <1>1, <1>2

LEMMA KeepTouchWrite ==
    ASSUME TypeInv, SoundInv, NEW p \in Procs, TouchWrite(p)
    PROVE  Keeps(p)
<1>1. PICK k : k = Refreshed(p) /\ Step(p, k)
  BY DEF TouchWrite
<1>2. k \in Minds /\ MindSound(k, file, clock)
  BY <1>1, RefreshedMind
<1>3. dir' \in SessionDirs /\ dir'.manifest = dir.manifest
  BY MyMind DEF TouchWrite, SessionDirs
<1>4. QED
  BY <1>1, <1>2, <1>3, MyMind, StepKeeps DEF TouchWrite, At, HoldPoints

-----------------------------------------------------------------------------
(* The retirement of entries, the reader, the sweep and a crash.           *)

LEMMA KeepRetireNothing ==
    ASSUME TypeInv, SoundInv, NEW p \in Procs, RetireNothing(p)
    PROVE  Keeps(p)
<1>1. PICK k \in Minds : Onward(p, "read", k)
  BY GoingOn DEF ControlPoints
<1>2. MindSound(k, file, clock)
  BY <1>1, GoSound DEF BeforeParse, Onward
<1>3. QED
  BY <1>1, <1>2, ThinkKeeps DEF RetireNothing, At, HoldPoints, Onward

LEMMA KeepRetire ==
    ASSUME TypeInv, SoundInv, NEW p \in Procs, Retire(p)
    PROVE  Keeps(p)
<1>1. me[p].pc = "retire" /\ holder # p
  BY MyMind DEF Retire, At, HoldPoints
<1>2. CASE Stale(p, dir.manifest) = {}
  <2>1. PICK g \in Minds : Onward(p, "read", g)
    BY GoingOn DEF ControlPoints
  <2>2. PICK k : k = [g EXCEPT !.stray = FALSE] /\ Step(p, k)
    BY <1>2, <2>1 DEF Retire, Onward
  <2>3. /\ k \in Minds /\ k.pc = "read" /\ k.snap = me[p].snap /\ k.mine = me[p].mine
        /\ k.seen = me[p].seen /\ k.parsed = me[p].parsed
    BY <2>1, <2>2 DEF Minds, Onward
  <2>4. MindSound(k, file, clock)
    BY <2>3, GoSound DEF BeforeParse
  <2>5. QED
    BY <1>1, <1>2, <2>2, <2>3, <2>4, ThinkKeeps DEF Retire, HoldPoints
<1>3. CASE Stale(p, dir.manifest) # {}
  <2>1. PICK k : /\ Step(p, k)
                 /\ k = [Goto(p, "retireWrite") EXCEPT !.stray = FALSE, !.mine = dir.manifest]
    BY <1>3 DEF Retire
  <2>2. k \in Minds /\ k.pc = "retireWrite" /\ MindSound(k, file, clock)
    BY <1>1, <2>1, LockedMind DEF BeforeParse
  <2>3. holder' \in {holder, p} /\ UNCHANGED <<file, clock, head, dir>>
    BY <1>3 DEF Retire, Locked
  <2>4. QED
    BY <2>1, <2>2, <2>3, MyMind, StepKeeps DEF HoldPoints
<1>4. QED
  BY <1>2, <1>3

LEMMA KeepRetireWrite ==
    ASSUME TypeInv, SoundInv, NEW p \in Procs, RetireWrite(p)
    PROVE  Keeps(p)
<1>1. PICK g \in Minds : Onward(p, "read", g)
  BY GoingOn DEF ControlPoints
<1>2. PICK k : k = [g EXCEPT !.mine = NoEntries] /\ Step(p, k)
  BY <1>1 DEF RetireWrite, Onward
<1>3. /\ k \in Minds /\ k.pc = "read" /\ k.snap = me[p].snap /\ k.mine = NoEntries
      /\ k.seen = me[p].seen /\ k.parsed = me[p].parsed
  BY <1>1, <1>2, EntryTypes DEF Minds, Onward
<1>4. MindSound(k, file, clock)
  BY <1>3, GoSound DEF BeforeParse
<1> DEFINE kept == [q \in Paths |-> IF q \in Stale(p, me[p].mine) THEN None ELSE me[p].mine[q]]
<1>5. kept \in Manifests /\ AllSound(kept, file, clock)
  <2>1. me[p].mine \in Manifests /\ AllSound(me[p].mine, file, clock)
    BY MyMind
  <2>2. QED
    BY <2>1, EntryTypes DEF Manifests, AllSound, Sound, Fragment
<1>6. dir' = [dir EXCEPT !.exists = @ \/ kept # NoEntries, !.manifest = kept]
  BY DEF RetireWrite
<1> HIDE DEF kept
<1>7. dir' \in SessionDirs /\ dir'.manifest = kept
  BY <1>5, <1>6, MyMind DEF SessionDirs
<1>8. QED
  BY <1>2, <1>3, <1>4, <1>5, <1>7, StepKeeps DEF RetireWrite, Unlocked

LEMMA KeepRead ==
    ASSUME TypeInv, SoundInv, NEW p \in Procs, Read(p)
    PROVE  Keeps(p)
<1>1. PICK g \in Minds : Onward(p, "serve", g)
  BY GoingOn DEF ControlPoints
<1>2. PICK m \in Manifests : m = dir.manifest
  BY MyMind
<1>3. PICK k : k = [g EXCEPT !.snap = m] /\ Step(p, k)
  BY <1>1, <1>2 DEF Read, Onward
<1>4. /\ k \in Minds /\ k.pc = "serve" /\ k.snap = dir.manifest /\ k.mine = me[p].mine
      /\ k.seen = me[p].seen /\ k.parsed = me[p].parsed
  BY <1>1, <1>2, <1>3 DEF Minds, Onward
<1>5. MindSound(k, file, clock)
  BY <1>4, MyMind, GoSound DEF BeforeParse
<1>6. QED
  BY <1>3, <1>4, <1>5, ThinkKeeps DEF Read, At, HoldPoints

LEMMA KeepServe ==
    ASSUME TypeInv, SoundInv, NEW p \in Procs, Serve(p)
    PROVE  Keeps(p)
  BY IdleMind, ThinkKeeps DEF Serve, At, HoldPoints

LEMMA KeepSweepBegin ==
    ASSUME TypeInv, SoundInv, NEW p \in Procs, SweepBegin(p)
    PROVE  Keeps(p)
<1> DEFINE judged == {c \in Contents \ Named(dir.manifest) : Old(dir.bins[c])}
<1>1. PICK g : g = Started(p) /\ g \in Minds /\ g.snap = NoEntries /\ g.mine = NoEntries
               /\ g.seen = Idle.seen /\ g.parsed = Idle.parsed
  <2>1. /\ Started(p) \in Minds /\ Started(p).snap = NoEntries /\ Started(p).mine = NoEntries
        /\ Started(p).seen = Idle.seen /\ Started(p).parsed = Idle.parsed
    BY IdleMind DEF Started, Minds, Idle
  <2>2. QED
    BY <2>1
<1>2. PICK k : k = [g EXCEPT !.pc = "sweep", !.orphans = judged] /\ Step(p, k)
  BY <1>1 DEF SweepBegin
<1>3. judged \in SUBSET Contents
  OBVIOUS
<1> HIDE DEF judged
<1>4. /\ k \in Minds /\ k.pc = "sweep" /\ k.snap = NoEntries /\ k.mine = NoEntries
      /\ k.seen = Idle.seen /\ k.parsed = Idle.parsed
  BY <1>1, <1>2, <1>3 DEF Minds, ControlPoints
<1>5. MindSound(k, file, clock)
  BY <1>4, EntryTypes, IdleMind DEF MindSound, ParseSound, Idle
<1>6. QED
  BY <1>2, <1>4, <1>5, MyMind, StepKeeps DEF SweepBegin, HoldPoints

LEMMA KeepSweepDelete ==
    ASSUME TypeInv, SoundInv, NEW p \in Procs, SweepDelete(p)
    PROVE  Keeps(p)
<1> DEFINE bins == [c \in Contents |-> IF c \in me[p].orphans THEN None ELSE dir.bins[c]]
<1> DEFINE tmps == [n \in FileNames |-> IF Old(dir.tmps[n]) THEN None ELSE dir.tmps[n]]
<1>1. dir' = [dir EXCEPT !.bins = bins, !.tmps = tmps]
  BY DEF SweepDelete
<1>2. bins \in [Contents -> Maybe(Files)] /\ tmps \in [FileNames -> Maybe(Files)]
  BY MyMind DEF SessionDirs, Maybe
<1> HIDE DEF bins, tmps
<1>3. dir' \in SessionDirs /\ dir'.manifest = dir.manifest
  BY <1>1, <1>2, DirFiles
<1>4. holder' \in {holder, None} /\ holder' # p
  BY DEF SweepDelete, Unlocked
<1>5. QED
  BY <1>3, <1>4, IdleMind, MyMind, StepKeeps DEF SweepDelete

LEMMA KeepCrash ==
    ASSUME TypeInv, SoundInv, NEW p \in Procs, Crash(p)
    PROVE  Keeps(p)
<1> DEFINE closed(f) == IF f = None THEN None ELSE [f EXCEPT !.writers = @ \ {p}]
<1> DEFINE tmps == [n \in FileNames |-> closed(dir.tmps[n])]
<1> DEFINE bins == [c \in Contents |-> closed(dir.bins[c])]
<1>1. dir' = [dir EXCEPT !.tmps = tmps, !.bins = bins]
  BY DEF Crash
<1>2. ASSUME NEW f \in Maybe(Files) PROVE closed(f) \in Maybe(Files)
  <2>1. ASSUME f \in Files PROVE [f EXCEPT !.writers = @ \ {p}] \in Files
    BY <2>1 DEF Files
  <2>2. QED
    BY <2>1 DEF Maybe
<1> HIDE DEF closed
<1>3. tmps \in [FileNames -> Maybe(Files)] /\ bins \in [Contents -> Maybe(Files)]
  <2>1. dir.tmps \in [FileNames -> Maybe(Files)] /\ dir.bins \in [Contents -> Maybe(Files)]
    BY MyMind DEF SessionDirs
  <2>2. QED
    BY <1>2, <2>1
<1> HIDE DEF bins, tmps
<1>4. dir' \in SessionDirs /\ dir'.manifest = dir.manifest
  BY <1>1, <1>3, DirFiles
<1>5. holder' \in {holder, None} /\ holder' # p
  BY DEF Crash, Unlocked
<1>6. QED
  BY <1>4, <1>5, IdleMind, MyMind, StepKeeps DEF Crash

LEMMA ProcKeeps ==
    ASSUME TypeInv, SoundInv, NEW p \in Procs,
           Query(p) \/ SweepBegin(p) \/ SweepDelete(p) \/ Crash(p)
    PROVE  Keeps(p)
<1>1. ASSUME PromoteNoDir(p) PROVE Keeps(p)
  BY <1>1, KeepFail DEF PromoteNoDir, At, HoldPoints
<1>2. QED
  BY <1>1, KeepBegin, KeepBeat, KeepSnapshot, KeepProbe, KeepGate, KeepParse, KeepDecide,
     KeepPromote, KeepPromoteMeta, KeepPromoteManifest, KeepRebase, KeepRebaseMake,
     KeepRebaseMeta, KeepRebaseManifest, KeepStage, KeepFill, KeepPublish,
     KeepPublishNoDir, KeepCommit, KeepTouch, KeepTouchWrite, KeepRetireNothing,
     KeepRetire, KeepRetireWrite, KeepRead, KeepServe, KeepSweepBegin, KeepSweepDelete,
     KeepCrash DEF Query

-----------------------------------------------------------------------------
(* The user and the other programs.                                        *)

(* A step of nobody that shows the queries nothing new.                    *)
LEMMA OthersKeep ==
    ASSUME TypeInv, SoundInv, me' \in [Procs -> Minds],
           \A r \in Procs : SameMind(me[r], me'[r]),
           dir' \in SessionDirs, AllSound(dir'.manifest, file, clock),
           holder' \in {holder, None}, UNCHANGED <<file, clock>>, head' \in Commits
    PROVE  TypeInv' /\ SoundInv'
<1>1. \A r \in Procs : MindSound(me'[r], file, clock)
  BY DEF SameMind, SoundInv, MindSound, ParseSound
<1>2. QED
  BY <1>1 DEF TypeInv, SoundInv, SameMind, Maybe

LEMMA Quieter ==
    ASSUME TypeInv
    PROVE  \A r \in Procs :
               /\ [me[r] EXCEPT !.alone = FALSE] \in Minds
               /\ SameMind(me[r], [me[r] EXCEPT !.alone = FALSE])
               /\ [me[r] EXCEPT !.alone = FALSE, !.calm = FALSE] \in Minds
               /\ SameMind(me[r], [me[r] EXCEPT !.alone = FALSE, !.calm = FALSE])
<1>1. ASSUME NEW l \in Minds
      PROVE  /\ [l EXCEPT !.alone = FALSE] \in Minds /\ SameMind(l, [l EXCEPT !.alone = FALSE])
             /\ [l EXCEPT !.alone = FALSE, !.calm = FALSE] \in Minds
             /\ SameMind(l, [l EXCEPT !.alone = FALSE, !.calm = FALSE])
  BY DEF Minds, SameMind
<1>2. me \in [Procs -> Minds]
  BY DEF TypeInv
<1>3. QED
  BY <1>1, <1>2

(* Every edit gives the file an mtime no entry and no gate has seen.       *)
LEMMA EditKeeps ==
    ASSUME TypeInv, SoundInv, NEW q \in Paths, NEW c \in Contents \cup {Absent}, Edit(q, c)
    PROVE  TypeInv' /\ SoundInv'
<1>1. /\ clock' = clock + 1 /\ clock' \in Stamps /\ clock \in Nat
      /\ UNCHANGED <<head, dir, holder>>
  BY DEF Edit, TypeInv, Stamps
<1>2. /\ file' \in [Paths -> WorkFiles]
      /\ \A r \in Paths \ {q} : file'[r] = file[r]
      /\ file'[q].content = Absent \/ file'[q].stamp = clock + 1
      /\ file'[q].stamp \in {0, clock + 1}
  <2>1. PICK f \in WorkFiles : /\ f.content = Absent \/ f.stamp = clock + 1
                               /\ f.stamp \in {0, clock + 1}
                               /\ file' = [file EXCEPT ![q] = f]
    BY <1>1, EntryTypes DEF Edit, WorkFiles
  <2>2. QED
    BY <2>1 DEF TypeInv
<1>3. me' \in [Procs -> Minds] /\ \A r \in Procs : SameMind(me[r], me'[r])
  BY Quieter DEF Edit
<1>4. ASSUME NEW m \in Manifests, AllSound(m, file, clock)
      PROVE  AllSound(m, file', clock')
  <2>1. ASSUME NEW r \in Paths PROVE Sound(m[r], file'[r], clock')
    <3>1. Sound(m[r], file[r], clock)
      BY <1>4 DEF AllSound
    <3>2. Fragment(m[r]) => m[r].stamp \in Nat
      BY EntryTypes DEF Manifests, Entries, Fragment
    <3>3. CASE r = q
      BY <1>1, <1>2, <3>1, <3>2, <3>3 DEF Sound
    <3>4. CASE r # q
      BY <1>1, <1>2, <3>1, <3>2, <3>4 DEF Sound
    <3>5. QED
      BY <3>3, <3>4
  <2>2. QED
    BY <2>1 DEF AllSound
<1>5. ASSUME NEW r \in Procs PROVE MindSound(me'[r], file', clock')
  <2>1. PICK l \in Minds : l = me[r]
    BY DEF TypeInv
  <2>2. MindSound(l, file, clock) /\ SameMind(l, me'[r])
    BY <1>3, <2>1 DEF SoundInv
  <2>3. AllSound(me'[r].snap, file', clock') /\ AllSound(me'[r].mine, file', clock')
    BY <1>4, <2>2 DEF MindSound, SameMind, Minds
  <2>4. \A x \in Paths : l.seen[x] \in Nat /\ l.seen[x] <= clock
    BY <2>2, EntryTypes DEF MindSound, ParseSound, Minds
  <2>5. ParseSound(me'[r], file', clock')
    BY <1>1, <1>2, <2>2, <2>4 DEF MindSound, ParseSound, SameMind
  <2>6. QED
    BY <2>3, <2>5 DEF MindSound
<1>6. \A r \in Paths : file'[r].stamp <= clock'
  <2>1. \A r \in Paths \ {q} : file[r].stamp \in Nat /\ file[r].stamp <= clock
    BY EntryTypes DEF SoundInv, TypeInv, WorkFiles
  <2>2. \A r \in Paths \ {q} : file'[r].stamp <= clock'
    BY <1>1, <1>2, <2>1
  <2>3. file'[q].stamp <= clock'
    BY <1>1, <1>2
  <2>4. QED
    BY <2>2, <2>3
<1>7. AllSound(dir'.manifest, file', clock')
  BY <1>1, <1>4, MyMind DEF SoundInv, TypeInv, SessionDirs
<1>8. TypeInv'
  BY <1>1, <1>2, <1>3 DEF TypeInv, SameMind, Maybe
<1>9. QED
  BY <1>5, <1>6, <1>7, <1>8 DEF SoundInv

LEMMA RetireSessionKeeps ==
    ASSUME TypeInv, SoundInv, RetireSession
    PROVE  TypeInv' /\ SoundInv'
<1> DEFINE known == [r \in Procs |-> [me[r] EXCEPT !.alone = FALSE, !.calm = FALSE]]
<1>1. known \in [Procs -> Minds] /\ \A r \in Procs : SameMind(me[r], known[r])
  BY Quieter
<1>2. Retired(known) /\ UNCHANGED <<file, clock, head>>
  BY DEF RetireSession
<1> HIDE DEF known
<1>3. /\ me' \in [Procs -> Minds] /\ \A r \in Procs : SameMind(known[r], me'[r])
      /\ dir' = NoDir /\ holder' = None
  BY <1>1, <1>2, RetiredMinds
<1>4. \A r \in Procs : SameMind(me[r], me'[r])
  BY <1>1, <1>3 DEF SameMind
<1>5. head' \in Commits
  BY <1>2 DEF TypeInv
<1>6. QED
  BY <1>2, <1>3, <1>4, <1>5, NewDir, OthersKeep

LEMMA OutsideKeeps ==
    ASSUME TypeInv, SoundInv,
           (\E h \in Commits : MoveHead(h)) \/ RetireL1 \/ HourPasses \/ UNCHANGED vars
    PROVE  TypeInv' /\ SoundInv'
<1>1. CASE \E h \in Commits : MoveHead(h)
  <2>1. me' \in [Procs -> Minds] /\ \A r \in Procs : SameMind(me[r], me'[r])
    <3>1. DisturbAll
      BY <1>1 DEF MoveHead
    <3>2. QED
      BY <3>1, Quieter DEF DisturbAll
  <2>2. /\ dir' \in SessionDirs /\ AllSound(dir'.manifest, file, clock) /\ holder' = holder
        /\ head' \in Commits /\ UNCHANGED <<file, clock>>
    BY <1>1 DEF MoveHead, TypeInv, SoundInv
  <2>3. QED
    BY <2>1, <2>2, OthersKeep
<1>2. CASE RetireL1
  <2>1. me' \in [Procs -> Minds] /\ \A r \in Procs : SameMind(me[r], me'[r])
    BY <1>2, Quieter DEF RetireL1, DisturbAll
  <2>2. /\ dir' \in SessionDirs /\ AllSound(dir'.manifest, file, clock)
    BY <1>2, NewDir DEF RetireL1, TypeInv, SessionDirs
  <2>3. QED
    BY <1>2, <2>1, <2>2, OthersKeep DEF RetireL1, TypeInv
<1>3. CASE HourPasses
  <2> DEFINE aged(f) == IF f = None THEN None ELSE [f EXCEPT !.settled = TRUE]
  <2> DEFINE tmps == [n \in FileNames |-> aged(dir.tmps[n])]
  <2> DEFINE bins == [c \in Contents |-> aged(dir.bins[c])]
  <2>1. dir' = [dir EXCEPT !.tmps = tmps, !.bins = bins]
    BY <1>3 DEF HourPasses
  <2>2. ASSUME NEW f \in Maybe(Files) PROVE aged(f) \in Maybe(Files)
    <3>1. ASSUME f \in Files PROVE [f EXCEPT !.settled = TRUE] \in Files
      BY <3>1 DEF Files
    <3>2. QED
      BY <3>1 DEF Maybe
  <2> HIDE DEF aged
  <2>3. tmps \in [FileNames -> Maybe(Files)] /\ bins \in [Contents -> Maybe(Files)]
    <3>1. dir.tmps \in [FileNames -> Maybe(Files)] /\ dir.bins \in [Contents -> Maybe(Files)]
      BY DEF TypeInv, SessionDirs
    <3>2. QED
      BY <2>2, <3>1
  <2> HIDE DEF bins, tmps
  <2>4. dir' \in SessionDirs /\ dir'.manifest = dir.manifest
    BY <2>1, <2>3, DirFiles
  <2>5. UNCHANGED <<file, clock, head, holder, me>>
    BY <1>3 DEF HourPasses
  <2>6. me' \in [Procs -> Minds] /\ \A r \in Procs : SameMind(me[r], me'[r])
    BY <2>5 DEF TypeInv, SameMind
  <2>7. QED
    BY <2>4, <2>5, <2>6, OthersKeep DEF TypeInv, SoundInv
<1>4. CASE UNCHANGED vars
  BY <1>4 DEF vars, TypeInv, SoundInv
<1>5. QED
  BY <1>1, <1>2, <1>3, <1>4

-----------------------------------------------------------------------------
(* The theorems.                                                           *)

LEMMA InitKeeps == Init => TypeInv /\ SoundInv
<1> SUFFICES ASSUME Init PROVE TypeInv /\ SoundInv
  OBVIOUS
<1>1. clock = 1 /\ 1 \in Stamps
  BY DEF Init, Stamps
<1>2. Tree[First] \in [Paths -> Contents \cup {Absent}]
  OBVIOUS
<1>3. file \in [Paths -> WorkFiles] /\ \A q \in Paths : file[q].stamp \in {0, 1}
  BY <1>1, <1>2, EntryTypes DEF Init, WorkFiles
<1>4. Idle \in Minds
  BY EntryTypes DEF Idle, Minds, Maybe, ControlPoints
<1>5. TypeInv
  BY <1>1, <1>3, <1>4, NewDir DEF TypeInv, Init, Maybe
<1>6. MindSound(Idle, file, clock)
  BY <1>5, IdleMind
<1>7. SoundInv
  <2>1. \A q \in Paths : file[q].stamp <= clock
    BY <1>1, <1>3
  <2>2. AllSound(dir.manifest, file, clock)
    BY NewDir DEF Init
  <2>3. \A p \in Procs : MindSound(me[p], file, clock)
    BY <1>6 DEF Init
  <2>4. QED
    BY <2>1, <2>2, <2>3 DEF SoundInv
<1>8. QED
  BY <1>5, <1>7

LEMMA NextKeeps == TypeInv /\ SoundInv /\ [Next]_vars => TypeInv' /\ SoundInv'
<1> SUFFICES ASSUME TypeInv, SoundInv, [Next]_vars PROVE TypeInv' /\ SoundInv'
  OBVIOUS
<1>1. ASSUME NEW p \in Procs, Query(p) \/ SweepBegin(p) \/ SweepDelete(p) \/ Crash(p)
      PROVE  TypeInv' /\ SoundInv'
  BY <1>1, ProcKeeps, KeepsInv
<1>2. ASSUME NEW q \in Paths, NEW c \in Contents \cup {Absent}, Edit(q, c)
      PROVE  TypeInv' /\ SoundInv'
  BY <1>2, EditKeeps
<1>3. QED
  BY <1>1, <1>2, RetireSessionKeeps, OutsideKeeps DEF Next

LEMMA Reached == Spec => [](TypeInv /\ SoundInv)
<1>1. TypeInv /\ SoundInv /\ [Next]_vars => (TypeInv /\ SoundInv)'
  BY NextKeeps
<1>2. QED
  BY <1>1, InitKeeps, PTL DEF Spec

(* Whatever the processes and the bounds, every variable stays in its set  *)
(* and only a running process holds overlay.lock.                          *)
THEOREM TypeCorrect == Spec => []TypeOK
<1>1. TypeInv => TypeOK
  BY DEF TypeInv, TypeOK, SessionDirs, WorkFiles, Maybe, Minds, At, HoldPoints
<1>2. QED
  BY <1>1, Reached, PTL

(* A fragment the reader accepts was parsed from the content its file has  *)
(* when the reader stats it, whatever the edits, refreshes, promotions,    *)
(* sweeps, renames and crashes before.                                     *)
THEOREM ServedCurrent == Spec => []ServedIsCurrent
<1>1. TypeInv /\ SoundInv => ServedIsCurrent
  BY DEF TypeInv, SoundInv, ServedIsCurrent, ServedFragments, MindSound, AllSound, Sound
<1>2. QED
  BY <1>1, Reached, PTL

-----------------------------------------------------------------------------
(* A query that runs alone.                                                *)

(* A file that does not exist has no mtime, a session dir that does not    *)
(* exist no entry.                                                         *)
DiskInv ==
    /\ \A q \in Paths : file[q].stamp = 0 <=> file[q].content = Absent
    /\ ~ dir.exists => dir.manifest = NoEntries

(* Entry e proves file f by a bin of bs: Current, of any dir.              *)
Valid(c, bs) == bs[c] # None /\ bs[c].whole
Proves(e, f, bs) ==
    \/ e = Tombstone /\ f.content = Absent
    \/ /\ e \notin {None, Tombstone}
       /\ f.content # Absent /\ f.stamp = e.stamp /\ Valid(e.content, bs)
Proved(Q, m, bs) == \A q \in Q : Proves(m[q], file[q], bs)

(* What m holds of files that are not dirty the query has seen.            *)
Leftover(k, m) == \A q \in Paths \ k.dirty : m[q] \in {None, k.snap[q]}
NamesOf(g) ==
    LET batch == {q \in Paths : g[q] # None}
    IN {[content |-> g[q], idx |-> Cardinality({r \in batch : r < q})] : q \in batch}

(* What the gate and the parse found.                                      *)
Looked(k) ==
    /\ k.stale \subseteq k.dirty
    /\ \A q \in k.stale : k.seen[q] = file[q].stamp
Parsed(k) ==
    \A q \in Paths :
        k.parsed[q] = IF q \in k.stale /\ file[q].content # Absent THEN file[q].content ELSE None

Promoting == {"promote", "promoteMeta", "promoteManifest"}
Rebasing == {"rebase", "rebaseMake", "rebaseMeta", "rebaseManifest"}
Writing == {"stage", "fill", "publish", "commit"}
Written == {"touch", "touched", "retire", "retireWrite", "read"}

(* What p has achieved, by where it is, with k what it knows and d the     *)
(* dir: it lost nothing that proves a dirty file, or parses all of them.   *)
Gated(k, d) ==
    /\ k.pc \in {"probe", "gate", "parse", "decide"} => k.snap = d.manifest
    /\ k.pc \in {"parse", "decide"} =>
        /\ k.base = d.meta /\ (d.meta # head => k.stale = k.dirty)
        /\ Proved(k.dirty \ k.stale, d.manifest, d.bins)
    /\ k.pc \in {"parse", "decide"} \cup Promoting \cup Rebasing \cup Writing => Looked(k)
    /\ k.pc \in {"decide"} \cup Promoting \cup Rebasing \cup Writing => Parsed(k)
Moved(k, d) ==
    /\ k.pc \in Promoting \cup Rebasing => k.stale = k.dirty /\ k.target = head
    /\ k.pc \in {"rebaseManifest", "touch"} \cup Promoting \cup Writing => d.meta # None
    /\ k.pc = "rebaseMake" => ~ d.exists
    /\ k.pc \in {"promote", "fill", "publish"} => d.exists
    /\ k.pc \in {"promoteMeta", "promoteManifest"} => Leftover(k, k.mine)
Healed(p, k, d) ==
    /\ k.pc \in {"promote", "touch", "touched", "retire", "retireWrite"} \cup Writing
           => Leftover(k, d.manifest)
    /\ k.pc \in Writing => Proved(k.dirty \ k.stale, d.manifest, d.bins)
    /\ k.pc = "fill" => \A n \in NamesOf(k.parsed) : d.tmps[n] # None /\ p \in d.tmps[n].writers
    /\ k.pc = "publish" => \A n \in NamesOf(k.parsed) : d.tmps[n] # None /\ d.tmps[n].whole
    /\ k.pc \in {"commit", "retireWrite"} => k.mine = d.manifest
    /\ k.pc = "commit" => \A q \in Paths : k.parsed[q] # None => Valid(k.parsed[q], d.bins)
    /\ k.pc \in Written => Proved(k.dirty, d.manifest, d.bins)
    /\ k.pc = "read" => \A q \in Paths \ k.dirty : d.manifest[q] = None
    /\ k.pc = "serve" => /\ Proved(k.dirty, k.snap, d.bins)
                         /\ \A q \in Paths \ k.dirty : k.snap[q] = None

Heals(p, k, d) == k.ok /\ ~ k.stray /\ Gated(k, d) /\ Moved(k, d) /\ Healed(p, k, d)
AloneInv ==
    \A p \in Procs : me[p].alone => me[p].pc # "idle" /\ Heals(p, me[p], dir)

(* What a step of p that starts nothing new leaves as it was.              *)
Same(k, l) ==
    k.dirty = l.dirty /\ k.ok = l.ok /\ k.stray = l.stray /\ k.alone = l.alone
SameFound(k, l) ==
    k.stale = l.stale /\ k.seen = l.seen /\ k.parsed = l.parsed /\ k.snap = l.snap

LEMMA AloneMind ==
    ASSUME TypeInv, AloneInv, NEW p \in Procs, me[p].alone
    PROVE  /\ me[p] \in Minds /\ Heals(p, me[p], dir) /\ me[p].ok /\ ~ me[p].stray
           /\ Gated(me[p], dir) /\ Moved(me[p], dir) /\ Healed(p, me[p], dir)
           /\ dir \in SessionDirs /\ head \in Commits /\ head # None
  BY NothingAssumption DEF TypeInv, AloneInv, Heals

(* All that p knows, at another control point.                             *)
Ahead(p, there, g) ==
    /\ g = Goto(p, there) /\ g.pc = there /\ Same(g, me[p]) /\ SameFound(g, me[p])
    /\ g.base = me[p].base /\ g.target = me[p].target /\ g.mine = me[p].mine

LEMMA GoAhead ==
    ASSUME TypeInv, NEW p \in Procs, NEW there \in ControlPoints
    PROVE  \E g \in Minds : Ahead(p, there, g)
<1>1. PICK l \in Minds : l = me[p]
  BY DEF TypeInv
<1>2. PICK g : g = [l EXCEPT !.pc = there]
  OBVIOUS
<1>3. g \in Minds /\ g.pc = there /\ Same(g, l) /\ SameFound(g, l)
      /\ g.base = l.base /\ g.target = l.target /\ g.mine = l.mine
  BY <1>2 DEF Minds, Same, SameFound
<1>4. QED
  BY <1>1, <1>2, <1>3 DEF Ahead, Goto

LEMMA CurrentProves ==
    ASSUME NEW e, NEW q \in Paths, Current(e, q)
    PROVE  Proves(e, file[q], dir.bins)
  BY NothingAssumption DEF Current, Proves, ValidBin, Valid

LEMMA StartedMind ==
    ASSUME TypeInv, NEW p \in Procs
    PROVE  Started(p).ok = TRUE /\ Started(p).stray = FALSE /\ Started(p) \in Minds
<1> DEFINE a == \A r \in Others(p) : At(r, "idle")
<1> DEFINE b == \A r \in Others(p) : At(r, "idle") \/ me[r].calm
<1>1. Started(p) = [Idle EXCEPT !.ok = TRUE, !.alone = a, !.calm = b]
  BY DEF Started
<1>2. a \in BOOLEAN /\ b \in BOOLEAN
  OBVIOUS
<1> HIDE DEF a, b
<1>3. PICK l \in Minds : l = Idle /\ l.stray = FALSE
  BY IdleMind DEF Idle
<1>4. QED
  BY <1>1, <1>2, <1>3 DEF Minds

LEMMA HealBegin ==
    ASSUME TypeInv, NEW p \in Procs, Begin(p)
    PROVE  Heals(p, me'[p], dir') /\ me'[p].pc # "idle"
<1>1. Started(p).ok = TRUE /\ Started(p).stray = FALSE /\ Started(p) \in Minds
  BY StartedMind
<1>2. PICK l \in Minds : l = Started(p)
  BY <1>1
<1>3. PICK k : /\ k = me'[p]
               /\ \/ k = [l EXCEPT !.pc = "snapshot"]
                  \/ k = [l EXCEPT !.pc = "beat", !.target = dir.meta]
  BY <1>2 DEF Begin, Step
<1>4. k.pc \in {"snapshot", "beat"} /\ k.ok = l.ok /\ k.stray = l.stray
  BY <1>3 DEF Minds
<1>5. QED
  BY <1>1, <1>2, <1>3, <1>4
     DEF Heals, Gated, Moved, Healed, Promoting, Rebasing, Writing, Written

LEMMA HealBeat ==
    ASSUME TypeInv, AloneInv, NEW p \in Procs, Beat(p), me[p].alone
    PROVE  Heals(p, me'[p], dir') /\ me'[p].pc # "idle"
<1>1. me'[p].pc = "snapshot" /\ Same(me'[p], me[p])
  <2>1. PICK g \in Minds : Ahead(p, "snapshot", g)
    BY GoAhead DEF ControlPoints
  <2>2. PICK k : k = [g EXCEPT !.target = None] /\ k = me'[p]
    BY <2>1 DEF Beat, Step, Ahead
  <2>3. k.pc = g.pc /\ Same(k, g)
    BY <2>2 DEF Minds, Same
  <2>4. QED
    BY <2>1, <2>2, <2>3 DEF Ahead, Same
<1>2. QED
  BY <1>1, AloneMind
     DEF Same, Heals, Gated, Moved, Healed, Promoting, Rebasing, Writing, Written

LEMMA HealSnapshot ==
    ASSUME TypeInv, AloneInv, NEW p \in Procs, Snapshot(p), me[p].alone
    PROVE  Heals(p, me'[p], dir') /\ me'[p].pc # "idle"
<1>1. me'[p].pc = "probe" /\ me'[p].snap = dir.manifest /\ Same(me'[p], me[p])
      /\ dir' = dir
  <2>1. PICK g \in Minds : Ahead(p, "probe", g)
    BY GoAhead DEF ControlPoints
  <2>2. PICK k : k = [g EXCEPT !.snap = dir.manifest] /\ k = me'[p]
    BY <2>1 DEF Snapshot, Step, Ahead
  <2>3. k.pc = g.pc /\ k.snap = dir.manifest /\ Same(k, g)
    BY <2>2 DEF Minds, Same
  <2>4. QED
    BY <2>1, <2>2, <2>3 DEF Snapshot, Ahead, Same
<1>2. QED
  BY <1>1, AloneMind
     DEF Same, Heals, Gated, Moved, Healed, Promoting, Rebasing, Writing, Written

LEMMA HealProbe ==
    ASSUME TypeInv, AloneInv, NEW p \in Procs, Probe(p), me[p].alone
    PROVE  Heals(p, me'[p], dir') /\ me'[p].pc # "idle"
<1>1. /\ me'[p].pc \in {"retire", "gate"}
      /\ me'[p].pc = "retire" => me'[p].dirty = {}
      /\ me'[p].snap = me[p].snap /\ me'[p].ok = me[p].ok /\ me'[p].stray = me[p].stray
      /\ dir' = dir
  <2> DEFINE dirty == {q \in Paths : file[q].content # Tree[head][q]}
  <2> DEFINE there == IF dirty = {} THEN "retire" ELSE "gate"
  <2>1. Step(p, [Goto(p, there) EXCEPT !.dirty = dirty]) /\ dir' = dir
    BY DEF Probe
  <2>2. there \in {"retire", "gate"} /\ (there = "retire" => dirty = {})
    OBVIOUS
  <2> HIDE DEF dirty, there
  <2>3. PICK g \in Minds : Ahead(p, there, g)
    BY <2>2, GoAhead DEF ControlPoints
  <2>4. PICK k : k = [g EXCEPT !.dirty = dirty] /\ k = me'[p]
    BY <2>1, <2>3 DEF Ahead, Step
  <2>5. k.pc = g.pc /\ k.dirty = dirty /\ k.snap = g.snap /\ k.ok = g.ok /\ k.stray = g.stray
    BY <2>4 DEF Minds
  <2>6. QED
    BY <2>1, <2>2, <2>3, <2>4, <2>5 DEF Ahead, Same, SameFound
<1>2. me[p].snap = dir.manifest
  BY AloneMind DEF Gated, Probe, At
<1>3. QED
  BY <1>1, <1>2, AloneMind
     DEF Heals, Gated, Moved, Healed, Promoting, Rebasing, Writing, Written, Leftover, Proved

LEMMA HealGate ==
    ASSUME TypeInv, AloneInv, NEW p \in Procs, Gate(p), me[p].alone
    PROVE  Heals(p, me'[p], dir') /\ me'[p].pc # "idle"
<1> DEFINE stale == {q \in me[p].dirty : dir.meta # head \/ ~Current(me[p].snap[q], q)}
<1> DEFINE stats == [q \in Paths |-> IF q \in me[p].dirty THEN file[q].stamp ELSE 0]
<1> DEFINE there == IF stale = {} THEN "retire" ELSE "parse"
<1>1. /\ me'[p] = [Goto(p, there) EXCEPT !.stale = stale, !.base = dir.meta, !.seen = stats]
      /\ dir' = dir
  <2>1. Step(p, [Goto(p, there) EXCEPT !.stale = stale, !.base = dir.meta, !.seen = stats])
    BY DEF Gate
  <2>2. dir' = dir
    BY DEF Gate
  <2> HIDE DEF stale, stats, there
  <2>3. QED
    BY <2>1, <2>2 DEF Step
<1>2. me[p].snap = dir.manifest /\ me[p].dirty \subseteq Paths
  BY AloneMind DEF Gated, Gate, At, Minds
<1>3. /\ stale \subseteq me[p].dirty /\ \A q \in stale : stats[q] = file[q].stamp
      /\ dir.meta # head => stale = me[p].dirty
      /\ Proved(me[p].dirty \ stale, dir.manifest, dir.bins)
  BY <1>2, CurrentProves DEF Proved
<1>4. there \in ControlPoints /\ (there = "retire" <=> stale = {}) /\ there \in {"retire", "parse"}
  BY DEF ControlPoints
<1> HIDE DEF stale, stats, there
<1>5. /\ me'[p].pc = there
      /\ me'[p].stale = stale /\ me'[p].base = dir.meta /\ me'[p].seen = stats
      /\ me'[p].snap = dir.manifest /\ Same(me'[p], me[p])
  <2>1. PICK g \in Minds : Ahead(p, there, g)
    BY <1>4, GoAhead
  <2>2. PICK k : k = [g EXCEPT !.stale = stale, !.base = dir.meta, !.seen = stats] /\ k = me'[p]
    BY <1>1, <2>1 DEF Ahead
  <2>3. /\ k.pc = g.pc /\ k.stale = stale /\ k.base = dir.meta /\ k.seen = stats
        /\ k.snap = g.snap /\ Same(k, g)
    BY <2>2 DEF Minds, Same
  <2>4. QED
    BY <1>2, <2>1, <2>2, <2>3 DEF Ahead, Same, SameFound
<1>6. CASE stale = {}
  <2>1. Proved(me'[p].dirty, dir.manifest, dir.bins) /\ me'[p].pc = "retire"
    BY <1>3, <1>4, <1>5, <1>6 DEF Same, Proved
  <2>2. QED
    BY <1>1, <1>5, <2>1, AloneMind
       DEF Same, Heals, Gated, Moved, Healed, Promoting, Rebasing, Writing, Written, Leftover
<1>7. CASE stale # {}
  <2>1. Proved(me'[p].dirty \ stale, dir.manifest, dir.bins) /\ me'[p].pc = "parse"
    BY <1>3, <1>4, <1>5, <1>7 DEF Same
  <2>2. QED
    BY <1>1, <1>3, <1>5, <2>1, AloneMind
       DEF Same, Heals, Gated, Moved, Healed, Promoting, Rebasing, Writing, Written, Looked
<1>8. QED
  BY <1>6, <1>7

LEMMA HealParse ==
    ASSUME TypeInv, AloneInv, NEW p \in Procs, Parse(p), me[p].alone
    PROVE  Heals(p, me'[p], dir') /\ me'[p].pc # "idle"
<1> DEFINE found == [q \in Paths |-> IF q \in me[p].stale /\ file[q].content # Absent
                                     THEN file[q].content ELSE None]
<1>1. me'[p] = [Goto(p, "decide") EXCEPT !.parsed = found] /\ dir' = dir
      /\ me[p].pc = "parse"
  BY DEF Parse, Step, At
<1>2. \A q \in Paths : found[q] = IF q \in me[p].stale /\ file[q].content # Absent
                                  THEN file[q].content ELSE None
  OBVIOUS
<1> HIDE DEF found
<1>3. /\ me'[p].pc = "decide" /\ me'[p].parsed = found /\ me'[p].stale = me[p].stale
      /\ me'[p].seen = me[p].seen /\ me'[p].snap = me[p].snap /\ me'[p].base = me[p].base
      /\ Same(me'[p], me[p])
  <2>1. PICK g \in Minds : Ahead(p, "decide", g)
    BY GoAhead DEF ControlPoints
  <2>2. PICK k : k = [g EXCEPT !.parsed = found] /\ k = me'[p]
    BY <1>1, <2>1 DEF Ahead
  <2>3. /\ k.pc = g.pc /\ k.parsed = found /\ k.stale = g.stale /\ k.seen = g.seen
        /\ k.snap = g.snap /\ k.base = g.base /\ Same(k, g)
    BY <2>2 DEF Minds, Same
  <2>4. QED
    BY <2>1, <2>2, <2>3 DEF Ahead, Same, SameFound
<1>4. Gated(me'[p], dir)
  <2>1. Gated(me[p], dir)
    BY AloneMind
  <2>2. Looked(me'[p]) /\ Parsed(me'[p])
    BY <1>1, <1>2, <1>3, <2>1 DEF Same, Gated, Looked, Parsed
  <2>3. QED
    BY <1>1, <1>3, <2>1, <2>2 DEF Same, Gated
<1>5. QED
  BY <1>1, <1>3, <1>4, AloneMind
     DEF Same, Heals, Moved, Healed, Promoting, Rebasing, Writing, Written

LEMMA HealDecide ==
    ASSUME TypeInv, AloneInv, NEW p \in Procs, Decide(p), me[p].alone
    PROVE  Heals(p, me'[p], dir') /\ me'[p].pc # "idle"
<1> DEFINE meta == IF dir.meta = None THEN head ELSE dir.meta
<1> DEFINE base == IF me[p].base = None THEN meta ELSE me[p].base
<1> DEFINE there == IF base = head THEN "stage"
                    ELSE IF <<base, head>> \in Forward THEN "promote" ELSE "rebase"
<1>1. /\ dir' = [dir EXCEPT !.exists = TRUE, !.meta = meta]
      /\ me'[p] = [Goto(p, there) EXCEPT !.target = head] /\ me[p].pc = "decide"
  BY DEF Decide, Step, At
<1>2. /\ me[p].base = dir.meta /\ (dir.meta # head => me[p].stale = me[p].dirty)
      /\ me[p].snap = dir.manifest /\ Looked(me[p]) /\ Parsed(me[p])
      /\ Proved(me[p].dirty \ me[p].stale, dir.manifest, dir.bins)
  BY <1>1, AloneMind DEF Gated
<1>3. /\ there \in {"stage", "promote", "rebase"} /\ meta # None
      /\ there # "stage" => me[p].stale = me[p].dirty
  BY <1>2, AloneMind
<1> HIDE DEF there, meta, base
<1>4. /\ me'[p].pc = there /\ me'[p].target = head
      /\ Same(me'[p], me[p]) /\ SameFound(me'[p], me[p])
  <2>1. PICK g \in Minds : Ahead(p, there, g)
    BY <1>3, GoAhead DEF ControlPoints
  <2>2. PICK k : k = [g EXCEPT !.target = head] /\ k = me'[p]
    BY <1>1, <2>1 DEF Ahead
  <2>3. k.pc = g.pc /\ k.target = head /\ Same(k, g) /\ SameFound(k, g)
    BY <2>2 DEF Minds, Same, SameFound
  <2>4. QED
    BY <2>1, <2>2, <2>3 DEF Ahead, Same, SameFound
<1>5. dir'.exists /\ dir'.meta = meta /\ dir'.manifest = dir.manifest /\ dir'.bins = dir.bins
  BY <1>1, AloneMind DEF SessionDirs
<1>6. Gated(me'[p], dir')
  BY <1>2, <1>3, <1>4 DEF Gated, Same, SameFound, Looked, Parsed
<1>7. Moved(me'[p], dir')
  BY <1>3, <1>4, <1>5 DEF Moved, Same, SameFound, Promoting, Rebasing, Writing
<1>8. Healed(p, me'[p], dir')
  BY <1>2, <1>3, <1>4, <1>5
     DEF Healed, Same, SameFound, Promoting, Rebasing, Writing, Written, Leftover
<1>9. QED
  BY <1>3, <1>4, <1>6, <1>7, <1>8, AloneMind DEF Heals, Same

(* The one that takes a step.                                              *)
LEMMA Takes ==
    ASSUME NEW p \in Procs, NEW k, Step(p, k) \/ Disturb(p, k)
    PROVE  me'[p] = k
<1>1. ASSUME Step(p, k) PROVE me'[p] = k
  BY <1>1 DEF Step
<1>2. ASSUME Disturb(p, k) PROVE me'[p] = k
  <2> DEFINE others(r) == [me[r] EXCEPT !.alone = FALSE, !.calm = FALSE]
  <2>1. me' = [r \in Procs |-> IF r = p THEN k ELSE others(r)]
    BY <1>2, Zenon DEF Disturb
  <2> HIDE DEF others
  <2>2. QED
    BY <2>1
<1>3. QED
  BY <1>1, <1>2

(* What the gate and the parse found stays true while p goes on.           *)
LEMMA FoundStill ==
    ASSUME NEW k, NEW l, NEW d, NEW e, Gated(l, e), Same(k, l), SameFound(k, l),
           l.pc \in {"decide"} \cup Promoting \cup Rebasing \cup Writing,
           k.pc \in Promoting \cup Rebasing \cup Writing \cup Written
    PROVE  Gated(k, d)
<1>1. Looked(l) /\ Parsed(l)
  BY DEF Gated
<1>2. Looked(k) /\ Parsed(k)
  BY <1>1 DEF Looked, Parsed, Same, SameFound
<1>3. QED
  BY <1>2 DEF Gated, Promoting, Rebasing, Writing, Written

(* A query that only goes on.                                              *)
LEMMA GoesOn ==
    ASSUME TypeInv, NEW p \in Procs, NEW there \in ControlPoints, me'[p] = Goto(p, there)
    PROVE  /\ me'[p].pc = there /\ Same(me'[p], me[p]) /\ SameFound(me'[p], me[p])
           /\ me'[p].target = me[p].target /\ me'[p].mine = me[p].mine
           /\ me'[p].base = me[p].base
  BY GoAhead DEF Ahead

(* The same with a new look at the manifest.                               *)
LEMMA GoesMine ==
    ASSUME TypeInv, NEW p \in Procs, NEW there \in ControlPoints, NEW m, ~ me[p].stray,
           \/ me'[p] = [Goto(p, there) EXCEPT !.mine = m]
           \/ me'[p] = [Goto(p, there) EXCEPT !.stray = FALSE, !.mine = m]
    PROVE  /\ me'[p].pc = there /\ Same(me'[p], me[p]) /\ SameFound(me'[p], me[p])
           /\ me'[p].target = me[p].target /\ me'[p].mine = m
<1>1. PICK g \in Minds : Ahead(p, there, g)
  BY GoAhead
<1>2. PICK k : /\ k = me'[p]
               /\ k = [g EXCEPT !.mine = m] \/ k = [g EXCEPT !.stray = FALSE, !.mine = m]
  BY <1>1 DEF Ahead
<1>3. /\ k.pc = g.pc /\ SameFound(k, g) /\ k.target = g.target /\ k.mine = m
      /\ k.dirty = g.dirty /\ k.ok = g.ok /\ k.alone = g.alone
      /\ k.stray = g.stray \/ k.stray = FALSE
  <2>1. CASE k = [g EXCEPT !.mine = m]
    BY <2>1 DEF Minds, SameFound
  <2>2. CASE k = [g EXCEPT !.stray = FALSE, !.mine = m]
    BY <2>2 DEF Minds, SameFound
  <2>3. QED
    BY <1>2, <2>1, <2>2
<1>4. g.stray = FALSE /\ me[p].stray = FALSE
  BY <1>1 DEF Ahead, Same, Minds
<1>5. QED
  BY <1>1, <1>2, <1>3, <1>4 DEF Ahead, Same, SameFound

(* The same for one that looks at the manifest under the lock.             *)
Looking(p, there) == [Goto(p, there) EXCEPT !.stray = FALSE, !.mine = dir.manifest]

LEMMA GoesLocked ==
    ASSUME TypeInv, NEW p \in Procs, NEW there \in ControlPoints, ~ me[p].stray,
           me'[p] = Looking(p, there)
    PROVE  /\ me'[p].pc = there /\ Same(me'[p], me[p]) /\ SameFound(me'[p], me[p])
           /\ me'[p].mine = dir.manifest
<1>1. PICK g \in Minds : Ahead(p, there, g)
  BY GoAhead
<1>2. PICK m : m = dir.manifest
  OBVIOUS
<1>3. PICK k : k = me'[p] /\ k = [g EXCEPT !.stray = FALSE, !.mine = m]
  BY <1>1, <1>2 DEF Ahead, Looking
<1>4. /\ k.pc = g.pc /\ SameFound(k, g) /\ k.mine = m
      /\ k.dirty = g.dirty /\ k.ok = g.ok /\ k.alone = g.alone /\ k.stray = FALSE
  BY <1>3 DEF Minds, SameFound
<1>5. g.stray = FALSE /\ me[p].stray = FALSE
  BY <1>1 DEF Ahead, Same, Minds
<1>6. QED
  BY <1>1, <1>2, <1>3, <1>4, <1>5 DEF Ahead, Same, SameFound

LEMMA HealPromote ==
    ASSUME TypeInv, AloneInv, NEW p \in Procs, Promote(p), me[p].alone
    PROVE  Heals(p, me'[p], dir') /\ me'[p].pc # "idle"
<1> DEFINE gone == {q \in Paths : Absorbed(p, q)}
<1> DEFINE kept == [q \in Paths |-> IF q \in gone THEN None ELSE dir.manifest[q]]
<1>1. me[p].pc = "promote"
  BY DEF Promote, At
<1>2. me'[p] = [Goto(p, "promoteMeta") EXCEPT !.stray = FALSE, !.mine = kept]
  <2>1. Disturb(p, [Goto(p, "promoteMeta") EXCEPT !.stray = FALSE, !.mine = kept])
    BY DEF Promote
  <2>2. QED
    BY <2>1, Takes
<1>3. \A q \in Paths : kept[q] \in {None, dir.manifest[q]}
  OBVIOUS
<1>4. dir'.manifest = dir.manifest /\ dir'.meta = dir.meta
  <2>1. PICK bs : dir' = [dir EXCEPT !.bins = bs]
    BY DEF Promote
  <2>2. QED
    BY <2>1, AloneMind DEF SessionDirs
<1> HIDE DEF gone, kept
<1>5. /\ me'[p].pc = "promoteMeta" /\ Same(me'[p], me[p]) /\ SameFound(me'[p], me[p])
      /\ me'[p].target = me[p].target /\ me'[p].mine = kept
  <2>1. ~ me[p].stray /\ "promoteMeta" \in ControlPoints
    BY AloneMind DEF ControlPoints
  <2>2. QED
    BY <1>2, <2>1, GoesMine, Zenon
<1>6. Gated(me'[p], dir')
  BY <1>1, <1>5, AloneMind, FoundStill DEF Promoting, Rebasing, Writing
<1>7. Leftover(me[p], dir.manifest)
  BY <1>1, AloneMind DEF Healed
<1>8. Leftover(me'[p], me'[p].mine)
  BY <1>3, <1>5, <1>7 DEF Same, SameFound, Leftover
<1>9. Moved(me'[p], dir')
  BY <1>1, <1>4, <1>5, <1>8, AloneMind DEF Moved, Same, SameFound, Promoting, Rebasing, Writing
<1>10. QED
  BY <1>5, <1>6, <1>9, AloneMind DEF Heals, Healed, Same, Writing, Written

LEMMA HealPromoteMeta ==
    ASSUME TypeInv, AloneInv, NEW p \in Procs, PromoteMeta(p), me[p].alone
    PROVE  Heals(p, me'[p], dir') /\ me'[p].pc # "idle"
<1>1. me[p].pc = "promoteMeta" /\ me'[p] = Goto(p, "promoteManifest")
  BY DEF PromoteMeta, At, Step
<1>2. /\ me'[p].pc = "promoteManifest" /\ Same(me'[p], me[p]) /\ SameFound(me'[p], me[p])
      /\ me'[p].target = me[p].target /\ me'[p].mine = me[p].mine
  BY <1>1, GoesOn DEF ControlPoints
<1>3. dir'.meta # None
  <2>1. dir.meta # None /\ me[p].target = head
    BY <1>1, AloneMind DEF Moved, Promoting
  <2>2. QED
    BY <2>1, AloneMind DEF PromoteMeta, SessionDirs
<1>4. Gated(me'[p], dir')
  BY <1>1, <1>2, AloneMind, FoundStill DEF Promoting, Rebasing, Writing
<1>5. Moved(me'[p], dir')
  BY <1>1, <1>2, <1>3, AloneMind
     DEF Moved, Same, SameFound, Leftover, Promoting, Rebasing, Writing
<1>6. QED
  BY <1>2, <1>4, <1>5, AloneMind DEF Heals, Healed, Same, Writing, Written

LEMMA HealPromoteManifest ==
    ASSUME TypeInv, AloneInv, NEW p \in Procs, PromoteManifest(p), me[p].alone
    PROVE  Heals(p, me'[p], dir') /\ me'[p].pc # "idle"
<1>1. /\ me[p].pc = "promoteManifest"
      /\ me'[p] = [Goto(p, "stage") EXCEPT !.mine = NoEntries]
  BY Takes DEF PromoteManifest, At
<1>2. /\ me'[p].pc = "stage" /\ Same(me'[p], me[p]) /\ SameFound(me'[p], me[p])
  <2>1. ~ me[p].stray /\ "stage" \in ControlPoints
    BY AloneMind DEF ControlPoints
  <2>2. QED
    BY <1>1, <2>1, GoesMine, Zenon
<1>3. dir'.meta = dir.meta /\ dir'.manifest = me[p].mine
  BY AloneMind DEF PromoteManifest, SessionDirs
<1>4. /\ dir.meta # None /\ me[p].stale = me[p].dirty /\ Leftover(me[p], me[p].mine)
  BY <1>1, AloneMind DEF Moved, Promoting
<1>5. Gated(me'[p], dir')
  BY <1>1, <1>2, AloneMind, FoundStill DEF Promoting, Rebasing, Writing
<1>6. Moved(me'[p], dir')
  BY <1>2, <1>3, <1>4 DEF Moved, Promoting, Rebasing, Writing
<1>7. Healed(p, me'[p], dir')
  BY <1>2, <1>3, <1>4
     DEF Healed, Same, SameFound, Leftover, Proved, Promoting, Rebasing, Writing, Written
<1>8. QED
  BY <1>2, <1>5, <1>6, <1>7, AloneMind DEF Heals, Same

LEMMA HealRebase ==
    ASSUME TypeInv, AloneInv, NEW p \in Procs, Rebase(p), me[p].alone
    PROVE  Heals(p, me'[p], dir') /\ me'[p].pc # "idle"
<1>1. PICK g \in Minds : Ahead(p, "rebaseMake", g)
  BY GoAhead DEF ControlPoints
<1> DEFINE k == [g EXCEPT !.calm = @ /\ \A o \in Others(p) : At(o, "idle")]
<1> DEFINE others(r) == [me[r] EXCEPT !.alone = FALSE, !.calm = FALSE]
<1> DEFINE known == [r \in Procs |-> IF r = p THEN k ELSE others(r)]
<1>2. Retired(known)
  BY <1>1, Zenon DEF Rebase, Ahead
<1>3. /\ k.pc = "rebaseMake" /\ Same(k, me[p]) /\ SameFound(k, me[p])
      /\ k.target = me[p].target /\ k \in Minds
  <2>1. PICK b \in BOOLEAN : k = [g EXCEPT !.calm = b]
    BY DEF Minds
  <2> HIDE DEF k
  <2>2. k.pc = g.pc /\ Same(k, g) /\ SameFound(k, g) /\ k.target = g.target /\ k \in Minds
    BY <2>1 DEF Minds, Same, SameFound
  <2>3. QED
    BY <1>1, <2>2 DEF Ahead, Same, SameFound
<1> HIDE DEF k, others
<1>4. known[p] = k
  OBVIOUS
<1> HIDE DEF known
<1>5. (me'[p] = k \/ me'[p] = [k EXCEPT !.stray = (@ \/ FALSE)]) /\ dir' = NoDir
  <2>1. PICK strays \in SUBSET {r \in Procs : known[r].pc \in LockPoints} :
          me' = [r \in Procs |-> IF known[r].pc = "idle" THEN known[r]
                                 ELSE [known[r] EXCEPT !.stray = (@ \/ r \in strays)]]
    BY <1>2 DEF Retired
  <2>2. p \notin strays
    BY <1>3, <1>4 DEF LockPoints
  <2>3. me'[p] = k \/ me'[p] = [k EXCEPT !.stray = (@ \/ p \in strays)]
    BY <1>4, <2>1
  <2>4. dir' = NoDir
    BY <1>2 DEF Retired
  <2>5. QED
    BY <2>2, <2>3, <2>4
<1>6. /\ me'[p].pc = "rebaseMake" /\ Same(me'[p], me[p]) /\ SameFound(me'[p], me[p])
      /\ me'[p].target = me[p].target
  <2>1. PICK b : b = (k.stray \/ FALSE) /\ (me'[p] = k \/ me'[p] = [k EXCEPT !.stray = b])
    BY <1>5
  <2>2. b = k.stray
    BY <1>3, <2>1 DEF Minds
  <2>3. CASE me'[p] = k
    BY <1>3, <2>3
  <2>4. CASE me'[p] = [k EXCEPT !.stray = b]
    <3>1. PICK n : n = me'[p] /\ n = [k EXCEPT !.stray = b]
      BY <2>4
    <3>2. n.pc = k.pc /\ n.stray = b /\ SameFound(n, k) /\ n.target = k.target
          /\ n.dirty = k.dirty /\ n.ok = k.ok /\ n.alone = k.alone
      BY <1>3, <3>1 DEF Minds, SameFound
    <3>3. QED
      BY <1>3, <2>2, <3>1, <3>2 DEF Same, SameFound
  <2>5. QED
    BY <2>1, <2>3, <2>4
<1>7. me[p].pc = "rebase" /\ ~ dir'.exists
  <2>1. At(p, "rebase")
    BY Zenon DEF Rebase
  <2>2. QED
    BY <1>5, <2>1 DEF At, NoDir
<1>8. Gated(me'[p], dir')
  BY <1>6, <1>7, AloneMind, FoundStill DEF Promoting, Rebasing, Writing
<1>9. Moved(me'[p], dir')
  BY <1>6, <1>7, AloneMind
     DEF Moved, Same, SameFound, Leftover, Promoting, Rebasing, Writing
<1>10. QED
  BY <1>6, <1>8, <1>9, AloneMind DEF Heals, Healed, Same, Writing, Written

LEMMA HealRebaseMake ==
    ASSUME TypeInv, AloneInv, NEW p \in Procs, RebaseMake(p), me[p].alone
    PROVE  Heals(p, me'[p], dir') /\ me'[p].pc # "idle"
<1>1. me[p].pc = "rebaseMake" /\ ~ dir.exists
  BY AloneMind DEF RebaseMake, At, Moved
<1>2. me'[p] = Goto(p, "rebaseMeta")
  BY <1>1 DEF RebaseMake, Step
<1>3. /\ me'[p].pc = "rebaseMeta" /\ Same(me'[p], me[p]) /\ SameFound(me'[p], me[p])
      /\ me'[p].target = me[p].target
  BY <1>2, GoesOn DEF ControlPoints
<1>4. Gated(me'[p], dir')
  BY <1>1, <1>3, AloneMind, FoundStill DEF Promoting, Rebasing, Writing
<1>5. Moved(me'[p], dir')
  BY <1>1, <1>3, AloneMind
     DEF Moved, Same, SameFound, Leftover, Promoting, Rebasing, Writing
<1>6. QED
  BY <1>3, <1>4, <1>5, AloneMind DEF Heals, Healed, Same, Writing, Written

LEMMA HealRebaseMeta ==
    ASSUME TypeInv, AloneInv, NEW p \in Procs, RebaseMeta(p), me[p].alone
    PROVE  Heals(p, me'[p], dir') /\ me'[p].pc # "idle"
<1>1. me[p].pc = "rebaseMeta" /\ me'[p] = Goto(p, "rebaseManifest")
  BY DEF RebaseMeta, At, Step
<1>2. /\ me'[p].pc = "rebaseManifest" /\ Same(me'[p], me[p]) /\ SameFound(me'[p], me[p])
      /\ me'[p].target = me[p].target
  BY <1>1, GoesOn DEF ControlPoints
<1>3. dir'.meta # None
  <2>1. me[p].target = head
    BY <1>1, AloneMind DEF Moved, Rebasing
  <2>2. QED
    BY <2>1, AloneMind DEF RebaseMeta, SessionDirs
<1>4. Gated(me'[p], dir')
  BY <1>1, <1>2, AloneMind, FoundStill DEF Promoting, Rebasing, Writing
<1>5. Moved(me'[p], dir')
  BY <1>1, <1>2, <1>3, AloneMind
     DEF Moved, Same, SameFound, Leftover, Promoting, Rebasing, Writing
<1>6. QED
  BY <1>2, <1>4, <1>5, AloneMind DEF Heals, Healed, Same, Writing, Written

LEMMA HealRebaseManifest ==
    ASSUME TypeInv, AloneInv, NEW p \in Procs, RebaseManifest(p), me[p].alone
    PROVE  Heals(p, me'[p], dir') /\ me'[p].pc # "idle"
<1>1. me[p].pc = "rebaseManifest" /\ me'[p] = Goto(p, "stage")
  BY Takes DEF RebaseManifest, At
<1>2. /\ me'[p].pc = "stage" /\ Same(me'[p], me[p]) /\ SameFound(me'[p], me[p])
  BY <1>1, GoesOn DEF ControlPoints
<1>3. dir'.meta = dir.meta /\ dir'.manifest = NoEntries
  BY AloneMind DEF RebaseManifest, SessionDirs
<1>4. dir.meta # None /\ me[p].stale = me[p].dirty
  BY <1>1, AloneMind DEF Moved, Rebasing
<1>5. Gated(me'[p], dir')
  BY <1>1, <1>2, AloneMind, FoundStill DEF Promoting, Rebasing, Writing
<1>6. Moved(me'[p], dir')
  BY <1>2, <1>3, <1>4 DEF Moved, Promoting, Rebasing, Writing
<1>7. Healed(p, me'[p], dir')
  <2>1. Leftover(me'[p], NoEntries)
    BY DEF Leftover, NoEntries
  <2>2. QED
    BY <1>2, <1>3, <1>4, <2>1
       DEF Healed, Same, SameFound, Proved, Promoting, Rebasing, Writing, Written
<1>8. QED
  BY <1>2, <1>5, <1>6, <1>7, AloneMind DEF Heals, Same

(* Refreshed, of a query that is alone.                                    *)
LEMMA GoesRefreshed ==
    ASSUME TypeInv, NEW p \in Procs, ~ me[p].stray, me'[p] = Refreshed(p)
    PROVE  me'[p].pc = "retire" /\ Same(me'[p], me[p]) /\ me'[p].snap = me[p].snap
<1>1. PICK g \in Minds : Ahead(p, "retire", g)
  BY GoAhead DEF ControlPoints
<1> DEFINE none == Idle.parsed
<1>2. me'[p] = [g EXCEPT !.stale = {}, !.parsed = none, !.base = None, !.target = None,
                         !.stray = FALSE]
  BY <1>1 DEF Refreshed, Ahead
<1> HIDE DEF none
<1>3. PICK k : k = me'[p] /\ k = [g EXCEPT !.stale = {}, !.parsed = none, !.base = None,
                                           !.target = None, !.stray = FALSE]
  BY <1>2
<1>4. k.pc = g.pc /\ k.dirty = g.dirty /\ k.ok = g.ok /\ k.alone = g.alone /\ k.snap = g.snap
      /\ k.stray = FALSE
  BY <1>3 DEF Minds
<1>5. g.stray = FALSE /\ me[p].stray = FALSE
  BY <1>1 DEF Ahead, Same, Minds
<1>6. QED
  BY <1>1, <1>3, <1>4, <1>5 DEF Ahead, Same, SameFound

(* A query at the end of its refresh.                                      *)
LEMMA HealedRetire ==
    ASSUME NEW p \in Procs, NEW k, NEW l, NEW d, k.pc = "retire", Same(k, l), k.snap = l.snap,
           l.ok, ~ l.stray, Leftover(l, d.manifest), Proved(l.dirty, d.manifest, d.bins)
    PROVE  Heals(p, k, d) /\ k.pc # "idle"
  BY DEF Heals, Gated, Moved, Healed, Same, Leftover, Promoting, Rebasing, Writing, Written

(* Every stale file is parsed or gone.                                     *)
LEMMA StaleSeen ==
    ASSUME TypeInv, DiskInv, NEW p \in Procs, Looked(me[p]), Parsed(me[p])
    PROVE  /\ \A q \in me[p].stale :
                 \/ /\ file[q].content = Absent /\ q \in Tombs(p)
                 \/ /\ file[q].content # Absent /\ q \in Batch(p) /\ q \notin Tombs(p)
                    /\ me[p].parsed[q] = file[q].content /\ me[p].seen[q] = file[q].stamp
           /\ \A q \in Paths \ me[p].stale : q \notin Batch(p) \cup Tombs(p)
           /\ me[p].stale \subseteq me[p].dirty /\ me[p].dirty \subseteq Paths
<1>1. me[p].stale \subseteq me[p].dirty /\ me[p].dirty \subseteq Paths
  BY DEF Looked, TypeInv, Minds
<1>2. \A q \in Paths : file[q].content \in Contents \cup {Absent}
  BY DEF TypeInv, WorkFiles
<1>3. ASSUME NEW q \in me[p].stale
      PROVE  \/ /\ file[q].content = Absent /\ q \in Tombs(p)
             \/ /\ file[q].content # Absent /\ q \in Batch(p) /\ q \notin Tombs(p)
                /\ me[p].parsed[q] = file[q].content /\ me[p].seen[q] = file[q].stamp
  <2>1. me[p].seen[q] = file[q].stamp /\ (file[q].stamp = 0 <=> file[q].content = Absent)
    BY <1>1 DEF Looked, DiskInv
  <2>2. me[p].parsed[q] = IF file[q].content # Absent THEN file[q].content ELSE None
    BY <1>1 DEF Parsed
  <2>3. QED
    BY <1>1, <1>2, <2>1, <2>2 DEF Tombs, Batch
<1>4. \A q \in Paths \ me[p].stale : q \notin Batch(p) \cup Tombs(p)
  BY DEF Parsed, Batch, Tombs
<1>5. QED
  BY <1>1, <1>3, <1>4

LEMMA NamesAre ==
    ASSUME NEW p \in Procs
    PROVE  NamesOf(me[p].parsed) = TmpNames(p)
  BY DEF NamesOf, TmpNames, TmpName, Batch

(* What a query that is about to write knows.                              *)
LEMMA WritingHeals ==
    ASSUME TypeInv, AloneInv, NEW p \in Procs, me[p].alone, me[p].pc \in Writing
    PROVE  /\ Looked(me[p]) /\ Parsed(me[p]) /\ Leftover(me[p], dir.manifest)
           /\ Proved(me[p].dirty \ me[p].stale, dir.manifest, dir.bins) /\ dir.meta # None
           /\ me[p].pc \in {"fill", "publish"} => dir.exists
  BY AloneMind DEF Gated, Moved, Healed, Writing

(* A query that goes on writing.                                           *)
LEMMA GoesWriting ==
    ASSUME TypeInv, AloneInv, NEW p \in Procs, me[p].alone, me[p].pc \in Writing,
           me'[p].pc \in {"fill", "publish"}, Same(me'[p], me[p]), SameFound(me'[p], me[p]),
           dir'.exists, dir'.meta = dir.meta, dir'.manifest = dir.manifest,
           Proved(me[p].dirty \ me[p].stale, dir.manifest, dir'.bins),
           me'[p].pc = "fill" =>
               \A n \in TmpNames(p) : dir'.tmps[n] # None /\ p \in dir'.tmps[n].writers,
           me'[p].pc = "publish" => \A n \in TmpNames(p) : dir'.tmps[n] # None /\ dir'.tmps[n].whole
    PROVE  Heals(p, me'[p], dir') /\ me'[p].pc # "idle"
<1>1. Gated(me'[p], dir')
  BY AloneMind, FoundStill DEF Writing
<1>2. Moved(me'[p], dir')
  BY WritingHeals DEF Moved, Promoting, Rebasing, Writing
<1>3. Leftover(me'[p], dir'.manifest)
  BY WritingHeals DEF Leftover, Same, SameFound
<1>4. Healed(p, me'[p], dir')
  BY <1>3, NamesAre DEF Healed, Same, SameFound, Writing, Written
<1>5. QED
  BY <1>1, <1>2, <1>4, AloneMind DEF Heals, Same

LEMMA HealStage ==
    ASSUME TypeInv, AloneInv, DiskInv, NEW p \in Procs, Stage(p), me[p].alone
    PROVE  Heals(p, me'[p], dir') /\ me'[p].pc # "idle"
<1>1. me[p].pc = "stage" /\ me[p].pc \in Writing
  <2>1. At(p, "stage")
    BY Zenon DEF Stage
  <2>2. QED
    BY <2>1 DEF At, Writing
<1>2. CASE Batch(p) = {} /\ Tombs(p) = {}
  <2>1. me'[p] = Refreshed(p)
    BY <1>2, Takes DEF Stage
  <2>2. me'[p].pc = "retire" /\ Same(me'[p], me[p]) /\ me'[p].snap = me[p].snap
    BY <2>1, AloneMind, GoesRefreshed
  <2>3. me[p].stale = {}
    BY <1>1, <1>2, StaleSeen, WritingHeals
  <2>4. dir'.manifest = dir.manifest /\ dir'.bins = dir.bins
    BY <1>2, AloneMind DEF Stage, SessionDirs
  <2>5. Proved(me[p].dirty, dir'.manifest, dir'.bins) /\ Leftover(me[p], dir'.manifest)
    BY <1>1, <2>3, <2>4, WritingHeals DEF Proved
  <2>6. QED
    BY <2>2, <2>5, AloneMind, HealedRetire
<1>3. CASE Batch(p) = {} /\ Tombs(p) # {}
  <2>1. me'[p] = Goto(p, "publish")
    BY <1>3, Takes DEF Stage
  <2>2. me'[p].pc = "publish" /\ Same(me'[p], me[p]) /\ SameFound(me'[p], me[p])
    BY <2>1, GoesOn DEF ControlPoints
  <2>3. /\ dir'.exists /\ dir'.meta = dir.meta /\ dir'.manifest = dir.manifest
        /\ dir'.bins = dir.bins
    BY <1>3, AloneMind DEF Stage, SessionDirs
  <2>4. TmpNames(p) = {}
    BY <1>3 DEF TmpNames
  <2>5. QED
    BY <1>1, <2>2, <2>3, <2>4, GoesWriting, WritingHeals
<1>4. CASE Batch(p) # {}
  <2>1. PICK g \in Minds : Ahead(p, "fill", g)
    BY GoAhead DEF ControlPoints
  <2>2. me'[p].pc = "fill" /\ Same(me'[p], me[p]) /\ SameFound(me'[p], me[p])
    <3> DEFINE k == [g EXCEPT !.calm = @ /\ ~Collides(p)]
    <3> DEFINE others(r) == [me[r] EXCEPT !.alone = FALSE, !.calm = @ /\ ~Collides(p)]
    <3>1. me' = [r \in Procs |-> IF r = p THEN k ELSE others(r)]
      BY <1>4, <2>1, Zenon DEF Stage, Ahead
    <3>2. PICK b \in BOOLEAN : k = [g EXCEPT !.calm = b]
      BY DEF Minds
    <3> HIDE DEF k, others
    <3>3. k.pc = g.pc /\ Same(k, g) /\ SameFound(k, g)
      BY <3>2 DEF Minds, Same, SameFound
    <3>4. me'[p] = k
      BY <3>1
    <3>5. QED
      BY <2>1, <3>3, <3>4 DEF Ahead, Same, SameFound
  <2> DEFINE opened(f) == [whole |-> FALSE, settled |-> FALSE,
                           writers |-> {p} \cup IF f = None THEN {} ELSE f.writers]
  <2> DEFINE tmps == [n \in FileNames |->
                         IF n \notin TmpNames(p) THEN dir.tmps[n] ELSE opened(dir.tmps[n])]
  <2>3. dir' = [dir EXCEPT !.exists = TRUE, !.fragments = TRUE, !.tmps = tmps]
    BY <1>4, Zenon DEF Stage
  <2>4. ASSUME NEW n \in TmpNames(p)
        PROVE  tmps[n] # None /\ p \in tmps[n].writers
    <3>1. n \in FileNames
      BY TmpType DEF TmpNames
    <3>2. dir.tmps[n] \in Maybe(Files)
      BY <3>1, AloneMind DEF SessionDirs
    <3>3. ASSUME NEW f \in Maybe(Files) PROVE opened(f) \in Files /\ p \in opened(f).writers
      BY DEF Maybe, Files
    <3>4. tmps[n] = opened(dir.tmps[n])
      BY <3>1
    <3> HIDE DEF opened, tmps
    <3>5. QED
      BY <3>2, <3>3, <3>4, NothingAssumption
  <2> HIDE DEF opened, tmps
  <2>5. /\ dir'.exists /\ dir'.meta = dir.meta /\ dir'.manifest = dir.manifest
        /\ dir'.bins = dir.bins /\ dir'.tmps = tmps
    BY <2>3, AloneMind DEF SessionDirs
  <2>6. QED
    BY <1>1, <2>2, <2>4, <2>5, GoesWriting, WritingHeals
<1>5. QED
  BY <1>2, <1>3, <1>4

(* What proves a file goes on to, while the bins only get better.          *)
LEMMA StillProved ==
    ASSUME NEW m \in Manifests, NEW Q \in SUBSET Paths, NEW bs, NEW cs, Proved(Q, m, bs),
           \A c \in Contents : Valid(c, bs) => Valid(c, cs)
    PROVE  Proved(Q, m, cs)
<1>1. \A q \in Paths : m[q] \notin {None, Tombstone} => m[q].content \in Contents
  BY DEF Manifests, Entries
<1>2. QED
  BY <1>1 DEF Proved, Proves

LEMMA HealFill ==
    ASSUME TypeInv, AloneInv, NEW p \in Procs, Fill(p), me[p].alone
    PROVE  Heals(p, me'[p], dir') /\ me'[p].pc # "idle"
<1>1. me[p].pc = "fill" /\ me[p].pc \in Writing
  BY DEF Fill, At, Writing
<1>2. \A n \in TmpNames(p) : dir.tmps[n] # None /\ p \in dir.tmps[n].writers
  BY <1>1, AloneMind, NamesAre DEF Healed
<1>3. me'[p] = Goto(p, "publish")
  BY <1>2, Takes DEF Fill
<1>4. me'[p].pc = "publish" /\ Same(me'[p], me[p]) /\ SameFound(me'[p], me[p])
  BY <1>3, GoesOn DEF ControlPoints
<1> DEFINE tmps == [n \in FileNames |-> WroteTo(dir.tmps[n], p)]
<1> DEFINE bins == [c \in Contents |-> WroteTo(dir.bins[c], p)]
<1>5. dir' = [dir EXCEPT !.tmps = tmps, !.bins = bins]
  BY DEF Fill
<1>6. ASSUME NEW f \in Files
      PROVE  /\ WroteTo(f, p) # None /\ (f.whole => WroteTo(f, p).whole)
             /\ p \in f.writers => WroteTo(f, p).whole
  <2>1. f # None
    BY NothingAssumption
  <2>2. [f EXCEPT !.whole = TRUE, !.writers = @ \ {p}] \in Files
        /\ [f EXCEPT !.whole = TRUE, !.writers = @ \ {p}].whole
    BY DEF Files
  <2>3. QED
    BY <2>1, <2>2, NothingAssumption DEF WroteTo
<1>7. \A n \in TmpNames(p) : tmps[n] # None /\ tmps[n].whole
  <2>1. \A n \in TmpNames(p) : n \in FileNames
    BY TmpType DEF TmpNames
  <2>2. \A n \in TmpNames(p) : dir.tmps[n] \in Files
    BY <1>2, <2>1, AloneMind DEF SessionDirs, Maybe
  <2>3. QED
    BY <1>2, <1>6, <2>1, <2>2
<1>8. \A c \in Contents : Valid(c, dir.bins) => Valid(c, bins)
  <2>1. \A c \in Contents : Valid(c, dir.bins) => dir.bins[c] \in Files
    BY AloneMind DEF SessionDirs, Maybe, Valid
  <2>2. QED
    BY <1>6, <2>1 DEF Valid
<1> HIDE DEF tmps, bins
<1>9. /\ dir'.exists = dir.exists /\ dir'.meta = dir.meta /\ dir'.manifest = dir.manifest
      /\ dir'.bins = bins /\ dir'.tmps = tmps
  BY <1>5, AloneMind DEF SessionDirs
<1>10. Proved(me[p].dirty \ me[p].stale, dir.manifest, bins)
  <2>1. dir.manifest \in Manifests /\ me[p].dirty \ me[p].stale \in SUBSET Paths
    BY AloneMind DEF SessionDirs, Minds
  <2>2. QED
    BY <1>1, <1>8, <2>1, StillProved, WritingHeals
<1>11. QED
  BY <1>1, <1>4, <1>7, <1>9, <1>10, GoesWriting, WritingHeals

LEMMA HealPublish ==
    ASSUME TypeInv, AloneInv, DiskInv, NEW p \in Procs, Publish(p), me[p].alone
    PROVE  Heals(p, me'[p], dir') /\ me'[p].pc # "idle"
<1>1. me[p].pc = "publish" /\ me[p].pc \in Writing
  <2>1. At(p, "publish")
    BY Zenon DEF Publish
  <2>2. QED
    BY <2>1 DEF At, Writing
<1>2. \A n \in TmpNames(p) : dir.tmps[n] # None /\ dir.tmps[n].whole
  BY <1>1, AloneMind, NamesAre DEF Healed
<1> DEFINE landed == {q \in Batch(p) : \A r \in Batch(p) : r <= q => dir.tmps[TmpName(p, r)] # None}
<1> DEFINE of(c) == {q \in landed : me[p].parsed[q] = c}
<1> DEFINE bins == [c \in Contents |->
                       IF of(c) = {} THEN dir.bins[c] ELSE dir.tmps[TmpName(p, Max(of(c)))]]
<1> DEFINE tmps == [n \in FileNames |->
                       IF \E q \in landed : n = TmpName(p, q) THEN None ELSE dir.tmps[n]]
<1>3. landed = Batch(p)
  BY <1>2 DEF TmpNames
<1>4. dir' = [dir EXCEPT !.bins = bins, !.tmps = tmps]
  BY Zenon DEF Publish
<1>5. me'[p] = Looking(p, "commit")
  <2>1. Step(p, Looking(p, "commit"))
    BY <1>3, Zenon DEF Publish, Looking
  <2>2. QED
    BY <2>1, Takes
<1>6. \A c \in Contents : of(c) # {} => Valid(c, bins)
  <2>1. ASSUME NEW c \in Contents, of(c) # {} PROVE Valid(c, bins)
    <3>1. of(c) \in SUBSET Nat /\ IsFiniteSet(of(c))
      BY FS_Subset DEF Batch
    <3>2. Max(of(c)) \in of(c)
      BY <2>1, <3>1, MaxMember
    <3>3. TmpName(p, Max(of(c))) \in TmpNames(p)
      BY <1>3, <3>2 DEF TmpNames
    <3>4. bins[c] = dir.tmps[TmpName(p, Max(of(c)))]
      BY <2>1
    <3>5. QED
      BY <1>2, <3>3, <3>4 DEF Valid
  <2>2. QED
    BY <2>1
<1>7. \A c \in Contents : Valid(c, dir.bins) => Valid(c, bins)
  <2>1. ASSUME NEW c \in Contents, Valid(c, dir.bins), of(c) = {} PROVE Valid(c, bins)
    BY <2>1 DEF Valid
  <2>2. QED
    BY <1>6, <2>1
<1>8. \A q \in Paths : me[p].parsed[q] # None => Valid(me[p].parsed[q], bins)
  <2>1. ASSUME NEW q \in Paths, me[p].parsed[q] # None PROVE Valid(me[p].parsed[q], bins)
    <3>1. me[p].parsed[q] \in Contents
      BY <2>1, AloneMind DEF Minds, Maybe
    <3>2. q \in of(me[p].parsed[q])
      BY <1>3, <2>1 DEF Batch
    <3>3. QED
      BY <1>6, <3>1, <3>2
  <2>2. QED
    BY <2>1
<1> HIDE DEF landed, of, bins, tmps
<1>9. /\ me'[p].pc = "commit" /\ Same(me'[p], me[p]) /\ SameFound(me'[p], me[p])
      /\ me'[p].mine = dir.manifest
  <2>1. ~ me[p].stray /\ "commit" \in ControlPoints
    BY AloneMind DEF ControlPoints
  <2>2. QED
    BY <1>5, <2>1, GoesLocked
<1>10. dir'.meta = dir.meta /\ dir'.manifest = dir.manifest /\ dir'.bins = bins
  BY <1>4, AloneMind DEF SessionDirs
<1>11. Proved(me[p].dirty \ me[p].stale, dir.manifest, bins)
  <2>1. dir.manifest \in Manifests /\ me[p].dirty \ me[p].stale \in SUBSET Paths
    BY AloneMind DEF SessionDirs, Minds
  <2>2. QED
    BY <1>1, <1>7, <2>1, StillProved, WritingHeals
<1>12. Gated(me'[p], dir')
  BY <1>1, <1>9, AloneMind, FoundStill DEF Writing
<1>13. Moved(me'[p], dir')
  BY <1>1, <1>9, <1>10, WritingHeals DEF Moved, Promoting, Rebasing, Writing
<1>14. Leftover(me'[p], dir'.manifest)
  BY <1>1, <1>9, <1>10, WritingHeals DEF Leftover, Same, SameFound
<1>15. Healed(p, me'[p], dir')
  BY <1>8, <1>9, <1>10, <1>11, <1>14 DEF Healed, Same, SameFound, Writing, Written
<1>16. QED
  BY <1>9, <1>12, <1>13, <1>15, AloneMind DEF Heals, Same

LEMMA HealPublishNoDir ==
    ASSUME TypeInv, AloneInv, NEW p \in Procs, PublishNoDir(p), me[p].alone
    PROVE  FALSE
<1>1. me[p].pc = "publish" /\ me[p].pc \in Writing
  BY DEF PublishNoDir, At, Writing
<1>2. QED
  BY <1>1, AloneMind, WritingHeals DEF PublishNoDir, LockGone

LEMMA HealCommit ==
    ASSUME TypeInv, AloneInv, DiskInv, NEW p \in Procs, Commit(p), me[p].alone
    PROVE  Heals(p, me'[p], dir') /\ me'[p].pc # "idle"
<1>1. me[p].pc = "commit" /\ me[p].pc \in Writing
  BY DEF Commit, At, Writing
<1>2. me'[p] = [Goto(p, "touch") EXCEPT !.mine = NoEntries]
  BY DEF Commit
<1>3. me'[p].pc = "touch" /\ Same(me'[p], me[p]) /\ SameFound(me'[p], me[p])
  <2>1. ~ me[p].stray /\ "touch" \in ControlPoints
    BY AloneMind DEF ControlPoints
  <2>2. QED
    BY <1>2, <2>1, GoesMine, Zenon
<1> DEFINE written == [q \in Paths |-> NewEntry(p, q)]
<1>4. dir'.manifest = written /\ dir'.meta = dir.meta /\ dir'.bins = dir.bins
  BY AloneMind DEF Commit, SessionDirs
<1>5. /\ me[p].mine = dir.manifest
      /\ \A q \in Paths : me[p].parsed[q] # None => Valid(me[p].parsed[q], dir.bins)
  BY <1>1, AloneMind DEF Healed, Writing
<1>6. \A q \in Paths \ me[p].stale : written[q] = dir.manifest[q]
  BY <1>1, <1>5, StaleSeen, WritingHeals DEF NewEntry
<1>7. ASSUME NEW q \in me[p].stale
      PROVE  Proves(written[q], file[q], dir.bins)
  <2>0. q \in Paths
    BY <1>1, StaleSeen, WritingHeals
  <2>1. CASE file[q].content = Absent
    BY <1>1, <2>0, <2>1, StaleSeen, WritingHeals DEF NewEntry, Proves
  <2>2. CASE file[q].content # Absent
    <3>1. /\ q \in Batch(p) /\ q \notin Tombs(p)
          /\ me[p].parsed[q] = file[q].content /\ me[p].seen[q] = file[q].stamp
      BY <1>1, <2>2, StaleSeen, WritingHeals
    <3>2. written[q] = [stamp |-> file[q].stamp, content |-> file[q].content]
      BY <2>0, <3>1 DEF NewEntry, StampOf
    <3>3. Valid(file[q].content, dir.bins)
      BY <1>5, <2>0, <3>1 DEF Batch
    <3>4. file[q].stamp \in Stamps /\ file[q].content \in Contents
      BY <2>0, <2>2 DEF TypeInv, WorkFiles
    <3>5. written[q] \in [stamp : Stamps, content : Contents]
      BY <3>2, <3>4
    <3>6. written[q] \notin {None, Tombstone}
      BY <3>5, NothingAssumption
    <3>7. written[q].stamp = file[q].stamp /\ written[q].content = file[q].content
      BY <3>2
    <3> HIDE DEF written
    <3>8. QED
      BY <2>2, <3>3, <3>6, <3>7 DEF Proves
  <2>3. QED
    BY <2>1, <2>2
<1> HIDE DEF written
<1>8. me[p].stale \subseteq me[p].dirty /\ me[p].dirty \subseteq Paths
  BY <1>1, StaleSeen, WritingHeals
<1>9. Proved(me[p].dirty, written, dir.bins)
  BY <1>1, <1>6, <1>7, <1>8, WritingHeals DEF Proved
<1>10. Leftover(me[p], written)
  BY <1>1, <1>6, <1>8, WritingHeals DEF Leftover
<1>11. dir.meta # None
  BY <1>1, WritingHeals
<1>12. Healed(p, me'[p], dir')
  BY <1>3, <1>4, <1>9, <1>10 DEF Healed, Leftover, Same, SameFound, Writing, Written
<1>13. QED
  BY <1>3, <1>4, <1>11, <1>12, AloneMind
     DEF Heals, Gated, Moved, Same, Promoting, Rebasing, Writing

(* What a query past its refresh knows.                                    *)
LEMMA WrittenHeals ==
    ASSUME TypeInv, AloneInv, NEW p \in Procs, me[p].alone,
           me[p].pc \in {"touch", "touched", "retire", "retireWrite"}
    PROVE  /\ Leftover(me[p], dir.manifest) /\ Proved(me[p].dirty, dir.manifest, dir.bins)
           /\ me[p].pc = "touch" => dir.meta # None
           /\ me[p].pc = "retireWrite" => me[p].mine = dir.manifest
  BY AloneMind DEF Moved, Healed, Written

LEMMA HealTouch ==
    ASSUME TypeInv, AloneInv, NEW p \in Procs, Touch(p), me[p].alone
    PROVE  Heals(p, me'[p], dir') /\ me'[p].pc # "idle"
<1>1. me[p].pc = "touch" /\ dir' = dir
  BY DEF Touch, At
<1>2. me'[p] = [Goto(p, "touched") EXCEPT !.target = dir.meta]
  BY <1>1, Takes, WrittenHeals DEF Touch
<1>3. PICK g \in Minds : Ahead(p, "touched", g)
  BY GoAhead DEF ControlPoints
<1>4. PICK k : k = me'[p] /\ k = [g EXCEPT !.target = dir.meta]
  BY <1>2, <1>3 DEF Ahead
<1>5. k.pc = g.pc /\ Same(k, g) /\ SameFound(k, g)
  BY <1>4 DEF Minds, Same, SameFound
<1>6. me'[p].pc = "touched" /\ Same(me'[p], me[p]) /\ me'[p].snap = me[p].snap
  BY <1>3, <1>4, <1>5 DEF Ahead, Same, SameFound
<1>7. QED
  BY <1>1, <1>6, AloneMind, WrittenHeals
     DEF Heals, Gated, Moved, Healed, Leftover, Same, Promoting, Rebasing, Writing, Written

LEMMA HealTouchWrite ==
    ASSUME TypeInv, AloneInv, NEW p \in Procs, TouchWrite(p), me[p].alone
    PROVE  Heals(p, me'[p], dir') /\ me'[p].pc # "idle"
<1>1. me[p].pc = "touched" /\ me'[p] = Refreshed(p)
  BY Takes DEF TouchWrite, At
<1>2. me'[p].pc = "retire" /\ Same(me'[p], me[p]) /\ me'[p].snap = me[p].snap
  BY <1>1, AloneMind, GoesRefreshed
<1>3. dir'.manifest = dir.manifest /\ dir'.bins = dir.bins
  BY AloneMind DEF TouchWrite, SessionDirs
<1>4. QED
  BY <1>1, <1>2, <1>3, AloneMind, HealedRetire, WrittenHeals

(* A query that has only its answer left.                                  *)
LEMMA HealedRead ==
    ASSUME NEW p \in Procs, NEW k, NEW l, NEW d, k.pc = "read", Same(k, l), l.ok, ~ l.stray,
           \A q \in Paths \ l.dirty : d.manifest[q] = None, Proved(l.dirty, d.manifest, d.bins)
    PROVE  Heals(p, k, d) /\ k.pc # "idle"
  BY DEF Heals, Gated, Moved, Healed, Same, Promoting, Rebasing, Writing, Written

LEMMA HealRetireNothing ==
    ASSUME TypeInv, AloneInv, DiskInv, NEW p \in Procs, RetireNothing(p), me[p].alone
    PROVE  Heals(p, me'[p], dir') /\ me'[p].pc # "idle"
<1>1. me[p].pc = "retire" /\ dir' = dir /\ me'[p] = Goto(p, "read")
  BY Takes DEF RetireNothing, At
<1>2. me'[p].pc = "read" /\ Same(me'[p], me[p])
  BY <1>1, GoesOn DEF ControlPoints
<1>3. \A q \in Paths \ me[p].dirty : dir.manifest[q] = None
  <2>1. CASE Unclaimed(p) = {}
    BY <1>1, <2>1, WrittenHeals DEF Unclaimed, Leftover
  <2>2. CASE LockGone(p)
    BY <2>2 DEF LockGone, DiskInv, NoEntries
  <2>3. QED
    BY <2>1, <2>2 DEF RetireNothing
<1>4. QED
  BY <1>1, <1>2, <1>3, AloneMind, HealedRead, WrittenHeals

LEMMA HealRetire ==
    ASSUME TypeInv, AloneInv, NEW p \in Procs, Retire(p), me[p].alone
    PROVE  Heals(p, me'[p], dir') /\ me'[p].pc # "idle"
<1>1. me[p].pc = "retire" /\ dir' = dir
  <2>1. At(p, "retire") /\ dir' = dir
    BY DEF Retire
  <2>2. QED
    BY <2>1 DEF At
<1>2. CASE Stale(p, dir.manifest) = {}
  <2>1. me'[p] = [Goto(p, "read") EXCEPT !.stray = FALSE]
    BY <1>2, Takes DEF Retire
  <2>2. PICK g \in Minds : Ahead(p, "read", g)
    BY GoAhead DEF ControlPoints
  <2>3. PICK k : k = me'[p] /\ k = [g EXCEPT !.stray = FALSE]
    BY <2>1, <2>2 DEF Ahead
  <2>4. /\ k.pc = g.pc /\ k.dirty = g.dirty /\ k.ok = g.ok /\ k.alone = g.alone
        /\ k.stray = FALSE /\ g.stray \in BOOLEAN
    BY <2>3 DEF Minds
  <2>5. me'[p].pc = "read" /\ Same(me'[p], me[p])
    BY <2>2, <2>3, <2>4, AloneMind DEF Ahead, Same
  <2>6. \A q \in Paths \ me[p].dirty : dir.manifest[q] = None
    BY <1>1, <1>2, WrittenHeals DEF Leftover, Stale, Unclaimed
  <2>7. QED
    BY <1>1, <2>5, <2>6, AloneMind, HealedRead, WrittenHeals
<1>3. CASE Stale(p, dir.manifest) # {}
  <2>1. me'[p] = Looking(p, "retireWrite")
    BY <1>3, Takes DEF Retire, Looking
  <2>2. /\ me'[p].pc = "retireWrite" /\ Same(me'[p], me[p]) /\ SameFound(me'[p], me[p])
        /\ me'[p].mine = dir.manifest
    <3>1. ~ me[p].stray /\ "retireWrite" \in ControlPoints
      BY AloneMind DEF ControlPoints
    <3>2. QED
      BY <2>1, <3>1, GoesLocked
  <2>3. QED
    BY <1>1, <2>2, AloneMind, WrittenHeals
       DEF Heals, Gated, Moved, Healed, Leftover, Same, SameFound,
           Promoting, Rebasing, Writing, Written
<1>4. QED
  BY <1>2, <1>3

LEMMA HealRetireWrite ==
    ASSUME TypeInv, AloneInv, NEW p \in Procs, RetireWrite(p), me[p].alone
    PROVE  Heals(p, me'[p], dir') /\ me'[p].pc # "idle"
<1> DEFINE kept == [q \in Paths |-> IF q \in Stale(p, me[p].mine) THEN None ELSE me[p].mine[q]]
<1>1. me[p].pc = "retireWrite" /\ me'[p] = [Goto(p, "read") EXCEPT !.mine = NoEntries]
  BY Takes DEF RetireWrite, At
<1>2. me'[p].pc = "read" /\ Same(me'[p], me[p])
  <2>1. ~ me[p].stray /\ "read" \in ControlPoints
    BY AloneMind DEF ControlPoints
  <2>2. QED
    BY <1>1, <2>1, GoesMine, Zenon
<1>3. dir'.manifest = kept /\ dir'.bins = dir.bins
  BY AloneMind DEF RetireWrite, SessionDirs
<1>4. /\ Leftover(me[p], dir.manifest) /\ Proved(me[p].dirty, dir.manifest, dir.bins)
      /\ me[p].mine = dir.manifest /\ me[p].dirty \subseteq Paths
  BY <1>1, AloneMind, WrittenHeals DEF Minds
<1>5. \A q \in Paths \ me[p].dirty : kept[q] = None
  BY <1>4 DEF Leftover, Stale, Unclaimed
<1>6. Proved(me[p].dirty, kept, dir.bins)
  BY <1>4 DEF Proved, Stale, Unclaimed
<1> HIDE DEF kept
<1>7. QED
  BY <1>2, <1>3, <1>5, <1>6, AloneMind, HealedRead

LEMMA HealRead ==
    ASSUME TypeInv, AloneInv, NEW p \in Procs, Read(p), me[p].alone
    PROVE  Heals(p, me'[p], dir') /\ me'[p].pc # "idle"
<1>1. me[p].pc = "read" /\ dir' = dir /\ me'[p] = [Goto(p, "serve") EXCEPT !.snap = dir.manifest]
  BY Takes DEF Read, At
<1>2. PICK g \in Minds : Ahead(p, "serve", g)
  BY GoAhead DEF ControlPoints
<1>3. PICK k : k = me'[p] /\ k = [g EXCEPT !.snap = dir.manifest]
  BY <1>1, <1>2 DEF Ahead
<1>4. k.pc = g.pc /\ Same(k, g) /\ k.snap = dir.manifest
  BY <1>3 DEF Minds, Same
<1>5. me'[p].pc = "serve" /\ Same(me'[p], me[p]) /\ me'[p].snap = dir.manifest
  BY <1>2, <1>3, <1>4 DEF Ahead, Same
<1>6. /\ Proved(me[p].dirty, dir.manifest, dir.bins)
      /\ \A q \in Paths \ me[p].dirty : dir.manifest[q] = None
  BY <1>1, AloneMind DEF Healed, Written
<1>7. /\ Proved(me'[p].dirty, me'[p].snap, dir'.bins)
      /\ \A q \in Paths \ me'[p].dirty : me'[p].snap[q] = None
  BY <1>1, <1>5, <1>6 DEF Same
<1>8. Gated(me'[p], dir') /\ Moved(me'[p], dir')
  BY <1>5 DEF Gated, Moved, Promoting, Rebasing, Writing
<1>9. Healed(p, me'[p], dir')
  BY <1>5, <1>7 DEF Healed, Writing, Written
<1>10. QED
  BY <1>5, <1>8, <1>9, AloneMind DEF Heals, Same

-----------------------------------------------------------------------------
(* Who is alone.                                                           *)

(* Nobody but p is alone after its step, and p only if it was before.      *)
Carries(p) == me'[p].alone => me[p].alone
OthersQuiet(p) == \A r \in Procs \ {p} : ~ me'[r].alone

LEMMA Quiet ==
    ASSUME TypeInv, NEW p \in Procs, NEW k, Step(p, k) \/ Disturb(p, k)
    PROVE  OthersQuiet(p)
<1>1. \A l \in Minds : /\ ~ [l EXCEPT !.alone = FALSE].alone
                       /\ ~ [l EXCEPT !.alone = FALSE, !.calm = FALSE].alone
  BY DEF Minds
<1>2. \A r \in Procs : me[r] \in Minds
  BY DEF TypeInv
<1>3. ASSUME Step(p, k) PROVE OthersQuiet(p)
  <2> DEFINE other(r) == [me[r] EXCEPT !.alone = FALSE]
  <2>1. me' = [r \in Procs |-> IF r = p THEN k ELSE other(r)]
    BY <1>3, Zenon DEF Step
  <2>2. \A r \in Procs : ~ other(r).alone
    BY <1>1, <1>2
  <2> HIDE DEF other
  <2>3. QED
    BY <2>1, <2>2 DEF OthersQuiet
<1>4. ASSUME Disturb(p, k) PROVE OthersQuiet(p)
  <2> DEFINE other(r) == [me[r] EXCEPT !.alone = FALSE, !.calm = FALSE]
  <2>1. me' = [r \in Procs |-> IF r = p THEN k ELSE other(r)]
    BY <1>4, Zenon DEF Disturb
  <2>2. \A r \in Procs : ~ other(r).alone
    BY <1>1, <1>2
  <2> HIDE DEF other
  <2>3. QED
    BY <2>1, <2>2 DEF OthersQuiet
<1>5. QED
  BY <1>3, <1>4

(* No field a step of p sets, but Idle, makes it alone.                    *)
LEMMA AloneStays ==
    ASSUME TypeInv, NEW p \in Procs, NEW there, NEW a, NEW b, NEW c, NEW d, NEW e
    PROVE  /\ Goto(p, there).alone = me[p].alone
           /\ [Goto(p, there) EXCEPT !.target = a].alone = me[p].alone
           /\ [Goto(p, there) EXCEPT !.snap = a].alone = me[p].alone
           /\ [Goto(p, there) EXCEPT !.dirty = a].alone = me[p].alone
           /\ [Goto(p, there) EXCEPT !.stale = a, !.base = b, !.seen = c].alone = me[p].alone
           /\ [Goto(p, there) EXCEPT !.parsed = a].alone = me[p].alone
           /\ [Goto(p, there) EXCEPT !.stray = a, !.mine = b].alone = me[p].alone
           /\ [Goto(p, there) EXCEPT !.mine = a].alone = me[p].alone
           /\ [Goto(p, there) EXCEPT !.stray = a].alone = me[p].alone
           /\ [Goto(p, there) EXCEPT !.calm = a].alone = me[p].alone
           /\ [Goto(p, there) EXCEPT !.stale = a, !.parsed = b, !.base = c, !.target = d,
                                     !.stray = e].alone = me[p].alone
<1>1. PICK l \in Minds : l = me[p]
  BY DEF TypeInv
<1>2. PICK g : g = [l EXCEPT !.pc = there]
  OBVIOUS
<1>3. g.alone = l.alone /\ DOMAIN g = DOMAIN l /\ "alone" \in DOMAIN l
  BY <1>2 DEF Minds
<1>4. g = Goto(p, there)
  BY <1>1, <1>2 DEF Goto
<1>5. [g EXCEPT !.target = a].alone = l.alone
  BY <1>2 DEF Minds
<1>6. [g EXCEPT !.snap = a].alone = l.alone
  BY <1>2 DEF Minds
<1>7. [g EXCEPT !.dirty = a].alone = l.alone
  BY <1>2 DEF Minds
<1>8. [g EXCEPT !.stale = a, !.base = b, !.seen = c].alone = l.alone
  BY <1>2 DEF Minds
<1>9. [g EXCEPT !.parsed = a].alone = l.alone
  BY <1>2 DEF Minds
<1>10. [g EXCEPT !.stray = a, !.mine = b].alone = l.alone
  BY <1>2 DEF Minds
<1>11. [g EXCEPT !.mine = a].alone = l.alone
  BY <1>2 DEF Minds
<1>12. [g EXCEPT !.stray = a].alone = l.alone
  BY <1>2 DEF Minds
<1>13. [g EXCEPT !.calm = a].alone = l.alone
  BY <1>2 DEF Minds
<1>14. [g EXCEPT !.stale = a, !.parsed = b, !.base = c, !.target = d, !.stray = e].alone = l.alone
  BY <1>2 DEF Minds
<1>15. QED
  BY <1>1, <1>3, <1>4, <1>5, <1>6, <1>7, <1>8, <1>9, <1>10, <1>11, <1>12, <1>13, <1>14

LEMMA AloneEnds ==
    ASSUME TypeInv, NEW p \in Procs
    PROVE  Refreshed(p).alone = me[p].alone /\ WriteFailed(p).alone = me[p].alone
<1>1. Refreshed(p).alone = me[p].alone
  BY AloneStays DEF Refreshed
<1>2. PICK l \in Minds : l = me[p]
  BY DEF TypeInv
<1>3. PICK k : k = Refreshed(p)
  OBVIOUS
<1>4. DOMAIN k = DOMAIN l /\ "alone" \in DOMAIN l
  BY <1>2, <1>3 DEF Refreshed, Goto, Minds
<1>5. [k EXCEPT !.ok = FALSE].alone = k.alone
  BY <1>2, <1>3, <1>4 DEF Minds
<1>6. QED
  BY <1>1, <1>3, <1>5 DEF WriteFailed

LEMMA Carried ==
    ASSUME TypeInv, NEW p \in Procs, NEW k, Step(p, k) \/ Disturb(p, k),
           k.alone => me[p].alone
    PROVE  Carries(p) /\ OthersQuiet(p)
  BY Takes, Quiet DEF Carries

LEMMA CarriesCommit ==
    ASSUME TypeInv, NEW p \in Procs, Commit(p)
    PROVE  Carries(p) /\ OthersQuiet(p)
<1>1. PICK g \in Minds : Onward(p, "touch", g)
  BY GoingOn DEF ControlPoints
<1>2. PICK k : k = [Goto(p, "touch") EXCEPT !.mine = NoEntries]
  OBVIOUS
<1>3. k.alone = me[p].alone
  BY <1>2, AloneStays
<1>4. me'[p] = k
  BY <1>2 DEF Commit
<1>5. ASSUME NEW r \in Procs \ {p} PROVE ~ me'[r].alone
  <2>1. me[r] \in Minds /\ me'[r] = Overtaken(p, me[r])
    BY <1>1, CommitMinds DEF TypeInv
  <2>2. QED
    BY <2>1, OvertakenMind
<1>6. QED
  BY <1>3, <1>4, <1>5 DEF Carries, OthersQuiet

(* A step of p that goes on is alone only if p was.                        *)
LEMMA CarriesOn ==
    ASSUME TypeInv, NEW p \in Procs, Query(p), ~ Begin(p), ~ Rebase(p), ~ Stage(p)
    PROVE  Carries(p) /\ OthersQuiet(p)
<1>1. Idle.alone = FALSE
  BY DEF Idle
<1>2. ASSUME Beat(p) PROVE Carries(p) /\ OthersQuiet(p)
  <2>1. PICK there, a : Step(p, [Goto(p, there) EXCEPT !.target = a])
    BY <1>2 DEF Beat
  <2>2. PICK k : k = [Goto(p, there) EXCEPT !.target = a]
    OBVIOUS
  <2>3. k.alone = me[p].alone
    BY <2>2, AloneStays
  <2>4. QED
    BY <2>1, <2>2, <2>3, Carried
<1>3. ASSUME Snapshot(p) PROVE Carries(p) /\ OthersQuiet(p)
  <2>1. PICK there, a : Step(p, [Goto(p, there) EXCEPT !.snap = a])
    BY <1>3 DEF Snapshot
  <2>2. PICK k : k = [Goto(p, there) EXCEPT !.snap = a]
    OBVIOUS
  <2>3. k.alone = me[p].alone
    BY <2>2, AloneStays
  <2>4. QED
    BY <2>1, <2>2, <2>3, Carried
<1>4. ASSUME Probe(p) PROVE Carries(p) /\ OthersQuiet(p)
  <2>1. PICK there, a : Step(p, [Goto(p, there) EXCEPT !.dirty = a])
    BY <1>4 DEF Probe
  <2>2. PICK k : k = [Goto(p, there) EXCEPT !.dirty = a]
    OBVIOUS
  <2>3. k.alone = me[p].alone
    BY <2>2, AloneStays
  <2>4. QED
    BY <2>1, <2>2, <2>3, Carried
<1>5. ASSUME Gate(p) PROVE Carries(p) /\ OthersQuiet(p)
  <2>1. PICK there, a, b, c : Step(p, [Goto(p, there) EXCEPT !.stale = a, !.base = b, !.seen = c])
    BY <1>5, Zenon DEF Gate
  <2>2. PICK k : k = [Goto(p, there) EXCEPT !.stale = a, !.base = b, !.seen = c]
    OBVIOUS
  <2>3. k.alone = me[p].alone
    BY <2>2, AloneStays
  <2>4. QED
    BY <2>1, <2>2, <2>3, Carried
<1>6. ASSUME Parse(p) PROVE Carries(p) /\ OthersQuiet(p)
  <2>1. PICK there, a : Step(p, [Goto(p, there) EXCEPT !.parsed = a])
    BY <1>6 DEF Parse
  <2>2. PICK k : k = [Goto(p, there) EXCEPT !.parsed = a]
    OBVIOUS
  <2>3. k.alone = me[p].alone
    BY <2>2, AloneStays
  <2>4. QED
    BY <2>1, <2>2, <2>3, Carried
<1>7. ASSUME Decide(p) PROVE Carries(p) /\ OthersQuiet(p)
  <2>1. PICK there, a : Step(p, [Goto(p, there) EXCEPT !.target = a])
    BY <1>7 DEF Decide
  <2>2. PICK k : k = [Goto(p, there) EXCEPT !.target = a]
    OBVIOUS
  <2>3. k.alone = me[p].alone
    BY <2>2, AloneStays
  <2>4. QED
    BY <2>1, <2>2, <2>3, Carried
<1>8. ASSUME Promote(p) PROVE Carries(p) /\ OthersQuiet(p)
  <2>1. PICK there, a, b : Disturb(p, [Goto(p, there) EXCEPT !.stray = a, !.mine = b])
    BY <1>8, Zenon DEF Promote
  <2>2. PICK k : k = [Goto(p, there) EXCEPT !.stray = a, !.mine = b]
    OBVIOUS
  <2>3. k.alone = me[p].alone
    BY <2>2, AloneStays
  <2>4. QED
    BY <2>1, <2>2, <2>3, Carried
<1>9. ASSUME PromoteNoDir(p) PROVE Carries(p) /\ OthersQuiet(p)
  BY <1>1, <1>9, Carried DEF PromoteNoDir, Fail
<1>10. ASSUME PromoteMeta(p) PROVE Carries(p) /\ OthersQuiet(p)
  BY <1>10, AloneStays, Carried DEF PromoteMeta
<1>11. ASSUME PromoteManifest(p) PROVE Carries(p) /\ OthersQuiet(p)
  <2>1. PICK there, a : Disturb(p, [Goto(p, there) EXCEPT !.mine = a])
    BY <1>11 DEF PromoteManifest
  <2>2. PICK k : k = [Goto(p, there) EXCEPT !.mine = a]
    OBVIOUS
  <2>3. k.alone = me[p].alone
    BY <2>2, AloneStays
  <2>4. QED
    BY <2>1, <2>2, <2>3, Carried
<1>12. ASSUME RebaseMake(p) PROVE Carries(p) /\ OthersQuiet(p)
  BY <1>1, <1>12, AloneStays, Carried DEF RebaseMake, Fail
<1>13. ASSUME RebaseMeta(p) PROVE Carries(p) /\ OthersQuiet(p)
  BY <1>13, AloneStays, Carried DEF RebaseMeta
<1>14. ASSUME RebaseManifest(p) PROVE Carries(p) /\ OthersQuiet(p)
  BY <1>14, AloneStays, Carried DEF RebaseManifest
<1>15. ASSUME Fill(p) PROVE Carries(p) /\ OthersQuiet(p)
  BY <1>15, AloneStays, AloneEnds, Carried DEF Fill
<1>16. ASSUME Publish(p) PROVE Carries(p) /\ OthersQuiet(p)
  <2>1. \/ \E a, b : Step(p, [Goto(p, "commit") EXCEPT !.stray = a, !.mine = b])
        \/ Step(p, WriteFailed(p))
    BY <1>16, Zenon DEF Publish
  <2>2. ASSUME \E a, b : Step(p, [Goto(p, "commit") EXCEPT !.stray = a, !.mine = b])
        PROVE  Carries(p) /\ OthersQuiet(p)
    <3>1. PICK a, b : Step(p, [Goto(p, "commit") EXCEPT !.stray = a, !.mine = b])
      BY <2>2, Zenon
    <3>2. PICK k : k = [Goto(p, "commit") EXCEPT !.stray = a, !.mine = b]
      OBVIOUS
    <3>3. k.alone = me[p].alone
      BY <3>2, AloneStays
    <3>4. QED
      BY <3>1, <3>2, <3>3, Carried
  <2>3. QED
    BY <2>1, <2>2, AloneEnds, Carried, Zenon
<1>17. ASSUME PublishNoDir(p) PROVE Carries(p) /\ OthersQuiet(p)
  BY <1>17, AloneEnds, Carried DEF PublishNoDir
<1>18. ASSUME Commit(p) PROVE Carries(p) /\ OthersQuiet(p)
  BY <1>18, CarriesCommit
<1>19. ASSUME Touch(p) PROVE Carries(p) /\ OthersQuiet(p)
  <2>1. \/ \E a : Step(p, [Goto(p, "touched") EXCEPT !.target = a])
        \/ Step(p, WriteFailed(p))
    BY <1>19 DEF Touch
  <2>2. ASSUME \E a : Step(p, [Goto(p, "touched") EXCEPT !.target = a])
        PROVE  Carries(p) /\ OthersQuiet(p)
    <3>1. PICK a : Step(p, [Goto(p, "touched") EXCEPT !.target = a])
      BY <2>2
    <3>2. PICK k : k = [Goto(p, "touched") EXCEPT !.target = a]
      OBVIOUS
    <3>3. k.alone = me[p].alone
      BY <3>2, AloneStays
    <3>4. QED
      BY <3>1, <3>2, <3>3, Carried
  <2>3. QED
    BY <2>1, <2>2, AloneEnds, Carried
<1>20. ASSUME TouchWrite(p) PROVE Carries(p) /\ OthersQuiet(p)
  BY <1>20, AloneEnds, Carried DEF TouchWrite
<1>21. ASSUME RetireNothing(p) PROVE Carries(p) /\ OthersQuiet(p)
  BY <1>21, AloneStays, Carried DEF RetireNothing
<1>22. ASSUME Retire(p) PROVE Carries(p) /\ OthersQuiet(p)
  <2>1. \/ \E a : Step(p, [Goto(p, "read") EXCEPT !.stray = a])
        \/ \E a, b : Step(p, [Goto(p, "retireWrite") EXCEPT !.stray = a, !.mine = b])
    BY <1>22, Zenon DEF Retire
  <2>2. ASSUME \E a : Step(p, [Goto(p, "read") EXCEPT !.stray = a])
        PROVE  Carries(p) /\ OthersQuiet(p)
    <3>1. PICK a : Step(p, [Goto(p, "read") EXCEPT !.stray = a])
      BY <2>2
    <3>2. PICK k : k = [Goto(p, "read") EXCEPT !.stray = a]
      OBVIOUS
    <3>3. k.alone = me[p].alone
      BY <3>2, AloneStays
    <3>4. QED
      BY <3>1, <3>2, <3>3, Carried
  <2>3. ASSUME \E a, b : Step(p, [Goto(p, "retireWrite") EXCEPT !.stray = a, !.mine = b])
        PROVE  Carries(p) /\ OthersQuiet(p)
    <3>1. PICK a, b : Step(p, [Goto(p, "retireWrite") EXCEPT !.stray = a, !.mine = b])
      BY <2>3, Zenon
    <3>2. PICK k : k = [Goto(p, "retireWrite") EXCEPT !.stray = a, !.mine = b]
      OBVIOUS
    <3>3. k.alone = me[p].alone
      BY <3>2, AloneStays
    <3>4. QED
      BY <3>1, <3>2, <3>3, Carried
  <2>4. QED
    BY <2>1, <2>2, <2>3, Zenon
<1>23. ASSUME RetireWrite(p) PROVE Carries(p) /\ OthersQuiet(p)
  <2>1. PICK there, a : Step(p, [Goto(p, there) EXCEPT !.mine = a])
    BY <1>23 DEF RetireWrite
  <2>2. PICK k : k = [Goto(p, there) EXCEPT !.mine = a]
    OBVIOUS
  <2>3. k.alone = me[p].alone
    BY <2>2, AloneStays
  <2>4. QED
    BY <2>1, <2>2, <2>3, Carried
<1>24. ASSUME Read(p) PROVE Carries(p) /\ OthersQuiet(p)
  <2>1. PICK there, a : Step(p, [Goto(p, there) EXCEPT !.snap = a])
    BY <1>24 DEF Read
  <2>2. PICK k : k = [Goto(p, there) EXCEPT !.snap = a]
    OBVIOUS
  <2>3. k.alone = me[p].alone
    BY <2>2, AloneStays
  <2>4. QED
    BY <2>1, <2>2, <2>3, Carried
<1>25. ASSUME Serve(p) PROVE Carries(p) /\ OthersQuiet(p)
  BY <1>1, <1>25, Carried DEF Serve
<1>26. QED
  BY <1>2, <1>3, <1>4, <1>5, <1>6, <1>7, <1>8, <1>9, <1>10, <1>11, <1>12, <1>13, <1>14,
     <1>15, <1>16, <1>17, <1>18, <1>19, <1>20, <1>21, <1>22, <1>23, <1>24, <1>25 DEF Query

(* A process whose dir goes away is as alone as it was.                    *)
LEMMA RetiredAlone ==
    ASSUME NEW known \in [Procs -> Minds], Retired(known), NEW r \in Procs
    PROVE  me'[r].alone = known[r].alone
<1>1. PICK strays : me' = [o \in Procs |->
                              IF known[o].pc = "idle" THEN known[o]
                              ELSE [known[o] EXCEPT !.stray = (@ \/ o \in strays)]]
  BY DEF Retired
<1>2. PICK b \in BOOLEAN : me'[r] = known[r] \/ me'[r] = [known[r] EXCEPT !.stray = b]
  BY <1>1
<1>3. PICK l \in Minds : l = known[r]
  OBVIOUS
<1>4. [l EXCEPT !.stray = b].alone = l.alone
  BY DEF Minds
<1>5. QED
  BY <1>2, <1>3, <1>4

LEMMA CarriesRebase ==
    ASSUME TypeInv, NEW p \in Procs, Rebase(p)
    PROVE  Carries(p) /\ OthersQuiet(p)
<1>1. PICK g \in Minds : Ahead(p, "rebaseMake", g)
  BY GoAhead DEF ControlPoints
<1> DEFINE k == [g EXCEPT !.calm = @ /\ \A o \in Others(p) : At(o, "idle")]
<1> DEFINE others(r) == [me[r] EXCEPT !.alone = FALSE, !.calm = FALSE]
<1> DEFINE known == [r \in Procs |-> IF r = p THEN k ELSE others(r)]
<1>2. Retired(known)
  BY <1>1, Zenon DEF Rebase, Ahead
<1>3. k \in Minds /\ k.alone = me[p].alone
  <2>1. PICK b \in BOOLEAN : k = [g EXCEPT !.calm = b]
    BY DEF Minds
  <2> HIDE DEF k
  <2>2. k \in Minds /\ k.alone = g.alone
    BY <2>1 DEF Minds
  <2>3. QED
    BY <1>1, <2>2 DEF Ahead, Same
<1>4. \A r \in Procs : others(r) \in Minds /\ ~ others(r).alone
  <2>1. \A r \in Procs : others(r) \in Minds
    BY Quieter, Zenon
  <2>2. \A l \in Minds : ~ [l EXCEPT !.alone = FALSE, !.calm = FALSE].alone
    BY DEF Minds
  <2>3. \A r \in Procs : ~ others(r).alone
    BY <2>2 DEF TypeInv
  <2> HIDE DEF others
  <2>4. QED
    BY <2>1, <2>3
<1> HIDE DEF k, others
<1>5. known \in [Procs -> Minds] /\ known[p].alone = me[p].alone
      /\ \A r \in Procs \ {p} : ~ known[r].alone
  BY <1>3, <1>4
<1> HIDE DEF known
<1>6. \A r \in Procs : me'[r].alone = known[r].alone
  BY <1>2, <1>5, RetiredAlone
<1>7. QED
  BY <1>5, <1>6 DEF Carries, OthersQuiet

LEMMA CarriesStage ==
    ASSUME TypeInv, NEW p \in Procs, Stage(p)
    PROVE  Carries(p) /\ OthersQuiet(p)
<1>1. CASE Batch(p) = {}
  BY <1>1, AloneStays, AloneEnds, Carried DEF Stage
<1>2. CASE Batch(p) # {}
  <2>1. PICK g \in Minds : Ahead(p, "fill", g)
    BY GoAhead DEF ControlPoints
  <2> DEFINE calmer(l) == [l EXCEPT !.calm = @ /\ ~ Collides(p)]
  <2> DEFINE others(r) == [me[r] EXCEPT !.alone = FALSE, !.calm = @ /\ ~ Collides(p)]
  <2>2. me' = [r \in Procs |-> IF r = p THEN calmer(g) ELSE others(r)]
    BY <1>2, <2>1, Zenon DEF Stage, Ahead
  <2>3. calmer(g).alone = me[p].alone
    <3>1. calmer(g).alone = g.alone
      BY DEF Minds
    <3>2. QED
      BY <2>1, <3>1 DEF Ahead, Same
  <2>4. \A r \in Procs : ~ others(r).alone
    <3>1. \A l \in Minds : ~ [l EXCEPT !.alone = FALSE, !.calm = @ /\ ~ Collides(p)].alone
      BY DEF Minds
    <3>2. QED
      BY <3>1 DEF TypeInv
  <2> HIDE DEF calmer, others
  <2>5. QED
    BY <2>2, <2>3, <2>4 DEF Carries, OthersQuiet
<1>3. QED
  BY <1>1, <1>2

(* A sweep ends, a process dies.                                           *)
LEMMA CarriesEnd ==
    ASSUME TypeInv, NEW p \in Procs, SweepDelete(p) \/ Crash(p)
    PROVE  ~ me'[p].alone /\ OthersQuiet(p)
  BY Takes, Quiet DEF SweepDelete, Crash, Idle

-----------------------------------------------------------------------------
(* The disk keeps its shape.                                               *)

LEMMA HealSweepBegin ==
    ASSUME TypeInv, NEW p \in Procs, SweepBegin(p)
    PROVE  Heals(p, me'[p], dir') /\ me'[p].pc # "idle" /\ OthersQuiet(p)
<1> DEFINE judged == {c \in Contents \ Named(dir.manifest) : Old(dir.bins[c])}
<1>1. PICK l \in Minds : l = Started(p) /\ l.ok = TRUE /\ l.stray = FALSE
  BY StartedMind
<1>2. PICK k : k = [l EXCEPT !.pc = "sweep", !.orphans = judged] /\ Step(p, k)
  BY <1>1, Zenon DEF SweepBegin
<1>3. me'[p] = k /\ OthersQuiet(p)
  BY <1>2, Takes, Quiet
<1> HIDE DEF judged
<1>4. k.pc = "sweep" /\ k.ok = l.ok /\ k.stray = l.stray
  BY <1>2 DEF Minds
<1>5. QED
  BY <1>1, <1>3, <1>4
     DEF Heals, Gated, Moved, Healed, Promoting, Rebasing, Writing, Written

(* Only with all it holds does a session dir go away.                      *)
Kept == ~ dir'.exists => dir'.manifest = NoEntries

LEMMA KeptDir ==
    ASSUME TypeInv, DiskInv,
           \/ dir' = NoDir
           \/ dir'.exists
           \/ dir'.exists = dir.exists /\ dir'.manifest = dir.manifest
    PROVE  Kept
  BY DEF DiskInv, NoDir, Kept

LEMMA KeptQuery ==
    ASSUME TypeInv, DiskInv, NEW p \in Procs, Query(p)
    PROVE  Kept
<1>0. dir \in SessionDirs
  BY DEF TypeInv
<1>1. ASSUME dir' = dir PROVE Kept
  BY <1>1, KeptDir
<1>2. ASSUME Beat(p) PROVE Kept
  BY <1>0, <1>2, KeptDir DEF Beat, SessionDirs
<1>3. ASSUME Decide(p) PROVE Kept
  BY <1>0, <1>3, KeptDir DEF Decide, SessionDirs
<1>4. ASSUME PromoteManifest(p) PROVE Kept
  BY <1>0, <1>4, KeptDir DEF PromoteManifest, SessionDirs
<1>5. ASSUME RebaseMeta(p) PROVE Kept
  BY <1>0, <1>5, KeptDir DEF RebaseMeta, SessionDirs
<1>6. ASSUME RebaseManifest(p) PROVE Kept
  BY <1>0, <1>6, KeptDir DEF RebaseManifest, SessionDirs
<1>7. ASSUME Commit(p) PROVE Kept
  BY <1>0, <1>7, KeptDir DEF Commit, SessionDirs
<1>8. ASSUME TouchWrite(p) PROVE Kept
  BY <1>0, <1>8, KeptDir DEF TouchWrite, SessionDirs
<1>20. ASSUME RebaseMake(p) PROVE Kept
  BY <1>20, KeptDir DEF RebaseMake, NoDir
<1>21. ASSUME Rebase(p) PROVE Kept
  <2>1. dir' = NoDir
    BY <1>21, Zenon DEF Rebase, Retired
  <2>2. QED
    BY <2>1, KeptDir
<1>22. ASSUME Promote(p) PROVE Kept
  <2>1. PICK bs : dir' = [dir EXCEPT !.bins = bs]
    BY <1>22, Zenon DEF Promote
  <2>2. QED
    BY <1>0, <2>1, KeptDir DEF SessionDirs
<1>23. ASSUME PromoteMeta(p) PROVE Kept
  <2>1. PICK m : dir' = [dir EXCEPT !.meta = m]
    BY <1>23, Zenon DEF PromoteMeta
  <2>2. QED
    BY <1>0, <2>1, KeptDir DEF SessionDirs
<1>24. ASSUME Stage(p) PROVE Kept
  <2>1. CASE Batch(p) = {}
    <3>1. PICK b, c : /\ dir' = [dir EXCEPT !.exists = b, !.fragments = c]
                      /\ b = (dir.exists \/ Tombs(p) # {})
      BY <1>24, <2>1, Zenon DEF Stage
    <3>2. dir'.manifest = dir.manifest /\ (dir.exists => dir'.exists)
      BY <1>0, <3>1 DEF SessionDirs
    <3>3. QED
      BY <3>2 DEF Kept, DiskInv
  <2>2. CASE Batch(p) # {}
    <3>1. PICK ts : dir' = [dir EXCEPT !.exists = TRUE, !.fragments = TRUE, !.tmps = ts]
      BY <1>24, <2>2, Zenon DEF Stage
    <3>2. QED
      BY <1>0, <3>1, KeptDir DEF SessionDirs
  <2>3. QED
    BY <2>1, <2>2
<1>25. ASSUME Fill(p) PROVE Kept
  <2>1. PICK ts, bs : dir' = [dir EXCEPT !.tmps = ts, !.bins = bs]
    BY <1>25, Zenon DEF Fill
  <2>2. QED
    BY <1>0, <2>1, KeptDir DEF SessionDirs
<1>26. ASSUME Publish(p) PROVE Kept
  <2>1. PICK bs, ts : dir' = [dir EXCEPT !.bins = bs, !.tmps = ts]
    BY <1>26, Zenon DEF Publish
  <2>2. QED
    BY <1>0, <2>1, KeptDir DEF SessionDirs
<1>27. ASSUME RetireWrite(p) PROVE Kept
  <2> DEFINE kept == [q \in Paths |-> IF q \in Stale(p, me[p].mine) THEN None ELSE me[p].mine[q]]
  <2>1. PICK m : m = kept
    OBVIOUS
  <2>2. dir' = [dir EXCEPT !.exists = @ \/ m # NoEntries, !.manifest = m]
    BY <1>27, <2>1, Zenon DEF RetireWrite
  <2> HIDE DEF kept
  <2>3. dir'.manifest = m /\ (dir'.exists <=> dir.exists \/ m # NoEntries)
    BY <1>0, <2>2 DEF SessionDirs
  <2>4. QED
    BY <2>3 DEF Kept
<1>30. ASSUME Retire(p) PROVE dir' = dir
  BY <1>30, Zenon DEF Retire
<1>31. QED
  BY <1>1, <1>2, <1>3, <1>4, <1>5, <1>6, <1>7, <1>8, <1>20, <1>21, <1>22, <1>23, <1>24, <1>25,
     <1>26, <1>27, <1>30
     DEF Query, Begin, Snapshot, Probe, Gate, Parse, PromoteNoDir, PublishNoDir, Touch,
         RetireNothing, Read, Serve

LEMMA KeptOther ==
    ASSUME TypeInv, DiskInv,
           \/ \E p \in Procs : SweepBegin(p) \/ SweepDelete(p) \/ Crash(p)
           \/ \E q \in Paths, c \in Contents \cup {Absent} : Edit(q, c)
           \/ \E h \in Commits : MoveHead(h)
           \/ RetireSession \/ RetireL1 \/ HourPasses \/ UNCHANGED vars
    PROVE  Kept
<1>0. dir \in SessionDirs
  BY DEF TypeInv
<1>1. ASSUME dir' = dir PROVE Kept
  BY <1>1, KeptDir
<1>2. ASSUME NEW p \in Procs, SweepDelete(p) PROVE Kept
  <2>1. PICK ts, bs : dir' = [dir EXCEPT !.bins = bs, !.tmps = ts]
    BY <1>2, Zenon DEF SweepDelete
  <2>2. QED
    BY <1>0, <2>1, KeptDir DEF SessionDirs
<1>3. ASSUME NEW p \in Procs, Crash(p) PROVE Kept
  <2>1. PICK ts, bs : dir' = [dir EXCEPT !.tmps = ts, !.bins = bs]
    BY <1>3, Zenon DEF Crash
  <2>2. QED
    BY <1>0, <2>1, KeptDir DEF SessionDirs
<1>4. ASSUME HourPasses PROVE Kept
  <2>1. PICK ts, bs : dir' = [dir EXCEPT !.tmps = ts, !.bins = bs]
    BY <1>4, Zenon DEF HourPasses
  <2>2. QED
    BY <1>0, <2>1, KeptDir DEF SessionDirs
<1>5. ASSUME RetireSession PROVE Kept
  <2>1. dir' = NoDir
    BY <1>5, Zenon DEF RetireSession, Retired
  <2>2. QED
    BY <2>1, KeptDir
<1>6. ASSUME RetireL1 PROVE Kept
  BY <1>6, KeptDir DEF RetireL1, NoDir
<1>7. ASSUME NEW p \in Procs, SweepBegin(p) PROVE dir' = dir
  BY <1>7, Zenon DEF SweepBegin
<1>8. QED
  BY <1>1, <1>2, <1>3, <1>4, <1>5, <1>6, <1>7 DEF Edit, MoveHead, vars

LEMMA DiskKeeps == TypeInv /\ SoundInv /\ DiskInv /\ [Next]_vars => DiskInv'
<1> SUFFICES ASSUME TypeInv, SoundInv, DiskInv, [Next]_vars PROVE DiskInv'
  OBVIOUS
<1>1. Kept
  BY KeptQuery, KeptOther DEF Next
<1>2. \A q \in Paths : file'[q].stamp = 0 <=> file'[q].content = Absent
  <2>1. CASE \E q \in Paths, c \in Contents \cup {Absent} : Edit(q, c)
    <3>1. PICK q \in Paths, c \in Contents \cup {Absent} : Edit(q, c)
      BY <2>1
    <3>2. PICK f : f = [content |-> c, stamp |-> IF c = Absent THEN 0 ELSE clock + 1]
      OBVIOUS
    <3>3. file' = [file EXCEPT ![q] = f]
      BY <3>1, <3>2 DEF Edit
    <3>4. f.stamp = 0 <=> f.content = Absent
      BY <3>2 DEF TypeInv, Stamps
    <3>5. QED
      BY <3>3, <3>4 DEF TypeInv, DiskInv
  <2>2. CASE UNCHANGED file
    BY <2>2 DEF DiskInv
  <2>3. ASSUME NEW p \in Procs, Query(p) \/ SweepBegin(p) \/ SweepDelete(p) \/ Crash(p)
        PROVE  UNCHANGED file
    BY <2>3, ProcKeeps DEF Keeps
  <2>4. ASSUME (\E h \in Commits : MoveHead(h)) \/ RetireSession \/ RetireL1 \/ HourPasses
        PROVE  UNCHANGED file
    BY <2>4, Zenon DEF MoveHead, RetireSession, RetireL1, HourPasses
  <2>5. QED
    BY <2>1, <2>2, <2>3, <2>4 DEF Next, vars
<1>3. QED
  BY <1>1, <1>2 DEF DiskInv, Kept

-----------------------------------------------------------------------------
(* What a query that runs alone achieves.                                  *)

LEMMA HealsNext ==
    ASSUME NEW p \in Procs, UNCHANGED <<file, head>>, Heals(p, me'[p], dir')
    PROVE  Heals(p, me[p], dir)'
  BY DEF Heals, Gated, Moved, Healed, Looked, Parsed, Leftover, Proved

LEMMA Ends ==
    ASSUME TypeInv, NEW p \in Procs, PromoteNoDir(p) \/ Serve(p)
    PROVE  ~ me'[p].alone
  BY Takes DEF PromoteNoDir, Fail, Serve, Idle

LEMMA HealQuery ==
    ASSUME TypeInv, AloneInv, DiskInv, NEW p \in Procs, Query(p), me'[p].alone
    PROVE  Heals(p, me'[p], dir') /\ me'[p].pc # "idle"
<1>1. CASE Begin(p)
  BY <1>1, HealBegin
<1>2. CASE ~ Begin(p)
  <2>1. me[p].alone
    BY <1>2, CarriesOn, CarriesRebase, CarriesStage DEF Carries
  <2>2. QED
    BY <1>2, <2>1, Ends, HealBeat, HealSnapshot, HealProbe, HealGate, HealParse,
      HealDecide, HealPromote, HealPromoteMeta, HealPromoteManifest, HealRebase,
      HealRebaseMake, HealRebaseMeta, HealRebaseManifest, HealStage, HealFill,
      HealPublish, HealPublishNoDir, HealCommit, HealTouch, HealTouchWrite,
      HealRetireNothing, HealRetire, HealRetireWrite, HealRead
       DEF Query
<1>3. QED
  BY <1>1, <1>2

LEMMA ProcAlone ==
    ASSUME TypeInv, SoundInv, AloneInv, DiskInv, NEW p \in Procs,
           Query(p) \/ SweepBegin(p) \/ SweepDelete(p) \/ Crash(p)
    PROVE  AloneInv'
<1>1. UNCHANGED <<file, head>>
  BY ProcKeeps DEF Keeps
<1>2. OthersQuiet(p)
  <2>1. CASE Begin(p)
    BY <2>1, Quiet DEF Begin
  <2>2. CASE ~ Begin(p) /\ Query(p)
    BY <2>2, CarriesOn, CarriesRebase, CarriesStage
  <2>3. QED
    BY <2>1, <2>2, HealSweepBegin, CarriesEnd
<1>3. me'[p].alone => Heals(p, me'[p], dir') /\ me'[p].pc # "idle"
  BY HealQuery, HealSweepBegin, CarriesEnd
<1>4. ASSUME NEW r \in Procs, me'[r].alone
      PROVE  me'[r].pc # "idle" /\ Heals(r, me[r], dir)'
  <2>1. r = p
    BY <1>2, <1>4 DEF OthersQuiet
  <2>2. QED
    BY <1>1, <1>3, <1>4, <2>1, HealsNext
<1>5. QED
  BY <1>4 DEF AloneInv

(* Whoever else acts, nobody is alone after it.                            *)
LEMMA NobodyAlone ==
    ASSUME TypeInv,
           \/ \E q \in Paths, c \in Contents \cup {Absent} : Edit(q, c)
           \/ \E h \in Commits : MoveHead(h)
           \/ RetireSession \/ RetireL1
    PROVE  \A r \in Procs : ~ me'[r].alone
<1>1. \A l \in Minds : /\ ~ [l EXCEPT !.alone = FALSE].alone
                       /\ ~ [l EXCEPT !.alone = FALSE, !.calm = FALSE].alone
  BY DEF Minds
<1>2. \A r \in Procs : me[r] \in Minds
  BY DEF TypeInv
<1>3. CASE me' = [r \in Procs |-> [me[r] EXCEPT !.alone = FALSE]]
  BY <1>1, <1>2, <1>3
<1>4. CASE DisturbAll
  <2> DEFINE other(r) == [me[r] EXCEPT !.alone = FALSE, !.calm = FALSE]
  <2>1. me' = [r \in Procs |-> other(r)]
    BY <1>4, Zenon DEF DisturbAll
  <2>2. \A r \in Procs : ~ other(r).alone
    BY <1>1, <1>2
  <2> HIDE DEF other
  <2>3. QED
    BY <2>1, <2>2
<1>5. CASE RetireSession
  <2> DEFINE known == [r \in Procs |-> [me[r] EXCEPT !.alone = FALSE, !.calm = FALSE]]
  <2>1. known \in [Procs -> Minds]
    BY Quieter, Zenon
  <2>2. \A r \in Procs : ~ known[r].alone
    BY <1>1, <1>2
  <2>3. Retired(known)
    BY <1>5, Zenon DEF RetireSession
  <2> HIDE DEF known
  <2>4. QED
    BY <2>1, <2>2, <2>3, RetiredAlone
<1>6. QED
  BY <1>3, <1>4, <1>5 DEF Edit, MoveHead, RetireL1

LEMMA AloneKeeps ==
    TypeInv /\ SoundInv /\ DiskInv /\ AloneInv /\ [Next]_vars => AloneInv'
<1> SUFFICES ASSUME TypeInv, SoundInv, DiskInv, AloneInv, [Next]_vars PROVE AloneInv'
  OBVIOUS
<1>1. ASSUME NEW p \in Procs, Query(p) \/ SweepBegin(p) \/ SweepDelete(p) \/ Crash(p)
      PROVE  AloneInv'
  BY <1>1, ProcAlone
<1>2. CASE \A r \in Procs : ~ me'[r].alone
  BY <1>2 DEF AloneInv
<1>3. CASE HourPasses
  <2>1. \A r \in Procs : me[r].pc = "idle" /\ me' = me
    BY <1>3 DEF HourPasses, At
  <2>2. QED
    BY <2>1 DEF AloneInv
<1>4. CASE UNCHANGED vars
  <2>1. \A r \in Procs : Heals(r, me[r], dir) => Heals(r, me[r], dir)'
    BY <1>4, HealsNext DEF vars
  <2>2. QED
    BY <1>4, <2>1 DEF vars, AloneInv
<1>5. QED
  BY <1>1, <1>2, <1>3, <1>4, NobodyAlone DEF Next

LEMMA InitHeals == Init => DiskInv /\ AloneInv
<1> SUFFICES ASSUME Init PROVE DiskInv /\ AloneInv
  OBVIOUS
<1>1. DiskInv
  BY DEF Init, DiskInv, NoDir
<1>2. AloneInv
  BY DEF Init, AloneInv, Idle
<1>3. QED
  BY <1>1, <1>2

(* What a query about to answer proves, the reader's rules accept.         *)
LEMMA AnswersAll ==
    ASSUME TypeInv, AloneInv, NEW p \in Procs, At(p, "serve"), me[p].alone
    PROVE  /\ me[p].ok
           /\ ServedFragments(me[p].snap) = {q \in me[p].dirty : file[q].content # Absent}
           /\ ServedTombs(me[p].snap) = {q \in me[p].dirty : file[q].content = Absent}
<1>1. /\ Proved(me[p].dirty, me[p].snap, dir.bins) /\ me[p].dirty \subseteq Paths
      /\ \A q \in Paths \ me[p].dirty : me[p].snap[q] = None
  BY AloneMind DEF At, Healed, Minds
<1>2. ServedFragments(me[p].snap) = {q \in me[p].dirty : file[q].content # Absent}
  BY <1>1, NothingAssumption
     DEF ServedFragments, Fragment, ValidBin, Valid, Proved, Proves
<1>3. ServedTombs(me[p].snap) = {q \in me[p].dirty : file[q].content = Absent}
  BY <1>1, NothingAssumption DEF ServedTombs, Proved, Proves
<1>4. QED
  BY <1>2, <1>3, AloneMind

(* Whatever crashes, collisions, moves of HEAD and sweeps left behind, a   *)
(* query that runs alone answers from a fragment of each dirty file that   *)
(* exists, a tombstone of each that is gone, and nothing else.             *)
THEOREM HealsAlone == Spec => []SelfHeals
<1> DEFINE Inv == TypeInv /\ SoundInv /\ DiskInv /\ AloneInv
<1>1. Inv => SelfHeals
  BY AnswersAll DEF SelfHeals
<1>2. Inv /\ [Next]_vars => Inv'
  BY NextKeeps, DiskKeeps, AloneKeeps
<1>3. Init => Inv
  BY InitKeeps, InitHeals
<1>4. QED
  BY <1>1, <1>2, <1>3, PTL DEF Spec

-----------------------------------------------------------------------------
(* What each step changes of the mind that takes it.                       *)

Fields == {"pc", "snap", "mine", "dirty", "stale", "seen", "parsed", "base", "target",
           "orphans", "ok", "stray", "alone", "calm", "over"}
Apart(k, l, F) == \A f \in Fields \ F : k[f] = l[f]

(* p goes from here to there and changes no field but those of F.          *)
Turn(p, here, there, F) ==
    me[p].pc = here /\ me'[p].pc = there /\ Apart(me'[p], me[p], F \cup {"pc"})

LEMMA Turned ==
    ASSUME TypeInv, NEW p \in Procs
    PROVE  /\ Beat(p) => Turn(p, "beat", "snapshot", {"target"})
           /\ Snapshot(p) => Turn(p, "snapshot", "probe", {"snap"}) /\ me'[p].snap = dir.manifest
           /\ PromoteMeta(p) => Turn(p, "promoteMeta", "promoteManifest", {})
           /\ PromoteManifest(p) => Turn(p, "promoteManifest", "stage", {"mine"})
           /\ RebaseMeta(p) => Turn(p, "rebaseMeta", "rebaseManifest", {})
           /\ RebaseManifest(p) => Turn(p, "rebaseManifest", "stage", {})
           /\ Commit(p) => Turn(p, "commit", "touch", {"mine"})
           /\ RetireNothing(p) => Turn(p, "retire", "read", {})
           /\ RetireWrite(p) => Turn(p, "retireWrite", "read", {"mine"})
           /\ Read(p) => Turn(p, "read", "serve", {"snap"}) /\ me'[p].snap = dir.manifest
<1>1. PICK l \in Minds : l = me[p]
  BY DEF TypeInv
<1>2. ASSUME Beat(p) PROVE Turn(p, "beat", "snapshot", {"target"})
  <2>1. PICK v : v = None
    OBVIOUS
  <2>2. PICK k : k = me'[p] /\ k = [l EXCEPT !.pc = "snapshot", !.target = v]
    BY <1>1, <1>2, <2>1, Takes DEF Beat, Goto
  <2>3. QED
    BY <1>1, <1>2, <2>1, <2>2 DEF Beat, At, Turn, Minds, Apart, Fields
<1>3. ASSUME Snapshot(p) PROVE Turn(p, "snapshot", "probe", {"snap"}) /\ me'[p].snap = dir.manifest
  <2>1. PICK v : v = dir.manifest
    OBVIOUS
  <2>2. PICK k : k = me'[p] /\ k = [l EXCEPT !.pc = "probe", !.snap = v]
    BY <1>1, <1>3, <2>1, Takes DEF Snapshot, Goto
  <2>3. QED
    BY <1>1, <1>3, <2>1, <2>2 DEF Snapshot, At, Turn, Minds, Apart, Fields
<1>4. ASSUME PromoteMeta(p) PROVE Turn(p, "promoteMeta", "promoteManifest", {})
  <2>1. PICK k : k = me'[p] /\ k = [l EXCEPT !.pc = "promoteManifest"]
    BY <1>1, <1>4, Takes DEF PromoteMeta, Goto
  <2>2. QED
    BY <1>1, <1>4, <2>1 DEF PromoteMeta, At, Turn, Minds, Apart, Fields
<1>5. ASSUME PromoteManifest(p) PROVE Turn(p, "promoteManifest", "stage", {"mine"})
  <2>1. PICK v : v = NoEntries
    OBVIOUS
  <2>2. PICK k : k = me'[p] /\ k = [l EXCEPT !.pc = "stage", !.mine = v]
    BY <1>1, <1>5, <2>1, Takes DEF PromoteManifest, Goto
  <2>3. QED
    BY <1>1, <1>5, <2>1, <2>2 DEF PromoteManifest, At, Turn, Minds, Apart, Fields
<1>6. ASSUME RebaseMeta(p) PROVE Turn(p, "rebaseMeta", "rebaseManifest", {})
  <2>1. PICK k : k = me'[p] /\ k = [l EXCEPT !.pc = "rebaseManifest"]
    BY <1>1, <1>6, Takes DEF RebaseMeta, Goto
  <2>2. QED
    BY <1>1, <1>6, <2>1 DEF RebaseMeta, At, Turn, Minds, Apart, Fields
<1>7. ASSUME RebaseManifest(p) PROVE Turn(p, "rebaseManifest", "stage", {})
  <2>1. PICK k : k = me'[p] /\ k = [l EXCEPT !.pc = "stage"]
    BY <1>1, <1>7, Takes DEF RebaseManifest, Goto
  <2>2. QED
    BY <1>1, <1>7, <2>1 DEF RebaseManifest, At, Turn, Minds, Apart, Fields
<1>8. ASSUME Commit(p) PROVE Turn(p, "commit", "touch", {"mine"})
  <2>1. PICK v : v = NoEntries
    OBVIOUS
  <2>2. PICK k : k = me'[p] /\ k = [l EXCEPT !.pc = "touch", !.mine = v]
    BY <1>1, <1>8, <2>1 DEF Commit, Goto
  <2>3. QED
    BY <1>1, <1>8, <2>1, <2>2 DEF Commit, At, Turn, Minds, Apart, Fields
<1>9. ASSUME RetireNothing(p) PROVE Turn(p, "retire", "read", {})
  <2>1. PICK k : k = me'[p] /\ k = [l EXCEPT !.pc = "read"]
    BY <1>1, <1>9, Takes DEF RetireNothing, Goto
  <2>2. QED
    BY <1>1, <1>9, <2>1 DEF RetireNothing, At, Turn, Minds, Apart, Fields
<1>10. ASSUME RetireWrite(p) PROVE Turn(p, "retireWrite", "read", {"mine"})
  <2>1. PICK v : v = NoEntries
    OBVIOUS
  <2>2. PICK k : k = me'[p] /\ k = [l EXCEPT !.pc = "read", !.mine = v]
    BY <1>1, <1>10, <2>1, Takes DEF RetireWrite, Goto
  <2>3. QED
    BY <1>1, <1>10, <2>1, <2>2 DEF RetireWrite, At, Turn, Minds, Apart, Fields
<1>11. ASSUME Read(p) PROVE Turn(p, "read", "serve", {"snap"}) /\ me'[p].snap = dir.manifest
  <2>1. PICK v : v = dir.manifest
    OBVIOUS
  <2>2. PICK k : k = me'[p] /\ k = [l EXCEPT !.pc = "serve", !.snap = v]
    BY <1>1, <1>11, <2>1, Takes DEF Read, Goto
  <2>3. QED
    BY <1>1, <1>11, <2>1, <2>2 DEF Read, At, Turn, Minds, Apart, Fields
<1>12. QED
  BY <1>2, <1>3, <1>4, <1>5, <1>6, <1>7, <1>8, <1>9, <1>10, <1>11

LEMMA TurnProbe ==
    ASSUME TypeInv, NEW p \in Procs, Probe(p)
    PROVE  /\ me[p].pc = "probe" /\ me'[p].pc \in {"retire", "gate"}
           /\ Apart(me'[p], me[p], {"pc", "dirty"})
           /\ me'[p].dirty = {q \in Paths : file[q].content # Tree[head][q]}
           /\ me'[p].pc = "retire" => me'[p].dirty = {}
<1> DEFINE dirty == {q \in Paths : file[q].content # Tree[head][q]}
<1> DEFINE there == IF dirty = {} THEN "retire" ELSE "gate"
<1>1. me[p].pc = "probe" /\ me'[p] = [Goto(p, there) EXCEPT !.dirty = dirty]
  BY Takes DEF Probe, At
<1>2. there \in {"retire", "gate"} /\ (there = "retire" => dirty = {})
  OBVIOUS
<1>3. PICK l \in Minds : l = me[p]
  BY DEF TypeInv
<1> HIDE DEF dirty, there
<1>4. PICK k : k = me'[p] /\ k = [l EXCEPT !.pc = there, !.dirty = dirty]
  BY <1>1, <1>3 DEF Goto
<1>5. k.pc = there /\ k.dirty = dirty /\ Apart(k, l, {"pc", "dirty"})
  BY <1>3, <1>4 DEF Minds, Apart, Fields
<1>6. QED
  BY <1>1, <1>2, <1>3, <1>4, <1>5 DEF dirty

LEMMA TurnGate ==
    ASSUME TypeInv, NEW p \in Procs, Gate(p)
    PROVE  /\ me[p].pc = "gate" /\ me'[p].pc = IF me'[p].stale = {} THEN "retire" ELSE "parse"
           /\ Apart(me'[p], me[p], {"pc", "stale", "base", "seen"})
           /\ me'[p].base = dir.meta
           /\ me'[p].stale = {q \in me[p].dirty : dir.meta # head \/ ~ Current(me[p].snap[q], q)}
           /\ \A q \in me[p].dirty : me'[p].seen[q] = file[q].stamp
<1> DEFINE stale == {q \in me[p].dirty : dir.meta # head \/ ~Current(me[p].snap[q], q)}
<1> DEFINE stats == [q \in Paths |-> IF q \in me[p].dirty THEN file[q].stamp ELSE 0]
<1> DEFINE there == IF stale = {} THEN "retire" ELSE "parse"
<1>1. me[p].pc = "gate"
      /\ me'[p] = [Goto(p, there) EXCEPT !.stale = stale, !.base = dir.meta, !.seen = stats]
  BY Takes DEF Gate, At
<1>2. PICK l \in Minds : l = me[p]
  BY DEF TypeInv
<1>3. \A q \in me[p].dirty : stats[q] = file[q].stamp
  BY <1>2 DEF Minds
<1>4. there = IF stale = {} THEN "retire" ELSE "parse"
  OBVIOUS
<1> HIDE DEF stale, stats, there
<1>5. PICK b : b = dir.meta
  OBVIOUS
<1>6. PICK k : /\ k = me'[p]
               /\ k = [l EXCEPT !.pc = there, !.stale = stale, !.base = b, !.seen = stats]
  BY <1>1, <1>2, <1>5 DEF Goto
<1>7. /\ k.pc = there /\ k.stale = stale /\ k.base = b /\ k.seen = stats
      /\ Apart(k, l, {"pc", "stale", "base", "seen"})
  BY <1>2, <1>6 DEF Minds, Apart, Fields
<1>8. QED
  BY <1>1, <1>2, <1>3, <1>4, <1>5, <1>6, <1>7 DEF stale

LEMMA TurnParse ==
    ASSUME TypeInv, NEW p \in Procs, Parse(p)
    PROVE  /\ Turn(p, "parse", "decide", {"parsed"})
           /\ \A q \in Paths :
                me'[p].parsed[q] = IF q \in me[p].stale /\ file[q].content # Absent
                                   THEN file[q].content ELSE None
<1>1. PICK l \in Minds : l = me[p]
  BY DEF TypeInv
<1>2. PICK v : v = [q \in Paths |-> IF q \in me[p].stale /\ file[q].content # Absent
                                    THEN file[q].content ELSE None]
  OBVIOUS
<1>3. PICK k : k = me'[p] /\ k = [l EXCEPT !.pc = "decide", !.parsed = v]
  BY <1>1, <1>2, Takes DEF Parse, Goto
<1>4. k.pc = "decide" /\ k.parsed = v /\ Apart(k, l, {"parsed", "pc"})
  BY <1>1, <1>3 DEF Minds, Apart, Fields
<1>5. Turn(p, "parse", "decide", {"parsed"})
  BY <1>1, <1>3, <1>4 DEF Turn, Parse, At
<1>6. QED
  BY <1>2, <1>3, <1>4, <1>5

LEMMA TurnDecide ==
    ASSUME TypeInv, NEW p \in Procs, Decide(p)
    PROVE  /\ me[p].pc = "decide" /\ me'[p].pc \in {"stage", "promote", "rebase"}
           /\ Apart(me'[p], me[p], {"pc", "target"})
           /\ me'[p].pc # "stage" => me[p].base # head
<1> DEFINE meta == IF dir.meta = None THEN head ELSE dir.meta
<1> DEFINE base == IF me[p].base = None THEN meta ELSE me[p].base
<1> DEFINE there == IF base = head THEN "stage"
                    ELSE IF <<base, head>> \in Forward THEN "promote" ELSE "rebase"
<1>1. me[p].pc = "decide" /\ me'[p] = [Goto(p, there) EXCEPT !.target = head]
  BY Takes DEF Decide, At
<1>2. there \in {"stage", "promote", "rebase"} /\ (there # "stage" => me[p].base # head)
  BY NothingAssumption DEF TypeInv
<1>3. PICK l \in Minds : l = me[p]
  BY DEF TypeInv
<1> HIDE DEF meta, base, there
<1>4. PICK k : k = me'[p] /\ k = [l EXCEPT !.pc = there, !.target = head]
  BY <1>1, <1>3 DEF Goto
<1>5. k.pc = there /\ Apart(k, l, {"pc", "target"})
  BY <1>3, <1>4 DEF Minds, Apart, Fields
<1>6. QED
  BY <1>1, <1>2, <1>3, <1>4, <1>5

(* One that locks and looks at the manifest.                               *)
LEMMA TurnLocked ==
    ASSUME TypeInv, NEW p \in Procs, NEW there, NEW m,
           me'[p] = [Goto(p, there) EXCEPT !.stray = FALSE, !.mine = m]
    PROVE  /\ me'[p].pc = there /\ ~ me'[p].stray /\ me'[p].mine = m
           /\ Apart(me'[p], me[p], {"pc", "stray", "mine"})
<1>1. PICK l \in Minds : l = me[p]
  BY DEF TypeInv
<1>2. PICK k : k = me'[p] /\ k = [l EXCEPT !.pc = there, !.stray = FALSE, !.mine = m]
  BY <1>1 DEF Goto
<1>3. k.pc = there /\ ~ k.stray /\ k.mine = m /\ Apart(k, l, {"pc", "stray", "mine"})
  BY <1>1, <1>2 DEF Minds, Apart, Fields
<1>4. QED
  BY <1>1, <1>2, <1>3

(* One at the end of its refresh.                                          *)
Rests(p) ==
    /\ me'[p].pc = "retire" /\ me'[p].stale = {} /\ ~ me'[p].stray
    /\ \A q \in Paths : me'[p].parsed[q] = None
    /\ Apart(me'[p], me[p], {"pc", "stale", "parsed", "base", "target", "stray", "ok"})

LEMMA TurnRests ==
    ASSUME TypeInv, NEW p \in Procs, me'[p] \in {Refreshed(p), WriteFailed(p)}
    PROVE  /\ Rests(p)
           /\ me'[p] = Refreshed(p) => me'[p].ok = me[p].ok
           /\ me'[p] = WriteFailed(p) => ~ me'[p].ok
<1>1. PICK l \in Minds : l = me[p]
  BY DEF TypeInv
<1> DEFINE silent == Idle.parsed
<1>0. \A q \in Paths : silent[q] = None
  BY DEF Idle
<1>2. PICK none : none = silent /\ \A q \in Paths : none[q] = None
  BY <1>0
<1>3. PICK g : g = Refreshed(p) /\ g = [l EXCEPT !.pc = "retire", !.stale = {}, !.parsed = none,
                                        !.base = None, !.target = None, !.stray = FALSE]
  BY <1>1, <1>2 DEF Refreshed, Goto
<1>4. /\ g.pc = "retire" /\ g.stale = {} /\ ~ g.stray /\ g.parsed = none /\ g.ok = l.ok
      /\ Apart(g, l, {"pc", "stale", "parsed", "base", "target", "stray", "ok"})
      /\ DOMAIN g = Fields
  BY <1>1, <1>3 DEF Minds, Apart, Fields
<1>5. PICK h : h = WriteFailed(p) /\ h = [g EXCEPT !.ok = FALSE]
  BY <1>3 DEF WriteFailed
<1>6. /\ h.pc = "retire" /\ h.stale = {} /\ ~ h.stray /\ h.parsed = none /\ ~ h.ok
      /\ Apart(h, l, {"pc", "stale", "parsed", "base", "target", "stray", "ok"})
  BY <1>4, <1>5 DEF Apart, Fields
<1>7. QED
  BY <1>1, <1>2, <1>3, <1>4, <1>5, <1>6 DEF Rests

LEMMA TurnIdle ==
    ASSUME TypeInv, NEW p \in Procs, me'[p] = Idle
    PROVE  /\ me'[p].pc = "idle" /\ me'[p].stale = {} /\ ~ me'[p].calm /\ ~ me'[p].stray
           /\ me'[p].mine = NoEntries /\ \A q \in Paths : me'[p].parsed[q] = None
  BY DEF Idle

(* One that begins is calm if all others are idle or calm.                 *)
Rises(p) ==
    /\ me[p].pc = "idle" /\ me'[p].stale = {} /\ ~ me'[p].stray /\ me'[p].mine = NoEntries
    /\ \A q \in Paths : me'[p].parsed[q] = None
    /\ me'[p].calm => \A r \in Procs \ {p} : me[r].pc = "idle" \/ me[r].calm

LEMMA TurnBegin ==
    ASSUME TypeInv, NEW p \in Procs, Begin(p)
    PROVE  Rises(p) /\ me'[p].pc \in {"snapshot", "beat"}
<1> DEFINE a == \A r \in Others(p) : At(r, "idle")
<1> DEFINE b == \A r \in Others(p) : At(r, "idle") \/ me[r].calm
<1>1. PICK k : /\ k = me'[p]
               /\ \/ k = [Started(p) EXCEPT !.pc = "snapshot"]
                  \/ k = [Started(p) EXCEPT !.pc = "beat", !.target = dir.meta]
  BY Takes DEF Begin
<1>2. Started(p) = [Idle EXCEPT !.ok = TRUE, !.alone = a, !.calm = b]
  BY DEF Started
<1>3. me[p].pc = "idle" /\ (b => \A r \in Procs \ {p} : me[r].pc = "idle" \/ me[r].calm)
  BY DEF Begin, CanRun, At, Others
<1> HIDE DEF a, b
<1>4. PICK l \in Minds : l = Idle
  BY IdleMind
<1>5. PICK g : g = Started(p) /\ g = [l EXCEPT !.ok = TRUE, !.alone = a, !.calm = b]
  BY <1>2, <1>4
<1>6. DOMAIN g = Fields /\ g.calm = b /\ Apart(g, l, {"ok", "alone", "calm"})
  BY <1>4, <1>5 DEF Minds, Apart, Fields
<1>7. k.calm = b /\ k.pc \in {"snapshot", "beat"}
      /\ Apart(k, l, {"pc", "ok", "alone", "calm", "target"})
  <2>1. PICK v : v = dir.meta
    OBVIOUS
  <2>2. k.pc \in {"snapshot", "beat"} /\ Apart(k, g, {"pc", "target"})
    <3>1. CASE k = [g EXCEPT !.pc = "snapshot"]
      BY <1>6, <3>1 DEF Apart, Fields
    <3>2. CASE k = [g EXCEPT !.pc = "beat", !.target = v]
      BY <1>6, <3>2 DEF Apart, Fields
    <3>3. QED
      BY <1>1, <1>5, <2>1, <3>1, <3>2
  <2>3. QED
    BY <1>6, <2>2 DEF Apart, Fields
<1>8. /\ l.stale = {} /\ ~ l.stray /\ l.mine = NoEntries
      /\ \A q \in Paths : l.parsed[q] = None
  BY <1>4 DEF Idle
<1>9. k.stale = {} /\ ~ k.stray /\ k.mine = NoEntries /\ \A q \in Paths : k.parsed[q] = None
  BY <1>7, <1>8 DEF Apart, Fields
<1>10. QED
  BY <1>1, <1>3, <1>7, <1>9 DEF Rises

LEMMA TurnSweepBegin ==
    ASSUME TypeInv, NEW p \in Procs, SweepBegin(p)
    PROVE  /\ Rises(p) /\ me'[p].pc = "sweep"
           /\ me'[p].orphans = {c \in Contents \ Named(dir.manifest) : Old(dir.bins[c])}
<1> DEFINE a == \A r \in Others(p) : At(r, "idle")
<1> DEFINE b == \A r \in Others(p) : At(r, "idle") \/ me[r].calm
<1> DEFINE judged == {c \in Contents \ Named(dir.manifest) : Old(dir.bins[c])}
<1>1. PICK k : k = me'[p] /\ k = [Started(p) EXCEPT !.pc = "sweep", !.orphans = judged]
  BY Takes DEF SweepBegin
<1>2. Started(p) = [Idle EXCEPT !.ok = TRUE, !.alone = a, !.calm = b]
  BY DEF Started
<1>3. me[p].pc = "idle" /\ (b => \A r \in Procs \ {p} : me[r].pc = "idle" \/ me[r].calm)
  BY DEF SweepBegin, CanRun, At, Others
<1> HIDE DEF a, b, judged
<1>4. PICK l \in Minds : l = Idle
  BY IdleMind
<1>5. PICK g : g = Started(p) /\ g = [l EXCEPT !.ok = TRUE, !.alone = a, !.calm = b]
  BY <1>2, <1>4
<1>6. DOMAIN g = Fields /\ g.calm = b /\ Apart(g, l, {"ok", "alone", "calm"})
  BY <1>4, <1>5 DEF Minds, Apart, Fields
<1>7. k.calm = b /\ k.pc = "sweep" /\ k.orphans = judged
      /\ Apart(k, l, {"pc", "ok", "alone", "calm", "orphans"})
  <2>1. k = [g EXCEPT !.pc = "sweep", !.orphans = judged]
    BY <1>1, <1>5
  <2>2. k.pc = "sweep" /\ k.orphans = judged /\ Apart(k, g, {"pc", "orphans"})
    BY <1>6, <2>1 DEF Apart, Fields
  <2>3. QED
    BY <1>6, <2>2 DEF Apart, Fields
<1>8. /\ l.stale = {} /\ ~ l.stray /\ l.mine = NoEntries
      /\ \A q \in Paths : l.parsed[q] = None
  BY <1>4 DEF Idle
<1>9. k.stale = {} /\ ~ k.stray /\ k.mine = NoEntries /\ \A q \in Paths : k.parsed[q] = None
  BY <1>7, <1>8 DEF Apart, Fields
<1>10. QED
  BY <1>1, <1>3, <1>7, <1>9 DEF Rises, judged

LEMMA TurnStage ==
    ASSUME TypeInv, NEW p \in Procs, Stage(p)
    PROVE  /\ me[p].pc = "stage"
           /\ Batch(p) = {} /\ Tombs(p) = {} => Rests(p) /\ me'[p].ok = me[p].ok
           /\ Batch(p) = {} /\ Tombs(p) # {} => Turn(p, "stage", "publish", {})
           /\ Batch(p) # {} =>
                /\ Turn(p, "stage", "fill", {"calm"})
                /\ me'[p].calm => me[p].calm
                /\ \A r \in Procs : me'[r].calm => ~ Collides(p)
<1>1. me[p].pc = "stage"
  <2>1. At(p, "stage")
    BY Zenon DEF Stage
  <2>2. QED
    BY <2>1 DEF At
<1>2. PICK l \in Minds : l = me[p]
  BY DEF TypeInv
<1>3. ASSUME Batch(p) = {}, Tombs(p) = {} PROVE Rests(p) /\ me'[p].ok = me[p].ok
  <2>1. me'[p] = Refreshed(p)
    BY <1>3, Takes DEF Stage
  <2>2. QED
    BY <2>1, TurnRests
<1>4. ASSUME Batch(p) = {}, Tombs(p) # {} PROVE Turn(p, "stage", "publish", {})
  <2>1. PICK k : k = me'[p] /\ k = [l EXCEPT !.pc = "publish"]
    BY <1>2, <1>4, Takes DEF Stage, Goto
  <2>2. QED
    BY <1>1, <1>2, <2>1 DEF Turn, Minds, Apart, Fields
<1>5. ASSUME Batch(p) # {}
      PROVE  /\ Turn(p, "stage", "fill", {"calm"})
             /\ me'[p].calm => me[p].calm
             /\ \A r \in Procs : me'[r].calm => ~ Collides(p)
  <2> DEFINE free == ~ Collides(p)
  <2> DEFINE calmer(g) == [g EXCEPT !.pc = "fill", !.calm = @ /\ free]
  <2> DEFINE others(r) == [me[r] EXCEPT !.alone = FALSE, !.calm = @ /\ free]
  <2>1. me' = [r \in Procs |-> IF r = p THEN [Goto(p, "fill") EXCEPT !.calm = @ /\ free] ELSE others(r)]
    BY <1>5, Zenon DEF Stage
  <2>2. free \in BOOLEAN
    BY DEF Collides
  <2> HIDE DEF free
  <2>3. \A g \in Minds : /\ calmer(g).pc = "fill" /\ calmer(g).calm = (g.calm /\ free)
                         /\ Apart(calmer(g), g, {"calm", "pc"})
    BY DEF Minds, Apart, Fields
  <2>4. \A g \in Minds : [g EXCEPT !.alone = FALSE, !.calm = @ /\ free].calm = (g.calm /\ free)
    BY DEF Minds
  <2>5. \A r \in Procs : others(r).calm = (me[r].calm /\ free)
    BY <2>4 DEF TypeInv
  <2>6. [Goto(p, "fill") EXCEPT !.calm = @ /\ free] = calmer(l)
    BY <1>2 DEF Goto, Minds
  <2> HIDE DEF calmer, others
  <2>7. me'[p] = calmer(l) /\ \A r \in Procs \ {p} : me'[r] = others(r)
    BY <2>1, <2>6
  <2>8. Turn(p, "stage", "fill", {"calm"}) /\ me'[p].calm = (me[p].calm /\ free)
    BY <1>1, <1>2, <2>3, <2>7 DEF Turn
  <2>9. \A r \in Procs : me'[r].calm => free
    BY <2>5, <2>7, <2>8
  <2>10. QED
    BY <2>8, <2>9 DEF free
<1>6. QED
  BY <1>1, <1>3, <1>4, <1>5

LEMMA TurnPromote ==
    ASSUME TypeInv, NEW p \in Procs, Promote(p)
    PROVE  /\ me[p].pc = "promote" /\ me'[p].pc = "promoteMeta" /\ ~ me'[p].stray
           /\ Apart(me'[p], me[p], {"pc", "stray", "mine"})
           /\ \A q \in Paths : me'[p].mine[q] \in {None, dir.manifest[q]}
<1> DEFINE gone == {q \in Paths : Absorbed(p, q)}
<1> DEFINE kept == [q \in Paths |-> IF q \in gone THEN None ELSE dir.manifest[q]]
<1>1. \A q \in Paths : kept[q] \in {None, dir.manifest[q]}
  OBVIOUS
<1>2. me'[p] = [Goto(p, "promoteMeta") EXCEPT !.stray = FALSE, !.mine = kept]
  <2>1. Disturb(p, [Goto(p, "promoteMeta") EXCEPT !.stray = FALSE, !.mine = kept])
    BY DEF Promote
  <2>2. QED
    BY <2>1, Takes
<1> HIDE DEF gone, kept
<1>3. PICK m : m = kept
  OBVIOUS
<1>4. me'[p] = [Goto(p, "promoteMeta") EXCEPT !.stray = FALSE, !.mine = m]
  BY <1>2, <1>3
<1>5. /\ me'[p].pc = "promoteMeta" /\ ~ me'[p].stray /\ me'[p].mine = m
      /\ Apart(me'[p], me[p], {"pc", "stray", "mine"})
  BY <1>4, TurnLocked, Zenon
<1>6. me[p].pc = "promote"
  BY DEF Promote, At
<1>7. QED
  BY <1>1, <1>3, <1>5, <1>6

LEMMA TurnRebaseMake ==
    ASSUME TypeInv, NEW p \in Procs, RebaseMake(p)
    PROVE  /\ me[p].pc = "rebaseMake"
           /\ IF dir.exists THEN me'[p] = Idle ELSE Turn(p, "rebaseMake", "rebaseMeta", {})
<1>1. PICK l \in Minds : l = me[p]
  BY DEF TypeInv
<1>2. ASSUME ~ dir.exists PROVE Turn(p, "rebaseMake", "rebaseMeta", {})
  <2>1. PICK k : k = me'[p] /\ k = [l EXCEPT !.pc = "rebaseMeta"]
    BY <1>1, <1>2, Takes DEF RebaseMake, Goto
  <2>2. QED
    BY <1>1, <2>1 DEF RebaseMake, At, Turn, Minds, Apart, Fields
<1>3. dir.exists => me'[p] = Idle
  BY Takes DEF RebaseMake, Fail
<1>4. QED
  BY <1>2, <1>3 DEF RebaseMake, At

LEMMA TurnFill ==
    ASSUME TypeInv, NEW p \in Procs, Fill(p)
    PROVE  me[p].pc = "fill" /\ (Turn(p, "fill", "publish", {}) \/ (Rests(p) /\ ~ me'[p].ok))
<1>1. PICK l \in Minds : l = me[p]
  BY DEF TypeInv
<1>2. me[p].pc = "fill" /\ (me'[p] = Goto(p, "publish") \/ me'[p] = WriteFailed(p))
  BY Takes DEF Fill, At
<1>3. ASSUME me'[p] = Goto(p, "publish") PROVE Turn(p, "fill", "publish", {})
  <2>1. PICK k : k = me'[p] /\ k = [l EXCEPT !.pc = "publish"]
    BY <1>1, <1>3 DEF Goto
  <2>2. QED
    BY <1>1, <1>2, <2>1 DEF Turn, Minds, Apart, Fields
<1>4. me'[p] = WriteFailed(p) => Rests(p) /\ ~ me'[p].ok
  BY TurnRests
<1>5. QED
  BY <1>2, <1>3, <1>4

(* The paths of p's batch whose tmps are renamed.                          *)
Landed(p) == {q \in Batch(p) : \A r \in Batch(p) : r <= q => dir.tmps[TmpName(p, r)] # None}

LEMMA TurnPublish ==
    ASSUME TypeInv, NEW p \in Procs, Publish(p)
    PROVE  /\ me[p].pc = "publish" /\ CanLock(p)
           /\ \/ /\ me'[p].pc = "commit" /\ ~ me'[p].stray /\ me'[p].mine = dir.manifest
                 /\ Apart(me'[p], me[p], {"pc", "stray", "mine"})
                 /\ Landed(p) = Batch(p) /\ holder' = Locked(p)
              \/ Rests(p) /\ ~ me'[p].ok /\ holder' = holder
<1> DEFINE done == Landed(p) = Batch(p)
<1> DEFINE looking == [Goto(p, "commit") EXCEPT !.stray = FALSE, !.mine = dir.manifest]
<1>1. /\ me[p].pc = "publish" /\ CanLock(p) /\ holder' = IF done THEN Locked(p) ELSE holder
      /\ Step(p, IF done THEN looking ELSE WriteFailed(p))
  BY Zenon DEF Publish, At, Landed
<1> HIDE DEF looking
<1>2. done => me'[p] = looking
  BY <1>1, Takes
<1>3. ~ done => me'[p] = WriteFailed(p)
  BY <1>1, Takes
<1>4. ASSUME done
      PROVE  /\ me'[p].pc = "commit" /\ ~ me'[p].stray /\ me'[p].mine = dir.manifest
             /\ Apart(me'[p], me[p], {"pc", "stray", "mine"})
  <2>1. PICK m : m = dir.manifest
    OBVIOUS
  <2>2. me'[p] = [Goto(p, "commit") EXCEPT !.stray = FALSE, !.mine = m]
    BY <1>2, <1>4, <2>1 DEF looking
  <2>3. QED
    BY <2>1, <2>2, TurnLocked
<1>5. QED
  BY <1>1, <1>3, <1>4, TurnRests

LEMMA TurnRetire ==
    ASSUME TypeInv, NEW p \in Procs, Retire(p)
    PROVE  /\ me[p].pc = "retire" /\ CanLock(p) /\ ~ me'[p].stray
           /\ Apart(me'[p], me[p], {"pc", "stray", "mine"})
           /\ \/ me'[p].pc = "read" /\ me'[p].mine = me[p].mine /\ holder' = holder
              \/ me'[p].pc = "retireWrite" /\ me'[p].mine = dir.manifest /\ holder' = Locked(p)
<1>1. PICK m : m = dir.manifest
  OBVIOUS
<1>2. \/ me'[p] = [Goto(p, "read") EXCEPT !.stray = FALSE] /\ holder' = holder
      \/ /\ me'[p] = [Goto(p, "retireWrite") EXCEPT !.stray = FALSE, !.mine = m]
         /\ holder' = Locked(p)
  BY <1>1, Takes DEF Retire
<1>3. ASSUME me'[p] = [Goto(p, "read") EXCEPT !.stray = FALSE]
      PROVE  /\ me'[p].pc = "read" /\ ~ me'[p].stray /\ me'[p].mine = me[p].mine
             /\ Apart(me'[p], me[p], {"pc", "stray", "mine"})
  <2>1. PICK l \in Minds : l = me[p]
    BY DEF TypeInv
  <2>2. PICK k : k = me'[p] /\ k = [l EXCEPT !.pc = "read", !.stray = FALSE]
    BY <1>3, <2>1 DEF Goto
  <2>3. QED
    BY <2>1, <2>2 DEF Minds, Apart, Fields
<1>4. ASSUME me'[p] = [Goto(p, "retireWrite") EXCEPT !.stray = FALSE, !.mine = m]
      PROVE  /\ me'[p].pc = "retireWrite" /\ ~ me'[p].stray /\ me'[p].mine = m
             /\ Apart(me'[p], me[p], {"pc", "stray", "mine"})
  BY <1>4, TurnLocked
<1>5. QED
  BY <1>1, <1>2, <1>3, <1>4 DEF Retire, At

LEMMA TurnEnds ==
    ASSUME TypeInv, NEW p \in Procs
    PROVE  /\ PublishNoDir(p) => me[p].pc = "publish" /\ Rests(p) /\ ~ me'[p].ok
           /\ TouchWrite(p) => me[p].pc = "touched" /\ Rests(p) /\ me'[p].ok = me[p].ok
           /\ Touch(p) => \/ Turn(p, "touch", "touched", {"target"})
                          \/ me[p].pc = "touch" /\ Rests(p) /\ ~ me'[p].ok
           /\ Serve(p) => me[p].pc = "serve" /\ me'[p] = Idle
           /\ PromoteNoDir(p) => me[p].pc = "promote" /\ me'[p] = Idle
           /\ SweepDelete(p) => me[p].pc = "sweep" /\ me'[p] = Idle
           /\ Crash(p) => me'[p] = Idle
<1>1. ASSUME PublishNoDir(p) PROVE me[p].pc = "publish" /\ Rests(p) /\ ~ me'[p].ok
  BY <1>1, Takes, TurnRests DEF PublishNoDir, At
<1>2. ASSUME TouchWrite(p) PROVE me[p].pc = "touched" /\ Rests(p) /\ me'[p].ok = me[p].ok
  BY <1>2, Takes, TurnRests DEF TouchWrite, At
<1>3. ASSUME Touch(p)
      PROVE  \/ Turn(p, "touch", "touched", {"target"})
             \/ me[p].pc = "touch" /\ Rests(p) /\ ~ me'[p].ok
  <2>1. PICK l \in Minds : l = me[p]
    BY DEF TypeInv
  <2>2. CASE dir.meta = None
    BY <1>3, <2>2, Takes, TurnRests DEF Touch, At
  <2>3. CASE dir.meta # None
    <3>1. PICK v : v = dir.meta
      OBVIOUS
    <3>2. PICK k : k = me'[p] /\ k = [l EXCEPT !.pc = "touched", !.target = v]
      BY <1>3, <2>1, <2>3, <3>1, Takes DEF Touch, Goto
    <3>3. QED
      BY <1>3, <2>1, <3>2 DEF Touch, At, Turn, Minds, Apart, Fields
  <2>4. QED
    BY <2>2, <2>3
<1>4. Serve(p) => me[p].pc = "serve" /\ me'[p] = Idle
  BY Takes DEF Serve, At
<1>5. PromoteNoDir(p) => me[p].pc = "promote" /\ me'[p] = Idle
  BY Takes DEF PromoteNoDir, Fail, At
<1>6. SweepDelete(p) => me[p].pc = "sweep" /\ me'[p] = Idle
  BY Takes DEF SweepDelete, At
<1>7. Crash(p) => me'[p] = Idle
  BY Takes DEF Crash
<1>8. QED
  BY <1>1, <1>2, <1>3, <1>4, <1>5, <1>6, <1>7

-----------------------------------------------------------------------------
(* What the others see of a step.                                          *)

Watches(r) ==
    /\ Apart(me'[r], me[r], {"alone", "calm", "over", "stray"})
    /\ me'[r].calm => me[r].calm
    /\ me[r].over \subseteq me'[r].over
    /\ me'[r].stray = me[r].stray \/ (me[r].pc # "idle" /\ \A s \in Procs : ~ me'[s].calm)

LEMMA WatchMind ==
    ASSUME NEW l \in Minds
    PROVE  /\ [l EXCEPT !.alone = FALSE].calm = l.calm
           /\ [l EXCEPT !.alone = FALSE].over = l.over
           /\ [l EXCEPT !.alone = FALSE].stray = l.stray
           /\ Apart([l EXCEPT !.alone = FALSE], l, {"alone", "calm", "over", "stray"})
           /\ ~ [l EXCEPT !.alone = FALSE, !.calm = FALSE].calm
           /\ [l EXCEPT !.alone = FALSE, !.calm = FALSE].over = l.over
           /\ [l EXCEPT !.alone = FALSE, !.calm = FALSE].stray = l.stray
           /\ Apart([l EXCEPT !.alone = FALSE, !.calm = FALSE], l,
                    {"alone", "calm", "over", "stray"})
  BY DEF Minds, Apart, Fields

LEMMA WatchStep ==
    ASSUME TypeInv, NEW p \in Procs, NEW k, Step(p, k) \/ Disturb(p, k),
           NEW r \in Procs, r # p
    PROVE  /\ Watches(r) /\ me'[r].stray = me[r].stray
           /\ Disturb(p, k) => ~ me'[r].calm
           /\ Step(p, k) => me'[r].calm = me[r].calm /\ me'[r].over = me[r].over
<1>1. PICK l \in Minds : l = me[r]
  BY DEF TypeInv
<1>2. ASSUME Step(p, k)
      PROVE  Watches(r) /\ me'[r].stray = me[r].stray
             /\ me'[r].calm = me[r].calm /\ me'[r].over = me[r].over
  <2>1. PICK n : n = me'[r] /\ n = [l EXCEPT !.alone = FALSE]
    BY <1>1, <1>2 DEF Step
  <2>2. /\ Apart(n, l, {"alone", "calm", "over", "stray"})
        /\ n.calm = l.calm /\ n.over = l.over /\ n.stray = l.stray
    BY <2>1 DEF Minds, Apart, Fields
  <2>3. QED
    BY <1>1, <2>1, <2>2 DEF Watches
<1>3. ASSUME Disturb(p, k)
      PROVE  Watches(r) /\ me'[r].stray = me[r].stray /\ ~ me'[r].calm
  <2>1. PICK n : n = me'[r] /\ n = [l EXCEPT !.alone = FALSE, !.calm = FALSE]
    BY <1>1, <1>3 DEF Disturb
  <2>2. /\ Apart(n, l, {"alone", "calm", "over", "stray"})
        /\ ~ n.calm /\ n.over = l.over /\ n.stray = l.stray
    BY <2>1 DEF Minds, Apart, Fields
  <2>3. QED
    BY <1>1, <2>1, <2>2 DEF Watches
<1>4. QED
  BY <1>2, <1>3

LEMMA WatchCommit ==
    ASSUME TypeInv, NEW p \in Procs, Commit(p), NEW r \in Procs, r # p
    PROVE  /\ Watches(r)
           /\ me[r].pc \notin Unread => Outdated(p) \subseteq me'[r].over
<1>1. PICK l \in Minds : l = me[r]
  BY DEF TypeInv
<1>2. me'[r] = Overtaken(p, l)
  BY <1>1 DEF Commit, Overtaken
<1>3. /\ Apart(Overtaken(p, l), l, {"alone", "calm", "over", "stray"})
      /\ Overtaken(p, l).calm = l.calm /\ Overtaken(p, l).stray = l.stray
      /\ Overtaken(p, l).over = IF l.pc \in Unread THEN l.over ELSE l.over \cup Outdated(p)
  BY DEF Minds, Apart, Fields, Overtaken
<1>4. QED
  BY <1>1, <1>2, <1>3 DEF Watches

LEMMA WatchStage ==
    ASSUME TypeInv, NEW p \in Procs, Stage(p), NEW r \in Procs, r # p
    PROVE  Watches(r)
<1>1. CASE Batch(p) = {}
  BY <1>1, WatchStep DEF Stage
<1>2. CASE Batch(p) # {}
  <2>1. PICK l \in Minds : l = me[r]
    BY DEF TypeInv
  <2> DEFINE free == ~ Collides(p)
  <2>2. me'[r] = [l EXCEPT !.alone = FALSE, !.calm = @ /\ free]
    BY <1>2, <2>1 DEF Stage
  <2>3. free \in BOOLEAN
    BY DEF Collides
  <2> HIDE DEF free
  <2>4. PICK k : k = me'[r] /\ k = [l EXCEPT !.alone = FALSE, !.calm = @ /\ free]
    BY <2>2
  <2>5. /\ Apart(k, l, {"alone", "calm", "over", "stray"})
        /\ (k.calm => l.calm) /\ k.stray = l.stray /\ k.over = l.over
    BY <2>3, <2>4 DEF Minds, Apart, Fields
  <2>6. QED
    BY <2>1, <2>4, <2>5 DEF Watches
<1>3. QED
  BY <1>1, <1>2

(* A rebase: who is calm after it has nobody beside it.                    *)
LEMMA WatchRebase ==
    ASSUME TypeInv, NEW p \in Procs, Rebase(p)
    PROVE  /\ me[p].pc = "rebase" /\ me'[p].pc = "rebaseMake"
           /\ Apart(me'[p], me[p], {"pc", "calm", "stray"})
           /\ me'[p].stray = me[p].stray
           /\ me'[p].calm => me[p].calm /\ \A r \in Procs \ {p} : me[r].pc = "idle"
           /\ \A r \in Procs \ {p} : Watches(r) /\ ~ me'[r].calm
<1> DEFINE lonely == \A o \in Others(p) : At(o, "idle")
<1> DEFINE k == [Goto(p, "rebaseMake") EXCEPT !.calm = @ /\ lonely]
<1> DEFINE others(r) == [me[r] EXCEPT !.alone = FALSE, !.calm = FALSE]
<1> DEFINE known == [r \in Procs |-> IF r = p THEN k ELSE others(r)]
<1>1. Retired(known) /\ me[p].pc = "rebase"
  BY DEF Rebase, At
<1>2. lonely \in BOOLEAN /\ (lonely => \A r \in Procs \ {p} : me[r].pc = "idle")
  BY DEF Others, At
<1> HIDE DEF lonely
<1>3. /\ DOMAIN k = Fields /\ k.pc = "rebaseMake" /\ k.stray = me[p].stray
      /\ k.calm = (me[p].calm /\ lonely) /\ Apart(k, me[p], {"pc", "calm", "stray"})
  <2>1. PICK l \in Minds : l = me[p]
    BY DEF TypeInv
  <2>2. PICK g : g = k /\ g = [l EXCEPT !.pc = "rebaseMake", !.calm = @ /\ lonely]
    BY <1>2, <2>1 DEF Goto, Minds
  <2>3. /\ DOMAIN g = Fields /\ g.pc = "rebaseMake" /\ g.stray = l.stray
        /\ g.calm = (l.calm /\ lonely) /\ Apart(g, l, {"pc", "calm", "stray"})
    BY <1>2, <2>1, <2>2 DEF Minds, Apart, Fields
  <2> HIDE DEF k
  <2>4. QED
    BY <2>1, <2>2, <2>3
<1>4. \A r \in Procs :
         /\ others(r) \in Minds /\ ~ others(r).calm /\ others(r).over = me[r].over
         /\ others(r).stray = me[r].stray
         /\ Apart(others(r), me[r], {"alone", "calm", "over", "stray"})
  <2>1. \A l \in Minds : [l EXCEPT !.alone = FALSE, !.calm = FALSE] \in Minds
    BY DEF Minds
  <2>2. \A r \in Procs : me[r] \in Minds
    BY DEF TypeInv
  <2>3. QED
    BY <2>1, <2>2, WatchMind
<1> HIDE DEF k, others
<1>5. known[p] = k /\ \A r \in Procs \ {p} : known[r] = others(r)
  OBVIOUS
<1> HIDE DEF known
<1>6. PICK strays \in SUBSET {r \in Procs : known[r].pc \in LockPoints} :
         me' = [r \in Procs |-> IF known[r].pc = "idle" THEN known[r]
                                ELSE [known[r] EXCEPT !.stray = (@ \/ r \in strays)]]
  BY <1>1 DEF Retired
<1>7. /\ me'[p].pc = "rebaseMake" /\ Apart(me'[p], me[p], {"pc", "calm", "stray"})
      /\ me'[p].calm = (me[p].calm /\ lonely) /\ me'[p].stray = me[p].stray
  <2>1. p \notin strays /\ me[p].stray \in BOOLEAN
    BY <1>3, <1>5, <1>6 DEF LockPoints, TypeInv, Minds
  <2>2. PICK b : b = (k.stray \/ p \in strays)
    OBVIOUS
  <2>3. me'[p] = [k EXCEPT !.stray = b] /\ b = me[p].stray
    BY <1>3, <1>5, <1>6, <2>1, <2>2
  <2>4. QED
    BY <1>3, <2>3 DEF Apart, Fields
<1>8. ASSUME NEW r \in Procs \ {p}
      PROVE  /\ Apart(me'[r], me[r], {"alone", "calm", "over", "stray"}) /\ ~ me'[r].calm
             /\ me'[r].over = me[r].over
             /\ me[r].pc = "idle" => me'[r].stray = me[r].stray
  <2>1. PICK l \in Minds : l = others(r) /\ l.pc = me[r].pc
    BY <1>4 DEF Apart, Fields
  <2>2. PICK b : b = (l.stray \/ r \in strays)
    OBVIOUS
  <2>3. PICK n : n = me'[r] /\ n = IF l.pc = "idle" THEN l ELSE [l EXCEPT !.stray = b]
    BY <1>5, <1>6, <2>1, <2>2
  <2>4. /\ Apart(n, l, {"stray"}) /\ (l.pc = "idle" => n.stray = l.stray)
        /\ n.calm = l.calm /\ n.over = l.over
    BY <2>3 DEF Minds, Apart, Fields
  <2>5. Apart(n, me[r], {"alone", "calm", "over", "stray"})
    BY <1>4, <2>1, <2>4 DEF Apart
  <2>6. QED
    BY <1>4, <2>1, <2>3, <2>4, <2>5
<1>9. ASSUME NEW r \in Procs \ {p} PROVE Watches(r)
  <2>1. CASE me[r].pc = "idle"
    BY <1>8, <2>1 DEF Watches
  <2>2. CASE me[r].pc # "idle"
    <3>1. ~ lonely
      BY <1>2, <2>2
    <3>2. \A s \in Procs : ~ me'[s].calm
      BY <1>7, <1>8, <3>1
    <3>3. QED
      BY <1>8, <2>2, <3>2 DEF Watches
  <2>3. QED
    BY <2>1, <2>2
<1>10. QED
  BY <1>1, <1>2, <1>7, <1>8, <1>9

(* Every step of a process but these takes only its own mind further.      *)
LEMMA Strides ==
    ASSUME NEW p \in Procs, Query(p) \/ SweepBegin(p) \/ SweepDelete(p) \/ Crash(p),
           ~ Rebase(p), ~ Stage(p), ~ Commit(p)
    PROVE  \E k : Step(p, k) \/ Disturb(p, k)
<1>1. Begin(p) \/ Beat(p) \/ Snapshot(p) \/ Probe(p) \/ Gate(p) \/ Parse(p) \/ Decide(p)
      => \E k : Step(p, k) \/ Disturb(p, k)
  BY DEF Begin, Beat, Snapshot, Probe, Gate, Parse, Decide
<1>2. Promote(p) \/ PromoteNoDir(p) \/ PromoteMeta(p) \/ PromoteManifest(p) \/ RebaseMake(p)
      \/ RebaseMeta(p) \/ RebaseManifest(p)
      => \E k : Step(p, k) \/ Disturb(p, k)
  BY DEF Promote, PromoteNoDir, PromoteMeta, PromoteManifest, RebaseMake, RebaseMeta,
         RebaseManifest, Fail
<1>3. Fill(p) \/ Publish(p) \/ PublishNoDir(p) \/ Touch(p) \/ TouchWrite(p)
      => \E k : Step(p, k) \/ Disturb(p, k)
  BY DEF Fill, Publish, PublishNoDir, Touch, TouchWrite
<1>4. RetireNothing(p) \/ Retire(p) \/ RetireWrite(p) \/ Read(p) \/ Serve(p)
      \/ SweepBegin(p) \/ SweepDelete(p) \/ Crash(p)
      => \E k : Step(p, k) \/ Disturb(p, k)
  BY DEF RetireNothing, Retire, RetireWrite, Read, Serve, SweepBegin, SweepDelete, Crash
<1>5. QED
  BY <1>1, <1>2, <1>3, <1>4 DEF Query

LEMMA Watching ==
    ASSUME TypeInv, NEW p \in Procs,
           Query(p) \/ SweepBegin(p) \/ SweepDelete(p) \/ Crash(p),
           NEW r \in Procs, r # p
    PROVE  Watches(r)
  BY Strides, WatchStep, WatchCommit, WatchStage, WatchRebase

-----------------------------------------------------------------------------
(* What a step does to the dir.                                            *)

LEMMA Untouched ==
    ASSUME TypeInv, NEW p \in Procs,
           \/ Begin(p) \/ Beat(p) \/ Snapshot(p) \/ Probe(p) \/ Gate(p) \/ Parse(p) \/ Decide(p)
           \/ PromoteNoDir(p) \/ PromoteMeta(p) \/ PromoteManifest(p)
           \/ RebaseMeta(p) \/ RebaseManifest(p) \/ (Stage(p) /\ Batch(p) = {})
           \/ PublishNoDir(p) \/ Commit(p) \/ Touch(p) \/ TouchWrite(p)
           \/ RetireNothing(p) \/ Retire(p) \/ RetireWrite(p) \/ Read(p) \/ Serve(p)
           \/ SweepBegin(p)
    PROVE  /\ dir'.bins = dir.bins /\ dir'.tmps = dir.tmps /\ (dir.exists => dir'.exists)
<1>0. dir \in SessionDirs
  BY DEF TypeInv
<1>1. ASSUME Begin(p) \/ Snapshot(p) \/ Probe(p) \/ Gate(p) \/ Parse(p) \/ PromoteNoDir(p)
             \/ PublishNoDir(p) \/ Touch(p) \/ RetireNothing(p) \/ Retire(p) \/ Read(p)
             \/ Serve(p) \/ SweepBegin(p)
      PROVE  dir' = dir
  BY <1>1 DEF Begin, Snapshot, Probe, Gate, Parse, PromoteNoDir, PublishNoDir, Touch,
              RetireNothing, Retire, Read, Serve, SweepBegin
<1>2. ASSUME Beat(p) \/ Decide(p) \/ PromoteMeta(p) \/ RebaseMeta(p) \/ TouchWrite(p)
      PROVE  /\ dir'.bins = dir.bins /\ dir'.tmps = dir.tmps /\ (dir.exists => dir'.exists)
  <2>1. \E m : dir' = [dir EXCEPT !.exists = TRUE, !.meta = m] \/ dir' = [dir EXCEPT !.meta = m]
    BY <1>2, <1>0 DEF Beat, Decide, PromoteMeta, RebaseMeta, TouchWrite, SessionDirs
  <2>2. QED
    BY <1>0, <2>1 DEF SessionDirs
<1>3. ASSUME PromoteManifest(p) \/ RebaseManifest(p) \/ Commit(p) \/ RetireWrite(p)
      PROVE  /\ dir'.bins = dir.bins /\ dir'.tmps = dir.tmps /\ (dir.exists => dir'.exists)
  <2>1. \E m, e : dir' = [dir EXCEPT !.exists = TRUE, !.manifest = m]
                  \/ dir' = [dir EXCEPT !.exists = @ \/ e, !.manifest = m]
    BY <1>3 DEF PromoteManifest, RebaseManifest, Commit, RetireWrite
  <2>2. QED
    BY <1>0, <2>1 DEF SessionDirs
<1>4. ASSUME Stage(p), Batch(p) = {}
      PROVE  /\ dir'.bins = dir.bins /\ dir'.tmps = dir.tmps /\ (dir.exists => dir'.exists)
  <2>1. dir' = [dir EXCEPT !.exists = @ \/ Tombs(p) # {}, !.fragments = @ \/ Tombs(p) # {}]
    BY <1>4 DEF Stage
  <2>2. QED
    BY <1>0, <2>1 DEF SessionDirs
<1>5. QED
  BY <1>1, <1>2, <1>3, <1>4

(* A file a step of p leaves, or only completes or lets go of.             *)
Kin(f, g, p) ==
    \/ g = None
    \/ /\ f # None /\ g # None /\ g.settled = f.settled
       /\ (f.whole => g.whole) /\ f.writers \ {p} \subseteq g.writers

LEMMA SameKin ==
    ASSUME NEW f, NEW p PROVE Kin(f, f, p) /\ Kin(f, None, p)
  BY DEF Kin

LEMMA WroteKin ==
    ASSUME NEW f \in Maybe(Files), NEW p
    PROVE  /\ Kin(f, WroteTo(f, p), p) /\ (f # None => WroteTo(f, p) # None)
           /\ f # None /\ p \in f.writers => WroteTo(f, p).whole
<1>1. CASE f = None \/ p \notin f.writers
  BY <1>1, SameKin DEF WroteTo
<1>2. CASE f # None /\ p \in f.writers
  <2>1. f \in Files
    BY <1>2 DEF Maybe
  <2>2. PICK g : g = [f EXCEPT !.whole = TRUE, !.writers = @ \ {p}]
    OBVIOUS
  <2>3. /\ g \in Files /\ g.whole = TRUE /\ g.writers = f.writers \ {p}
        /\ g.settled = f.settled
    BY <2>1, <2>2 DEF Files
  <2>4. g # None
    BY <2>3, NothingAssumption
  <2>5. WroteTo(f, p) = g
    BY <1>2, <2>2 DEF WroteTo
  <2>6. QED
    BY <1>2, <2>3, <2>4, <2>5 DEF Kin
<1>3. QED
  BY <1>1, <1>2

LEMMA FillFiles ==
    ASSUME TypeInv, NEW p \in Procs, Fill(p)
    PROVE  /\ \A c \in Contents : dir'.bins[c] = WroteTo(dir.bins[c], p)
           /\ \A n \in FileNames : dir'.tmps[n] = WroteTo(dir.tmps[n], p)
           /\ dir'.exists = dir.exists /\ dir'.manifest = dir.manifest
<1> DEFINE tmps == [n \in FileNames |-> WroteTo(dir.tmps[n], p)]
<1> DEFINE bins == [c \in Contents |-> WroteTo(dir.bins[c], p)]
<1>1. dir' = [dir EXCEPT !.tmps = tmps, !.bins = bins]
  BY DEF Fill
<1>2. /\ \A c \in Contents : bins[c] = WroteTo(dir.bins[c], p)
      /\ \A n \in FileNames : tmps[n] = WroteTo(dir.tmps[n], p)
  OBVIOUS
<1> HIDE DEF tmps, bins
<1>3. /\ dir'.tmps = tmps /\ dir'.bins = bins
      /\ dir'.exists = dir.exists /\ dir'.manifest = dir.manifest
  BY <1>1 DEF TypeInv, SessionDirs
<1>4. QED
  BY <1>2, <1>3

LEMMA StageFiles ==
    ASSUME TypeInv, NEW p \in Procs, Stage(p), Batch(p) # {}
    PROVE  /\ dir'.bins = dir.bins /\ dir'.exists /\ dir'.manifest = dir.manifest
           /\ \A n \in FileNames \ TmpNames(p) : dir'.tmps[n] = dir.tmps[n]
           /\ \A n \in TmpNames(p) \cap FileNames :
                /\ dir'.tmps[n] # None /\ ~ dir'.tmps[n].settled /\ p \in dir'.tmps[n].writers
<1> DEFINE opened(f) == [whole |-> FALSE, settled |-> FALSE,
                         writers |-> {p} \cup IF f = None THEN {} ELSE f.writers]
<1> DEFINE tmps == [n \in FileNames |->
                       IF n \notin TmpNames(p) THEN dir.tmps[n] ELSE opened(dir.tmps[n])]
<1>1. dir' = [dir EXCEPT !.exists = TRUE, !.fragments = TRUE, !.tmps = tmps]
  BY Zenon DEF Stage
<1>2. ASSUME NEW f \in Maybe(Files)
      PROVE  opened(f) # None /\ ~ opened(f).settled /\ p \in opened(f).writers
  <2>1. opened(f) \in Files /\ ~ opened(f).settled /\ p \in opened(f).writers
    BY DEF Maybe, Files
  <2> HIDE DEF opened
  <2>2. QED
    BY <2>1, NothingAssumption
<1>3. dir.tmps \in [FileNames -> Maybe(Files)]
  BY DEF TypeInv, SessionDirs
<1> HIDE DEF opened
<1>4. /\ \A n \in FileNames \ TmpNames(p) : tmps[n] = dir.tmps[n]
      /\ \A n \in TmpNames(p) \cap FileNames :
           tmps[n] # None /\ ~ tmps[n].settled /\ p \in tmps[n].writers
  BY <1>2, <1>3
<1> HIDE DEF tmps
<1>5. /\ dir'.tmps = tmps /\ dir'.bins = dir.bins /\ dir'.exists
      /\ dir'.manifest = dir.manifest
  BY <1>1 DEF TypeInv, SessionDirs
<1>6. QED
  BY <1>4, <1>5

LEMMA PublishFiles ==
    ASSUME TypeInv, NEW p \in Procs, Publish(p)
    PROVE  /\ dir'.exists = dir.exists /\ dir'.manifest = dir.manifest
           /\ \A n \in FileNames : dir'.tmps[n] \in {None, dir.tmps[n]}
           /\ \A c \in Contents :
                \/ dir'.bins[c] = dir.bins[c] /\ \A q \in Landed(p) : me[p].parsed[q] # c
                \/ \E q \in Landed(p) : me[p].parsed[q] = c /\ dir'.bins[c] = dir.tmps[TmpName(p, q)]
<1> DEFINE landed == Landed(p)
<1> DEFINE of(c) == {q \in landed : me[p].parsed[q] = c}
<1> DEFINE bins == [c \in Contents |->
                       IF of(c) = {} THEN dir.bins[c] ELSE dir.tmps[TmpName(p, Max(of(c)))]]
<1> DEFINE tmps == [n \in FileNames |->
                       IF \E q \in landed : n = TmpName(p, q) THEN None ELSE dir.tmps[n]]
<1>1. dir' = [dir EXCEPT !.bins = bins, !.tmps = tmps]
  BY Zenon DEF Publish, Landed
<1>2. \A n \in FileNames : tmps[n] \in {None, dir.tmps[n]}
  OBVIOUS
<1>3. ASSUME NEW c \in Contents
      PROVE  \/ bins[c] = dir.bins[c] /\ \A q \in landed : me[p].parsed[q] # c
             \/ \E q \in landed : me[p].parsed[q] = c /\ bins[c] = dir.tmps[TmpName(p, q)]
  <2>1. CASE of(c) = {}
    BY <2>1
  <2>2. CASE of(c) # {}
    <3>1. of(c) \subseteq Paths
      BY DEF Landed, Batch
    <3>2. of(c) \in SUBSET Nat /\ IsFiniteSet(of(c))
      BY <3>1, FS_Subset
    <3>3. Max(of(c)) \in of(c)
      BY <2>2, <3>2, MaxMember
    <3>4. bins[c] = dir.tmps[TmpName(p, Max(of(c)))]
      BY <2>2
    <3> HIDE DEF bins
    <3>5. QED
      BY <3>3, <3>4
  <2>3. QED
    BY <2>1, <2>2
<1> HIDE DEF bins, tmps
<1>4. /\ dir'.tmps = tmps /\ dir'.bins = bins
      /\ dir'.exists = dir.exists /\ dir'.manifest = dir.manifest
  BY <1>1 DEF TypeInv, SessionDirs
<1>5. QED
  BY <1>2, <1>3, <1>4

LEMMA PromoteFiles ==
    ASSUME TypeInv, NEW p \in Procs, Promote(p)
    PROVE  /\ dir'.tmps = dir.tmps /\ dir'.exists = dir.exists /\ dir'.manifest = dir.manifest
           /\ \A c \in Contents : dir'.bins[c] \in {None, dir.bins[c]}
<1>1. PICK unlinked : dir' = [dir EXCEPT !.bins = [c \in Contents |->
                                 IF c \in unlinked THEN None ELSE dir.bins[c]]]
  BY DEF Promote, TypeInv, SessionDirs
<1> DEFINE bins == [c \in Contents |-> IF c \in unlinked THEN None ELSE dir.bins[c]]
<1>2. \A c \in Contents : bins[c] \in {None, dir.bins[c]}
  OBVIOUS
<1>3. dir' = [dir EXCEPT !.bins = bins]
  BY <1>1
<1> HIDE DEF bins
<1>4. /\ dir'.bins = bins /\ dir'.tmps = dir.tmps /\ dir'.exists = dir.exists
      /\ dir'.manifest = dir.manifest
  BY <1>3 DEF TypeInv, SessionDirs
<1>5. QED
  BY <1>2, <1>4

LEMMA SweepFiles ==
    ASSUME TypeInv, NEW p \in Procs, SweepDelete(p)
    PROVE  /\ dir'.exists = dir.exists /\ dir'.manifest = dir.manifest
           /\ \A n \in FileNames : dir'.tmps[n] \in {None, dir.tmps[n]}
           /\ \A c \in Contents :
                dir'.bins[c] = IF c \in me[p].orphans THEN None ELSE dir.bins[c]
<1> DEFINE bins == [c \in Contents |-> IF c \in me[p].orphans THEN None ELSE dir.bins[c]]
<1> DEFINE tmps == [n \in FileNames |-> IF Old(dir.tmps[n]) THEN None ELSE dir.tmps[n]]
<1>1. dir' = [dir EXCEPT !.bins = bins, !.tmps = tmps]
  BY DEF SweepDelete
<1>2. /\ \A n \in FileNames : tmps[n] \in {None, dir.tmps[n]}
      /\ \A c \in Contents : bins[c] = IF c \in me[p].orphans THEN None ELSE dir.bins[c]
  OBVIOUS
<1> HIDE DEF bins, tmps
<1>3. /\ dir'.tmps = tmps /\ dir'.bins = bins
      /\ dir'.exists = dir.exists /\ dir'.manifest = dir.manifest
  BY <1>1 DEF TypeInv, SessionDirs
<1>4. QED
  BY <1>2, <1>3

LEMMA CrashFiles ==
    ASSUME TypeInv, NEW p \in Procs, Crash(p)
    PROVE  /\ dir'.exists = dir.exists /\ dir'.manifest = dir.manifest
           /\ \A n \in FileNames : Kin(dir.tmps[n], dir'.tmps[n], p)
           /\ \A c \in Contents : /\ Kin(dir.bins[c], dir'.bins[c], p)
                                  /\ dir.bins[c] # None => dir'.bins[c] # None
<1> DEFINE closed(f) == IF f = None THEN None ELSE [f EXCEPT !.writers = @ \ {p}]
<1> DEFINE tmps == [n \in FileNames |-> closed(dir.tmps[n])]
<1> DEFINE bins == [c \in Contents |-> closed(dir.bins[c])]
<1>1. dir' = [dir EXCEPT !.tmps = tmps, !.bins = bins]
  BY DEF Crash
<1>2. ASSUME NEW f \in Maybe(Files)
      PROVE  Kin(f, closed(f), p) /\ (f # None => closed(f) # None)
  <2>1. CASE f = None
    BY <2>1 DEF Kin
  <2>2. CASE f # None
    <3>1. f \in Files
      BY <2>2 DEF Maybe
    <3>2. PICK g : g = closed(f) /\ g = [f EXCEPT !.writers = @ \ {p}]
      BY <2>2
    <3>3. /\ g \in Files /\ g.whole = f.whole /\ g.settled = f.settled
          /\ g.writers = f.writers \ {p}
      BY <3>1, <3>2 DEF Files
    <3>4. g # None
      BY <3>3, NothingAssumption
    <3>5. QED
      BY <2>2, <3>2, <3>3, <3>4 DEF Kin
  <2>3. QED
    BY <2>1, <2>2
<1>3. dir.tmps \in [FileNames -> Maybe(Files)] /\ dir.bins \in [Contents -> Maybe(Files)]
  BY DEF TypeInv, SessionDirs
<1> HIDE DEF closed
<1>4. /\ \A n \in FileNames : Kin(dir.tmps[n], tmps[n], p)
      /\ \A c \in Contents : /\ Kin(dir.bins[c], bins[c], p)
                             /\ dir.bins[c] # None => bins[c] # None
  BY <1>2, <1>3
<1> HIDE DEF bins, tmps
<1>5. /\ dir'.tmps = tmps /\ dir'.bins = bins
      /\ dir'.exists = dir.exists /\ dir'.manifest = dir.manifest
  BY <1>1 DEF TypeInv, SessionDirs
<1>6. QED
  BY <1>4, <1>5

(* A dir that is taken away, and a new one in its place.                   *)
LEMMA EmptyFiles ==
    /\ NoDir.manifest = NoEntries
    /\ \A c \in Contents : NoDir.bins[c] = None
    /\ \A n \in FileNames : NoDir.tmps[n] = None
    /\ \A m : /\ [NoDir EXCEPT !.exists = TRUE].manifest = NoEntries
              /\ [NoDir EXCEPT !.exists = TRUE].bins = NoDir.bins
              /\ [NoDir EXCEPT !.exists = TRUE].tmps = NoDir.tmps
              /\ [NoDir EXCEPT !.exists = TRUE, !.meta = m].manifest = NoEntries
              /\ [NoDir EXCEPT !.exists = TRUE, !.meta = m].bins = NoDir.bins
              /\ [NoDir EXCEPT !.exists = TRUE, !.meta = m].tmps = NoDir.tmps
  BY DEF NoDir

LEMMA RebaseFiles ==
    ASSUME TypeInv, NEW p \in Procs, Rebase(p) \/ (RebaseMake(p) /\ ~ dir.exists)
    PROVE  /\ dir'.manifest = NoEntries
           /\ \A c \in Contents : dir'.bins[c] = None
           /\ \A n \in FileNames : dir'.tmps[n] = None
<1>1. dir' = NoDir \/ dir' = [NoDir EXCEPT !.exists = TRUE]
  BY DEF Rebase, Retired, RebaseMake
<1>2. QED
  BY <1>1, EmptyFiles

(* Who writes the manifest.                                                *)
LEMMA ManifestStays ==
    ASSUME TypeInv, DiskInv, NEW p \in Procs,
           Query(p) \/ SweepBegin(p) \/ SweepDelete(p) \/ Crash(p),
           ~ Commit(p), ~ RetireWrite(p), ~ PromoteManifest(p), ~ RebaseManifest(p), ~ Rebase(p)
    PROVE  dir'.manifest = dir.manifest
<1>0. dir \in SessionDirs
  BY DEF TypeInv
<1>1. Begin(p) \/ Snapshot(p) \/ Probe(p) \/ Gate(p) \/ Parse(p) \/ PromoteNoDir(p)
      \/ PublishNoDir(p) \/ Touch(p) \/ RetireNothing(p) \/ Retire(p) \/ Read(p)
      \/ Serve(p) \/ SweepBegin(p) => dir' = dir
  BY DEF Begin, Snapshot, Probe, Gate, Parse, PromoteNoDir, PublishNoDir, Touch,
         RetireNothing, Retire, Read, Serve, SweepBegin
<1>2. ASSUME Beat(p) \/ Decide(p) \/ PromoteMeta(p) \/ RebaseMeta(p) \/ TouchWrite(p)
      PROVE  dir'.manifest = dir.manifest
  <2>1. \E m : dir' = [dir EXCEPT !.exists = TRUE, !.meta = m] \/ dir' = [dir EXCEPT !.meta = m]
    BY <1>2, <1>0 DEF Beat, Decide, PromoteMeta, RebaseMeta, TouchWrite, SessionDirs
  <2>2. QED
    BY <1>0, <2>1 DEF SessionDirs
<1>3. ASSUME Stage(p) PROVE dir'.manifest = dir.manifest
  <2>1. CASE Batch(p) = {}
    <3>1. dir' = [dir EXCEPT !.exists = @ \/ Tombs(p) # {}, !.fragments = @ \/ Tombs(p) # {}]
      BY <1>3, <2>1 DEF Stage
    <3>2. QED
      BY <1>0, <3>1 DEF SessionDirs
  <2>2. QED
    BY <1>3, <2>1, StageFiles
<1>4. ASSUME RebaseMake(p) PROVE dir'.manifest = dir.manifest
  <2>1. dir.exists => dir' = dir
    BY <1>4 DEF RebaseMake
  <2>2. QED
    BY <1>4, <2>1, RebaseFiles DEF DiskInv
<1>5. Fill(p) \/ Publish(p) \/ Promote(p) \/ SweepDelete(p) \/ Crash(p)
      => dir'.manifest = dir.manifest
  BY FillFiles, PublishFiles, PromoteFiles, SweepFiles, CrashFiles
<1>6. QED
  BY <1>1, <1>2, <1>3, <1>4, <1>5 DEF Query

-----------------------------------------------------------------------------
(* What holds whoever runs beside whom.  Nobody is idle with work left;    *)
(* what a process staged or published is no hour old; it parsed what was   *)
(* stale and is there; and a bin an hour old under an entry that matches   *)
(* its file says that nobody looked at the file before that mtime.         *)

Live(e, q) == Fragment(e) /\ e.stamp = file[q].stamp /\ file[q].content # Absent
Young(f) == f # None => ~ f.settled
AfterParse == {"decide"} \cup Promoting \cup Rebasing \cup Writing

IdleOne(r) == me[r].pc = "idle" => me[r].stale = {} /\ ~ me[r].calm /\ ~ me[r].stray
YoungOne(r) ==
    /\ me[r].pc \in {"fill", "publish"} =>
         \A n \in NamesOf(me[r].parsed) : Young(dir.tmps[n])
    /\ me[r].pc = "commit" =>
         \A q \in Paths : me[r].parsed[q] # None => Young(dir.bins[me[r].parsed[q]])
LookOne(r) ==
    \A q \in Paths :
        /\ me[r].parsed[q] # None => q \in me[r].stale
        /\ /\ me[r].pc \in AfterParse /\ q \in me[r].stale
           /\ file[q].stamp = me[r].seen[q] /\ file[q].content # Absent
           => me[r].parsed[q] # None
OneBack(r) == IdleOne(r) /\ YoungOne(r) /\ LookOne(r)
Ages(q, e) ==
    Live(e, q) /\ ~ Young(dir.bins[e.content])
        => \A r \in Procs : q \in me[r].stale => me[r].seen[q] = file[q].stamp
BackInv ==
    /\ \A r \in Procs : OneBack(r)
    /\ \A q \in Paths : Ages(q, dir.manifest[q]) /\ \A r \in Procs : Ages(q, me[r].mine[q])

(* No step makes a file older.                                             *)
OldFiles ==
    /\ \A c \in Contents : Young(dir.bins[c]) => Young(dir'.bins[c])
    /\ \A n \in FileNames : Young(dir.tmps[n]) => Young(dir'.tmps[n])

LEMMA NamesType ==
    ASSUME TypeInv, NEW r \in Procs
    PROVE  /\ NamesOf(me[r].parsed) = TmpNames(r) /\ TmpNames(r) \subseteq FileNames
           /\ \A q \in Paths : me[r].parsed[q] # None => me[r].parsed[q] \in Contents
           /\ \A q \in Batch(r) : TmpName(r, q) \in TmpNames(r)
<1>1. TmpNames(r) \subseteq FileNames
  BY TmpType DEF TmpNames
<1>2. \A q \in Paths : me[r].parsed[q] # None => me[r].parsed[q] \in Contents
  BY DEF TypeInv, Minds, Maybe
<1>3. QED
  BY <1>1, <1>2, NamesAre DEF TmpNames

LEMMA KinAges ==
    ASSUME NEW f, NEW g, NEW p, Kin(f, g, p), Young(f)
    PROVE  Young(g)
  BY DEF Kin, Young

LEMMA FilesAge ==
    ASSUME TypeInv, NEW p \in Procs, OneBack(p),
           Query(p) \/ SweepBegin(p) \/ SweepDelete(p) \/ Crash(p)
    PROVE  OldFiles
<1>0. dir.tmps \in [FileNames -> Maybe(Files)] /\ dir.bins \in [Contents -> Maybe(Files)]
  BY DEF TypeInv, SessionDirs
<1>1. ASSUME dir'.bins = dir.bins, dir'.tmps = dir.tmps PROVE OldFiles
  BY <1>1 DEF OldFiles
<1>2. ASSUME Fill(p) PROVE OldFiles
  BY <1>0, <1>2, FillFiles, WroteKin, KinAges DEF OldFiles
<1>3. ASSUME Stage(p), Batch(p) # {} PROVE OldFiles
  BY <1>3, StageFiles DEF OldFiles, Young
<1>4. ASSUME Publish(p) PROVE OldFiles
  <2>1. \A n \in TmpNames(p) : Young(dir.tmps[n])
    BY <1>4, TurnPublish, NamesType DEF OneBack, YoungOne
  <2>2. \A q \in Landed(p) : Young(dir.tmps[TmpName(p, q)])
    BY <2>1, NamesType DEF Landed
  <2>3. \A c \in Contents : Young(dir.bins[c]) => Young(dir'.bins[c])
    BY <1>4, <2>2, PublishFiles
  <2>4. \A n \in FileNames : Young(dir.tmps[n]) => Young(dir'.tmps[n])
    BY <1>4, PublishFiles DEF Young
  <2>5. QED
    BY <2>3, <2>4 DEF OldFiles
<1>5. ASSUME Promote(p) PROVE OldFiles
  BY <1>5, PromoteFiles DEF OldFiles, Young
<1>6. ASSUME SweepDelete(p) PROVE OldFiles
  BY <1>6, SweepFiles DEF OldFiles, Young
<1>7. ASSUME Crash(p) PROVE OldFiles
  BY <1>7, CrashFiles, KinAges DEF OldFiles
<1>8. ASSUME Rebase(p) \/ (RebaseMake(p) /\ ~ dir.exists) PROVE OldFiles
  BY <1>8, RebaseFiles DEF OldFiles, Young
<1>9. ASSUME RebaseMake(p), dir.exists PROVE OldFiles
  BY <1>1, <1>9 DEF RebaseMake
<1>10. QED
  BY <1>1, <1>2, <1>3, <1>4, <1>5, <1>6, <1>7, <1>8, <1>9, Untouched DEF Query

(* The others go on having done so.                                        *)
LEMMA BackOther ==
    ASSUME TypeInv, NEW r \in Procs, OneBack(r), Watches(r), OldFiles, UNCHANGED file
    PROVE  OneBack(r)'
<1>1. /\ me'[r].pc = me[r].pc /\ me'[r].stale = me[r].stale /\ me'[r].seen = me[r].seen
      /\ me'[r].parsed = me[r].parsed
      /\ (me'[r].calm => me[r].calm)
      /\ (me[r].pc = "idle" => me'[r].stray = me[r].stray)
  BY DEF Watches, Apart, Fields
<1>2. IdleOne(r)'
  BY <1>1 DEF OneBack, IdleOne
<1>3. YoungOne(r)'
  <2>1. NamesOf(me[r].parsed) \subseteq FileNames
    BY NamesType
  <2>2. ASSUME me[r].pc \in {"fill", "publish"}, NEW n \in NamesOf(me[r].parsed)
        PROVE  Young(dir'.tmps[n])
    BY <2>1, <2>2 DEF OneBack, YoungOne, OldFiles
  <2>3. ASSUME me[r].pc = "commit", NEW q \in Paths, me[r].parsed[q] # None
        PROVE  Young(dir'.bins[me[r].parsed[q]])
    BY <2>3, NamesType DEF OneBack, YoungOne, OldFiles
  <2>4. QED
    BY <1>1, <2>2, <2>3 DEF YoungOne, Young
<1>4. LookOne(r)'
  BY <1>1 DEF OneBack, LookOne
<1>5. QED
  BY <1>2, <1>3, <1>4 DEF OneBack

(* What p takes for stale it looked at just now, or looked at before.      *)
StaleOn(p) ==
    \A q \in Paths : q \in me'[p].stale =>
        \/ me'[p].seen[q] = file[q].stamp
        \/ q \in me[p].stale /\ me'[p].seen[q] = me[p].seen[q]

LEMMA AgesOn ==
    ASSUME TypeInv, NEW p \in Procs, \A r \in Procs \ {p} : Watches(r), OldFiles, StaleOn(p),
           UNCHANGED file, NEW q \in Paths, NEW e \in Entries, Ages(q, e)
    PROVE  Ages(q, e)'
<1> SUFFICES ASSUME Live(e, q), ~ Young(dir'.bins[e.content]), NEW r \in Procs,
                    q \in me'[r].stale
             PROVE  me'[r].seen[q] = file[q].stamp
  BY DEF Ages, Live, Young
<1>1. e.content \in Contents
  BY DEF Live, Fragment, Entries
<1>2. \A s \in Procs : q \in me[s].stale => me[s].seen[q] = file[q].stamp
  BY <1>1 DEF Ages, OldFiles
<1>3. CASE r = p
  BY <1>2, <1>3 DEF StaleOn
<1>4. CASE r # p
  BY <1>2, <1>4 DEF Watches, Apart, Fields
<1>5. QED
  BY <1>3, <1>4

LEMMA IdleBack ==
    ASSUME NEW p \in Procs, me'[p].stale = {}, \A q \in Paths : me'[p].parsed[q] = None,
           me'[p].pc \notin {"fill", "publish", "commit"},
           me'[p].pc = "idle" => ~ me'[p].calm /\ ~ me'[p].stray
    PROVE  OneBack(p)' /\ StaleOn(p)
  BY DEF OneBack, IdleOne, YoungOne, LookOne, StaleOn

(* A step that only takes p on.                                            *)
LEMMA GoesBack ==
    ASSUME NEW p \in Procs, OneBack(p), UNCHANGED file, me'[p].pc # "idle",
           me'[p].stale = me[p].stale, me'[p].seen = me[p].seen, me'[p].parsed = me[p].parsed,
           me'[p].pc \in AfterParse => me[p].pc \in AfterParse,
           YoungOne(p)'
    PROVE  OneBack(p)' /\ StaleOn(p)
  BY DEF OneBack, IdleOne, LookOne, StaleOn

LEMMA TurnBack ==
    ASSUME NEW p \in Procs, OneBack(p), UNCHANGED file, me'[p].pc # "idle", NEW F,
           F \subseteq {"pc", "snap", "mine", "dirty", "base", "target", "stray", "calm", "ok"},
           Apart(me'[p], me[p], F),
           me'[p].pc \in AfterParse => me[p].pc \in AfterParse,
           YoungOne(p)'
    PROVE  OneBack(p)' /\ StaleOn(p)
<1>1. me'[p].stale = me[p].stale /\ me'[p].seen = me[p].seen /\ me'[p].parsed = me[p].parsed
  BY DEF Apart, Fields
<1>2. QED
  BY <1>1, GoesBack

LEMMA BackQuery1 ==
    ASSUME TypeInv, SoundInv, NEW p \in Procs, OneBack(p), UNCHANGED file,
           \/ Begin(p) \/ Beat(p) \/ Snapshot(p) \/ Probe(p) \/ Gate(p) \/ Parse(p) \/ Decide(p)
           \/ Promote(p) \/ PromoteNoDir(p) \/ PromoteMeta(p) \/ PromoteManifest(p)
           \/ Rebase(p) \/ RebaseMake(p) \/ RebaseMeta(p) \/ RebaseManifest(p)
    PROVE  OneBack(p)' /\ StaleOn(p)
<1>1. ASSUME Begin(p) PROVE OneBack(p)' /\ StaleOn(p)
  BY <1>1, TurnBegin, IdleBack DEF Rises
<1>2. ASSUME me'[p].pc \notin {"fill", "publish", "commit"} PROVE YoungOne(p)'
  BY <1>2 DEF YoungOne
<1>3. ASSUME Beat(p) \/ Snapshot(p) \/ PromoteMeta(p) \/ PromoteManifest(p)
             \/ RebaseMeta(p) \/ RebaseManifest(p)
      PROVE  OneBack(p)' /\ StaleOn(p)
  <2>1. PICK here, there, F : Turn(p, here, there, F) /\ F \subseteq {"target", "snap", "mine"}
                              /\ \/ here = "beat" /\ there = "snapshot"
                                 \/ here = "snapshot" /\ there = "probe"
                                 \/ here = "promoteMeta" /\ there = "promoteManifest"
                                 \/ here = "promoteManifest" /\ there = "stage"
                                 \/ here = "rebaseMeta" /\ there = "rebaseManifest"
                                 \/ here = "rebaseManifest" /\ there = "stage"
    BY <1>3, Turned
  <2>2. /\ me'[p].pc \notin {"idle", "fill", "publish", "commit"}
        /\ me'[p].pc \in AfterParse => me[p].pc \in AfterParse
        /\ Apart(me'[p], me[p], F \cup {"pc"})
    BY <2>1 DEF Turn, AfterParse, Promoting, Rebasing, Writing
  <2>3. QED
    BY <1>2, <2>1, <2>2, TurnBack
<1>4. ASSUME Probe(p) PROVE OneBack(p)' /\ StaleOn(p)
  <2>1. /\ me'[p].pc \in {"retire", "gate"} /\ Apart(me'[p], me[p], {"pc", "dirty"})
    BY <1>4, TurnProbe
  <2>2. me'[p].pc \notin {"idle", "fill", "publish", "commit"} \cup AfterParse
    BY <2>1 DEF AfterParse, Promoting, Rebasing, Writing
  <2>3. QED
    BY <1>2, <2>1, <2>2, TurnBack
<1>5. ASSUME Gate(p) PROVE OneBack(p)' /\ StaleOn(p)
  <2>1. /\ me[p].pc = "gate" /\ me'[p].pc \in {"retire", "parse"}
        /\ me'[p].parsed = me[p].parsed
        /\ \A q \in me'[p].stale : me'[p].seen[q] = file[q].stamp
    BY <1>5, TurnGate DEF Apart, Fields
  <2>2. \A q \in Paths : me[p].parsed[q] = None
    BY <2>1, MyMind DEF MindSound, ParseSound, BeforeParse
  <2>3. me'[p].pc \notin {"idle", "fill", "publish", "commit"} \cup AfterParse
    BY <2>1 DEF AfterParse, Promoting, Rebasing, Writing
  <2>4. QED
    BY <2>1, <2>2, <2>3 DEF OneBack, IdleOne, YoungOne, LookOne, StaleOn
<1>6. ASSUME Parse(p) PROVE OneBack(p)' /\ StaleOn(p)
  <2>1. /\ me'[p].pc = "decide" /\ me'[p].stale = me[p].stale /\ me'[p].seen = me[p].seen
        /\ \A q \in Paths :
             me'[p].parsed[q] = IF q \in me[p].stale /\ file[q].content # Absent
                                THEN file[q].content ELSE None
    BY <1>6, TurnParse DEF Turn, Apart, Fields
  <2>2. \A q \in Paths : file[q].content # Absent => file[q].content # None
    BY DEF TypeInv, WorkFiles
  <2>3. QED
    BY <2>1, <2>2 DEF OneBack, IdleOne, YoungOne, LookOne, StaleOn
<1>7. ASSUME Decide(p) PROVE OneBack(p)' /\ StaleOn(p)
  <2>1. /\ me[p].pc = "decide" /\ me'[p].pc \in {"stage", "promote", "rebase"}
        /\ Apart(me'[p], me[p], {"pc", "target"})
    BY <1>7, TurnDecide
  <2>2. me'[p].pc \notin {"idle", "fill", "publish", "commit"} /\ me[p].pc \in AfterParse
    BY <2>1 DEF AfterParse
  <2>3. QED
    BY <1>2, <2>1, <2>2, TurnBack
<1>8. ASSUME Promote(p) PROVE OneBack(p)' /\ StaleOn(p)
  <2>1. /\ me[p].pc = "promote" /\ me'[p].pc = "promoteMeta"
        /\ Apart(me'[p], me[p], {"pc", "stray", "mine"})
    BY <1>8, TurnPromote
  <2>2. me'[p].pc \notin {"idle", "fill", "publish", "commit"} /\ me[p].pc \in AfterParse
    BY <2>1 DEF AfterParse, Promoting
  <2>3. QED
    BY <1>2, <2>1, <2>2, TurnBack
<1>9. ASSUME me'[p] = Idle PROVE OneBack(p)' /\ StaleOn(p)
  BY <1>9, TurnIdle, IdleBack
<1>10. ASSUME Rebase(p) PROVE OneBack(p)' /\ StaleOn(p)
  <2>1. /\ me[p].pc = "rebase" /\ me'[p].pc = "rebaseMake"
        /\ Apart(me'[p], me[p], {"pc", "calm", "stray"})
    BY <1>10, WatchRebase
  <2>2. me'[p].pc \notin {"idle", "fill", "publish", "commit"} /\ me[p].pc \in AfterParse
    BY <2>1 DEF AfterParse, Rebasing
  <2>3. QED
    BY <1>2, <2>1, <2>2, TurnBack
<1>11. ASSUME RebaseMake(p), ~ dir.exists PROVE OneBack(p)' /\ StaleOn(p)
  <2>1. Turn(p, "rebaseMake", "rebaseMeta", {})
    BY <1>11, TurnRebaseMake
  <2>2. me'[p].pc \notin {"idle", "fill", "publish", "commit"} /\ me[p].pc \in AfterParse
        /\ Apart(me'[p], me[p], {} \cup {"pc"})
    BY <2>1 DEF Turn, AfterParse, Rebasing
  <2>3. QED
    BY <1>2, <2>2, TurnBack
<1>12. QED
  BY <1>1, <1>3, <1>4, <1>5, <1>6, <1>7, <1>8, <1>9, <1>10, <1>11, TurnEnds, TurnRebaseMake

LEMMA BackQuery2 ==
    ASSUME TypeInv, SoundInv, NEW p \in Procs, OneBack(p), UNCHANGED file, OldFiles,
           \/ Stage(p) \/ Fill(p) \/ Publish(p) \/ PublishNoDir(p) \/ Commit(p)
           \/ Touch(p) \/ TouchWrite(p)
           \/ RetireNothing(p) \/ Retire(p) \/ RetireWrite(p) \/ Read(p) \/ Serve(p)
           \/ SweepBegin(p) \/ SweepDelete(p) \/ Crash(p)
    PROVE  OneBack(p)' /\ StaleOn(p)
<1>1. ASSUME Rests(p) PROVE OneBack(p)' /\ StaleOn(p)
  BY <1>1, IdleBack DEF Rests
<1>2. ASSUME me'[p].pc \notin {"fill", "publish", "commit"} PROVE YoungOne(p)'
  BY <1>2 DEF YoungOne
<1>3. ASSUME me'[p] = Idle PROVE OneBack(p)' /\ StaleOn(p)
  BY <1>3, TurnIdle, IdleBack
<1>4. ASSUME Stage(p), Batch(p) = {}, Tombs(p) # {} PROVE OneBack(p)' /\ StaleOn(p)
  <2>1. Turn(p, "stage", "publish", {})
    BY <1>4, TurnStage
  <2>2. /\ me[p].pc \in AfterParse /\ me'[p].pc = "publish" /\ me'[p].parsed = me[p].parsed
        /\ Apart(me'[p], me[p], {} \cup {"pc"})
    BY <2>1 DEF Turn, AfterParse, Writing, Apart, Fields
  <2>3. NamesOf(me[p].parsed) = {}
    BY <1>4, NamesAre DEF TmpNames
  <2>4. YoungOne(p)'
    BY <2>2, <2>3 DEF YoungOne
  <2>5. QED
    BY <2>2, <2>4, TurnBack
<1>5. ASSUME Stage(p), Batch(p) # {} PROVE OneBack(p)' /\ StaleOn(p)
  <2>1. Turn(p, "stage", "fill", {"calm"})
    BY <1>5, TurnStage
  <2>2. /\ me[p].pc \in AfterParse /\ me'[p].pc = "fill" /\ me'[p].parsed = me[p].parsed
        /\ Apart(me'[p], me[p], {"calm"} \cup {"pc"})
    BY <2>1 DEF Turn, AfterParse, Writing, Apart, Fields
  <2>3. \A n \in NamesOf(me[p].parsed) : Young(dir'.tmps[n])
    BY <1>5, NamesType, StageFiles DEF Young
  <2>4. YoungOne(p)'
    BY <2>2, <2>3 DEF YoungOne, Young
  <2>5. QED
    BY <2>2, <2>4, TurnBack
<1>6. ASSUME Turn(p, "fill", "publish", {}) PROVE OneBack(p)' /\ StaleOn(p)
  <2>2. /\ me[p].pc = "fill" /\ me'[p].pc = "publish" /\ me'[p].parsed = me[p].parsed
        /\ Apart(me'[p], me[p], {} \cup {"pc"}) /\ me[p].pc \in AfterParse
    BY <1>6 DEF Turn, AfterParse, Writing, Apart, Fields
  <2>3. \A n \in NamesOf(me[p].parsed) : Young(dir'.tmps[n])
    BY <2>2, NamesType DEF OneBack, YoungOne, OldFiles
  <2>4. YoungOne(p)'
    BY <2>2, <2>3 DEF YoungOne, Young
  <2>5. QED
    BY <2>2, <2>4, TurnBack
<1>7. ASSUME Publish(p), me'[p].pc = "commit", Landed(p) = Batch(p),
             Apart(me'[p], me[p], {"pc", "stray", "mine"})
      PROVE  OneBack(p)' /\ StaleOn(p)
  <2>1. me[p].pc = "publish" /\ me[p].pc \in AfterParse /\ me'[p].parsed = me[p].parsed
    BY <1>7, TurnPublish DEF AfterParse, Writing, Apart, Fields
  <2>2. \A q \in Batch(p) : Young(dir.tmps[TmpName(p, q)])
    BY <2>1, NamesType DEF OneBack, YoungOne
  <2>3. ASSUME NEW q \in Paths, me[p].parsed[q] # None
        PROVE  Young(dir'.bins[me[p].parsed[q]])
    <3>1. q \in Landed(p) /\ me[p].parsed[q] \in Contents
      BY <1>7, <2>3, NamesType DEF Batch
    <3>2. \E s \in Landed(p) : dir'.bins[me[p].parsed[q]] = dir.tmps[TmpName(p, s)]
      BY <1>7, <3>1, PublishFiles
    <3>3. QED
      BY <1>7, <2>2, <3>2
  <2>4. YoungOne(p)'
    BY <1>7, <2>1, <2>3 DEF YoungOne, Young
  <2>5. QED
    BY <1>7, <2>1, <2>4, TurnBack
<1>8. ASSUME Commit(p) \/ RetireNothing(p) \/ RetireWrite(p) \/ Read(p)
             \/ Turn(p, "touch", "touched", {"target"})
      PROVE  OneBack(p)' /\ StaleOn(p)
  <2>1. PICK here, there, F : Turn(p, here, there, F) /\ F \subseteq {"target", "snap", "mine"}
                              /\ there \in {"touch", "touched", "read", "serve"}
    BY <1>8, Turned
  <2>2. /\ me'[p].pc \notin {"idle", "fill", "publish", "commit"} \cup AfterParse
        /\ Apart(me'[p], me[p], F \cup {"pc"})
    BY <2>1 DEF Turn, AfterParse, Promoting, Rebasing, Writing
  <2>3. QED
    BY <1>2, <2>1, <2>2, TurnBack
<1>9. ASSUME Retire(p) PROVE OneBack(p)' /\ StaleOn(p)
  <2>1. /\ me'[p].pc \in {"read", "retireWrite"}
        /\ Apart(me'[p], me[p], {"pc", "stray", "mine"})
    BY <1>9, TurnRetire
  <2>2. me'[p].pc \notin {"idle", "fill", "publish", "commit"} \cup AfterParse
    BY <2>1 DEF AfterParse, Promoting, Rebasing, Writing
  <2>3. QED
    BY <1>2, <2>1, <2>2, TurnBack
<1>10. ASSUME SweepBegin(p) PROVE OneBack(p)' /\ StaleOn(p)
  BY <1>10, TurnSweepBegin, IdleBack DEF Rises
<1>11. Stage(p) => OneBack(p)' /\ StaleOn(p)
  BY <1>1, <1>4, <1>5, TurnStage
<1>12. Fill(p) \/ PublishNoDir(p) \/ Touch(p) \/ TouchWrite(p) => OneBack(p)' /\ StaleOn(p)
  BY <1>1, <1>6, <1>8, TurnFill, TurnEnds
<1>13. Publish(p) => OneBack(p)' /\ StaleOn(p)
  BY <1>1, <1>7, TurnPublish
<1>14. QED
  BY <1>3, <1>8, <1>9, <1>10, <1>11, <1>12, <1>13, TurnEnds

-----------------------------------------------------------------------------
(* What the steps that write the manifest make of it.                      *)

LEMMA Rewrites ==
    ASSUME TypeInv, NEW p \in Procs
    PROVE  /\ Commit(p) => /\ dir'.exists /\ me'[p].mine = NoEntries
                           /\ \A q \in Paths : dir'.manifest[q] = NewEntry(p, q)
           /\ RetireWrite(p) =>
                /\ me'[p].mine = NoEntries /\ (dir.exists => dir'.exists)
                /\ \A q \in Paths : dir'.manifest[q] = IF q \in Stale(p, me[p].mine) THEN None
                                                       ELSE me[p].mine[q]
           /\ PromoteManifest(p) =>
                dir'.exists /\ dir'.manifest = me[p].mine /\ me'[p].mine = NoEntries
           /\ RebaseManifest(p) => dir'.manifest = NoEntries
<1>0. dir \in SessionDirs
  BY DEF TypeInv
<1>1. \A d \in SessionDirs : \A m : /\ [d EXCEPT !.exists = TRUE, !.manifest = m].exists
                                    /\ [d EXCEPT !.exists = TRUE, !.manifest = m].manifest = m
  BY DEF SessionDirs
<1>2. PICK l \in Minds : l = me[p]
  BY DEF TypeInv
<1>3. \A there, m : [l EXCEPT !.pc = there, !.mine = m].mine = m
  BY <1>2 DEF Minds
<1>4. ASSUME Commit(p)
      PROVE  /\ dir'.exists /\ me'[p].mine = NoEntries
             /\ \A q \in Paths : dir'.manifest[q] = NewEntry(p, q)
  <2> DEFINE written == [q \in Paths |-> NewEntry(p, q)]
  <2>0. \A q \in Paths : written[q] = NewEntry(p, q)
    OBVIOUS
  <2>1. PICK m : m = written /\ \A q \in Paths : m[q] = NewEntry(p, q)
    BY <2>0
  <2>2. dir' = [dir EXCEPT !.exists = TRUE, !.manifest = m]
    BY <1>4, <2>1 DEF Commit
  <2>3. PICK v : v = NoEntries
    OBVIOUS
  <2>4. me'[p] = [l EXCEPT !.pc = "touch", !.mine = v]
    BY <1>2, <1>4, <2>3 DEF Commit, Goto
  <2>5. QED
    BY <1>0, <1>1, <1>3, <2>1, <2>2, <2>3, <2>4
<1>5. ASSUME RetireWrite(p)
      PROVE  /\ me'[p].mine = NoEntries /\ (dir.exists => dir'.exists)
             /\ \A q \in Paths : dir'.manifest[q] = IF q \in Stale(p, me[p].mine) THEN None
                                                    ELSE me[p].mine[q]
  <2> DEFINE kept == [q \in Paths |-> IF q \in Stale(p, me[p].mine) THEN None ELSE me[p].mine[q]]
  <2>1. PICK m : m = kept
    OBVIOUS
  <2>2. PICK e : e = (kept # NoEntries)
    OBVIOUS
  <2>3. dir' = [dir EXCEPT !.exists = @ \/ e, !.manifest = m]
    BY <1>5, <2>1, <2>2 DEF RetireWrite
  <2>4. PICK v : v = NoEntries
    OBVIOUS
  <2>5. me'[p] = [l EXCEPT !.pc = "read", !.mine = v]
    BY <1>2, <1>5, <2>4, Takes DEF RetireWrite, Goto
  <2>6. dir'.manifest = m /\ (dir.exists => dir'.exists)
    BY <1>0, <2>3 DEF SessionDirs
  <2>7. \A q \in Paths : m[q] = IF q \in Stale(p, me[p].mine) THEN None ELSE me[p].mine[q]
    BY <2>1
  <2>8. QED
    BY <1>3, <2>4, <2>5, <2>6, <2>7
<1>6. ASSUME PromoteManifest(p)
      PROVE  dir'.exists /\ dir'.manifest = me[p].mine /\ me'[p].mine = NoEntries
  <2>1. PICK m : m = me[p].mine
    OBVIOUS
  <2>2. dir' = [dir EXCEPT !.exists = TRUE, !.manifest = m]
    BY <1>6, <2>1 DEF PromoteManifest
  <2>3. PICK v : v = NoEntries
    OBVIOUS
  <2>4. me'[p] = [l EXCEPT !.pc = "stage", !.mine = v]
    BY <1>2, <1>6, <2>3, Takes DEF PromoteManifest, Goto
  <2>5. QED
    BY <1>0, <1>1, <1>3, <2>1, <2>2, <2>3, <2>4
<1>7. ASSUME RebaseManifest(p) PROVE dir'.manifest = NoEntries
  <2>1. PICK m : m = NoEntries
    OBVIOUS
  <2>2. dir' = [dir EXCEPT !.exists = TRUE, !.manifest = m]
    BY <1>7, <2>1 DEF RebaseManifest
  <2>3. QED
    BY <1>0, <1>1, <2>1, <2>2
<1>8. QED
  BY <1>4, <1>5, <1>6, <1>7

(* The manifest a process holds the lock for is the one it found.          *)
LEMMA MineFound ==
    ASSUME TypeInv, NEW p \in Procs,
           Query(p) \/ SweepBegin(p) \/ SweepDelete(p) \/ Crash(p), NEW q \in Paths
    PROVE  me'[p].mine[q] \in {None, dir.manifest[q], me[p].mine[q]}
<1>0. NoEntries[q] = None
  BY DEF NoEntries
<1>1. ASSUME me'[p].mine \in {me[p].mine, NoEntries, dir.manifest}
      PROVE  me'[p].mine[q] \in {None, dir.manifest[q], me[p].mine[q]}
  BY <1>0, <1>1
<1>2. Begin(p) \/ SweepBegin(p) => me'[p].mine = NoEntries
  BY TurnBegin, TurnSweepBegin DEF Rises
<1>3. me'[p] = Idle => me'[p].mine = NoEntries
  BY TurnIdle
<1>4. Rests(p) => me'[p].mine = me[p].mine
  BY DEF Rests, Apart, Fields
<1>5. Commit(p) \/ RetireWrite(p) \/ PromoteManifest(p) => me'[p].mine = NoEntries
  BY Rewrites
<1>6. Publish(p) => me'[p].mine \in {me[p].mine, dir.manifest}
  BY <1>4, TurnPublish
<1>7. Retire(p) => me'[p].mine \in {me[p].mine, dir.manifest}
  BY TurnRetire
<1>8. Promote(p) => me'[p].mine[q] \in {None, dir.manifest[q]}
  BY TurnPromote
<1>9. Probe(p) \/ Gate(p) \/ Parse(p) \/ Decide(p) \/ Rebase(p) => me'[p].mine = me[p].mine
  BY TurnProbe, TurnGate, TurnParse, TurnDecide, WatchRebase DEF Turn, Apart, Fields
<1>10. \A here, there, F : Turn(p, here, there, F) /\ "mine" \notin F
          => me'[p].mine = me[p].mine
  BY DEF Turn, Apart, Fields
<1>11. Beat(p) \/ Snapshot(p) \/ PromoteMeta(p) \/ RebaseMeta(p) \/ RebaseManifest(p)
       \/ RetireNothing(p) \/ Read(p) => me'[p].mine = me[p].mine
  BY <1>10, Turned
<1>12. RebaseMake(p) \/ Stage(p) \/ Fill(p) \/ Touch(p) \/ TouchWrite(p) \/ PublishNoDir(p)
       => me'[p].mine \in {me[p].mine, NoEntries}
  BY <1>3, <1>4, <1>10, TurnRebaseMake, TurnStage, TurnFill, TurnEnds
<1>13. Serve(p) \/ PromoteNoDir(p) \/ SweepDelete(p) \/ Crash(p) => me'[p].mine = NoEntries
  BY <1>3, TurnEnds
<1>14. QED
  BY <1>1, <1>2, <1>5, <1>6, <1>7, <1>8, <1>9, <1>11, <1>12, <1>13 DEF Query

(* Entries come from entries, and from what a process published just now.  *)
LEMMA EntriesAge ==
    ASSUME TypeInv, DiskInv, BackInv, NEW p \in Procs,
           Query(p) \/ SweepBegin(p) \/ SweepDelete(p) \/ Crash(p), NEW q \in Paths
    PROVE  Ages(q, dir'.manifest[q]) /\ Ages(q, me'[p].mine[q])
<1>1. /\ Ages(q, None) /\ Ages(q, Tombstone) /\ NoEntries[q] = None
      /\ Ages(q, dir.manifest[q]) /\ Ages(q, me[p].mine[q])
  BY DEF BackInv, Ages, Live, Fragment, NoEntries
<1>2. Ages(q, me'[p].mine[q])
  BY <1>1, MineFound
<1>3. ASSUME Commit(p) PROVE Ages(q, dir'.manifest[q])
  <2>1. dir'.manifest[q] = NewEntry(p, q)
    BY <1>3, Rewrites
  <2>2. CASE q \in Tombs(p)
    BY <1>1, <2>1, <2>2 DEF NewEntry
  <2>3. CASE q \notin Tombs(p) /\ q \notin Batch(p)
    BY <1>1, <2>1, <2>3 DEF NewEntry
  <2>4. CASE q \notin Tombs(p) /\ q \in Batch(p)
    <3>1. PICK e : e = dir'.manifest[q] /\ e = [stamp |-> StampOf(p, q), content |-> me[p].parsed[q]]
      BY <2>1, <2>4 DEF NewEntry
    <3>2. me[p].pc = "commit" /\ me[p].parsed[q] # None
      BY <1>3, <2>4 DEF Commit, At, Batch
    <3>3. Young(dir.bins[e.content])
      BY <3>1, <3>2 DEF BackInv, OneBack, YoungOne
    <3>4. QED
      BY <3>1, <3>3 DEF Ages
  <2>5. QED
    BY <2>2, <2>3, <2>4
<1>4. RetireWrite(p) \/ PromoteManifest(p) \/ RebaseManifest(p) => Ages(q, dir'.manifest[q])
  BY <1>1, Rewrites
<1>5. Rebase(p) => Ages(q, dir'.manifest[q])
  BY <1>1, RebaseFiles
<1>6. QED
  BY <1>1, <1>2, <1>3, <1>4, <1>5, ManifestStays

LEMMA BackQuery ==
    ASSUME TypeInv, SoundInv, DiskInv, BackInv, NEW p \in Procs,
           Query(p) \/ SweepBegin(p) \/ SweepDelete(p) \/ Crash(p)
    PROVE  BackInv'
<1>1. UNCHANGED file /\ dir' \in SessionDirs /\ me' \in [Procs -> Minds]
  BY ProcKeeps DEF Keeps
<1>2. \A r \in Procs : OneBack(r)
  BY DEF BackInv
<1>3. OldFiles /\ \A r \in Procs \ {p} : Watches(r)
  BY <1>2, FilesAge, Watching
<1>4. OneBack(p)' /\ StaleOn(p)
  BY <1>1, <1>2, <1>3, BackQuery1, BackQuery2 DEF Query
<1>5. \A r \in Procs \ {p} : OneBack(r)'
  BY <1>1, <1>2, <1>3, BackOther
<1>6. ASSUME NEW q \in Paths
      PROVE  Ages(q, dir.manifest[q])' /\ \A r \in Procs : Ages(q, me[r].mine[q])'
  <2>1. ASSUME NEW e \in Entries, Ages(q, e) PROVE Ages(q, e)'
    BY <1>1, <1>3, <1>4, <2>1, AgesOn
  <2>2. Ages(q, dir.manifest[q])'
    <3>1. PICK e \in Entries : e = dir'.manifest[q]
      BY <1>1 DEF SessionDirs, Manifests
    <3>2. Ages(q, e)'
      BY <2>1, <3>1, EntriesAge
    <3>3. QED
      BY <3>1, <3>2 DEF Ages, Live
  <2>3. ASSUME NEW r \in Procs PROVE Ages(q, me[r].mine[q])'
    <3>1. PICK e \in Entries : e = me'[r].mine[q]
      BY <1>1 DEF Minds, Manifests
    <3>2. Ages(q, e)
      <4>1. CASE r = p
        BY <3>1, <4>1, EntriesAge
      <4>2. CASE r # p
        BY <1>3, <3>1, <4>2 DEF Watches, Apart, Fields, BackInv
      <4>3. QED
        BY <4>1, <4>2
    <3>3. Ages(q, e)'
      BY <2>1, <3>2
    <3>4. QED
      BY <3>1, <3>3 DEF Ages, Live
  <2>4. QED
    BY <2>2, <2>3
<1>7. QED
  BY <1>4, <1>5, <1>6 DEF BackInv

(* What the queries see of the user and of the other programs.             *)
LEMMA OutsideWatched ==
    ASSUME TypeInv
    PROVE  /\ \A q, c : Edit(q, c) =>
                \A r \in Procs : Watches(r) /\ me'[r].calm = me[r].calm
                                 /\ me'[r].over = me[r].over /\ me'[r].stray = me[r].stray
           /\ (\E h \in Commits : MoveHead(h)) \/ RetireSession \/ RetireL1 =>
                \A r \in Procs : Watches(r) /\ ~ me'[r].calm
           /\ UNCHANGED me => \A r \in Procs : Watches(r)
<1>1. \A r \in Procs : me[r] \in Minds
  BY DEF TypeInv
<1>2. ASSUME NEW q, NEW c, Edit(q, c), NEW r \in Procs
      PROVE  Watches(r) /\ me'[r].calm = me[r].calm
             /\ me'[r].over = me[r].over /\ me'[r].stray = me[r].stray
  <2>1. PICK l \in Minds : l = me[r]
    BY <1>1
  <2>2. PICK n : n = me'[r] /\ n = [l EXCEPT !.alone = FALSE]
    BY <1>2, <2>1 DEF Edit
  <2>3. /\ Apart(n, l, {"alone", "calm", "over", "stray"})
        /\ n.calm = l.calm /\ n.over = l.over /\ n.stray = l.stray
    BY <2>1, <2>2 DEF Minds, Apart, Fields
  <2>4. QED
    BY <2>1, <2>2, <2>3 DEF Watches
<1>3. ASSUME DisturbAll, NEW r \in Procs PROVE Watches(r) /\ ~ me'[r].calm
  <2>1. PICK l \in Minds : l = me[r]
    BY <1>1
  <2>2. PICK n : n = me'[r] /\ n = [l EXCEPT !.alone = FALSE, !.calm = FALSE]
    BY <1>3, <2>1 DEF DisturbAll
  <2>3. /\ Apart(n, l, {"alone", "calm", "over", "stray"})
        /\ ~ n.calm /\ n.over = l.over /\ n.stray = l.stray
    BY <2>1, <2>2 DEF Minds, Apart, Fields
  <2>4. QED
    BY <2>1, <2>2, <2>3 DEF Watches
<1>4. ASSUME RetireSession PROVE \A r \in Procs : Watches(r) /\ ~ me'[r].calm
  <2> DEFINE others(r) == [me[r] EXCEPT !.alone = FALSE, !.calm = FALSE]
  <2> DEFINE known == [r \in Procs |-> others(r)]
  <2>1. Retired(known)
    BY <1>4, Zenon DEF RetireSession
  <2>2. \A l \in Minds : [l EXCEPT !.alone = FALSE, !.calm = FALSE] \in Minds
    BY DEF Minds
  <2>3. \A r \in Procs :
           /\ others(r) \in Minds /\ ~ others(r).calm /\ others(r).over = me[r].over
           /\ others(r).stray = me[r].stray
           /\ Apart(others(r), me[r], {"alone", "calm", "over", "stray"})
    BY <1>1, <2>2, WatchMind
  <2> HIDE DEF others
  <2>4. \A r \in Procs : known[r] = others(r)
    OBVIOUS
  <2> HIDE DEF known
  <2>5. PICK strays \in SUBSET {r \in Procs : known[r].pc \in LockPoints} :
           me' = [r \in Procs |-> IF known[r].pc = "idle" THEN known[r]
                                  ELSE [known[r] EXCEPT !.stray = (@ \/ r \in strays)]]
    BY <2>1 DEF Retired
  <2>6. ASSUME NEW r \in Procs
        PROVE  /\ Apart(me'[r], me[r], {"alone", "calm", "over", "stray"}) /\ ~ me'[r].calm
               /\ me'[r].over = me[r].over
               /\ me[r].pc = "idle" => me'[r].stray = me[r].stray
    <3>1. PICK l \in Minds : l = others(r) /\ l.pc = me[r].pc
      BY <2>3 DEF Apart, Fields
    <3>2. PICK b : b = (l.stray \/ r \in strays)
      OBVIOUS
    <3>3. PICK n : n = me'[r] /\ n = IF l.pc = "idle" THEN l ELSE [l EXCEPT !.stray = b]
      BY <2>4, <2>5, <3>1, <3>2
    <3>4. /\ Apart(n, l, {"stray"}) /\ (l.pc = "idle" => n.stray = l.stray)
          /\ n.calm = l.calm /\ n.over = l.over
      BY <3>3 DEF Minds, Apart, Fields
    <3>5. Apart(n, me[r], {"alone", "calm", "over", "stray"})
      BY <2>3, <3>1, <3>4 DEF Apart
    <3>6. QED
      BY <2>3, <3>1, <3>3, <3>4, <3>5
  <2>7. QED
    BY <2>6 DEF Watches
<1>5. ASSUME UNCHANGED me, NEW r \in Procs PROVE Watches(r)
  BY <1>5 DEF Watches, Apart
<1>6. QED
  BY <1>2, <1>3, <1>4, <1>5 DEF MoveHead, RetireL1

(* What an edit does to the worktree.                                      *)
LEMMA Edited ==
    ASSUME TypeInv, NEW q \in Paths, NEW c \in Contents \cup {Absent}, Edit(q, c)
    PROVE  /\ \A r \in Paths \ {q} : file'[r] = file[r]
           /\ file'[q].content = Absent \/ file'[q].stamp = clock + 1
           /\ clock \in Nat /\ UNCHANGED <<dir, holder, head>>
<1>1. PICK f : f = [content |-> c, stamp |-> IF c = Absent THEN 0 ELSE clock + 1]
  OBVIOUS
<1>2. file' = [file EXCEPT ![q] = f] /\ UNCHANGED <<dir, holder, head>>
  BY <1>1 DEF Edit
<1>3. QED
  BY <1>1, <1>2 DEF TypeInv, Stamps

(* An entry of a file that was edited is live no more.                     *)
LEMMA EditedLive ==
    ASSUME TypeInv, SoundInv, NEW q \in Paths, NEW c \in Contents \cup {Absent}, Edit(q, c),
           NEW r \in Paths
    PROVE  /\ \A e \in Entries : Sound(e, file[r], clock) /\ Live(e, r)'
                => r # q /\ file'[r] = file[r] /\ Live(e, r)
           /\ \A n \in Stamps : n <= clock /\ file'[r].stamp = n /\ file'[r].content # Absent
                => r # q /\ file'[r] = file[r]
<1>1. ASSUME NEW n \in Stamps, n <= clock, file'[r].stamp = n, file'[r].content # Absent
      PROVE  r # q /\ file'[r] = file[r]
  BY <1>1, Edited, EntryTypes
<1>2. ASSUME NEW e \in Entries, Sound(e, file[r], clock), Live(e, r)'
      PROVE  r # q /\ file'[r] = file[r] /\ Live(e, r)
  <2>1. Fragment(e) /\ e.stamp = file'[r].stamp /\ file'[r].content # Absent
    BY <1>2 DEF Live
  <2>2. e.stamp \in Stamps /\ e.stamp <= clock
    BY <1>2, <2>1 DEF Sound, Fragment, Entries
  <2>3. QED
    BY <1>1, <2>1, <2>2 DEF Live
<1>3. QED
  BY <1>1, <1>2

(* Nobody takes an old look, nothing is older.                             *)
LEMMA BackWatched ==
    ASSUME TypeInv, SoundInv, BackInv, TypeInv', \A r \in Procs : Watches(r), OldFiles,
           UNCHANGED file, dir'.manifest \in {dir.manifest, NoEntries}
    PROVE  BackInv'
<1>1. \A r \in Procs : OneBack(r)'
  BY BackOther DEF BackInv
<1>2. ASSUME NEW q \in Paths, NEW e \in Entries, Ages(q, e)
      PROVE  Ages(q, e)'
  <2> SUFFICES ASSUME Live(e, q), ~ Young(dir'.bins[e.content]), NEW r \in Procs,
                      q \in me'[r].stale
               PROVE  me'[r].seen[q] = file[q].stamp
    BY DEF Ages, Live, Young
  <2>1. e.content \in Contents
    BY DEF Live, Fragment, Entries
  <2>2. \A s \in Procs : q \in me[s].stale => me[s].seen[q] = file[q].stamp
    BY <1>2, <2>1 DEF Ages, OldFiles
  <2>3. QED
    BY <2>2 DEF Watches, Apart, Fields
<1>3. ASSUME NEW q \in Paths
      PROVE  Ages(q, dir.manifest[q])' /\ \A r \in Procs : Ages(q, me[r].mine[q])'
  <2>0. Ages(q, None) /\ NoEntries[q] = None
    BY DEF Ages, Live, Fragment, NoEntries
  <2>1. PICK e \in Entries : e = dir'.manifest[q]
    BY DEF TypeInv, SessionDirs, Manifests
  <2>2. Ages(q, e)'
    BY <1>2, <2>0, <2>1 DEF BackInv
  <2>3. Ages(q, dir.manifest[q])'
    BY <2>1, <2>2 DEF Ages, Live
  <2>4. ASSUME NEW r \in Procs PROVE Ages(q, me[r].mine[q])'
    <3>1. PICK g \in Entries : g = me'[r].mine[q]
      BY DEF TypeInv, Minds, Manifests
    <3>2. Ages(q, g)
      BY <3>1 DEF Watches, Apart, Fields, BackInv
    <3>3. Ages(q, g)'
      BY <1>2, <3>2
    <3>4. QED
      BY <3>1, <3>3 DEF Ages, Live
  <2>5. QED
    BY <2>3, <2>4
<1>4. QED
  BY <1>1, <1>3 DEF BackInv

LEMMA BackEdit ==
    ASSUME TypeInv, SoundInv, BackInv, TypeInv',
           NEW q \in Paths, NEW c \in Contents \cup {Absent}, Edit(q, c)
    PROVE  BackInv'
<1>1. UNCHANGED <<dir, holder, head>>
  BY Edited
<1>2. ASSUME NEW r \in Procs
      PROVE  /\ me'[r].pc = me[r].pc /\ me'[r].stale = me[r].stale /\ me'[r].seen = me[r].seen
             /\ me'[r].parsed = me[r].parsed /\ me'[r].mine = me[r].mine
             /\ me'[r].calm = me[r].calm /\ me'[r].stray = me[r].stray
  BY OutsideWatched DEF Watches, Apart, Fields
<1>3. ASSUME NEW r \in Procs PROVE OneBack(r)'
  <2>1. OneBack(r)
    BY DEF BackInv
  <2>2. \A x \in Paths : me[r].seen[x] \in Stamps /\ me[r].seen[x] <= clock
    BY MyMind DEF Minds, MindSound, ParseSound
  <2>3. \A x \in Paths : file'[x].stamp = me[r].seen[x] /\ file'[x].content # Absent
           => file'[x] = file[x]
    BY <2>2, EditedLive
  <2>4. LookOne(r)'
    BY <1>2, <2>1, <2>3 DEF OneBack, LookOne
  <2>5. IdleOne(r)' /\ YoungOne(r)'
    BY <1>1, <1>2, <2>1 DEF OneBack, IdleOne, YoungOne
  <2>6. QED
    BY <2>4, <2>5 DEF OneBack
<1>4. ASSUME NEW x \in Paths, NEW e \in Entries, Sound(e, file[x], clock), Ages(x, e)
      PROVE  Ages(x, e)'
  <2>1. Live(e, x)' => file'[x] = file[x] /\ Live(e, x)
    BY <1>4, EditedLive
  <2>2. QED
    BY <1>1, <1>2, <1>4, <2>1 DEF Ages
<1>5. ASSUME NEW x \in Paths
      PROVE  Ages(x, dir.manifest[x])' /\ \A r \in Procs : Ages(x, me[r].mine[x])'
  <2>1. PICK e \in Entries : e = dir.manifest[x]
    BY MyMind DEF TypeInv, SessionDirs, Manifests
  <2>2. Sound(e, file[x], clock) /\ Ages(x, e)
    BY <2>1 DEF SoundInv, AllSound, BackInv
  <2>3. Ages(x, e)'
    BY <1>4, <2>2
  <2>4. Ages(x, dir.manifest[x])'
    BY <1>1, <2>1, <2>3 DEF Ages, Live
  <2>5. ASSUME NEW r \in Procs PROVE Ages(x, me[r].mine[x])'
    <3>1. PICK g \in Entries : g = me[r].mine[x]
      BY DEF TypeInv, Minds, Manifests
    <3>2. Sound(g, file[x], clock) /\ Ages(x, g)
      BY <3>1, MyMind DEF AllSound, BackInv
    <3>3. Ages(x, g)'
      BY <1>4, <3>2
    <3>4. QED
      BY <1>2, <3>1, <3>3 DEF Ages, Live
  <2>6. QED
    BY <2>4, <2>5
<1>6. QED
  BY <1>3, <1>5 DEF BackInv

(* An hour: nobody is underway.                                            *)
LEMMA BackHour ==
    ASSUME TypeInv, BackInv, HourPasses
    PROVE  BackInv'
<1>1. /\ UNCHANGED <<file, me>>
      /\ \A r \in Procs : me[r].pc = "idle"
  BY DEF HourPasses, At
<1>2. \A r \in Procs : me[r].stale = {}
  BY <1>1 DEF BackInv, OneBack, IdleOne
<1>3. ASSUME NEW r \in Procs PROVE OneBack(r)'
  BY <1>1 DEF BackInv, OneBack, IdleOne, YoungOne, LookOne
<1>4. \A q \in Paths : Ages(q, dir.manifest[q])' /\ \A r \in Procs : Ages(q, me[r].mine[q])'
  BY <1>1, <1>2 DEF Ages
<1>5. QED
  BY <1>3, <1>4 DEF BackInv

LEMMA EmptyDir ==
    ASSUME TypeInv, RetireSession \/ RetireL1
    PROVE  /\ dir'.manifest = NoEntries
           /\ \A c \in Contents : dir'.bins[c] = None
           /\ \A n \in FileNames : dir'.tmps[n] = None
<1>1. dir' = NoDir \/ \E m : dir' = [NoDir EXCEPT !.exists = TRUE, !.meta = m]
  BY DEF RetireSession, Retired, RetireL1
<1>2. QED
  BY <1>1, EmptyFiles

LEMMA BackKeeps == TypeInv /\ SoundInv /\ DiskInv /\ BackInv /\ [Next]_vars => BackInv'
<1> SUFFICES ASSUME TypeInv, SoundInv, DiskInv, BackInv, [Next]_vars PROVE BackInv'
  OBVIOUS
<1>0. TypeInv'
  BY NextKeeps
<1>1. ASSUME NEW p \in Procs, Query(p) \/ SweepBegin(p) \/ SweepDelete(p) \/ Crash(p)
      PROVE  BackInv'
  BY <1>1, BackQuery
<1>2. ASSUME NEW q \in Paths, NEW c \in Contents \cup {Absent}, Edit(q, c)
      PROVE  BackInv'
  BY <1>0, <1>2, BackEdit
<1>3. CASE \E h \in Commits : MoveHead(h)
  <2>1. UNCHANGED <<file, dir>> /\ \A r \in Procs : Watches(r)
    BY <1>3, OutsideWatched DEF MoveHead
  <2>2. OldFiles
    BY <2>1 DEF OldFiles
  <2>3. QED
    BY <1>0, <2>1, <2>2, BackWatched
<1>4. CASE RetireSession \/ RetireL1
  <2>1. UNCHANGED file /\ \A r \in Procs : Watches(r)
    BY <1>4, OutsideWatched DEF RetireSession, RetireL1
  <2>2. OldFiles /\ dir'.manifest = NoEntries
    BY <1>4, EmptyDir DEF OldFiles, Young
  <2>3. QED
    BY <1>0, <2>1, <2>2, BackWatched
<1>5. CASE UNCHANGED vars
  <2>1. UNCHANGED <<file, dir, me>>
    BY <1>5 DEF vars
  <2>2. QED
    BY <1>0, <2>1, OutsideWatched, BackWatched DEF OldFiles
<1>6. QED
  BY <1>1, <1>2, <1>3, <1>4, <1>5, BackHour DEF Next

LEMMA InitBack == Init => BackInv
<1> SUFFICES ASSUME Init PROVE BackInv
  OBVIOUS
<1>1. \A r \in Procs : me[r] = Idle
  BY DEF Init
<1>2. /\ Idle.pc = "idle" /\ Idle.stale = {} /\ ~ Idle.calm /\ ~ Idle.stray
      /\ Idle.mine = NoEntries /\ \A q \in Paths : Idle.parsed[q] = None
  BY DEF Idle
<1>3. \A r \in Procs : OneBack(r)
  BY <1>1, <1>2 DEF OneBack, IdleOne, YoungOne, LookOne
<1>4. \A q \in Paths : \A e : Ages(q, e)
  BY <1>1, <1>2 DEF Ages
<1>5. QED
  BY <1>3, <1>4 DEF BackInv

-----------------------------------------------------------------------------
(* What holds while anybody is calm.  Nobody is stray, so that who is at a *)
(* point of the lock holds it; the tmps a process is to publish are whole; *)
(* an entry that was live when a probe saw its path clean is live no more, *)
(* unless the file still is what HEAD has; what a sweep judged is still an *)
(* orphan; and what was published under the lock is there to be named.     *)

SomeCalm == \E p \in Procs : me[p].calm
Probed == {"gate", "parse", "decide", "touch", "touched", "retire", "retireWrite"}
            \cup Promoting \cup Rebasing \cup Writing

LockOne(r) == ~ me[r].stray /\ (me[r].pc \in HoldPoints => holder = r)
TmpsOne(r) ==
    me[r].pc \in {"fill", "publish"} =>
        \A n \in NamesOf(me[r].parsed) : dir.tmps[n] # None =>
            dir.tmps[n].whole \/ (me[r].pc = "fill" /\ r \in dir.tmps[n].writers)
CleanOne(r) ==
    me[r].pc \in Probed =>
        \A q \in Paths \ me[r].dirty : Live(me[r].snap[q], q) => file[q].content = Tree[head][q]
OrphansOne(r) ==
    me[r].pc = "sweep" =>
        /\ me[r].orphans \cap Named(dir.manifest) = {}
        /\ \A c \in me[r].orphans : dir.bins[c] = None \/ dir.bins[c].settled
BinsOne(r) ==
    me[r].pc = "commit" =>
        dir.exists /\ \A q \in Paths : me[r].parsed[q] # None => Valid(me[r].parsed[q], dir.bins)
QuietOne(r) == LockOne(r) /\ TmpsOne(r) /\ CleanOne(r) /\ OrphansOne(r) /\ BinsOne(r)
QuietInv == SomeCalm => \A r \in Procs : QuietOne(r)

ProcStep(p) == Query(p) \/ SweepBegin(p) \/ SweepDelete(p) \/ Crash(p)

(* Nobody becomes calm but by beginning.                                   *)
LEMMA CalmStays ==
    ASSUME TypeInv, NEW p \in Procs, ProcStep(p), me'[p].calm
    PROVE  me[p].calm \/ ((Begin(p) \/ SweepBegin(p)) /\ Rises(p))
<1>1. Begin(p) \/ SweepBegin(p) => Rises(p)
  BY TurnBegin, TurnSweepBegin
<1>2. me'[p] # Idle
  BY TurnIdle
<1>3. \A here, there, F : Turn(p, here, there, F) /\ "calm" \notin F => me[p].calm
  BY DEF Turn, Apart, Fields
<1>4. Rests(p) => me[p].calm
  BY DEF Rests, Apart, Fields
<1>5. Beat(p) \/ Snapshot(p) \/ PromoteMeta(p) \/ PromoteManifest(p) \/ RebaseMeta(p)
      \/ RebaseManifest(p) \/ Commit(p) \/ RetireNothing(p) \/ RetireWrite(p) \/ Read(p)
      => me[p].calm
  BY <1>3, Turned
<1>6. Probe(p) \/ Gate(p) \/ Decide(p) \/ Promote(p) \/ Retire(p) => me[p].calm
  BY TurnProbe, TurnGate, TurnDecide, TurnPromote, TurnRetire DEF Apart, Fields
<1>7. Publish(p) => me[p].calm
  BY <1>4, TurnPublish DEF Apart, Fields
<1>8. Parse(p) \/ Rebase(p) => me[p].calm
  BY <1>3, TurnParse, WatchRebase
<1>9. RebaseMake(p) \/ Stage(p) \/ Fill(p) => me[p].calm
  BY <1>2, <1>3, <1>4, TurnRebaseMake, TurnStage, TurnFill
<1>10. PublishNoDir(p) \/ Touch(p) \/ TouchWrite(p) \/ Serve(p) \/ PromoteNoDir(p)
       \/ SweepDelete(p) \/ Crash(p) => me[p].calm
  BY <1>2, <1>3, <1>4, TurnEnds
<1>11. QED
  BY <1>1, <1>5, <1>6, <1>7, <1>8, <1>9, <1>10 DEF Query, ProcStep

(* If anybody is calm after a step, all was well before it: either somebody *)
(* was calm, or nobody ran.                                                *)
LEMMA QuietBefore ==
    ASSUME TypeInv, BackInv, QuietInv, NEW p \in Procs, ProcStep(p), SomeCalm'
    PROVE  \A r \in Procs : QuietOne(r)
<1>1. CASE SomeCalm
  BY <1>1 DEF QuietInv
<1>2. CASE ~ SomeCalm
  <2>1. PICK s \in Procs : me'[s].calm
    BY DEF SomeCalm
  <2>2. s = p
    BY <1>2, <2>1, Watching DEF Watches, SomeCalm, ProcStep
  <2>3. Rises(p)
    BY <1>2, <2>1, <2>2, CalmStays DEF SomeCalm
  <2>4. \A r \in Procs : me[r].pc = "idle"
    BY <1>2, <2>1, <2>2, <2>3 DEF Rises, SomeCalm
  <2>5. \A r \in Procs : ~ me[r].stray
    BY <2>4 DEF BackInv, OneBack, IdleOne
  <2>6. QED
    BY <2>4, <2>5 DEF QuietOne, LockOne, TmpsOne, CleanOne, OrphansOne, BinsOne, HoldPoints,
                      Probed, Promoting, Rebasing, Writing
<1>3. QED
  BY <1>1, <1>2

(* How the lock goes from hand to hand.                                    *)
LEMMA LockGoes ==
    ASSUME TypeInv, NEW p \in Procs, ProcStep(p), ~ me[p].stray
    PROVE  /\ ~ Rebase(p) /\ holder' # holder =>
                \/ holder = None /\ holder' = p
                \/ holder = p /\ holder' = None
           /\ (Promote(p) \/ Publish(p) \/ SweepBegin(p) \/ Retire(p)) => holder = None
           /\ Promote(p) \/ Publish(p) => dir.exists
           /\ me'[p].pc \in HoldPoints =>
                \/ holder' = p
                \/ PromoteMeta(p) /\ me[p].pc \in HoldPoints /\ holder' = holder
<1>1. CanLock(p) => dir.exists /\ holder = None
  BY DEF CanLock
<1>2. Locked(p) = p /\ (holder # p => Unlocked(p) = holder)
      /\ (holder = p => Unlocked(p) = None)
  BY DEF Locked, Unlocked
<1>3. Promote(p) => CanLock(p) /\ holder' = Locked(p)
  BY DEF Promote
<1>4. Publish(p) => /\ CanLock(p) /\ holder' \in {holder, Locked(p)}
                    /\ me'[p].pc \in HoldPoints => holder' = Locked(p)
  BY TurnPublish DEF HoldPoints, Rests
<1>5. Retire(p) => /\ CanLock(p) /\ holder' \in {holder, Locked(p)}
                   /\ me'[p].pc \in HoldPoints => holder' = Locked(p)
  BY TurnRetire DEF HoldPoints
<1>6. SweepBegin(p) => holder = None /\ holder' = p
  BY DEF SweepBegin
<1>7. Rebase(p) => me'[p].pc \notin HoldPoints
  BY WatchRebase DEF HoldPoints
<1>8. PromoteManifest(p) \/ Commit(p) \/ RetireWrite(p) \/ SweepDelete(p) \/ Crash(p)
      => holder' = Unlocked(p)
  BY DEF PromoteManifest, Commit, RetireWrite, SweepDelete, Crash
<1>9. PromoteManifest(p) \/ Commit(p) \/ RetireWrite(p) \/ SweepDelete(p) \/ Crash(p)
      => me'[p].pc \notin HoldPoints
  BY Turned, TurnIdle, TurnEnds DEF Turn, HoldPoints
<1>10. PromoteMeta(p) => me[p].pc \in HoldPoints /\ holder' = holder
  BY DEF PromoteMeta, At, HoldPoints
<1>11. Begin(p) \/ Beat(p) \/ Snapshot(p) \/ Probe(p) \/ Gate(p) \/ Parse(p) \/ Decide(p)
       \/ PromoteNoDir(p) \/ RebaseMake(p) \/ RebaseMeta(p) \/ RebaseManifest(p)
       \/ Stage(p) \/ Fill(p) \/ PublishNoDir(p)
       \/ Touch(p) \/ TouchWrite(p) \/ RetireNothing(p) \/ Read(p) \/ Serve(p)
       => holder' = holder
  BY DEF Begin, Beat, Snapshot, Probe, Gate, Parse, Decide, PromoteNoDir, RebaseMake, RebaseMeta,
         RebaseManifest, Stage, Fill, PublishNoDir, Touch, TouchWrite, RetireNothing, Read, Serve
<1>12. Begin(p) \/ Beat(p) \/ Snapshot(p) \/ Probe(p) \/ Gate(p) \/ Parse(p) \/ Decide(p)
       => me'[p].pc \notin HoldPoints
  BY TurnBegin, Turned, TurnProbe, TurnGate, TurnParse, TurnDecide DEF Turn, HoldPoints
<1>13. RebaseMake(p) \/ RebaseMeta(p) \/ RebaseManifest(p) \/ Stage(p) \/ Fill(p)
       => me'[p].pc \notin HoldPoints
  BY TurnIdle, TurnRebaseMake, Turned, TurnStage, TurnFill DEF Turn, HoldPoints, Rests
<1>14. PromoteNoDir(p) \/ PublishNoDir(p)
       \/ Touch(p) \/ TouchWrite(p) \/ RetireNothing(p) \/ Read(p) \/ Serve(p)
       => me'[p].pc \notin HoldPoints
  BY TurnIdle, Turned, TurnEnds DEF Turn, HoldPoints, Rests
<1>15. QED
  BY <1>1, <1>2, <1>3, <1>4, <1>5, <1>6, <1>7, <1>8, <1>9, <1>10, <1>11, <1>12, <1>13, <1>14
     DEF Query, ProcStep

(* What becomes of the tmps and the bins in a step of p.                   *)
LEMMA FilesKin ==
    ASSUME TypeInv, NEW p \in Procs, ProcStep(p)
    PROVE  /\ \A n \in FileNames :
                \/ Kin(dir.tmps[n], dir'.tmps[n], p)
                \/ Stage(p) /\ Batch(p) # {} /\ n \in TmpNames(p)
           /\ ~ Publish(p) => \A c \in Contents : Kin(dir.bins[c], dir'.bins[c], p)
           /\ ~ Publish(p) /\ ~ Promote(p) /\ ~ SweepDelete(p) /\ ~ Rebase(p)
              /\ (RebaseMake(p) => dir.exists) =>
                \A c \in Contents : Valid(c, dir.bins) => Valid(c, dir'.bins)
           /\ ~ Rebase(p) /\ dir.exists => dir'.exists
<1> DEFINE Tmps == \A n \in FileNames :
                      \/ Kin(dir.tmps[n], dir'.tmps[n], p)
                      \/ Stage(p) /\ Batch(p) # {} /\ n \in TmpNames(p)
<1> DEFINE Bins == \A c \in Contents : Kin(dir.bins[c], dir'.bins[c], p)
<1> DEFINE Lasts == \A c \in Contents : Valid(c, dir.bins) => Valid(c, dir'.bins)
<1> DEFINE There == dir.exists => dir'.exists
<1>0. dir.tmps \in [FileNames -> Maybe(Files)] /\ dir.bins \in [Contents -> Maybe(Files)]
  BY DEF TypeInv, SessionDirs
<1>1. ASSUME dir'.bins = dir.bins, dir'.tmps = dir.tmps, There PROVE Tmps /\ Bins /\ Lasts /\ There
  BY <1>1, SameKin DEF Valid
<1>2. ASSUME Fill(p) PROVE Tmps /\ Bins /\ Lasts /\ There
  <2>1. Tmps /\ Bins /\ There
    BY <1>0, <1>2, FillFiles, WroteKin
  <2>2. Lasts
    BY <1>0, <1>2, FillFiles, WroteKin DEF Valid, Kin
  <2>3. QED
    BY <2>1, <2>2
<1>3. ASSUME Stage(p), Batch(p) # {} PROVE Tmps /\ Bins /\ Lasts /\ There
  BY <1>3, StageFiles, SameKin DEF Valid
<1>4. ASSUME Publish(p) PROVE Tmps /\ There
  BY <1>4, PublishFiles, SameKin
<1>5. ASSUME Promote(p) PROVE Tmps /\ Bins /\ There
  BY <1>5, PromoteFiles, SameKin
<1>6. ASSUME SweepDelete(p) PROVE Tmps /\ Bins /\ There
  BY <1>6, SweepFiles, SameKin
<1>7. ASSUME Crash(p) PROVE Tmps /\ Bins /\ Lasts /\ There
  <2>1. Tmps /\ Bins /\ There
    BY <1>7, CrashFiles
  <2>2. Lasts
    BY <1>7, CrashFiles DEF Valid, Kin
  <2>3. QED
    BY <2>1, <2>2
<1>8. ASSUME Rebase(p) \/ (RebaseMake(p) /\ ~ dir.exists) PROVE Tmps /\ Bins
  BY <1>8, RebaseFiles DEF Kin
<1>9. ASSUME RebaseMake(p), dir.exists PROVE Tmps /\ Bins /\ Lasts /\ There
  BY <1>1, <1>9 DEF RebaseMake
<1> HIDE DEF Tmps, Bins, Lasts
<1>10. QED
  <2>1. Tmps /\ (~ Publish(p) => Bins)
    BY <1>1, <1>2, <1>3, <1>4, <1>5, <1>6, <1>7, <1>8, <1>9, Untouched DEF Query, ProcStep
  <2>2. ~ Publish(p) /\ ~ Promote(p) /\ ~ SweepDelete(p) /\ ~ Rebase(p)
        /\ (RebaseMake(p) => dir.exists) => Lasts
    BY <1>1, <1>2, <1>3, <1>7, <1>9, Untouched DEF Query, ProcStep
  <2>3. ~ Rebase(p) /\ dir.exists => dir'.exists
    BY <1>2, <1>3, <1>4, <1>5, <1>6, <1>7, <1>9, Untouched DEF Query, ProcStep
  <2>4. QED
    BY <2>1, <2>2, <2>3 DEF Tmps, Bins, Lasts

(* A probe finds the dirty paths, and until its answer nobody else does.   *)
LEMMA ProbedOn ==
    ASSUME TypeInv, NEW p \in Procs, ProcStep(p), ~ Probe(p), me'[p].pc \in Probed
    PROVE  me[p].pc \in Probed /\ me'[p].snap = me[p].snap /\ me'[p].dirty = me[p].dirty
<1> USE DEF Probed, Promoting, Rebasing, Writing
<1>1. me'[p] # Idle
  BY TurnIdle
<1>2. \A here, there, F : Turn(p, here, there, F) /\ F \cap {"snap", "dirty"} = {}
         => /\ me'[p].snap = me[p].snap /\ me'[p].dirty = me[p].dirty /\ me[p].pc = here
  BY DEF Turn, Apart, Fields
<1>3. Rests(p) => me'[p].snap = me[p].snap /\ me'[p].dirty = me[p].dirty
  BY DEF Rests, Apart, Fields
<1>4. ~ Begin(p) /\ ~ Beat(p) /\ ~ Snapshot(p) /\ ~ Read(p) /\ ~ SweepBegin(p)
      /\ ~ RetireNothing(p) /\ ~ RetireWrite(p)
  BY TurnBegin, TurnSweepBegin, Turned DEF Turn
<1>5. PromoteMeta(p) \/ PromoteManifest(p) \/ RebaseMeta(p)
      \/ RebaseManifest(p) \/ Commit(p)
      => me[p].pc \in Probed /\ me'[p].snap = me[p].snap /\ me'[p].dirty = me[p].dirty
  BY <1>2, Turned
<1>6. Gate(p) \/ Decide(p) \/ Promote(p) \/ Retire(p)
      => me[p].pc \in Probed /\ me'[p].snap = me[p].snap /\ me'[p].dirty = me[p].dirty
  BY TurnGate, TurnDecide, TurnPromote, TurnRetire DEF Apart, Fields
<1>7. Publish(p)
      => me[p].pc \in Probed /\ me'[p].snap = me[p].snap /\ me'[p].dirty = me[p].dirty
  BY <1>3, TurnPublish DEF Apart, Fields
<1>8. Parse(p) \/ Rebase(p)
      => me[p].pc \in Probed /\ me'[p].snap = me[p].snap /\ me'[p].dirty = me[p].dirty
  BY <1>2, TurnParse, WatchRebase DEF Apart, Fields
<1>9. RebaseMake(p) \/ Stage(p) \/ Fill(p)
      => me[p].pc \in Probed /\ me'[p].snap = me[p].snap /\ me'[p].dirty = me[p].dirty
  BY <1>1, <1>2, <1>3, TurnRebaseMake, TurnStage, TurnFill
<1>10. PublishNoDir(p) \/ Touch(p) \/ TouchWrite(p) \/ Serve(p) \/ PromoteNoDir(p)
       \/ SweepDelete(p) \/ Crash(p)
      => me[p].pc \in Probed /\ me'[p].snap = me[p].snap /\ me'[p].dirty = me[p].dirty
  BY <1>1, <1>2, <1>3, TurnEnds
<1>11. QED
  BY <1>4, <1>5, <1>6, <1>7, <1>8, <1>9, <1>10 DEF Query, ProcStep

(* A process at a point of the lock holds it, so that nobody else is there *)
(* and the manifest is no business of others.                              *)
LEMMA LockAlone ==
    ASSUME TypeInv, \A s \in Procs : QuietOne(s), NEW p \in Procs, ProcStep(p),
           NEW r \in Procs, r # p, me[r].pc \in HoldPoints
    PROVE  /\ me[p].pc \notin HoldPoints /\ holder = r
           /\ ~ Promote(p) /\ ~ Publish(p) /\ ~ SweepBegin(p) /\ ~ Retire(p)
           /\ ~ SweepDelete(p) /\ ~ Commit(p) /\ ~ RetireWrite(p) /\ ~ PromoteManifest(p)
           /\ ~ Rebase(p) => holder' = r
<1>1. holder = r /\ me[p].pc \notin HoldPoints /\ ~ me[p].stray
  BY DEF QuietOne, LockOne
<1>2. ~ Promote(p) /\ ~ Publish(p) /\ ~ SweepBegin(p) /\ ~ Retire(p)
  BY <1>1, LockGoes
<1>3. ~ SweepDelete(p) /\ ~ Commit(p) /\ ~ RetireWrite(p) /\ ~ PromoteManifest(p)
  BY <1>1 DEF SweepDelete, Commit, RetireWrite, PromoteManifest, At, HoldPoints
<1>4. ~ Rebase(p) => holder' = r
  BY <1>1, LockGoes
<1>5. QED
  BY <1>1, <1>2, <1>3, <1>4

(* ... and a rebase that leaves anybody calm has nobody beside it.         *)
LEMMA RebaseAlone ==
    ASSUME TypeInv, NEW p \in Procs, Rebase(p), SomeCalm'
    PROVE  \A r \in Procs \ {p} : me[r].pc = "idle" /\ me'[r].pc = "idle" /\ ~ me'[r].calm
<1>1. \A r \in Procs \ {p} : Watches(r) /\ ~ me'[r].calm
  BY WatchRebase
<1>2. me'[p].calm
  BY <1>1 DEF SomeCalm
<1>3. \A r \in Procs \ {p} : me[r].pc = "idle"
  BY <1>2, WatchRebase
<1>4. QED
  BY <1>1, <1>3 DEF Watches, Apart, Fields

(* What the others see of a step of p.                                     *)
LEMMA QuietOther ==
    ASSUME TypeInv, DiskInv, \A s \in Procs : QuietOne(s), NEW p \in Procs, ProcStep(p), SomeCalm',
           UNCHANGED <<file, head>>, NEW r \in Procs, r # p
    PROVE  QuietOne(r)'
<1>1. /\ Watches(r) /\ me'[r].pc = me[r].pc /\ me'[r].parsed = me[r].parsed
      /\ me'[r].snap = me[r].snap /\ me'[r].dirty = me[r].dirty
      /\ me'[r].orphans = me[r].orphans /\ me'[r].stray = me[r].stray
  BY Watching DEF Watches, Apart, Fields, ProcStep, SomeCalm
<1>2. CASE Rebase(p)
  <2>1. me'[r].pc = "idle" /\ ~ me'[r].stray
    BY <1>1, <1>2, RebaseAlone DEF QuietOne, LockOne
  <2>2. QED
    BY <2>1 DEF QuietOne, LockOne, TmpsOne, CleanOne, OrphansOne, BinsOne, HoldPoints,
                Probed, Promoting, Rebasing, Writing
<1>3. CASE ~ Rebase(p)
  <2>1. LockOne(r)'
    BY <1>1, <1>3, LockAlone DEF QuietOne, LockOne
  <2>2. TmpsOne(r)'
    <3> SUFFICES ASSUME me[r].pc \in {"fill", "publish"}, NEW n \in NamesOf(me[r].parsed),
                        dir'.tmps[n] # None
                 PROVE  dir'.tmps[n].whole \/ (me[r].pc = "fill" /\ r \in dir'.tmps[n].writers)
      BY <1>1 DEF TmpsOne
    <3>1. n \in FileNames /\ n \in TmpNames(r)
      BY NamesType
    <3>2. ~ (Stage(p) /\ Batch(p) # {} /\ n \in TmpNames(p))
      <4> SUFFICES ASSUME Stage(p), Batch(p) # {}, n \in TmpNames(p) PROVE FALSE
        OBVIOUS
      <4>1. Collides(p)
        BY <3>1 DEF Collides, Others
      <4>2. QED
        BY <4>1, TurnStage DEF SomeCalm
    <3>3. Kin(dir.tmps[n], dir'.tmps[n], p)
      BY <3>1, <3>2, FilesKin
    <3>4. dir.tmps[n] # None
      BY <3>3 DEF Kin
    <3>5. QED
      BY <3>3, <3>4 DEF Kin, QuietOne, TmpsOne
  <2>3. CleanOne(r)'
    BY <1>1 DEF QuietOne, CleanOne, Live
  <2>4. OrphansOne(r)'
    <3> SUFFICES ASSUME me[r].pc = "sweep"
                 PROVE  /\ me[r].orphans \cap Named(dir'.manifest) = {}
                        /\ \A c \in me[r].orphans : dir'.bins[c] = None \/ dir'.bins[c].settled
      BY <1>1 DEF OrphansOne
    <3>1. ~ Publish(p) /\ ~ Commit(p) /\ ~ RetireWrite(p) /\ ~ PromoteManifest(p)
      BY LockAlone DEF HoldPoints
    <3>2. \/ dir'.manifest = dir.manifest
          \/ dir'.manifest = NoEntries
      BY <1>3, <3>1, ManifestStays, Rewrites DEF ProcStep
    <3>3. Named(NoEntries) = {}
      BY DEF Named, NoEntries, Fragment
    <3>4. me[r].orphans \subseteq Contents
      BY DEF TypeInv, Minds
    <3>5. \A c \in Contents : Kin(dir.bins[c], dir'.bins[c], p)
      BY <3>1, FilesKin
    <3>6. \A c \in me[r].orphans : dir'.bins[c] = None \/ dir'.bins[c].settled
      BY <3>4, <3>5 DEF Kin, QuietOne, OrphansOne
    <3>7. QED
      BY <3>2, <3>3, <3>6 DEF QuietOne, OrphansOne
  <2>5. BinsOne(r)'
    <3> SUFFICES ASSUME me[r].pc = "commit"
                 PROVE  dir'.exists /\ \A q \in Paths : me[r].parsed[q] # None
                                         => Valid(me[r].parsed[q], dir'.bins)
      BY <1>1 DEF BinsOne
    <3>1. dir.exists /\ \A q \in Paths : me[r].parsed[q] # None => Valid(me[r].parsed[q], dir.bins)
      BY DEF QuietOne, BinsOne
    <3>2. ~ Publish(p) /\ ~ Promote(p) /\ ~ SweepDelete(p)
      BY LockAlone DEF HoldPoints
    <3>3. dir'.exists /\ \A c \in Contents : Valid(c, dir.bins) => Valid(c, dir'.bins)
      BY <1>3, <3>1, <3>2, FilesKin
    <3>4. QED
      BY <3>1, <3>3, NamesType
  <2>6. QED
    BY <2>1, <2>2, <2>3, <2>4, <2>5 DEF QuietOne
<1>4. QED
  BY <1>2, <1>3

(* Where a process comes from.                                             *)
LEMMA Arrives ==
    ASSUME TypeInv, NEW p \in Procs, ProcStep(p)
    PROVE  /\ me'[p].pc \in {"beat", "snapshot"} => Begin(p) \/ Beat(p)
           /\ me'[p].pc = "probe" => Snapshot(p)
           /\ me'[p].pc = "gate" => Probe(p)
           /\ me'[p].pc = "parse" => Gate(p)
           /\ me'[p].pc = "decide" => Parse(p)
           /\ me'[p].pc \in {"promote", "rebase"} => Decide(p)
           /\ me'[p].pc = "promoteMeta" => Promote(p)
           /\ me'[p].pc = "promoteManifest" => PromoteMeta(p)
           /\ me'[p].pc = "rebaseMake" => Rebase(p)
           /\ me'[p].pc = "rebaseMeta" => RebaseMake(p) /\ ~ dir.exists
           /\ me'[p].pc = "rebaseManifest" => RebaseMeta(p)
           /\ me'[p].pc = "stage" => Decide(p) \/ PromoteManifest(p) \/ RebaseManifest(p)
           /\ me'[p].pc = "fill" => Stage(p) /\ Batch(p) # {}
           /\ me'[p].pc = "publish" =>
                Fill(p) \/ (Stage(p) /\ Batch(p) = {} /\ Turn(p, "stage", "publish", {}))
           /\ me'[p].pc = "commit" => Publish(p)
           /\ me'[p].pc = "touch" => Commit(p)
           /\ me'[p].pc = "touched" => Turn(p, "touch", "touched", {"target"})
           /\ me'[p].pc = "retire" => Probe(p) \/ Gate(p) \/ Rests(p)
           /\ me'[p].pc = "retireWrite" => Retire(p)
           /\ me'[p].pc = "read" => RetireNothing(p) \/ Retire(p) \/ RetireWrite(p)
           /\ me'[p].pc = "serve" => Read(p)
           /\ me'[p].pc = "sweep" => SweepBegin(p)
<1>1. /\ Begin(p) => me'[p].pc \in {"beat", "snapshot"}
      /\ Beat(p) => me'[p].pc = "snapshot"
      /\ Snapshot(p) => me'[p].pc = "probe"
      /\ Probe(p) => me'[p].pc \in {"retire", "gate"}
      /\ Gate(p) => me'[p].pc \in {"retire", "parse"}
      /\ Parse(p) => me'[p].pc = "decide"
      /\ Decide(p) => me'[p].pc \in {"stage", "promote", "rebase"}
  BY TurnBegin, Turned, TurnProbe, TurnGate, TurnParse, TurnDecide DEF Turn
<1>2. /\ Promote(p) => me'[p].pc = "promoteMeta"
      /\ PromoteMeta(p) => me'[p].pc = "promoteManifest"
      /\ PromoteManifest(p) => me'[p].pc = "stage"
      /\ PromoteNoDir(p) => me'[p].pc = "idle"
      /\ Rebase(p) => me'[p].pc = "rebaseMake"
      /\ RebaseMake(p) => \/ me'[p].pc = "idle"
                          \/ me'[p].pc = "rebaseMeta" /\ ~ dir.exists
      /\ RebaseMeta(p) => me'[p].pc = "rebaseManifest"
      /\ RebaseManifest(p) => me'[p].pc = "stage"
  BY TurnPromote, Turned, WatchRebase, TurnRebaseMake, TurnEnds, TurnIdle DEF Turn
<1>3. /\ Stage(p) => \/ me'[p].pc = "fill" /\ Batch(p) # {}
                     \/ me'[p].pc = "publish" /\ Batch(p) = {} /\ Turn(p, "stage", "publish", {})
                     \/ me'[p].pc = "retire" /\ Rests(p)
      /\ Fill(p) => me'[p].pc = "publish" \/ (me'[p].pc = "retire" /\ Rests(p))
      /\ Publish(p) => me'[p].pc = "commit" \/ (me'[p].pc = "retire" /\ Rests(p))
      /\ PublishNoDir(p) => me'[p].pc = "retire" /\ Rests(p)
  BY TurnStage, TurnFill, TurnPublish, TurnEnds DEF Turn, Rests
<1>4. /\ Commit(p) => me'[p].pc = "touch"
      /\ Touch(p) => \/ me'[p].pc = "touched" /\ Turn(p, "touch", "touched", {"target"})
                     \/ me'[p].pc = "retire" /\ Rests(p)
      /\ TouchWrite(p) => me'[p].pc = "retire" /\ Rests(p)
      /\ RetireNothing(p) => me'[p].pc = "read"
      /\ Retire(p) => me'[p].pc \in {"read", "retireWrite"}
      /\ RetireWrite(p) => me'[p].pc = "read"
      /\ Read(p) => me'[p].pc = "serve"
      /\ SweepBegin(p) => me'[p].pc = "sweep"
      /\ Serve(p) \/ SweepDelete(p) \/ Crash(p) => me'[p].pc = "idle"
  BY Turned, TurnEnds, TurnIdle, TurnRetire, TurnSweepBegin DEF Turn, Rests
<1>5. QED
  <2>1. ASSUME Begin(p) \/ Beat(p) \/ Snapshot(p) \/ Probe(p) \/ Gate(p) \/ Parse(p) \/ Decide(p)
        PROVE  me'[p].pc \notin {"promoteMeta", "promoteManifest", "rebaseMake", "rebaseMeta",
                  "rebaseManifest", "fill", "publish", "commit", "touch", "touched",
                  "retireWrite", "read", "serve", "sweep"}
    BY <1>1, <2>1
  <2>2. QED
    BY <1>1, <1>2, <1>3, <1>4, <2>1 DEF Query, ProcStep

(* Nobody strays by a step of its own.                                     *)
LEMMA StrayStays ==
    ASSUME TypeInv, NEW p \in Procs, ProcStep(p), me'[p].stray
    PROVE  me[p].stray
<1>1. ~ Begin(p) /\ ~ SweepBegin(p)
  BY TurnBegin, TurnSweepBegin DEF Rises
<1>2. me'[p] # Idle /\ ~ Rests(p)
  BY TurnIdle DEF Rests
<1>3. \A here, there, F : Turn(p, here, there, F) /\ "stray" \notin F => me[p].stray
  BY DEF Turn, Apart, Fields
<1>5. Beat(p) \/ Snapshot(p) \/ PromoteMeta(p) \/ PromoteManifest(p) \/ RebaseMeta(p)
      \/ RebaseManifest(p) \/ Commit(p) \/ RetireNothing(p) \/ RetireWrite(p) \/ Read(p)
      => me[p].stray
  BY <1>3, Turned
<1>6. Probe(p) \/ Gate(p) \/ Decide(p) => me[p].stray
  BY TurnProbe, TurnGate, TurnDecide DEF Apart, Fields
<1>7. ~ Publish(p) /\ ~ Promote(p) /\ ~ Retire(p)
  BY <1>2, TurnPublish, TurnPromote, TurnRetire
<1>8. Parse(p) \/ Rebase(p) => me[p].stray
  BY <1>3, TurnParse, WatchRebase
<1>9. RebaseMake(p) \/ Stage(p) \/ Fill(p) => me[p].stray
  BY <1>2, <1>3, TurnRebaseMake, TurnStage, TurnFill
<1>10. PublishNoDir(p) \/ Touch(p) \/ TouchWrite(p) \/ Serve(p) \/ PromoteNoDir(p)
       \/ SweepDelete(p) \/ Crash(p) => me[p].stray
  BY <1>2, <1>3, TurnEnds
<1>11. QED
  BY <1>1, <1>5, <1>6, <1>7, <1>8, <1>9, <1>10 DEF Query, ProcStep

(* A publication by the rules leaves only whole bins.                      *)
LEMMA PublishValid ==
    ASSUME TypeInv, NEW p \in Procs, QuietOne(p), Publish(p)
    PROVE  /\ \A c \in Contents : Valid(c, dir.bins) => Valid(c, dir'.bins)
           /\ \A q \in Landed(p) : Valid(me[p].parsed[q], dir'.bins)
<1>1. me[p].pc = "publish"
  BY TurnPublish
<1>2. ASSUME NEW q \in Landed(p)
      PROVE  dir.tmps[TmpName(p, q)] # None /\ dir.tmps[TmpName(p, q)].whole
  <2>1. q \in Batch(p) /\ q <= q /\ dir.tmps[TmpName(p, q)] # None
    BY DEF Landed, Batch
  <2>2. TmpName(p, q) \in NamesOf(me[p].parsed)
    BY <2>1, NamesType
  <2>3. QED
    BY <1>1, <2>1, <2>2 DEF QuietOne, TmpsOne
<1>3. \A c \in Contents : Valid(c, dir.bins) => Valid(c, dir'.bins)
  BY <1>2, PublishFiles DEF Valid
<1>4. \A q \in Landed(p) : me[p].parsed[q] \in Contents
  BY NamesType DEF Landed, Batch
<1>5. \A q \in Landed(p) : Valid(me[p].parsed[q], dir'.bins)
  BY <1>2, <1>4, PublishFiles DEF Valid
<1>6. QED
  BY <1>3, <1>5

(* What p does itself.                                                     *)
LEMMA QuietOwn ==
    ASSUME TypeInv, NEW p \in Procs, QuietOne(p), ProcStep(p), UNCHANGED <<file, head>>
    PROVE  QuietOne(p)'
<1>0. ~ me[p].stray
  BY DEF QuietOne, LockOne
<1>1. LockOne(p)'
  BY <1>0, StrayStays, LockGoes DEF QuietOne, LockOne
<1>2. TmpsOne(p)'
  <2>1. CASE me'[p].pc = "fill"
    <3>1. Stage(p) /\ Batch(p) # {}
      BY <2>1, Arrives
    <3>2. me'[p].parsed = me[p].parsed
      BY <3>1, TurnStage DEF Turn, Apart, Fields
    <3>3. \A n \in NamesOf(me[p].parsed) : p \in dir'.tmps[n].writers
      BY <3>1, StageFiles, NamesType
    <3>4. QED
      BY <2>1, <3>2, <3>3 DEF TmpsOne
  <2>2. CASE me'[p].pc = "publish" /\ Fill(p)
    <3>1. Turn(p, "fill", "publish", {})
      BY <2>2, TurnFill DEF Rests
    <3>2. me'[p].parsed = me[p].parsed /\ me[p].pc = "fill"
      BY <3>1 DEF Turn, Apart, Fields
    <3>3. ASSUME NEW n \in NamesOf(me[p].parsed), dir'.tmps[n] # None PROVE dir'.tmps[n].whole
      <4>1. n \in FileNames /\ dir.tmps[n] \in Maybe(Files)
        BY NamesType DEF TypeInv, SessionDirs
      <4>2. dir'.tmps[n] = WroteTo(dir.tmps[n], p)
        BY <2>2, <4>1, FillFiles
      <4>3. dir.tmps[n] # None
        BY <3>3, <4>1, <4>2, WroteKin DEF Kin
      <4>4. dir.tmps[n].whole \/ p \in dir.tmps[n].writers
        BY <3>2, <4>3 DEF QuietOne, TmpsOne
      <4>5. QED
        BY <3>3, <4>1, <4>2, <4>3, <4>4, WroteKin DEF Kin
    <3>4. QED
      BY <2>2, <3>2, <3>3 DEF TmpsOne
  <2>3. CASE me'[p].pc = "publish" /\ Batch(p) = {} /\ Turn(p, "stage", "publish", {})
    <3>1. me'[p].parsed = me[p].parsed
      BY <2>3 DEF Turn, Apart, Fields
    <3>2. NamesOf(me[p].parsed) = {}
      BY <2>3, NamesAre DEF TmpNames
    <3>3. QED
      BY <3>1, <3>2 DEF TmpsOne
  <2>4. QED
    BY <2>1, <2>2, <2>3, Arrives DEF TmpsOne
<1>3. CleanOne(p)'
  <2>1. CASE Probe(p)
    <3>1. \A q \in Paths \ me'[p].dirty : file[q].content = Tree[head][q]
      BY <2>1, TurnProbe
    <3>2. QED
      BY <3>1 DEF CleanOne
  <2>2. CASE ~ Probe(p)
    BY <2>2, ProbedOn DEF QuietOne, CleanOne, Live
  <2>3. QED
    BY <2>1, <2>2
<1>4. OrphansOne(p)'
  <2> SUFFICES ASSUME me'[p].pc = "sweep" PROVE OrphansOne(p)'
    BY DEF OrphansOne
  <2>1. SweepBegin(p)
    BY Arrives
  <2>2. /\ UNCHANGED dir
        /\ me'[p].orphans = {c \in Contents \ Named(dir.manifest) : Old(dir.bins[c])}
    BY <2>1, TurnSweepBegin DEF SweepBegin
  <2>3. QED
    BY <2>2 DEF OrphansOne, Old
<1>5. BinsOne(p)'
  <2> SUFFICES ASSUME me'[p].pc = "commit"
               PROVE  dir'.exists /\ \A q \in Paths : me'[p].parsed[q] # None
                                         => Valid(me'[p].parsed[q], dir'.bins)
    BY DEF BinsOne
  <2>1. Publish(p)
    BY Arrives
  <2>2. me'[p].parsed = me[p].parsed /\ Landed(p) = Batch(p)
    BY <2>1, TurnPublish DEF Apart, Fields, Rests
  <2>3. dir'.exists
    BY <1>0, <2>1, LockGoes, PublishFiles
  <2>4. QED
    BY <2>1, <2>2, <2>3, PublishValid DEF Batch
<1>6. QED
  BY <1>1, <1>2, <1>3, <1>4, <1>5 DEF QuietOne

LEMMA QuietKeeps ==
    TypeInv /\ SoundInv /\ DiskInv /\ BackInv /\ QuietInv /\ [Next]_vars => QuietInv'
<1> SUFFICES ASSUME TypeInv, SoundInv, DiskInv, BackInv, QuietInv, [Next]_vars, SomeCalm'
             PROVE  \A r \in Procs : QuietOne(r)'
  BY DEF QuietInv, SomeCalm
<1>1. ASSUME NEW p \in Procs, ProcStep(p) PROVE \A r \in Procs : QuietOne(r)'
  <2>1. UNCHANGED <<file, head>>
    BY <1>1, ProcKeeps DEF Keeps, ProcStep
  <2>2. \A r \in Procs : QuietOne(r)
    BY <1>1, QuietBefore
  <2>3. QED
    BY <1>1, <2>1, <2>2, QuietOwn, QuietOther
<1>2. ASSUME NEW q \in Paths, NEW c \in Contents \cup {Absent}, Edit(q, c), NEW r \in Procs
      PROVE  QuietOne(r)'
  <2>1. \A s \in Procs : Watches(s) /\ me'[s].calm = me[s].calm /\ me'[s].stray = me[s].stray
    BY <1>2, OutsideWatched
  <2>2. QuietOne(r)
    BY <2>1 DEF QuietInv, SomeCalm
  <2>3. /\ me'[r].pc = me[r].pc /\ me'[r].parsed = me[r].parsed /\ me'[r].stray = me[r].stray
        /\ me'[r].snap = me[r].snap /\ me'[r].dirty = me[r].dirty
        /\ me'[r].orphans = me[r].orphans
    BY <2>1 DEF Watches, Apart, Fields
  <2>4. UNCHANGED <<dir, holder, head>>
    BY <1>2, Edited
  <2>5. CleanOne(r)'
    <3> SUFFICES ASSUME me[r].pc \in Probed, NEW x \in Paths \ me[r].dirty, Live(me[r].snap[x], x)'
                 PROVE  file'[x].content = Tree[head][x]
      BY <2>3, <2>4 DEF CleanOne, Live
    <3>0. me[r].snap \in Manifests /\ AllSound(me[r].snap, file, clock)
      BY MyMind DEF Minds, MindSound
    <3>1. PICK e \in Entries : e = me[r].snap[x]
      BY <3>0 DEF Manifests
    <3>2. Sound(e, file[x], clock)
      BY <3>0, <3>1 DEF AllSound
    <3>3. Live(e, x)'
      BY <2>3, <3>1 DEF Live
    <3>4. file'[x] = file[x] /\ Live(e, x)
      BY <1>2, <3>2, <3>3, EditedLive
    <3>5. QED
      BY <2>2, <3>1, <3>4 DEF QuietOne, CleanOne
  <2>6. QED
    BY <2>2, <2>3, <2>4, <2>5 DEF QuietOne, LockOne, TmpsOne, OrphansOne, BinsOne
<1>3. ~ ((\E h \in Commits : MoveHead(h)) \/ RetireSession \/ RetireL1)
  BY OutsideWatched DEF SomeCalm
<1>4. ~ HourPasses
  BY DEF HourPasses, At, SomeCalm, BackInv, OneBack, IdleOne
<1>5. CASE UNCHANGED vars
  BY <1>5 DEF vars, QuietInv, SomeCalm, QuietOne, LockOne, TmpsOne, CleanOne, OrphansOne, BinsOne, Live
<1>6. QED
  BY <1>1, <1>2, <1>3, <1>4, <1>5 DEF Next, ProcStep

-----------------------------------------------------------------------------
(* What a calm query has achieved.  An entry stands while it is live and   *)
(* whoever is about to write the manifest has it too; a path is safe while *)
(* its entry stands and has its bin.                                       *)

Rewriting == {"commit", "retireWrite"}
Agreed(q) == \A r \in Procs : me[r].pc \in Rewriting => me[r].mine[q] = dir.manifest[q]
Stands(q) == Live(dir.manifest[q], q) /\ Agreed(q)
Safe(q) == Stands(q) /\ Valid(dir.manifest[q].content, dir.bins)

(* Nobody is about to write another manifest than the one p will read, and *)
(* p itself is about to write the one that is there.                       *)
AgreedOne(p) ==
    /\ me[p].pc \in {"beat", "snapshot"} => \A q \in Paths : Agreed(q)
    /\ me[p].pc \in Rewriting => me[p].mine = dir.manifest
(* Who will promote or rebase parses all that is dirty.                    *)
MovesOne(p) ==
    /\ me[p].pc \in {"parse", "decide"} /\ me[p].base # head => me[p].stale = me[p].dirty
    /\ me[p].pc \in Promoting \cup Rebasing => me[p].stale = me[p].dirty
(* What the gate will not parse again stands ...                           *)
SeenOne(p) ==
    me[p].pc \in {"probe", "gate"} =>
        \A q \in Paths \ me[p].over :
            Live(me[p].snap[q], q) /\ file[q].content # Tree[head][q] => Stands(q)
(* ... and is safe, as are all dirty files once the new bins are named ... *)
SafeOne(p) ==
    /\ me[p].pc \in {"parse"} \cup AfterParse =>
         \A q \in Settled(p) \ (me[p].stale \cup me[p].over) : Safe(q)
    /\ me[p].pc \in Written /\ me[p].ok =>
         \A q \in Settled(p) \ me[p].over : Safe(q)
(* ... to the end of the query.                                            *)
ServedOne(p) ==
    me[p].pc = "serve" /\ me[p].ok =>
        \A q \in Settled(p) \ me[p].over :
            /\ Live(me[p].snap[q], q) /\ dir.exists /\ Valid(me[p].snap[q].content, dir.bins)
            /\ dir.bins[me[p].snap[q].content].settled => Stands(q)

CalmOne(p) == AgreedOne(p) /\ MovesOne(p) /\ SeenOne(p) /\ SafeOne(p) /\ ServedOne(p)
CalmInv == \A p \in Procs : me[p].calm => CalmOne(p)

Moves(p) == PromoteManifest(p) \/ RebaseManifest(p) \/ Rebase(p)

(* Who takes entries or bins away leaves nobody else calm.                 *)
LEMMA MovesDisturb ==
    ASSUME TypeInv, NEW p \in Procs, Moves(p) \/ Promote(p), NEW r \in Procs, r # p
    PROVE  ~ me'[r].calm
<1>1. Promote(p) \/ PromoteManifest(p) \/ RebaseManifest(p) => \E k : Disturb(p, k)
  BY DEF Promote, PromoteManifest, RebaseManifest
<1>2. QED
  BY <1>1, WatchStep, WatchRebase DEF Moves

LEMMA ManifestGoes ==
    ASSUME TypeInv, DiskInv, NEW p \in Procs, ProcStep(p), ~ Moves(p)
    PROVE  dir'.manifest = dir.manifest \/ Commit(p) \/ RetireWrite(p)
  BY ManifestStays DEF ProcStep, Moves

LEMMA AgreedOn ==
    ASSUME TypeInv, DiskInv, \A s \in Procs : QuietOne(s), NEW p \in Procs, ProcStep(p), ~ Moves(p),
           NEW q \in Paths, Commit(p) \/ RetireWrite(p) \/ Agreed(q)
    PROVE  Agreed(q)'
<1> SUFFICES ASSUME NEW r \in Procs, me'[r].pc \in Rewriting
             PROVE  me'[r].mine[q] = dir'.manifest[q]
  BY DEF Agreed
<1>1. CASE r = p
  <2>1. Publish(p) \/ Retire(p)
    BY <1>1, Arrives DEF Rewriting
  <2>2. me'[p].mine = dir.manifest
    BY <1>1, <2>1, TurnPublish, TurnRetire DEF Rewriting, Rests
  <2>3. ~ Commit(p) /\ ~ RetireWrite(p)
    BY <2>1, TurnPublish, TurnRetire, Turned DEF Turn
  <2>4. QED
    BY <1>1, <2>2, <2>3, ManifestGoes
<1>2. CASE r # p
  <2>1. me'[r].pc = me[r].pc /\ me'[r].mine = me[r].mine
    BY <1>2, Watching DEF Watches, Apart, Fields, ProcStep
  <2>2. me[r].pc \in HoldPoints
    BY <2>1 DEF Rewriting, HoldPoints
  <2>3. ~ Commit(p) /\ ~ RetireWrite(p)
    BY <1>2, <2>2, LockAlone
  <2>4. QED
    BY <2>1, <2>3, ManifestGoes DEF Agreed
<1>3. QED
  BY <1>1, <1>2

(* An entry outlives what it does not concern.                             *)
LEMMA StandsOn ==
    ASSUME TypeInv, SoundInv, DiskInv, \A s \in Procs : QuietOne(s),
           NEW p \in Procs, ProcStep(p), ~ Moves(p), UNCHANGED file,
           NEW q \in Paths, file[q].content \notin {Absent, Tree[head][q]}, Stands(q),
           Commit(p) => q \notin Outdated(p)
    PROVE  Stands(q)'
<1>0. Live(dir.manifest[q], q) /\ Agreed(q)
  BY DEF Stands
<1>1. Agreed(q)'
  BY <1>0, AgreedOn
<1>2. ASSUME Commit(p) PROVE Live(dir'.manifest[q], q)
  <2>1. me[p].pc = "commit"
    BY <1>2 DEF Commit, At
  <2>2. me[p].mine[q] = dir.manifest[q]
    BY <1>0, <2>1 DEF Agreed, Rewriting
  <2>3. dir'.manifest[q] = NewEntry(p, q)
    BY <1>2, Rewrites
  <2>4. CASE q \notin Batch(p) \cup Tombs(p)
    BY <1>0, <2>2, <2>3, <2>4 DEF NewEntry
  <2>5. CASE q \in Batch(p) \cup Tombs(p)
    <3>1. me[p].seen[q] = file[q].stamp
      BY <1>2, <2>5 DEF Outdated
    <3>2. file[q].stamp # 0
      BY DEF DiskInv
    <3>3. q \notin Tombs(p) /\ q \in Batch(p)
      BY <2>5, <3>1, <3>2 DEF Tombs
    <3>4. PICK e : e = dir'.manifest[q] /\ e = [stamp |-> StampOf(p, q), content |-> me[p].parsed[q]]
      BY <2>3, <3>3 DEF NewEntry
    <3>5. me[p].parsed[q] \in Contents /\ me[p].seen[q] \in Stamps
      BY <3>3, NamesType DEF Batch, TypeInv, Minds
    <3>6. e \in [stamp : Stamps, content : Contents] /\ e.stamp = me[p].seen[q]
      BY <3>4, <3>5 DEF StampOf
    <3>7. Fragment(e)
      BY <3>6, NothingAssumption DEF Fragment
    <3>8. QED
      BY <3>1, <3>4, <3>6, <3>7 DEF Live
  <2>6. QED
    BY <2>4, <2>5
<1>3. ASSUME RetireWrite(p) PROVE Live(dir'.manifest[q], q)
  <2>1. me[p].pc = "retireWrite"
    BY <1>3 DEF RetireWrite, At
  <2>2. me[p].mine[q] = dir.manifest[q]
    BY <1>0, <2>1 DEF Agreed, Rewriting
  <2>3. q \notin Stale(p, me[p].mine)
    <3> SUFFICES ASSUME q \in Stale(p, me[p].mine) PROVE FALSE
      OBVIOUS
    <3>1. q \in Paths \ me[p].dirty /\ me[p].snap[q] = dir.manifest[q]
      BY <2>2 DEF Stale, Unclaimed
    <3>2. file[q].content = Tree[head][q]
      BY <1>0, <2>1, <3>1 DEF QuietOne, CleanOne, Probed
    <3>3. QED
      BY <3>2
  <2>4. QED
    BY <1>0, <1>3, <2>2, <2>3, Rewrites
<1>4. Live(dir'.manifest[q], q)
  BY <1>0, <1>2, <1>3, ManifestGoes
<1>5. Live(dir.manifest[q], q)'
  BY <1>4 DEF Live
<1>6. QED
  BY <1>1, <1>5 DEF Stands

(* The fragment of a live entry is of the content the file has.            *)
LEMMA LiveContent ==
    ASSUME TypeInv, NEW e \in Entries, NEW q \in Paths, NEW now, Sound(e, file[q], now), Live(e, q)
    PROVE  e.content = file[q].content /\ e.content \in Contents
  BY DEF Live, Sound, Fragment, Entries

LEMMA SafeOn ==
    ASSUME TypeInv, SoundInv, DiskInv, TypeInv', SoundInv', \A s \in Procs : QuietOne(s),
           NEW p \in Procs, ProcStep(p), ~ Moves(p), ~ Promote(p), UNCHANGED <<file, clock>>,
           NEW q \in Paths, file[q].content \notin {Absent, Tree[head][q]}, Safe(q),
           Commit(p) => q \notin Outdated(p)
    PROVE  Safe(q)'
<1>1. Stands(q)'
  BY StandsOn DEF Safe
<1>2. PICK e \in Entries : e = dir.manifest[q]
  BY DEF TypeInv, SessionDirs, Manifests
<1>3. PICK g \in Entries : g = dir'.manifest[q]
  BY DEF TypeInv, SessionDirs, Manifests
<1>4. Live(e, q) /\ Live(g, q)
  BY <1>1, <1>2, <1>3 DEF Safe, Stands, Live
<1>5. Sound(e, file[q], clock) /\ Sound(g, file[q], clock)
  BY <1>2, <1>3 DEF SoundInv, AllSound
<1>6. e.content = g.content /\ e.content \in Contents
  BY <1>4, <1>5, LiveContent
<1>7. Valid(e.content, dir.bins)
  BY <1>2 DEF Safe
<1>8. Valid(e.content, dir'.bins)
  <2>1. CASE SweepDelete(p)
    <3>1. e.content \in Named(dir.manifest)
      BY <1>2, <1>4 DEF Named, Live
    <3>2. me[p].pc = "sweep"
      BY <2>1 DEF SweepDelete, At
    <3>3. e.content \notin me[p].orphans
      BY <3>1, <3>2 DEF QuietOne, OrphansOne
    <3>4. QED
      BY <1>6, <1>7, <2>1, <3>3, SweepFiles DEF Valid
  <2>2. CASE Publish(p)
    BY <1>6, <1>7, <2>2, PublishValid
  <2>3. CASE ~ SweepDelete(p) /\ ~ Publish(p)
    <3>1. e # None
      BY <1>4 DEF Live, Fragment
    <3>2. dir.exists
      BY <1>2, <3>1 DEF DiskInv, NoEntries
    <3>3. QED
      BY <1>6, <1>7, <2>3, <3>2, FilesKin DEF Moves
  <2>4. QED
    BY <2>1, <2>2, <2>3
<1>9. QED
  BY <1>1, <1>3, <1>6, <1>8 DEF Safe

(* What p looked at before the last mtime of the file of an old bin, it    *)
(* does not write.                                                         *)
LEMMA OldKnown ==
    ASSUME TypeInv, BackInv, NEW p \in Procs, NEW q \in Paths, Stands(q),
           ~ Young(dir.bins[dir.manifest[q].content])
    PROVE  q \notin Outdated(p)
<1>1. \A r \in Procs : q \in me[r].stale => me[r].seen[q] = file[q].stamp
  BY DEF Stands, BackInv, Ages
<1>2. Batch(p) \subseteq me[p].stale /\ Tombs(p) \subseteq me[p].stale
  BY DEF Batch, Tombs, BackInv, OneBack, LookOne
<1>3. QED
  BY <1>1, <1>2 DEF Outdated

(* A query that is about to answer, beside a step of p.                    *)
LEMMA ServedOn ==
    ASSUME TypeInv, SoundInv, DiskInv, BackInv, TypeInv', \A s \in Procs : QuietOne(s),
           NEW p \in Procs, ProcStep(p), ~ Moves(p), ~ Promote(p), UNCHANGED <<file, clock>>,
           NEW q \in Paths, file[q].content \notin {Absent, Tree[head][q]},
           NEW e \in Entries, Sound(e, file[q], clock), Live(e, q),
           dir.exists, Valid(e.content, dir.bins), dir.bins[e.content].settled => Stands(q)
    PROVE  /\ dir'.exists /\ Valid(e.content, dir'.bins)
           /\ dir'.bins[e.content].settled => Stands(q)'
<1>1. e.content = file[q].content /\ e.content \in Contents
  BY LiveContent
<1>2. ASSUME Stands(q) PROVE dir.manifest[q].content = e.content
  <2>1. PICK g \in Entries : g = dir.manifest[q]
    BY DEF TypeInv, SessionDirs, Manifests
  <2>2. Live(g, q) /\ Sound(g, file[q], clock)
    BY <1>2, <2>1 DEF Stands, SoundInv, AllSound
  <2>3. QED
    BY <1>1, <2>1, <2>2, LiveContent
<1>3. dir'.exists
  BY FilesKin DEF Moves
<1>4. Valid(e.content, dir'.bins)
  <2>1. CASE SweepDelete(p)
    <3>1. me[p].pc = "sweep"
      BY <2>1 DEF SweepDelete, At
    <3>2. e.content \notin me[p].orphans
      <4> SUFFICES ASSUME e.content \in me[p].orphans PROVE FALSE
        OBVIOUS
      <4>1. dir.bins[e.content].settled
        BY <3>1 DEF QuietOne, OrphansOne, Valid
      <4>2. Live(dir.manifest[q], q) /\ dir.manifest[q].content = e.content
        BY <1>2, <4>1 DEF Stands
      <4>3. e.content \in Named(dir.manifest)
        BY <4>2 DEF Named, Live
      <4>4. QED
        BY <3>1, <4>3 DEF QuietOne, OrphansOne
    <3>3. QED
      BY <1>1, <2>1, <3>2, SweepFiles DEF Valid
  <2>2. CASE Publish(p)
    BY <1>1, <2>2, PublishValid
  <2>3. CASE ~ SweepDelete(p) /\ ~ Publish(p)
    BY <1>1, <2>3, FilesKin DEF Moves
  <2>4. QED
    BY <2>1, <2>2, <2>3
<1>5. ASSUME dir'.bins[e.content].settled PROVE Stands(q)'
  <2>1. OldFiles
    BY FilesAge DEF BackInv, ProcStep
  <2>2. ~ Young(dir'.bins[e.content])
    BY <1>4, <1>5 DEF Young, Valid
  <2>3. ~ Young(dir.bins[e.content])
    BY <1>1, <2>1, <2>2 DEF OldFiles
  <2>4. Stands(q)
    BY <2>3 DEF Young
  <2>5. q \notin Outdated(p)
    BY <1>2, <2>3, <2>4, OldKnown
  <2>6. QED
    BY <2>4, <2>5, StandsOn
<1>6. QED
  BY <1>3, <1>4, <1>5

(* A calm query beside a step of p.                                        *)
LEMMA CalmOther ==
    ASSUME TypeInv, SoundInv, DiskInv, BackInv, TypeInv', SoundInv',
           \A s \in Procs : QuietOne(s), UNCHANGED <<file, clock, head>>,
           NEW p \in Procs, ProcStep(p), NEW o \in Procs, o # p,
           me'[o].calm, CalmOne(o)
    PROVE  CalmOne(o)'
<1>1. /\ me'[o].pc = me[o].pc /\ me'[o].snap = me[o].snap /\ me'[o].mine = me[o].mine
      /\ me'[o].dirty = me[o].dirty /\ me'[o].stale = me[o].stale /\ me'[o].seen = me[o].seen
      /\ me'[o].base = me[o].base /\ me'[o].ok = me[o].ok
      /\ me[o].over \subseteq me'[o].over
  BY Watching DEF Watches, Apart, Fields, ProcStep
<1>2. ~ Moves(p) /\ ~ Promote(p)
  BY MovesDisturb
<1>3. Commit(p) /\ me[o].pc \notin Unread => Outdated(p) \subseteq me'[o].over
  BY WatchCommit
<1>4. AgreedOne(o)'
  <2>1. me[o].pc \in {"beat", "snapshot"} => \A q \in Paths : Agreed(q)'
    BY <1>2, AgreedOn DEF CalmOne, AgreedOne
  <2>2. me[o].pc \in Rewriting => dir'.manifest = dir.manifest
    <3> SUFFICES ASSUME me[o].pc \in HoldPoints PROVE dir'.manifest = dir.manifest
      BY DEF Rewriting, HoldPoints
    <3>1. ~ Commit(p) /\ ~ RetireWrite(p)
      BY LockAlone
    <3>2. QED
      BY <1>2, <3>1, ManifestGoes
  <2>3. QED
    BY <1>1, <2>1, <2>2 DEF CalmOne, AgreedOne
<1>5. MovesOne(o)'
  BY <1>1 DEF CalmOne, MovesOne
<1>6. SeenOne(o)'
  <2> SUFFICES ASSUME me[o].pc \in {"probe", "gate"}, NEW q \in Paths \ me'[o].over,
                      Live(me[o].snap[q], q), file[q].content # Tree[head][q]
               PROVE  Stands(q)'
    BY <1>1 DEF SeenOne, Live
  <2>1. Stands(q)
    BY <1>1 DEF CalmOne, SeenOne
  <2>2. file[q].content # Absent
    BY DEF Live
  <2>3. Commit(p) => q \notin Outdated(p)
    BY <1>3 DEF Unread
  <2>4. QED
    BY <1>2, <2>1, <2>2, <2>3, StandsOn
<1>7. SafeOne(o)'
  <2>1. Settled(o)' = Settled(o)
    BY <1>1 DEF Settled
  <2>2. ASSUME me[o].pc \notin Unread, NEW q \in Settled(o) \ me'[o].over, Safe(q)
        PROVE  Safe(q)'
    <3>1. q \in Paths /\ file[q].content \notin {Absent, Tree[head][q]}
      BY DEF Settled, TypeInv, Minds
    <3>2. Commit(p) => q \notin Outdated(p)
      BY <1>3, <2>2
    <3>3. QED
      BY <1>2, <2>2, <3>1, <3>2, SafeOn
  <2>3. me[o].pc \in {"parse"} \cup AfterParse \cup Written => me[o].pc \notin Unread
    BY DEF AfterParse, Promoting, Rebasing, Writing, Written, Unread
  <2>4. QED
    BY <1>1, <2>1, <2>2, <2>3 DEF CalmOne, SafeOne
<1>8. ServedOne(o)'
  <2> SUFFICES ASSUME me[o].pc = "serve", me[o].ok, NEW q \in Settled(o) \ me'[o].over
               PROVE  /\ Live(me[o].snap[q], q) /\ dir'.exists /\ Valid(me[o].snap[q].content, dir'.bins)
                      /\ dir'.bins[me[o].snap[q].content].settled => Stands(q)'
    BY <1>1 DEF ServedOne, Live, Settled
  <2>1. q \in Paths /\ file[q].content \notin {Absent, Tree[head][q]}
    BY DEF Settled, TypeInv, Minds
  <2>2. PICK e \in Entries : e = me[o].snap[q]
    BY <2>1 DEF TypeInv, Minds, Manifests
  <2>3. /\ Live(e, q) /\ dir.exists /\ Valid(e.content, dir.bins)
        /\ dir.bins[e.content].settled => Stands(q)
    BY <1>1, <2>2 DEF CalmOne, ServedOne
  <2>4. Sound(e, file[q], clock)
    BY <2>1, <2>2 DEF SoundInv, MindSound, AllSound
  <2>5. QED
    BY <1>2, <2>1, <2>2, <2>3, <2>4, ServedOn
<1>9. QED
  BY <1>4, <1>5, <1>6, <1>7, <1>8 DEF CalmOne

(* The fields a refresh decided on at its gate.                            *)
Held(p) ==
    /\ me'[p].dirty = me[p].dirty /\ me'[p].seen = me[p].seen
    /\ me'[p].over = me[p].over /\ me'[p].ok = me[p].ok

(* From the parse to the commit.                                           *)
LEMMA ParsesOn ==
    ASSUME TypeInv, NEW p \in Procs, ProcStep(p), me'[p].pc \in AfterParse
    PROVE  /\ me[p].pc \in {"parse"} \cup AfterParse
           /\ Held(p) /\ me'[p].stale = me[p].stale /\ me'[p].base = me[p].base
<1> USE DEF AfterParse, Promoting, Rebasing, Writing
<1>1. \A here, there, F : Turn(p, here, there, F)
         /\ F \cap {"dirty", "seen", "over", "ok", "stale", "base"} = {}
         => /\ me[p].pc = here /\ Held(p) /\ me'[p].stale = me[p].stale /\ me'[p].base = me[p].base
  BY DEF Turn, Apart, Fields, Held
<1>2. ASSUME Parse(p) \/ PromoteMeta(p) \/ PromoteManifest(p) \/ RebaseMeta(p)
             \/ RebaseManifest(p) \/ RebaseMake(p)
      PROVE  /\ me[p].pc \in {"parse"} \cup AfterParse
             /\ Held(p) /\ me'[p].stale = me[p].stale /\ me'[p].base = me[p].base
  BY <1>1, <1>2, Turned, TurnParse, TurnRebaseMake, TurnIdle
<1>3. ASSUME Decide(p) \/ Promote(p) \/ Rebase(p)
      PROVE  /\ me[p].pc \in {"parse"} \cup AfterParse
             /\ Held(p) /\ me'[p].stale = me[p].stale /\ me'[p].base = me[p].base
  BY <1>3, TurnDecide, TurnPromote, WatchRebase DEF Apart, Fields, Held
<1>4. ASSUME Publish(p)
      PROVE  /\ me[p].pc \in {"parse"} \cup AfterParse
             /\ Held(p) /\ me'[p].stale = me[p].stale /\ me'[p].base = me[p].base
  BY <1>4, TurnPublish DEF Apart, Fields, Held, Rests
<1>5. ASSUME Fill(p) \/ Stage(p)
      PROVE  /\ me[p].pc \in {"parse"} \cup AfterParse
             /\ Held(p) /\ me'[p].stale = me[p].stale /\ me'[p].base = me[p].base
  BY <1>1, <1>5, TurnFill, TurnStage DEF Rests
<1>6. QED
  BY <1>2, <1>3, <1>4, <1>5, Arrives

(* ... and to the answer.                                                  *)
LEMMA WrittenOn ==
    ASSUME TypeInv, NEW p \in Procs, ProcStep(p), me'[p].pc \in Written, me'[p].ok
    PROVE  \/ Probe(p) \/ Gate(p)
           \/ /\ Held(p)
              /\ Commit(p) \/ (Stage(p) /\ Batch(p) = {} /\ Tombs(p) = {}) \/ me[p].pc \in Written
<1> USE DEF Written
<1>1. \A here, there, F : Turn(p, here, there, F)
         /\ F \cap {"dirty", "seen", "over", "ok"} = {}
         => me[p].pc = here /\ Held(p)
  BY DEF Turn, Apart, Fields, Held
<1>2. ASSUME Commit(p) \/ RetireNothing(p) \/ RetireWrite(p)
      PROVE  Held(p) /\ (Commit(p) \/ me[p].pc \in Written)
  BY <1>1, <1>2, Turned
<1>3. ASSUME Turn(p, "touch", "touched", {"target"}) PROVE Held(p) /\ me[p].pc \in Written
  BY <1>1, <1>3
<1>4. ASSUME Retire(p) PROVE Held(p) /\ me[p].pc \in Written
  <2>1. me[p].pc = "retire" /\ Apart(me'[p], me[p], {"pc", "stray", "mine"})
    BY <1>4, TurnRetire
  <2>2. QED
    BY <2>1 DEF Apart, Fields, Held
<1>5. ASSUME Rests(p)
      PROVE  \/ Probe(p) \/ Gate(p)
             \/ /\ Held(p)
                /\ (Stage(p) /\ Batch(p) = {} /\ Tombs(p) = {}) \/ me[p].pc \in Written
  <2>1. me'[p].ok = me[p].ok => Held(p)
    BY <1>5 DEF Rests, Apart, Fields, Held
  <2>2. ~ PublishNoDir(p) /\ ~ Publish(p) /\ ~ Fill(p)
    BY <1>5, TurnEnds, TurnPublish, TurnFill DEF Rests, Turn
  <2>3. TouchWrite(p) => Held(p) /\ me[p].pc \in Written
    BY <2>1, TurnEnds
  <2>4. ~ Touch(p)
    BY <1>5, TurnEnds DEF Rests, Turn
  <2>5. Stage(p) => Batch(p) = {} /\ Tombs(p) = {} /\ Held(p)
    BY <1>5, <2>1, TurnStage DEF Rests, Turn
  <2>6. me'[p].pc = "retire"
    BY <1>5 DEF Rests
  <2>7. Begin(p) \/ Beat(p) \/ Snapshot(p) \/ Parse(p) \/ Decide(p) \/ Promote(p) \/ PromoteNoDir(p)
        \/ PromoteMeta(p) \/ PromoteManifest(p) \/ Rebase(p) => FALSE
    BY <2>6, TurnBegin, Turned, TurnParse, TurnDecide, TurnPromote, TurnEnds, TurnIdle,
       WatchRebase DEF Turn
  <2>8. RebaseMake(p) \/ RebaseMeta(p) \/ RebaseManifest(p) \/ Commit(p)
        \/ RetireNothing(p) \/ Retire(p) \/ RetireWrite(p) \/ Read(p) \/ Serve(p)
        \/ SweepBegin(p) \/ SweepDelete(p) \/ Crash(p) => FALSE
    BY <2>6, Turned, TurnRebaseMake, TurnRetire, TurnEnds, TurnIdle, TurnSweepBegin DEF Turn
  <2>9. QED
    BY <2>2, <2>3, <2>4, <2>5, <2>7, <2>8 DEF ProcStep, Query
<1>6. QED
  BY <1>2, <1>3, <1>4, <1>5, Arrives

(* What the gate does not parse again is safe.                             *)
LEMMA GateSafe ==
    ASSUME TypeInv, SoundInv, DiskInv, TypeInv', SoundInv', \A s \in Procs : QuietOne(s),
           UNCHANGED <<file, clock, head>>, NEW p \in Procs, Gate(p), SeenOne(p),
           NEW q \in me'[p].dirty \ (me'[p].stale \cup me'[p].over),
           file[q].content \notin {Absent, Tree[head][q]}
    PROVE  Safe(q)'
<1>1. /\ me[p].pc = "gate" /\ me'[p].dirty = me[p].dirty /\ me'[p].over = me[p].over
      /\ me'[p].stale = {x \in me[p].dirty : dir.meta # head \/ ~ Current(me[p].snap[x], x)}
  BY TurnGate DEF Apart, Fields
<1>2. q \in Paths /\ Current(me[p].snap[q], q)
  BY <1>1 DEF TypeInv, Minds
<1>3. PICK e \in Entries : e = me[p].snap[q]
  BY <1>2 DEF TypeInv, Minds, Manifests
<1>4. PICK g \in Entries : g = dir.manifest[q]
  BY <1>2 DEF TypeInv, SessionDirs, Manifests
<1>5. Live(e, q) /\ Valid(e.content, dir.bins)
  BY <1>2, <1>3, NothingAssumption DEF Current, Live, Fragment, ValidBin, Valid
<1>6. Stands(q)
  BY <1>1, <1>2, <1>3, <1>5 DEF SeenOne
<1>7. Live(g, q)
  BY <1>4, <1>6 DEF Stands
<1>8. Sound(e, file[q], clock) /\ Sound(g, file[q], clock)
  BY <1>2, <1>3, <1>4 DEF SoundInv, MindSound, AllSound
<1>9. e.content = g.content
  BY <1>2, <1>5, <1>7, <1>8, LiveContent
<1>10. Safe(q)
  BY <1>4, <1>5, <1>6, <1>9 DEF Safe
<1>11. ProcStep(p)
  BY DEF ProcStep, Query
<1>12. ~ Moves(p) /\ ~ Promote(p) /\ ~ Commit(p)
  BY <1>1 DEF Moves, PromoteManifest, RebaseManifest, Rebase, Promote, Commit, At
<1>13. QED
  BY <1>2, <1>10, <1>11, <1>12, SafeOn

(* What a commit has written is safe.                                      *)
LEMMA CommitSafe ==
    ASSUME TypeInv, SoundInv, DiskInv, BackInv, TypeInv', SoundInv', \A s \in Procs : QuietOne(s),
           UNCHANGED <<file, clock, head>>, NEW p \in Procs, Commit(p), SafeOne(p),
           NEW q \in Settled(p) \ me[p].over
    PROVE  Safe(q)'
<1>1. me[p].pc = "commit" /\ me[p].pc \in AfterParse
  BY DEF Commit, At, AfterParse, Writing
<1>2. /\ q \in Paths /\ file[q].content \notin {Absent, Tree[head][q]}
      /\ file[q].stamp = me[p].seen[q]
  BY DEF Settled, TypeInv, Minds
<1>3. ProcStep(p) /\ ~ Moves(p) /\ ~ Promote(p)
  BY <1>1 DEF ProcStep, Query, Moves, PromoteManifest, RebaseManifest, Rebase, Promote, At
<1>4. q \notin Outdated(p)
  BY <1>2 DEF Outdated
<1>5. CASE q \notin me[p].stale
  <2>1. Safe(q)
    BY <1>1, <1>5 DEF SafeOne
  <2>2. QED
    BY <1>2, <1>3, <1>4, <2>1, SafeOn
<1>6. CASE q \in me[p].stale
  <2>1. me[p].parsed[q] # None
    BY <1>1, <1>2, <1>6 DEF BackInv, OneBack, LookOne
  <2>2. q \in Batch(p) /\ q \notin Tombs(p)
    BY <1>2, <2>1 DEF Batch, Tombs, DiskInv
  <2>3. PICK e : e = dir'.manifest[q] /\ e = [stamp |-> StampOf(p, q), content |-> me[p].parsed[q]]
    BY <1>2, <2>2, Rewrites DEF NewEntry
  <2>4. me[p].parsed[q] \in Contents /\ me[p].seen[q] \in Stamps
    BY <1>2, <2>1, NamesType DEF TypeInv, Minds
  <2>5. e \in [stamp : Stamps, content : Contents] /\ e.stamp = me[p].seen[q]
        /\ e.content = me[p].parsed[q]
    BY <2>3, <2>4 DEF StampOf
  <2>6. Fragment(e)
    BY <2>5, NothingAssumption DEF Fragment
  <2>7. Live(dir.manifest[q], q)'
    BY <1>2, <2>3, <2>5, <2>6 DEF Live
  <2>8. Agreed(q)'
    BY <1>2, <1>3, AgreedOn
  <2>9. dir'.bins = dir.bins
    BY Untouched
  <2>10. Valid(e.content, dir'.bins)
    BY <1>1, <1>2, <2>1, <2>5, <2>9 DEF QuietOne, BinsOne
  <2>11. QED
    BY <2>3, <2>7, <2>8, <2>10 DEF Safe, Stands
<1>7. QED
  BY <1>5, <1>6

(* The step a calm query takes itself.                                     *)
LEMMA AgreedOwn ==
    ASSUME TypeInv, DiskInv, CalmInv, \A s \in Procs : QuietOne(s),
           NEW p \in Procs, ProcStep(p), Rises(p) \/ AgreedOne(p), me'[p].calm
    PROVE  AgreedOne(p)'
<1>1. ASSUME Begin(p) PROVE \A q \in Paths : Agreed(q)'
  <2> SUFFICES ASSUME NEW q \in Paths, NEW r \in Procs, me'[r].pc \in Rewriting
               PROVE  me'[r].mine[q] = dir'.manifest[q]
    BY DEF Agreed
  <2>1. Rises(p) /\ me'[p].pc \in {"snapshot", "beat"} /\ UNCHANGED dir
    BY <1>1, TurnBegin DEF Begin
  <2>2. r # p
    BY <2>1 DEF Rewriting
  <2>3. me'[r].pc = me[r].pc /\ me'[r].mine = me[r].mine
    BY <2>2, Watching DEF Watches, Apart, Fields, ProcStep
  <2>4. me[r].pc # "idle"
    BY <2>3 DEF Rewriting
  <2>5. me[r].calm
    BY <2>1, <2>2, <2>4 DEF Rises
  <2>6. me[r].mine = dir.manifest
    BY <2>3, <2>5 DEF CalmInv, CalmOne, AgreedOne
  <2>7. QED
    BY <2>1, <2>3, <2>6
<1>2. ASSUME Beat(p) PROVE \A q \in Paths : Agreed(q)'
  <2>1. me[p].pc = "beat" /\ AgreedOne(p) /\ ~ Moves(p)
    BY <1>2 DEF Beat, At, Rises, Moves, PromoteManifest, RebaseManifest, Rebase
  <2>2. QED
    BY <2>1, AgreedOn DEF AgreedOne
<1>3. ASSUME me'[p].pc \in Rewriting PROVE me'[p].mine = dir'.manifest
  <2>1. Publish(p) \/ Retire(p)
    BY <1>3, Arrives DEF Rewriting
  <2>2. me'[p].mine = dir.manifest
    BY <1>3, <2>1, TurnPublish, TurnRetire DEF Rewriting, Rests
  <2>3. ~ Commit(p) /\ ~ RetireWrite(p) /\ ~ Moves(p)
    BY <2>1 DEF Publish, Retire, Moves, PromoteManifest, RebaseManifest, Rebase, Commit,
                RetireWrite, At
  <2>4. QED
    BY <2>2, <2>3, ManifestGoes
<1>4. QED
  BY <1>1, <1>2, <1>3, Arrives DEF AgreedOne

LEMMA MovesOwn ==
    ASSUME TypeInv, NEW p \in Procs, ProcStep(p), Rises(p) \/ MovesOne(p), UNCHANGED head
    PROVE  MovesOne(p)'
<1>0. Rises(p) => me[p].pc = "idle"
  BY DEF Rises
<1>1. ASSUME Gate(p)
      PROVE  me'[p].base # head => me'[p].stale = me'[p].dirty
  <2>1. /\ me'[p].dirty = me[p].dirty /\ me'[p].base = dir.meta
        /\ me'[p].stale = {q \in me[p].dirty : dir.meta # head \/ ~ Current(me[p].snap[q], q)}
    BY <1>1, TurnGate DEF Apart, Fields
  <2>2. QED
    BY <2>1
<1>2. ASSUME Parse(p) PROVE me'[p].base # head => me'[p].stale = me'[p].dirty
  <2>1. me[p].pc = "parse" /\ me'[p].pc = "decide"
    BY <1>2, TurnParse DEF Turn
  <2>2. QED
    BY <1>0, <2>1, ParsesOn DEF MovesOne, AfterParse, Held
<1>3. ASSUME me'[p].pc \in Promoting \cup Rebasing PROVE me'[p].stale = me'[p].dirty
  <2>1. CASE Decide(p)
    <3>1. me[p].pc = "decide" /\ me[p].base # head
      BY <1>3, <2>1, TurnDecide DEF Promoting, Rebasing
    <3>2. QED
      BY <1>0, <1>3, <3>1, ParsesOn DEF MovesOne, AfterParse, Held
  <2>2. CASE ~ Decide(p)
    <3>1. Promote(p) \/ PromoteMeta(p) \/ Rebase(p) \/ RebaseMake(p) \/ RebaseMeta(p)
      BY <1>3, <2>2, Arrives DEF Promoting, Rebasing
    <3>2. me[p].pc \in Promoting \cup Rebasing
      BY <3>1 DEF Promote, PromoteMeta, Rebase, RebaseMake, RebaseMeta, At, Promoting, Rebasing
    <3>3. me[p].pc # "idle"
      BY <3>2 DEF Promoting, Rebasing
    <3>4. QED
      BY <1>0, <1>3, <3>2, <3>3, ParsesOn DEF MovesOne, AfterParse, Held
  <2>3. QED
    BY <2>1, <2>2
<1>4. QED
  BY <1>1, <1>2, <1>3, Arrives DEF MovesOne

LEMMA SeenOwn ==
    ASSUME TypeInv, SoundInv, DiskInv, \A s \in Procs : QuietOne(s), UNCHANGED <<file, head>>,
           NEW p \in Procs, ProcStep(p), Rises(p) \/ (AgreedOne(p) /\ SeenOne(p))
    PROVE  SeenOne(p)'
<1> SUFFICES ASSUME me'[p].pc \in {"probe", "gate"}, NEW q \in Paths \ me'[p].over,
                    Live(me'[p].snap[q], q), file[q].content # Tree[head][q]
             PROVE  Stands(q)'
  BY DEF SeenOne, Live
<1>1. CASE Snapshot(p)
  <2>1. /\ me[p].pc = "snapshot" /\ me'[p].snap = dir.manifest
        /\ ~ Moves(p) /\ UNCHANGED dir
    BY <1>1 , Turned DEF Snapshot, At, Moves, PromoteManifest, RebaseManifest, Rebase
  <2>2. Agreed(q)
    BY <2>1 DEF AgreedOne, Rises
  <2>3. Agreed(q)'
    BY <2>1, <2>2, AgreedOn
  <2>4. QED
    BY <2>1, <2>3 DEF Stands, Live
<1>2. CASE Probe(p)
  <2>1. /\ me[p].pc = "probe" /\ me'[p].snap = me[p].snap /\ me'[p].over = me[p].over
    BY <1>2, TurnProbe DEF Apart, Fields
  <2>2. Stands(q)
    BY <2>1 DEF SeenOne, Rises
  <2>3. ~ Moves(p) /\ ~ Commit(p)
    BY <1>2, <2>1 DEF Moves, PromoteManifest, RebaseManifest, Rebase, Commit, At
  <2>4. file[q].content # Absent
    BY DEF Live
  <2>5. QED
    BY <2>2, <2>3, <2>4, StandsOn
<1>3. QED
  BY <1>1, <1>2, Arrives

LEMMA SafeOwn ==
    ASSUME TypeInv, SoundInv, DiskInv, BackInv, TypeInv', SoundInv', \A s \in Procs : QuietOne(s),
           UNCHANGED <<file, clock, head>>, NEW p \in Procs, ProcStep(p),
           Rises(p) \/ (MovesOne(p) /\ SeenOne(p) /\ SafeOne(p))
    PROVE  SafeOne(p)'
<1>0. ASSUME NEW q, q \in Settled(p)'
      PROVE  /\ q \in me'[p].dirty /\ q \in Paths /\ file[q].content \notin {Absent, Tree[head][q]}
             /\ file[q].stamp = me'[p].seen[q]
  BY <1>0 DEF Settled, TypeInv, Minds
<1>1. Rises(p) => me[p].pc = "idle"
  BY DEF Rises
<1>2. ASSUME NEW q, q \in Settled(p)', q \notin me'[p].over, me'[p].pc \in {"parse"} \cup AfterParse,
             q \notin me'[p].stale
      PROVE  Safe(q)'
  <2>1. CASE me'[p].pc = "parse"
    <3>1. Gate(p) /\ me[p].pc = "gate"
      BY <2>1, Arrives DEF Gate, At
    <3>2. QED
      BY <1>0, <1>1, <1>2, <3>1, GateSafe
  <2>2. CASE me'[p].pc \in AfterParse
    <3>1. /\ me[p].pc \in {"parse"} \cup AfterParse
          /\ Held(p) /\ me'[p].stale = me[p].stale
      BY <2>2, ParsesOn
    <3>2. MovesOne(p) /\ SafeOne(p)
      BY <1>1, <3>1 DEF AfterParse, Promoting, Rebasing, Writing
    <3>3. q \in Settled(p) /\ q \notin me[p].over /\ q \notin me[p].stale /\ q \in me[p].dirty
      BY <1>2, <3>1 DEF Settled, Held
    <3>4. Safe(q)
      BY <3>1, <3>2, <3>3 DEF SafeOne
    <3>5. me[p].pc \notin Promoting \cup Rebasing
      BY <3>2, <3>3 DEF MovesOne
    <3>6. ~ Moves(p) /\ ~ Promote(p)
      BY <3>5 DEF Moves, PromoteManifest, RebaseManifest, Rebase, Promote, At, Promoting, Rebasing
    <3>7. Commit(p) => q \notin Outdated(p)
      BY <1>0, <1>2, <3>1 DEF Outdated, Held
    <3>8. QED
      BY <1>0, <1>2, <3>4, <3>6, <3>7, SafeOn
  <2>3. QED
    BY <1>2, <2>1, <2>2
<1>3. ASSUME NEW q, q \in Settled(p)', q \notin me'[p].over, me'[p].pc \in Written, me'[p].ok
      PROVE  Safe(q)'
  <2>1. CASE Probe(p)
    <3>1. me'[p].dirty = {}
      BY <1>3, <2>1, TurnProbe DEF Written
    <3>2. QED
      BY <1>0, <1>3, <3>1
  <2>2. CASE Gate(p)
    <3>1. me[p].pc = "gate" /\ me'[p].stale = {}
      BY <1>3, <2>2, TurnGate DEF Written
    <3>2. QED
      BY <1>0, <1>1, <1>3, <2>2, <3>1, GateSafe
  <2>3. CASE Held(p) /\ ~ Probe(p) /\ ~ Gate(p)
    <3>1. q \in Settled(p) \ me[p].over /\ me[p].ok
      BY <1>3, <2>3 DEF Settled, Held
    <3>2. CASE Commit(p)
      <4>1. me[p].pc = "commit"
        BY <3>2 DEF Commit, At
      <4>2. QED
        BY <1>1, <3>1, <3>2, <4>1, CommitSafe
    <3>3. CASE Stage(p) /\ Batch(p) = {} /\ Tombs(p) = {}
      <4>1. me[p].pc = "stage" /\ me[p].pc \in AfterParse
        BY <3>3, TurnStage DEF AfterParse, Writing
      <4>2. me[p].parsed[q] = None
        BY <1>0, <1>3, <3>3 DEF Batch
      <4>3. q \notin me[p].stale
        BY <1>0, <1>3, <2>3, <4>1, <4>2 DEF BackInv, OneBack, LookOne, Held
      <4>4. Safe(q)
        BY <1>1, <3>1, <4>1, <4>3 DEF SafeOne
      <4>5. ~ Moves(p) /\ ~ Promote(p) /\ ~ Commit(p)
        BY <4>1 DEF Moves, PromoteManifest, RebaseManifest, Rebase, Promote, Commit, At
      <4>6. QED
        BY <1>0, <1>3, <4>4, <4>5, SafeOn
    <3>4. CASE me[p].pc \in Written
      <4>1. Safe(q)
        BY <1>1, <3>1, <3>4 DEF SafeOne, Written
      <4>2. ~ Moves(p) /\ ~ Promote(p) /\ ~ Commit(p)
        BY <3>4 DEF Moves, PromoteManifest, RebaseManifest, Rebase, Promote, Commit, At, Written
      <4>3. QED
        BY <1>0, <1>3, <4>1, <4>2, SafeOn
    <3>5. QED
      BY <1>3, <2>3, <3>2, <3>3, <3>4, WrittenOn
  <2>4. QED
    BY <1>3, <2>1, <2>2, <2>3, WrittenOn
<1>4. QED
  BY <1>2, <1>3 DEF SafeOne

LEMMA ServedOwn ==
    ASSUME TypeInv, SoundInv, DiskInv, TypeInv', SoundInv', \A s \in Procs : QuietOne(s),
           UNCHANGED <<file, clock, head>>, NEW p \in Procs, ProcStep(p),
           Rises(p) \/ SafeOne(p)
    PROVE  ServedOne(p)'
<1> SUFFICES ASSUME me'[p].pc = "serve", me'[p].ok, NEW q, q \in Settled(p)', q \notin me'[p].over
             PROVE  /\ Live(me'[p].snap[q], q) /\ dir'.exists /\ Valid(me'[p].snap[q].content, dir'.bins)
                    /\ Stands(q)'
  BY DEF ServedOne, Live
<1>1. Read(p) /\ me[p].pc = "read"
  BY Arrives DEF Read, At
<1>2. Turn(p, "read", "serve", {"snap"}) /\ me'[p].snap = dir.manifest /\ UNCHANGED dir
  BY <1>1, Turned DEF Read
<1>3. Held(p)
  BY <1>2 DEF Turn, Apart, Fields, Held
<1>4. q \in Settled(p) \ me[p].over /\ me[p].ok
  BY <1>3 DEF Settled, Held
<1>5. q \in Paths /\ file[q].content \notin {Absent, Tree[head][q]}
  BY <1>4 DEF Settled, TypeInv, Minds
<1>6. Safe(q)
  BY <1>1, <1>4 DEF SafeOne, Written, Rises
<1>7. ~ Moves(p) /\ ~ Promote(p) /\ ~ Commit(p)
  BY <1>1 DEF Moves, PromoteManifest, RebaseManifest, Rebase, Promote, Commit, At
<1>8. Safe(q)'
  BY <1>5, <1>6, <1>7, SafeOn
<1>9. Live(dir.manifest[q], q) /\ Valid(dir.manifest[q].content, dir.bins)
  BY <1>6 DEF Safe, Stands
<1>10. dir.manifest[q] # None
  BY <1>9 DEF Live, Fragment
<1>11. dir.exists
  BY <1>5, <1>10 DEF DiskInv, NoEntries
<1>12. QED
  BY <1>2, <1>8, <1>9, <1>11 DEF Safe

(* A calm query while the user edits a file: the edited file is covered by *)
(* no query, and the others are what they were.                            *)
LEMMA CalmEdit ==
    ASSUME TypeInv, SoundInv, NEW x \in Paths, NEW c \in Contents \cup {Absent}, Edit(x, c),
           NEW o \in Procs, CalmOne(o)
    PROVE  CalmOne(o)'
<1>1. UNCHANGED <<dir, holder, head>>
  BY Edited
<1>2. ASSUME NEW r \in Procs
      PROVE  /\ me'[r].pc = me[r].pc /\ me'[r].snap = me[r].snap /\ me'[r].mine = me[r].mine
             /\ me'[r].dirty = me[r].dirty /\ me'[r].stale = me[r].stale /\ me'[r].seen = me[r].seen
             /\ me'[r].base = me[r].base /\ me'[r].ok = me[r].ok /\ me'[r].over = me[r].over
  BY OutsideWatched DEF Watches, Apart, Fields
<1>3. \A q \in Paths : Agreed(q) => Agreed(q)'
  BY <1>1, <1>2 DEF Agreed
<1>4. \A q \in Paths : file'[q] = file[q] /\ Stands(q) => Stands(q)'
  BY <1>1, <1>3 DEF Stands, Live
<1>5. \A q \in Paths : file'[q] = file[q] /\ Safe(q) => Safe(q)'
  BY <1>1, <1>4 DEF Safe
<1>6. ASSUME NEW q, q \in Settled(o)'
      PROVE  q \in Paths /\ file'[q] = file[q] /\ q \in Settled(o)
  <2>1. /\ q \in me[o].dirty /\ q \in Paths /\ file'[q].stamp = me[o].seen[q]
        /\ file'[q].content \notin {Absent, Tree[head][q]}
    BY <1>1, <1>2, <1>6 DEF Settled, TypeInv, Minds
  <2>2. me[o].seen[q] \in Stamps /\ me[o].seen[q] <= clock
    BY <2>1, MyMind DEF Minds, MindSound, ParseSound
  <2>3. file'[q] = file[q]
    BY <2>1, <2>2, EditedLive
  <2>4. QED
    BY <2>1, <2>3 DEF Settled
<1>7. AgreedOne(o)' /\ MovesOne(o)'
  BY <1>1, <1>2, <1>3 DEF CalmOne, AgreedOne, MovesOne
<1>8. SeenOne(o)'
  <2> SUFFICES ASSUME me[o].pc \in {"probe", "gate"}, NEW q \in Paths \ me[o].over,
                      Live(me[o].snap[q], q)', file'[q].content # Tree[head][q]
               PROVE  Stands(q)'
    BY <1>1, <1>2 DEF SeenOne
  <2>0. me[o].snap \in Manifests /\ AllSound(me[o].snap, file, clock)
    BY MyMind DEF Minds, MindSound
  <2>1. PICK e \in Entries : e = me[o].snap[q]
    BY <2>0 DEF Manifests
  <2>2. Sound(e, file[q], clock)
    BY <2>0, <2>1 DEF AllSound
  <2>3. Live(e, q)'
    BY <1>2, <2>1 DEF Live
  <2>4. file'[q] = file[q] /\ Live(e, q)
    BY <2>2, <2>3, EditedLive
  <2>5. Stands(q)
    BY <2>1, <2>4 DEF CalmOne, SeenOne
  <2>6. QED
    BY <1>4, <2>4, <2>5
<1>9. SafeOne(o)'
  BY <1>2, <1>5, <1>6 DEF CalmOne, SafeOne
<1>10. ServedOne(o)'
  <2> SUFFICES ASSUME me[o].pc = "serve", me[o].ok, NEW q, q \in Settled(o)', q \notin me[o].over
               PROVE  /\ Live(me[o].snap[q], q)' /\ dir.exists
                      /\ Valid(me[o].snap[q].content, dir.bins)
                      /\ dir.bins[me[o].snap[q].content].settled => Stands(q)'
    BY <1>1, <1>2 DEF ServedOne
  <2>1. /\ Live(me[o].snap[q], q) /\ dir.exists /\ Valid(me[o].snap[q].content, dir.bins)
        /\ dir.bins[me[o].snap[q].content].settled => Stands(q)
    BY <1>6 DEF CalmOne, ServedOne
  <2>2. QED
    BY <1>2, <1>4, <1>6, <2>1 DEF Live
<1>11. QED
  BY <1>7, <1>8, <1>9, <1>10 DEF CalmOne

LEMMA CalmKeeps ==
    TypeInv /\ SoundInv /\ DiskInv /\ BackInv /\ QuietInv /\ CalmInv /\ [Next]_vars => CalmInv'
<1> SUFFICES ASSUME TypeInv, SoundInv, DiskInv, BackInv, QuietInv, CalmInv, [Next]_vars,
                    NEW o \in Procs, me'[o].calm
             PROVE  CalmOne(o)'
  BY DEF CalmInv
<1>0. TypeInv' /\ SoundInv'
  BY NextKeeps
<1>1. ASSUME NEW p \in Procs, ProcStep(p) PROVE CalmOne(o)'
  <2>1. UNCHANGED <<file, clock, head>>
    BY <1>1, ProcKeeps DEF Keeps, ProcStep
  <2>2. \A r \in Procs : QuietOne(r)
    BY <1>1, QuietBefore DEF SomeCalm
  <2>3. CASE o = p
    <3>1. Rises(p) \/ CalmOne(p)
      BY <1>1, <2>3, CalmStays DEF CalmInv
    <3>2. AgreedOne(p)'
      BY <1>1, <2>2, <2>3, <3>1, AgreedOwn DEF CalmOne
    <3>3. MovesOne(p)'
      BY <1>1, <2>1, <3>1, MovesOwn DEF CalmOne
    <3>4. SeenOne(p)'
      BY <1>1, <2>1, <2>2, <3>1, SeenOwn DEF CalmOne
    <3>5. SafeOne(p)'
      BY <1>0, <1>1, <2>1, <2>2, <3>1, SafeOwn DEF CalmOne
    <3>6. ServedOne(p)'
      BY <1>0, <1>1, <2>1, <2>2, <3>1, ServedOwn DEF CalmOne
    <3>7. QED
      BY <2>3, <3>2, <3>3, <3>4, <3>5, <3>6 DEF CalmOne
  <2>4. CASE o # p
    <3>1. CalmOne(o)
      BY <1>1, <2>4, Watching DEF Watches, ProcStep, CalmInv
    <3>2. QED
      BY <1>0, <1>1, <2>1, <2>2, <2>4, <3>1, CalmOther
  <2>5. QED
    BY <2>3, <2>4
<1>2. ASSUME NEW q \in Paths, NEW c \in Contents \cup {Absent}, Edit(q, c) PROVE CalmOne(o)'
  <2>1. CalmOne(o)
    BY <1>2, OutsideWatched DEF CalmInv
  <2>2. QED
    BY <1>2, <2>1, CalmEdit
<1>3. ~ ((\E h \in Commits : MoveHead(h)) \/ RetireSession \/ RetireL1)
  BY OutsideWatched
<1>4. ~ HourPasses
  BY DEF HourPasses, At, BackInv, OneBack, IdleOne
<1>5. CASE UNCHANGED vars
  <2>1. CalmOne(o) /\ UNCHANGED <<file, head, dir, me>>
    BY <1>5 DEF vars, CalmInv
  <2>2. QED
    BY <2>1 DEF CalmOne, AgreedOne, MovesOne, SeenOne, SafeOne, ServedOne, Agreed, Stands, Safe,
                Live, Settled
<1>6. QED
  BY <1>1, <1>2, <1>3, <1>4, <1>5 DEF Next, ProcStep

LEMMA InitCalm == Init => QuietInv /\ CalmInv
<1> SUFFICES ASSUME Init PROVE \A r \in Procs : ~ me[r].calm
  BY DEF QuietInv, SomeCalm, CalmInv
<1>1. ~ Idle.calm
  BY DEF Idle
<1>2. QED
  BY <1>1 DEF Init

(* A query whose refresh succeeded finds a fragment of every file it       *)
(* covered, whatever other queries, sweeps and crashes of the session run  *)
(* beside it (retire_entries, the publish that lets a valid bin be and     *)
(* touches it, and the hour sweep_stale_fragments grants a bin): for any   *)
(* number of processes, paths and edits.                                   *)
THEOREM OwnRefreshFound == Spec => []OwnRefreshServed
<1> DEFINE Inv == TypeInv /\ SoundInv /\ DiskInv /\ BackInv /\ QuietInv /\ CalmInv
<1>1. Init => Inv
  BY InitKeeps, InitHeals, InitBack, InitCalm
<1>2. Inv /\ [Next]_vars => Inv'
  BY NextKeeps, DiskKeeps, BackKeeps, QuietKeeps, CalmKeeps
<1>3. Inv => OwnRefreshServed
  <2> SUFFICES ASSUME Inv, NEW p \in Procs, me[p].pc = "serve", me[p].ok, me[p].calm,
                      NEW q, q \in Settled(p), q \notin me[p].over
               PROVE  q \in ServedFragments(me[p].snap)
    BY DEF OwnRefreshServed, At
  <2>1. q \in Paths
    BY DEF Settled, TypeInv, Minds
  <2>2. Live(me[p].snap[q], q) /\ Valid(me[p].snap[q].content, dir.bins)
    BY DEF CalmInv, CalmOne, ServedOne
  <2>3. QED
    BY <2>1, <2>2 DEF ServedFragments, ValidBin, Live, Valid
<1>4. QED
  BY <1>1, <1>2, <1>3, PTL DEF Spec
==============================================================================
