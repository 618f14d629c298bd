--------------------------- MODULE ScanCacheProofs ---------------------------
(***************************************************************************)
(* Machine-checked theorems about ScanCache, for any threads, any ages and *)
(* any bounds.                                                             *)
(***************************************************************************)
EXTENDS ScanCache, FiniteSets, FiniteSetTheorems, TLAPS

USE AgeAssumption, CoarseAssumption, TimeAssumption, StepsAssumption, NoScanAssumption

Points == {"idle", "stat", "lookup", "scan", "store", "answer", "invalidate"}
Calls == [wallNow : Times, monoNow : Times, mtime : Times, epoch : 0..MaxChanges,
          index : Contents]

-----------------------------------------------------------------------------
(* Types.  The epoch moves with an invalidate, and every invalidate has a  *)
(* change of its own before it: the epoch and the invalidates still to     *)
(* come are no more than the changes so far.                               *)

Publishing == {t \in Threads : pc[t] = "invalidate"}
EpochInv ==
    /\ IsFiniteSet(Publishing)
    /\ epoch + Cardinality(Publishing) <= content
TypeInv == TypeOK /\ EpochInv

LEMMA TypeInit == Init => TypeInv
<1> SUFFICES ASSUME Init PROVE TypeInv
  OBVIOUS
<1>1. TypeOK
  BY DEF Init, TypeOK, Contents, Times, NoCall, NotSeen, Scans
<1>2. Publishing = {}
  BY DEF Init, Publishing
<1>3. QED
  BY <1>1, <1>2, FS_EmptySet DEF Init, TypeInv, EpochInv

(* Who publishes, after a step of t to `there`.                            *)
LEMMA PublishingMove ==
    ASSUME TypeInv, NEW t \in Threads, NEW there \in Points, Goto(t, there)
    PROVE  /\ Publishing' = IF there = "invalidate" THEN Publishing \cup {t}
                                                    ELSE Publishing \ {t}
           /\ pc' \in [Threads -> Points]
  BY DEF TypeInv, TypeOK, Goto, Publishing, Points

LEMMA EpochUnmoved ==
    ASSUME TypeInv, NEW t \in Threads, NEW there \in Points \ {"invalidate"},
           Goto(t, there), epoch' = epoch, content' = content
    PROVE  EpochInv'
<1>1. Publishing' = Publishing \ {t}
  BY PublishingMove
<1>2. /\ IsFiniteSet(Publishing)
      /\ IsFiniteSet(Publishing \ {t}) /\ Cardinality(Publishing \ {t}) <= Cardinality(Publishing)
      /\ Cardinality(Publishing \ {t}) \in Nat /\ Cardinality(Publishing) \in Nat
  <2>1. IsFiniteSet(Publishing)
    BY DEF TypeInv, EpochInv
  <2>2. IsFiniteSet(Publishing \ {t})
    BY <2>1, FS_RemoveElement
  <2>3. Cardinality(Publishing \ {t}) \in Nat /\ Cardinality(Publishing) \in Nat
    BY <2>1, <2>2, FS_CardinalityType
  <2>4. QED
    BY <2>1, <2>2, <2>3, FS_RemoveElement
<1>3. epoch \in Nat /\ content \in Nat
  BY DEF TypeInv, TypeOK, Contents
<1>4. QED
  BY <1>1, <1>2, <1>3 DEF TypeInv, EpochInv

LEMMA TypeNext == TypeInv /\ [Next]_vars => TypeInv'
<1> SUFFICES ASSUME TypeInv, [Next]_vars PROVE TypeInv'
  OBVIOUS
<1> USE DEF Contents, Times
<1>0. /\ content \in Contents /\ mtime \in Times /\ wall \in Times /\ mono \in Times
      /\ epoch \in 0..MaxChanges /\ scan \in Scans \cup {NoScan}
      /\ pc \in [Threads -> Points] /\ call \in [Threads -> Calls]
      /\ born \in [Contents -> Times] /\ floor \in Contents
      /\ seen \in [Threads -> [floor : Contents, stat : Contents]]
      /\ steps \in 0..MaxSteps
  BY DEF TypeInv, TypeOK, Points, Calls
<1>1. NoCall \in Calls /\ NotSeen \in [floor : Contents, stat : Contents]
  BY DEF NoCall, NotSeen, Calls
<1>2. ASSUME Change
      PROVE  /\ content' \in Contents /\ mtime' \in Times /\ born' \in [Contents -> Times]
             /\ content' = content + 1
  BY <1>0, <1>2 DEF Change
<1>3. ASSUME NEW t \in Threads, NEW i \in Contents, Answered(t, i)
      PROVE  call' \in [Threads -> Calls]
  BY <1>0, <1>1, <1>3 DEF Answered, NoCall, Calls
<1>4. ASSUME NEW t \in Threads, PublishRename(t)
      PROVE  TypeInv'
  <2>1. TypeOK'
    BY <1>0, <1>2, <1>4 DEF PublishRename, Goto, TypeOK, Points, Calls, clockVars, cacheVars
  <2>2. Publishing' = Publishing \cup {t}
    BY <1>4, PublishingMove DEF PublishRename, Points
  <2>3. /\ IsFiniteSet(Publishing \cup {t})
        /\ Cardinality(Publishing \cup {t}) <= Cardinality(Publishing) + 1
        /\ Cardinality(Publishing \cup {t}) \in Nat /\ Cardinality(Publishing) \in Nat
    <3>1. IsFiniteSet(Publishing)
      BY DEF TypeInv, EpochInv
    <3>2. IsFiniteSet(Publishing \cup {t})
      BY <3>1, FS_AddElement
    <3>3. Cardinality(Publishing \cup {t}) \in Nat /\ Cardinality(Publishing) \in Nat
      BY <3>1, <3>2, FS_CardinalityType
    <3>4. QED
      BY <3>1, <3>2, <3>3, FS_AddElement
  <2>4. EpochInv'
    <3>1. epoch' = epoch /\ content' = content + 1
      BY <1>2, <1>4 DEF PublishRename, cacheVars
    <3>2. epoch + Cardinality(Publishing) <= content /\ epoch \in Nat /\ content \in Nat
      BY <1>0 DEF TypeInv, EpochInv
    <3>3. epoch' + Cardinality(Publishing \cup {t}) <= content'
      BY <2>3, <3>1, <3>2
    <3>4. QED
      BY <2>2, <2>3, <3>3 DEF EpochInv
  <2>5. QED
    BY <2>1, <2>4 DEF TypeInv
<1>5. ASSUME NEW t \in Threads, Invalidate(t)
      PROVE  TypeInv'
  <2>1. Publishing' = Publishing \ {t} /\ t \in Publishing
    BY <1>5, PublishingMove DEF Invalidate, Points, Publishing
  <2>2. /\ IsFiniteSet(Publishing \ {t})
        /\ Cardinality(Publishing \ {t}) = Cardinality(Publishing) - 1
        /\ Cardinality(Publishing \ {t}) \in Nat
    <3>1. IsFiniteSet(Publishing)
      BY DEF TypeInv, EpochInv
    <3>2. IsFiniteSet(Publishing \ {t})
      BY <3>1, FS_RemoveElement
    <3>3. QED
      BY <2>1, <3>1, <3>2, FS_RemoveElement, FS_CardinalityType
  <2>3. /\ epoch' = epoch + 1 /\ content' = content
        /\ epoch + Cardinality(Publishing) <= content
        /\ epoch \in Nat /\ content \in 0..MaxChanges /\ Cardinality(Publishing) \in Nat
    BY <1>0, <1>5, FS_CardinalityType DEF Invalidate, TypeInv, EpochInv, fsVars
  <2>4. epoch' + Cardinality(Publishing \ {t}) <= content' /\ epoch' \in 0..MaxChanges
    BY <2>2, <2>3
  <2>7. EpochInv'
    BY <2>1, <2>2, <2>4 DEF EpochInv
  <2>5. TypeOK'
    BY <1>0, <1>1, <1>5, <2>4 DEF Invalidate, Goto, TypeOK, Points, Calls, clockVars, fsVars
  <2>6. QED
    BY <2>5, <2>7 DEF TypeInv
<1>6. ASSUME NEW t \in Threads, Begin(t) \/ Stat(t) \/ CacheMiss(t) \/ Scan(t)
                                \/ ScanError(t) \/ Answer(t)
      PROVE  TypeInv'
  <2>1. TypeOK'
    <3>1. call' \in [Threads -> Calls]
      <4>1. call[t] \in Calls
        BY <1>0
      <4>2. \E c \in Calls : call' = [call EXCEPT ![t] = c]
        <5>1. CASE Begin(t)
          <6>1. [call[t] EXCEPT !.wallNow = wall, !.monoNow = mono] \in Calls
            BY <1>0, <4>1 DEF Calls
          <6>2. QED
            BY <1>0, <5>1, <6>1 DEF Begin
        <5>2. CASE Stat(t)
          BY <1>0, <4>1, <5>2 DEF Stat, Calls
        <5>3. CASE CacheMiss(t)
          BY <1>0, <4>1, <5>3 DEF CacheMiss, Calls
        <5>4. CASE Scan(t)
          BY <1>0, <4>1, <5>4 DEF Scan, Calls
        <5>5. CASE ScanError(t) \/ Answer(t)
          BY <1>1, <5>5 DEF ScanError, Answer
        <5>6. QED
          BY <1>6, <5>1, <5>2, <5>3, <5>4, <5>5
      <4>3. QED
        BY <1>0, <4>2
    <3>2. seen' \in [Threads -> [floor : Contents, stat : Contents]]
      <4>0. seen[t] \in [floor : Contents, stat : Contents]
        BY <1>0
      <4>1. CASE Begin(t) \/ Stat(t)
        <5>1. \/ seen' = [seen EXCEPT ![t] = [seen[t] EXCEPT !.floor = floor]]
              \/ seen' = [seen EXCEPT ![t] = [seen[t] EXCEPT !.stat = content]]
          BY <4>1 DEF Begin, Stat
        <5>2. /\ [seen[t] EXCEPT !.floor = floor] \in [floor : Contents, stat : Contents]
              /\ [seen[t] EXCEPT !.stat = content] \in [floor : Contents, stat : Contents]
          BY <1>0, <4>0
        <5>3. QED
          BY <1>0, <5>1, <5>2
      <4>2. CASE ScanError(t) \/ Answer(t) \/ CacheMiss(t) \/ Scan(t)
        BY <1>0, <1>1, <4>2 DEF ScanError, Answer, CacheMiss, Scan
      <4>3. QED
        BY <1>6, <4>1, <4>2
    <3>3. pc' \in [Threads -> Points]
      BY <1>0, <1>6 DEF Begin, Stat, CacheMiss, Scan, ScanError, Answer, Goto, Points
    <3>4. UNCHANGED <<fsVars, clockVars, cacheVars, floor>>
      BY <1>6 DEF Begin, Stat, CacheMiss, Scan, ScanError, Answer
    <3>5. QED
      BY <1>0, <3>1, <3>2, <3>3, <3>4 DEF TypeOK, Points, Calls, fsVars, clockVars, cacheVars
  <2>2. /\ \E there \in Points \ {"invalidate"} : Goto(t, there)
        /\ epoch' = epoch /\ content' = content
    BY <1>6 DEF Begin, Stat, CacheMiss, Scan, ScanError, Answer, Points, fsVars, cacheVars
  <2>3. QED
    BY <2>1, <2>2, EpochUnmoved DEF TypeInv
<1>7. ASSUME NEW t \in Threads, PlainScan(t) \/ CacheHit(t) \/ Store(t)
      PROVE  TypeInv'
  <2>1. call' \in [Threads -> Calls]
    <3>1. CASE PlainScan(t)
      BY <1>0, <1>3, <3>1 DEF PlainScan
    <3>2. CASE CacheHit(t)
      BY <1>0, <1>3, <3>2 DEF CacheHit, Hit, Scans
    <3>3. CASE Store(t)
      BY <1>0, <1>3, <3>3 DEF Store, Calls
    <3>4. QED
      BY <1>7, <3>1, <3>2, <3>3
  <2>2. scan' \in Scans \cup {NoScan}
    <3>1. scan' = scan \/ scan' = [mtime |-> call[t].mtime, scannedAt |-> call[t].monoNow,
                                   index |-> call[t].index]
      BY <1>7 DEF PlainScan, CacheHit, Store, cacheVars
    <3>2. call[t] \in Calls
      BY <1>0
    <3>3. QED
      BY <1>0, <3>1, <3>2 DEF Calls, Scans
  <2>3. TypeOK'
    <3>1. pc' \in [Threads -> Points]
      BY <1>0, <1>7 DEF PlainScan, CacheHit, Store, Goto, Points
    <3>2. seen' \in [Threads -> [floor : Contents, stat : Contents]]
      BY <1>0, <1>7 DEF PlainScan, CacheHit, Store
    <3>3. UNCHANGED <<fsVars, clockVars, epoch, floor>>
      BY <1>7 DEF PlainScan, CacheHit, Store, cacheVars
    <3>4. QED
      BY <1>0, <2>1, <2>2, <3>1, <3>2, <3>3 DEF TypeOK, Points, Calls, fsVars, clockVars
  <2>4. /\ \E there \in Points \ {"invalidate"} : Goto(t, there)
        /\ epoch' = epoch /\ content' = content
    BY <1>7 DEF PlainScan, CacheHit, Store, Points, fsVars, cacheVars
  <2>5. QED
    BY <2>3, <2>4, EpochUnmoved DEF TypeInv
<1>8. CASE OtherChange
  <2>1. TypeOK'
    BY <1>0, <1>2, <1>8 DEF OtherChange, TypeOK, Points, Calls, clockVars, cacheVars
  <2>2. Publishing' = Publishing /\ epoch' = epoch
    BY <1>8 DEF OtherChange, Publishing, cacheVars
  <2>3. content \in Nat /\ content' \in Nat /\ content <= content' /\ epoch \in Nat
    BY <1>0, <1>2, <1>8 DEF OtherChange, TypeInv
  <2>4. IsFiniteSet(Publishing) /\ epoch + Cardinality(Publishing) <= content
    BY DEF TypeInv, EpochInv
  <2>5. Cardinality(Publishing) \in Nat
    BY <2>4, FS_CardinalityType
  <2>6. EpochInv'
    BY <2>2, <2>3, <2>4, <2>5 DEF EpochInv
  <2>7. QED
    BY <2>1, <2>6 DEF TypeInv
<1>9. CASE Tick \/ SetClock \/ UNCHANGED vars
  <2>1. TypeOK'
    <3>1. /\ wall' \in Times /\ mono' \in Times /\ steps' \in 0..MaxSteps
      BY <1>0, <1>9 DEF Tick, SetClock, vars, clockVars
    <3>2. UNCHANGED <<fsVars, cacheVars, pc, call, floor, seen>>
      BY <1>9 DEF Tick, SetClock, vars
    <3>3. QED
      BY <1>0, <3>1, <3>2 DEF TypeOK, Points, Calls, fsVars, cacheVars
  <2>2. EpochInv'
    BY <1>9 DEF Tick, SetClock, TypeInv, EpochInv, Publishing, vars, fsVars, cacheVars
  <2>3. QED
    BY <2>1, <2>2 DEF TypeInv
<1>10. QED
  BY <1>4, <1>5, <1>6, <1>7, <1>8, <1>9 DEF Next

LEMMA TypeInvCorrect == Spec => []TypeInv
  BY TypeInit, TypeNext, PTL DEF Spec

(* The variables stay in their sets; in particular the epoch never moves   *)
(* more often than commits/ changed.                                       *)
THEOREM TypeCorrect == Spec => []TypeOK
<1>1. TypeInv => TypeOK
  BY DEF TypeInv
<1>2. QED
  BY <1>1, TypeInvCorrect, PTL

-----------------------------------------------------------------------------
(* Where a call knows the stat of commits/, and where it began at all.     *)
Stated == {"lookup", "scan", "store"}
Running == {"stat", "answer"} \cup Stated

(* What a scan rests on.  A content the cache or a call about to fill it   *)
(* does not have came after it read the clock; what it has is no older     *)
(* than the last publish of this process, or the epoch has moved since.    *)
FloorInv ==
    /\ floor <= content
    /\ scan # NoScan => scan.index >= floor /\ scan.index <= content
    /\ \A t \in Threads :
        /\ call[t].index <= content /\ call[t].epoch <= epoch
        /\ pc[t] \in Running => seen[t].floor <= floor
        /\ pc[t] = "store" /\ call[t].epoch = epoch => call[t].index >= floor
        /\ pc[t] \in {"store", "answer"} => call[t].index >= seen[t].floor

Since(index, time) == \A c \in Contents : index < c /\ c <= content => born[c] >= time
AgeInv ==
    /\ scan # NoScan => scan.scannedAt <= mono /\ Since(scan.index, scan.scannedAt)
    /\ \A t \in Threads :
        /\ call[t].monoNow <= mono
        /\ pc[t] = "store" => Since(call[t].index, call[t].monoNow)
    /\ FreshWithinMaxAge

(* While nobody sets the wall clock: a settled mtime names one content.    *)
Newest(m, c) == content <= c \/ mtime > m
StampInv == steps = 0 =>
    /\ \A t \in Threads :
        /\ seen[t].stat <= content
        /\ pc[t] \in Running => call[t].wallNow <= wall
        /\ pc[t] \in {"store", "answer"} => call[t].index >= seen[t].stat
        /\ pc[t] \in Stated /\ Settled(t) =>
            /\ Newest(call[t].mtime, seen[t].stat)
            /\ \A u \in Threads : pc[u] \in Stated /\ call[u].mtime = call[t].mtime
                => seen[u].stat <= seen[t].stat
        /\ pc[t] \in Stated /\ scan # NoScan /\ call[t].mtime = scan.mtime
            => seen[t].stat <= scan.index
    /\ scan # NoScan =>
        /\ Newest(scan.mtime, scan.index)
        /\ scan.mtime + Settle <= wall

-----------------------------------------------------------------------------
(* What each step does, field by field.                                    *)

OthersStay(t) == \A u \in Threads \ {t} : pc'[u] = pc[u] /\ call'[u] = call[u] /\ seen'[u] = seen[u]

LEMMA Typed ==
    ASSUME TypeInv
    PROVE  /\ pc \in [Threads -> Points] /\ call \in [Threads -> Calls]
           /\ seen \in [Threads -> [floor : Contents, stat : Contents]]
           /\ born \in [Contents -> Times] /\ scan \in Scans \cup {NoScan}
           /\ content \in Contents /\ floor \in Contents /\ epoch \in 0..MaxChanges
           /\ mtime \in Times /\ wall \in Times /\ mono \in Times /\ steps \in 0..MaxSteps
  BY DEF TypeInv, TypeOK, Points, Calls

LEMMA ChangeFacts ==
    ASSUME TypeInv, Change
    PROVE  /\ content' = content + 1 /\ content' \in Contents
           /\ mtime' \in Times /\ wall - Coarse <= mtime'
           /\ born'[content + 1] = mono /\ \A c \in 0..content : born'[c] = born[c]
<1>1. content \in 0..MaxChanges /\ content < MaxChanges /\ content' = content + 1
  BY Typed DEF Change, Contents
<1>2. content + 1 \in Contents /\ 0..content \subseteq Contents /\ content + 1 \notin 0..content
  BY <1>1 DEF Contents
<1>3. born' = [born EXCEPT ![content + 1] = mono] /\ born \in [Contents -> Times]
  BY Typed DEF Change
<1>4. born'[content + 1] = mono /\ \A c \in 0..content : born'[c] = born[c]
  BY <1>2, <1>3
<1>5. QED
  BY <1>1, <1>2, <1>4 DEF Change, Times

LEMMA PublishRenameFacts ==
    ASSUME TypeInv, NEW t \in Threads, PublishRename(t)
    PROVE  /\ OthersStay(t) /\ pc[t] = "idle" /\ pc'[t] = "invalidate"
           /\ call'[t].monoNow = call[t].monoNow
           /\ call'[t].wallNow = call[t].wallNow
           /\ call'[t].mtime = call[t].mtime
           /\ call'[t].epoch = call[t].epoch
           /\ call'[t].index = content + 1
           /\ seen'[t].floor = seen[t].floor
           /\ seen'[t].stat = seen[t].stat
           /\ UNCHANGED <<wall, mono, steps, epoch, scan, floor, seen>>
           /\ Change
  BY Typed DEF PublishRename, OthersStay, Goto, Calls, fsVars, clockVars, cacheVars

LEMMA InvalidateFacts ==
    ASSUME TypeInv, NEW t \in Threads, Invalidate(t)
    PROVE  /\ OthersStay(t) /\ pc[t] = "invalidate" /\ pc'[t] = "idle"
           /\ call'[t].monoNow = 0
           /\ call'[t].wallNow = 0
           /\ call'[t].mtime = 0
           /\ call'[t].epoch = 0
           /\ call'[t].index = 0
           /\ seen'[t].floor = seen[t].floor
           /\ seen'[t].stat = seen[t].stat
           /\ UNCHANGED <<content, mtime, born, wall, mono, steps, seen>>
           /\ epoch' = epoch + 1 /\ scan' = NoScan
           /\ floor' = IF call[t].index > floor THEN call[t].index ELSE floor
  BY Typed DEF Invalidate, OthersStay, Goto, Calls, fsVars, clockVars, cacheVars, NoCall

LEMMA BeginFacts ==
    ASSUME TypeInv, NEW t \in Threads, Begin(t)
    PROVE  /\ OthersStay(t) /\ pc[t] = "idle" /\ pc'[t] = "stat"
           /\ call'[t].monoNow = mono
           /\ call'[t].wallNow = wall
           /\ call'[t].mtime = call[t].mtime
           /\ call'[t].epoch = call[t].epoch
           /\ call'[t].index = call[t].index
           /\ seen'[t].floor = floor
           /\ seen'[t].stat = seen[t].stat
           /\ UNCHANGED <<content, mtime, born, wall, mono, steps, epoch, scan, floor>>
  BY Typed DEF Begin, OthersStay, Goto, Calls, fsVars, clockVars, cacheVars

LEMMA StatFacts ==
    ASSUME TypeInv, NEW t \in Threads, Stat(t)
    PROVE  /\ OthersStay(t) /\ pc[t] = "stat" /\ pc'[t] = "lookup"
           /\ call'[t].monoNow = call[t].monoNow
           /\ call'[t].wallNow = call[t].wallNow
           /\ call'[t].mtime = mtime
           /\ call'[t].epoch = call[t].epoch
           /\ call'[t].index = call[t].index
           /\ seen'[t].floor = seen[t].floor
           /\ seen'[t].stat = content
           /\ UNCHANGED <<content, mtime, born, wall, mono, steps, epoch, scan, floor>>
  BY Typed DEF Stat, OthersStay, Goto, Calls, fsVars, clockVars, cacheVars

LEMMA PlainScanFacts ==
    ASSUME TypeInv, NEW t \in Threads, PlainScan(t)
    PROVE  /\ OthersStay(t) /\ pc[t] = "stat" /\ pc'[t] = "answer"
           /\ call'[t].monoNow = call[t].monoNow
           /\ call'[t].wallNow = 0
           /\ call'[t].mtime = 0
           /\ call'[t].epoch = 0
           /\ call'[t].index = content
           /\ seen'[t].floor = seen[t].floor
           /\ seen'[t].stat = content
           /\ UNCHANGED <<content, mtime, born, wall, mono, steps, epoch, scan, floor>>
  BY Typed DEF PlainScan, OthersStay, Goto, Calls, fsVars, clockVars, cacheVars, Answered, NoCall

LEMMA CacheHitFacts ==
    ASSUME TypeInv, NEW t \in Threads, CacheHit(t)
    PROVE  /\ OthersStay(t) /\ pc[t] = "lookup" /\ pc'[t] = "answer"
           /\ call'[t].monoNow = call[t].monoNow
           /\ call'[t].wallNow = 0
           /\ call'[t].mtime = 0
           /\ call'[t].epoch = 0
           /\ call'[t].index = scan.index
           /\ seen'[t].floor = seen[t].floor
           /\ seen'[t].stat = seen[t].stat
           /\ UNCHANGED <<content, mtime, born, wall, mono, steps, epoch, scan, floor, seen>>
           /\ Hit(t)
  BY Typed DEF CacheHit, OthersStay, Goto, Calls, fsVars, clockVars, cacheVars, Answered, NoCall

LEMMA CacheMissFacts ==
    ASSUME TypeInv, NEW t \in Threads, CacheMiss(t)
    PROVE  /\ OthersStay(t) /\ pc[t] = "lookup" /\ pc'[t] = "scan"
           /\ call'[t].monoNow = call[t].monoNow
           /\ call'[t].wallNow = call[t].wallNow
           /\ call'[t].mtime = call[t].mtime
           /\ call'[t].epoch = epoch
           /\ call'[t].index = call[t].index
           /\ seen'[t].floor = seen[t].floor
           /\ seen'[t].stat = seen[t].stat
           /\ UNCHANGED <<content, mtime, born, wall, mono, steps, epoch, scan, floor, seen>>
  BY Typed DEF CacheMiss, OthersStay, Goto, Calls, fsVars, clockVars, cacheVars

LEMMA ScanFacts ==
    ASSUME TypeInv, NEW t \in Threads, Scan(t)
    PROVE  /\ OthersStay(t) /\ pc[t] = "scan" /\ pc'[t] = "store"
           /\ call'[t].monoNow = call[t].monoNow
           /\ call'[t].wallNow = call[t].wallNow
           /\ call'[t].mtime = call[t].mtime
           /\ call'[t].epoch = call[t].epoch
           /\ call'[t].index = content
           /\ seen'[t].floor = seen[t].floor
           /\ seen'[t].stat = seen[t].stat
           /\ UNCHANGED <<content, mtime, born, wall, mono, steps, epoch, scan, floor, seen>>
  BY Typed DEF Scan, OthersStay, Goto, Calls, fsVars, clockVars, cacheVars

LEMMA StoreFacts ==
    ASSUME TypeInv, NEW t \in Threads, Store(t)
    PROVE  /\ OthersStay(t) /\ pc[t] = "store" /\ pc'[t] = "answer"
           /\ call'[t].monoNow = call[t].monoNow
           /\ call'[t].wallNow = 0
           /\ call'[t].mtime = 0
           /\ call'[t].epoch = 0
           /\ call'[t].index = call[t].index
           /\ seen'[t].floor = seen[t].floor
           /\ seen'[t].stat = seen[t].stat
           /\ UNCHANGED <<content, mtime, born, wall, mono, steps, epoch, floor, seen>>
           /\ \/ scan' = scan
              \/ /\ Settled(t) /\ call[t].epoch = epoch
                 /\ scan' = [mtime |-> call[t].mtime, scannedAt |-> call[t].monoNow,
                             index |-> call[t].index]
  BY Typed DEF Store, OthersStay, Goto, Calls, fsVars, clockVars, cacheVars, Answered, NoCall

LEMMA ScanErrorFacts ==
    ASSUME TypeInv, NEW t \in Threads, ScanError(t)
    PROVE  /\ OthersStay(t) /\ pc[t] \in {"stat", "scan"} /\ pc'[t] = "idle"
           /\ call'[t].monoNow = 0
           /\ call'[t].wallNow = 0
           /\ call'[t].mtime = 0
           /\ call'[t].epoch = 0
           /\ call'[t].index = 0
           /\ seen'[t].floor = 0
           /\ seen'[t].stat = 0
           /\ UNCHANGED <<content, mtime, born, wall, mono, steps, epoch, scan, floor>>
  BY Typed DEF ScanError, OthersStay, Goto, Calls, fsVars, clockVars, cacheVars, NoCall, NotSeen

LEMMA AnswerFacts ==
    ASSUME TypeInv, NEW t \in Threads, Answer(t)
    PROVE  /\ OthersStay(t) /\ pc[t] = "answer" /\ pc'[t] = "idle"
           /\ call'[t].monoNow = 0
           /\ call'[t].wallNow = 0
           /\ call'[t].mtime = 0
           /\ call'[t].epoch = 0
           /\ call'[t].index = 0
           /\ seen'[t].floor = 0
           /\ seen'[t].stat = 0
           /\ UNCHANGED <<content, mtime, born, wall, mono, steps, epoch, scan, floor>>
  BY Typed DEF Answer, OthersStay, Goto, Calls, fsVars, clockVars, cacheVars, NoCall, NotSeen

-----------------------------------------------------------------------------
(* The floor: what a publish of this process returned.                     *)

LEMMA FloorInit == Init => FloorInv
  BY DEF Init, FloorInv, NoCall, NotSeen, Running, Stated

LEMMA FloorNext == TypeInv /\ FloorInv /\ [Next]_vars => FloorInv'
<1> SUFFICES ASSUME TypeInv, FloorInv, [Next]_vars PROVE FloorInv'
  OBVIOUS
<1>0. /\ content \in Nat /\ floor \in Nat /\ epoch \in Nat
      /\ \A t \in Threads : /\ call[t].index \in Nat /\ call[t].epoch \in Nat
                            /\ seen[t].floor \in Nat
      /\ scan # NoScan => scan.index \in Nat
  BY Typed DEF Contents, Calls, Scans
<1>1. ASSUME NEW t \in Threads, PublishRename(t) PROVE FloorInv'
  BY <1>0, <1>1, PublishRenameFacts, ChangeFacts DEF FloorInv, OthersStay, Running, Stated
<1>2. ASSUME NEW t \in Threads, Invalidate(t) PROVE FloorInv'
  BY <1>0, <1>2, InvalidateFacts DEF FloorInv, OthersStay, Running, Stated
<1>3. ASSUME NEW t \in Threads, Begin(t) \/ Stat(t) PROVE FloorInv'
  BY <1>0, <1>3, BeginFacts, StatFacts DEF FloorInv, OthersStay, Running, Stated
<1>4. ASSUME NEW t \in Threads, PlainScan(t) PROVE FloorInv'
  BY <1>0, <1>4, PlainScanFacts DEF FloorInv, OthersStay, Running, Stated
<1>5. ASSUME NEW t \in Threads, CacheHit(t) PROVE FloorInv'
  BY <1>0, <1>5, CacheHitFacts DEF FloorInv, OthersStay, Running, Stated, Hit
<1>6. ASSUME NEW t \in Threads, CacheMiss(t) PROVE FloorInv'
  BY <1>0, <1>6, CacheMissFacts DEF FloorInv, OthersStay, Running, Stated
<1>7. ASSUME NEW t \in Threads, Scan(t) PROVE FloorInv'
  BY <1>0, <1>7, ScanFacts DEF FloorInv, OthersStay, Running, Stated
<1>8. ASSUME NEW t \in Threads, Store(t) PROVE FloorInv'
  BY <1>0, <1>8, StoreFacts DEF FloorInv, OthersStay, Running, Stated
<1>9. ASSUME NEW t \in Threads, ScanError(t) \/ Answer(t) PROVE FloorInv'
  BY <1>0, <1>9, ScanErrorFacts, AnswerFacts DEF FloorInv, OthersStay, Running, Stated
<1>10. CASE OtherChange
  BY <1>0, <1>10, ChangeFacts DEF OtherChange, FloorInv, cacheVars
<1>11. CASE Tick \/ SetClock \/ UNCHANGED vars
  BY <1>11 DEF Tick, SetClock, vars, FloorInv, fsVars, cacheVars
<1>12. QED
  BY <1>1, <1>2, <1>3, <1>4, <1>5, <1>6, <1>7, <1>8, <1>9, <1>10, <1>11 DEF Next

LEMMA FloorInvCorrect == Spec => [](TypeInv /\ FloorInv)
  BY FloorInit, FloorNext, TypeInvCorrect, PTL DEF Spec

(* A call that begins after a publish of this process returned answers     *)
(* from no earlier content, whatever the clocks and the other processes do.*)
THEOREM OwnPublishesSeen == Spec => []OwnPublishSeen
<1>1. FloorInv => OwnPublishSeen
  BY DEF FloorInv, OwnPublishSeen
<1>2. QED
  BY <1>1, FloorInvCorrect, PTL

-----------------------------------------------------------------------------
(* The age of an answer.                                                   *)

LEMMA AgeInit == Init => AgeInv
  BY DEF Init, AgeInv, NoCall, FreshWithinMaxAge

(* A change comes after everything a call or the cache goes by.            *)
LEMMA SinceChange ==
    ASSUME TypeInv, Change, NEW i \in Nat, NEW time \in Nat, time <= mono, Since(i, time)
    PROVE  \A c \in Contents : i < c /\ c <= content' => born'[c] >= time
<1>1. content \in Nat /\ mono \in Nat /\ Contents \subseteq Nat
  BY Typed DEF Contents, Times
<1>2. ASSUME NEW c \in Contents, i < c, c <= content'
      PROVE  born'[c] >= time
  <2>1. c \in 0..content \/ c = content + 1
    BY <1>1, <1>2, ChangeFacts
  <2>2. QED
    BY <1>1, <1>2, <2>1, ChangeFacts DEF Since
<1>3. QED
  BY <1>2

LEMMA AgeTyped ==
    ASSUME TypeInv
    PROVE  /\ content \in Nat /\ mono \in Nat /\ born \in [Contents -> Nat]
           /\ Contents \subseteq Nat
           /\ \A t \in Threads : call[t].index \in Nat /\ call[t].monoNow \in Nat
           /\ scan # NoScan => scan.index \in Nat /\ scan.scannedAt \in Nat
<1>1. Contents \subseteq Nat /\ Times \subseteq Nat
  BY DEF Contents, Times
<1>2. QED
  BY <1>1, Typed DEF Calls, Scans

LEMMA AgeChange ==
    ASSUME MaxAge > 0, TypeInv, FloorInv, AgeInv, Change, UNCHANGED <<mono, scan>>,
           \A t \in Threads : /\ call'[t].monoNow = call[t].monoNow
                              /\ pc'[t] \in {"store", "answer"}
                                => pc[t] = pc'[t] /\ call'[t].index = call[t].index
    PROVE  AgeInv'
<1>1. scan # NoScan => /\ scan.scannedAt <= mono
                       /\ \A c \in Contents : scan.index < c /\ c <= content'
                            => born'[c] >= scan.scannedAt
  BY AgeTyped, SinceChange DEF AgeInv
<1>2. ASSUME NEW t \in Threads, pc'[t] = "store"
      PROVE  \A c \in Contents : call[t].index < c /\ c <= content'
                => born'[c] >= call[t].monoNow
  <2>1. pc[t] = "store" /\ Since(call[t].index, call[t].monoNow) /\ call[t].monoNow <= mono
    BY <1>2 DEF AgeInv
  <2>2. QED
    BY <2>1, AgeTyped, SinceChange
<1>3. ASSUME NEW t \in Threads, pc'[t] = "answer", NEW c \in Contents,
             call[t].index < c, c <= content'
      PROVE  born'[c] + MaxAge > call[t].monoNow
  <2>1. c \in 0..content \/ c = content + 1
    BY <1>3, AgeTyped, ChangeFacts
  <2>2. CASE c \in 0..content
    <3>1. pc[t] = "answer" /\ c <= content /\ born'[c] = born[c]
      BY <1>3, <2>2, AgeTyped, ChangeFacts
    <3>2. QED
      BY <1>3, <3>1 DEF AgeInv, FreshWithinMaxAge
  <2>3. CASE c = content + 1
    BY <2>3, AgeTyped, ChangeFacts DEF AgeInv
  <2>4. QED
    BY <2>1, <2>2, <2>3
<1>4. FreshWithinMaxAge'
  <2>1. \A t \in Threads : pc'[t] = "answer" =>
            call'[t].index = call[t].index /\ call'[t].monoNow = call[t].monoNow
    OBVIOUS
  <2>2. QED
    BY <1>3, <2>1 DEF FreshWithinMaxAge
<1>5. \A t \in Threads : /\ call'[t].monoNow <= mono'
                         /\ pc'[t] = "store" => Since(call[t].index, call[t].monoNow)'
  <2>1. \A t \in Threads : pc'[t] = "store" => call'[t].index = call[t].index
    OBVIOUS
  <2>2. QED
    BY <1>2, <2>1 DEF AgeInv, Since
<1>6. scan' # NoScan => scan'.scannedAt <= mono' /\ Since(scan.index, scan.scannedAt)'
  BY <1>1 DEF Since
<1>7. QED
  BY <1>4, <1>5, <1>6 DEF AgeInv

LEMMA AgeNext ==
    ASSUME MaxAge > 0
    PROVE  TypeInv /\ FloorInv /\ AgeInv /\ [Next]_vars => AgeInv'
<1> SUFFICES ASSUME TypeInv, FloorInv, AgeInv, [Next]_vars PROVE AgeInv'
  OBVIOUS
<1> USE AgeTyped
<1>1. ASSUME NEW t \in Threads, PublishRename(t) PROVE AgeInv'
  BY <1>1, PublishRenameFacts, AgeChange DEF OthersStay
<1>2. CASE OtherChange
  BY <1>2, AgeChange DEF OtherChange, clockVars, cacheVars
<1>3. ASSUME NEW t \in Threads, Invalidate(t) PROVE AgeInv'
  BY <1>3, InvalidateFacts DEF AgeInv, Since, FreshWithinMaxAge, OthersStay
<1>4. ASSUME NEW t \in Threads, Begin(t) \/ Stat(t) PROVE AgeInv'
  BY <1>4, BeginFacts, StatFacts DEF AgeInv, Since, FreshWithinMaxAge, OthersStay
<1>5. ASSUME NEW t \in Threads, PlainScan(t) PROVE AgeInv'
  BY <1>5, PlainScanFacts DEF AgeInv, Since, FreshWithinMaxAge, OthersStay
<1>6. ASSUME NEW t \in Threads, CacheHit(t) PROVE AgeInv'
  BY <1>6, CacheHitFacts DEF AgeInv, Since, FreshWithinMaxAge, OthersStay, Hit
<1>7. ASSUME NEW t \in Threads, CacheMiss(t) PROVE AgeInv'
  BY <1>7, CacheMissFacts DEF AgeInv, Since, FreshWithinMaxAge, OthersStay
<1>8. ASSUME NEW t \in Threads, Scan(t) PROVE AgeInv'
  BY <1>8, ScanFacts DEF AgeInv, Since, FreshWithinMaxAge, OthersStay
<1>9. ASSUME NEW t \in Threads, Store(t) PROVE AgeInv'
  BY <1>9, StoreFacts DEF AgeInv, Since, FreshWithinMaxAge, OthersStay
<1>10. ASSUME NEW t \in Threads, ScanError(t) \/ Answer(t) PROVE AgeInv'
  BY <1>10, ScanErrorFacts, AnswerFacts DEF AgeInv, Since, FreshWithinMaxAge, OthersStay
<1>11. CASE Tick \/ SetClock \/ UNCHANGED vars
  BY <1>11 DEF Tick, SetClock, vars, fsVars, clockVars, cacheVars, AgeInv, Since, FreshWithinMaxAge
<1>12. QED
  BY <1>1, <1>2, <1>3, <1>4, <1>5, <1>6, <1>7, <1>8, <1>9, <1>10, <1>11 DEF Next

(* Whatever the wall clock does, a change made by another process stays    *)
(* unseen for at most MaxAge of the monotonic clock.                       *)
THEOREM AnswersAreYoung ==
    ASSUME MaxAge > 0
    PROVE  Spec => []FreshWithinMaxAge
<1>1. AgeInv => FreshWithinMaxAge
  BY DEF AgeInv
<1>2. QED
  BY <1>1, AgeInit, AgeNext, FloorInvCorrect, PTL DEF Spec

-----------------------------------------------------------------------------
(* The stamps, while nobody sets the wall clock.                           *)

LEMMA StampInit == Init => StampInv
  BY DEF Init, StampInv, NotSeen, Running, Stated

LEMMA StampTyped ==
    ASSUME TypeInv
    PROVE  /\ content \in Nat /\ mtime \in Nat /\ wall \in Nat /\ steps \in Nat
           /\ \A t \in Threads : /\ call[t].index \in Nat /\ call[t].wallNow \in Nat
                                 /\ call[t].mtime \in Nat /\ seen[t].stat \in Nat
           /\ scan # NoScan => scan.index \in Nat /\ scan.mtime \in Nat
<1>1. Contents \subseteq Nat /\ Times \subseteq Nat
  BY DEF Contents, Times
<1>2. /\ content \in Nat /\ mtime \in Nat /\ wall \in Nat /\ steps \in Nat
      /\ scan # NoScan => scan.index \in Nat /\ scan.mtime \in Nat
  <2>1. content \in Nat /\ mtime \in Nat /\ wall \in Nat /\ steps \in Nat
    BY Typed DEF Contents, Times
  <2>2. scan # NoScan => scan.index \in Contents /\ scan.mtime \in Times
    BY Typed DEF Scans
  <2>3. QED
    BY <1>1, <2>1, <2>2
<1>3. ASSUME NEW t \in Threads
      PROVE  /\ call[t].index \in Nat /\ call[t].wallNow \in Nat
             /\ call[t].mtime \in Nat /\ seen[t].stat \in Nat
  BY <1>1, Typed DEF Calls
<1>4. QED
  BY <1>2, <1>3

(* A change in the tick of the wall clock or later is stamped later than   *)
(* what has settled.                                                       *)
LEMMA NewestChange ==
    ASSUME TypeInv, Change, NEW m \in Nat, m + Settle <= wall
    PROVE  mtime' > m
  BY StampTyped, ChangeFacts DEF Times

LEMMA StampChange ==
    ASSUME TypeInv, StampInv, Change, UNCHANGED <<wall, steps, scan, seen>>,
           \A t \in Threads :
              /\ call'[t].wallNow = call[t].wallNow /\ call'[t].mtime = call[t].mtime
              /\ pc'[t] \in Running =>
                   pc'[t] = pc[t] /\ call'[t].index = call[t].index
    PROVE  StampInv'
<1> SUFFICES ASSUME steps = 0 PROVE StampInv'
  BY DEF StampInv
<1> USE StampTyped
<1>1. content' = content + 1
  BY ChangeFacts
<1>2. ASSUME NEW t \in Threads, pc'[t] \in Stated, Settled(t)'
      PROVE  mtime' > call[t].mtime
  <2>1. call[t].wallNow <= wall /\ call[t].mtime + Settle <= call[t].wallNow
    BY <1>2 DEF StampInv, Settled, Running
  <2>2. QED
    BY <2>1, NewestChange
<1>3. scan # NoScan => mtime' > scan.mtime /\ scan.mtime + Settle <= wall
  BY NewestChange DEF StampInv
<1>4. ASSUME NEW t \in Threads
      PROVE  /\ seen'[t].stat <= content'
             /\ pc'[t] \in Running => call'[t].wallNow <= wall'
             /\ pc'[t] \in {"store", "answer"} => call'[t].index >= seen'[t].stat
             /\ pc'[t] \in Stated /\ scan' # NoScan /\ call'[t].mtime = scan'.mtime
                => seen'[t].stat <= scan'.index
  BY <1>1 DEF StampInv, Running, Stated
<1>5. ASSUME NEW t \in Threads, pc'[t] \in Stated, Settled(t)',
             NEW u \in Threads, pc'[u] \in Stated, call'[u].mtime = call'[t].mtime
      PROVE  seen'[u].stat <= seen'[t].stat
  BY <1>5 DEF StampInv, Running, Stated, Settled
<1>6. QED
  BY <1>2, <1>3, <1>4, <1>5 DEF StampInv, Newest

LEMMA StampNext == TypeInv /\ StampInv /\ [Next]_vars => StampInv'
<1> SUFFICES ASSUME TypeInv, StampInv, [Next]_vars PROVE StampInv'
  OBVIOUS
<1> USE StampTyped
<1>1. ASSUME NEW t \in Threads, PublishRename(t) PROVE StampInv'
  BY <1>1, PublishRenameFacts, StampChange DEF OthersStay, Running, Stated
<1>2. CASE OtherChange
  BY <1>2, StampChange DEF OtherChange, clockVars, cacheVars
<1>3. ASSUME NEW t \in Threads, Invalidate(t) PROVE StampInv'
  BY <1>3, InvalidateFacts DEF StampInv, Newest, Settled, OthersStay, Running, Stated
<1>4. ASSUME NEW t \in Threads, Begin(t) PROVE StampInv'
  <2>1. /\ \A u \in Threads \ {t} : pc'[u] = pc[u] /\ call'[u] = call[u] /\ seen'[u] = seen[u]
        /\ pc'[t] = "stat" /\ call'[t].wallNow = wall
        /\ UNCHANGED <<content, mtime, wall, steps, scan>>
    BY <1>4, BeginFacts DEF OthersStay
  <2>2. steps = 0 => seen'[t].stat <= content
    BY <1>4, BeginFacts DEF StampInv
  <2>3. QED
    BY <2>1, <2>2 DEF StampInv, Newest, Settled, Running, Stated
<1>5. ASSUME NEW t \in Threads, Stat(t) PROVE StampInv'
  BY <1>5, StatFacts DEF StampInv, Newest, Settled, OthersStay, Running, Stated
<1>6. ASSUME NEW t \in Threads, PlainScan(t) PROVE StampInv'
  BY <1>6, PlainScanFacts DEF StampInv, Newest, Settled, OthersStay, Running, Stated
<1>7. ASSUME NEW t \in Threads, CacheHit(t) PROVE StampInv'
  BY <1>7, CacheHitFacts DEF StampInv, Newest, Settled, OthersStay, Running, Stated, Hit
<1>8. ASSUME NEW t \in Threads, CacheMiss(t) PROVE StampInv'
  BY <1>8, CacheMissFacts DEF StampInv, Newest, Settled, OthersStay, Running, Stated
<1>9. ASSUME NEW t \in Threads, Scan(t) PROVE StampInv'
  BY <1>9, ScanFacts DEF StampInv, Newest, Settled, OthersStay, Running, Stated
<1>10. ASSUME NEW t \in Threads, Store(t) PROVE StampInv'
  BY <1>10, StoreFacts DEF StampInv, Newest, Settled, OthersStay, Running, Stated
<1>11. ASSUME NEW t \in Threads, ScanError(t) \/ Answer(t) PROVE StampInv'
  BY <1>11, ScanErrorFacts, AnswerFacts DEF StampInv, Newest, Settled, OthersStay, Running, Stated
<1>12. CASE Tick
  BY <1>12 DEF Tick, fsVars, cacheVars, StampInv, Newest, Settled
<1>13. CASE SetClock
  BY <1>13 DEF SetClock, StampInv
<1>14. CASE UNCHANGED vars
  BY <1>14 DEF vars, fsVars, clockVars, cacheVars, StampInv, Newest, Settled
<1>15. QED
  BY <1>1, <1>2, <1>3, <1>4, <1>5, <1>6, <1>7, <1>8, <1>9, <1>10, <1>11, <1>12, <1>13, <1>14
     DEF Next

(* Where the wall clock only runs forward, no answer is older than the     *)
(* stat of its call: the settle time outlasts the coarseness of a stamp.   *)
THEOREM AnswersAreExact == Spec => []ExactWhileClockRuns
<1>1. StampInv => ExactWhileClockRuns
  BY DEF StampInv, ExactWhileClockRuns
<1>2. QED
  BY <1>1, StampInit, StampNext, TypeInvCorrect, PTL DEF Spec
==============================================================================
