-------------------------- MODULE PeerInboxProofs --------------------------
(***************************************************************************)
(* Machine-checked theorems about PeerInbox, for any senders, hooks and    *)
(* messages, any number of session dirs and any number of deaths.          *)
(***************************************************************************)
EXTENDS PeerInbox, FiniteSetTheorems, SequenceTheorems, WellFoundedInduction, TLAPS

USE ProcessAssumption, NothingAssumption, BoundAssumption

-----------------------------------------------------------------------------
(* Numbers.                                                                *)

(* The order of the naturals as a relation, for the theorems on            *)
(* well-founded ones.                                                      *)
LEMMA NaturalOrder ==
    \E R : IsWellFoundedOn(R, Nat) /\ \A m, n \in Nat : m < n => <<m, n>> \in R
<1>1. \A m, n \in Nat : m < n => <<m, n>> \in OpToRel(<, Nat)
  BY DEF OpToRel
<1> DEFINE R == OpToRel(<, Nat)
<1>2. IsWellFoundedOn(R, Nat)
  BY NatLessThanWellFounded
<1>3. \A m, n \in Nat : m < n => <<m, n>> \in R
  BY <1>1
<1> HIDE DEF R
<1>4. QED
  BY <1>2, <1>3

LEMMA MinimumOn ==
    \A R, S : \A T : IsWellFoundedOn(R, S) /\ T \subseteq S /\ T # {}
        => \E x \in T : \A y \in T : ~ (<<y, x>> \in R)
  BY WFMin

LEMMA LeastNatural ==
    ASSUME NEW T \in SUBSET Nat, T # {}
    PROVE  \E n \in T : \A m \in T : n <= m
<1>1. PICK R : IsWellFoundedOn(R, Nat) /\ \A m, n \in Nat : m < n => <<m, n>> \in R
  BY NaturalOrder
<1>2. T \subseteq Nat
  OBVIOUS
<1>3. \E n \in T : \A m \in T : ~ (<<m, n>> \in R)
  <2>1. IsWellFoundedOn(R, Nat) /\ T # {}
    BY <1>1
  <2>2. QED
    BY <2>1, <1>2, MinimumOn, Zenon
<1>4. PICK n \in T : \A m \in T : ~ (<<m, n>> \in R)
  BY <1>3
<1>5. ASSUME NEW m \in T PROVE n <= m
  <2>1. n \in Nat /\ m \in Nat
    BY <1>2
  <2>2. ~ (m < n)
    BY <1>1, <1>4, <2>1
  <2>3. QED
    BY <2>1, <2>2
<1>6. QED
  BY <1>5

-----------------------------------------------------------------------------
(* Sequences.                                                              *)

Lines == Seq(Messages \cup {Torn})

(* The step of the recursion of IntactOf, and a function that follows it.  *)
IntactStep(ls, f, i) ==
    IF i = 0 THEN <<>>
    ELSE IF ls[i] = Torn THEN f[i - 1] ELSE Append(f[i - 1], ls[i])
Follows(ls, f, n) == f = [i \in 0..n |-> IntactStep(ls, f, i)]

LEMMA FollowsAt ==
    ASSUME NEW ls, NEW f, NEW n \in Nat, Follows(ls, f, n)
    PROVE  /\ DOMAIN f = 0..n
           /\ \A i \in 0..n : f[i] = IntactStep(ls, f, i)
<1>1. f = [i \in 0..n |-> IntactStep(ls, f, i)]
  BY DEF Follows
<1> DEFINE g == [i \in 0..n |-> IntactStep(ls, f, i)]
<1>2. DOMAIN g = 0..n /\ \A i \in 0..n : g[i] = IntactStep(ls, f, i)
  OBVIOUS
<1> HIDE DEF g
<1>3. f = g
  BY <1>1 DEF g
<1>4. QED
  BY <1>2, <1>3

(* It exists, for every length ...                                         *)
LEMMA FollowsExtends ==
    ASSUME NEW ls, NEW f, NEW n \in Nat, n > 0, Follows(ls, f, n - 1)
    PROVE  \E g : Follows(ls, g, n)
<1>1. n - 1 \in Nat
  OBVIOUS
<1>2. /\ DOMAIN f = 0..(n - 1)
      /\ \A i \in 0..(n - 1) : f[i] = IntactStep(ls, f, i)
  BY <1>1, FollowsAt
<1> DEFINE g == [i \in 0..n |-> IF i = n THEN IntactStep(ls, f, n) ELSE f[i]]
<1>3. g = [i \in 0..n |-> IF i = n THEN IntactStep(ls, f, n) ELSE f[i]]
  OBVIOUS
<1>4. g[n] = IntactStep(ls, f, n)
  OBVIOUS
<1>5. \A i \in 0..(n - 1) : g[i] = f[i]
  OBVIOUS
<1> HIDE DEF g
<1>6. ASSUME NEW i \in 0..n
      PROVE  IntactStep(ls, g, i) = IF i = n THEN IntactStep(ls, f, n) ELSE f[i]
  <2>1. IntactStep(ls, g, i) = IntactStep(ls, f, i)
    <3>1. CASE i = 0
      BY <3>1 DEF IntactStep
    <3>2. CASE i # 0
      <4>1. i - 1 \in 0..(n - 1)
        BY <3>2
      <4>2. g[i - 1] = f[i - 1]
        BY <4>1, <1>5
      <4>3. QED
        BY <4>2 DEF IntactStep
    <3>3. QED
      BY <3>1, <3>2
  <2>2. CASE i = n
    BY <2>1, <2>2
  <2>3. CASE i # n
    <3>1. i \in 0..(n - 1)
      BY <2>3
    <3>2. QED
      BY <2>1, <2>3, <3>1, <1>2
  <2>4. QED
    BY <2>2, <2>3
<1>7. g = [i \in 0..n |-> IntactStep(ls, g, i)]
  <2>1. [i \in 0..n |-> IntactStep(ls, g, i)]
        = [i \in 0..n |-> IF i = n THEN IntactStep(ls, f, n) ELSE f[i]]
    BY <1>6
  <2>2. QED
    BY <2>1, <1>3
<1>8. QED
  BY <1>7 DEF Follows

LEMMA FollowsExists ==
    ASSUME NEW ls, NEW n \in Nat
    PROVE  \E f : Follows(ls, f, n)
<1> DEFINE T == {k \in Nat : ~ \E f : Follows(ls, f, k)}
<1>1. SUFFICES ASSUME T # {} PROVE FALSE
  OBVIOUS
<1>2. PICK k \in T : \A j \in T : k <= j
  <2>1. T \in SUBSET Nat
    OBVIOUS
  <2>2. QED
    BY <1>1, <2>1, LeastNatural
<1>3. k \in Nat /\ ~ \E f : Follows(ls, f, k)
  OBVIOUS
<1>4. CASE k = 0
  <2> DEFINE f == [i \in 0..0 |-> <<>>]
  <2>1. [i \in 0..0 |-> IntactStep(ls, f, i)] = f
    BY DEF IntactStep
  <2>2. Follows(ls, f, 0)
    BY <2>1 DEF Follows
  <2> HIDE DEF f
  <2>3. QED
    BY <2>2, <1>3, <1>4
<1>5. CASE k # 0
  <2>1. k > 0 /\ k - 1 \in Nat /\ ~ (k <= k - 1)
    BY <1>3, <1>5
  <2>2. k - 1 \notin T
    BY <2>1, <1>2
  <2>3. PICK f : Follows(ls, f, k - 1)
    BY <2>1, <2>2
  <2>4. \E g : Follows(ls, g, k)
    BY <2>1, <2>3, <1>3, FollowsExtends
  <2>5. QED
    BY <2>4, <1>3
<1>6. QED
  BY <1>4, <1>5

SameTo(ls, ms, k) == \A i \in 1..k : ls[i] = ms[i]

(* ... two of them agree wherever the lines do, and give messages only.    *)
LEMMA FollowsAgree ==
    ASSUME NEW ls, NEW ms, NEW n \in Nat, NEW k \in Nat, k <= n,
           SameTo(ls, ms, k),
           NEW f, Follows(ls, f, k), NEW g, Follows(ms, g, n)
    PROVE  \A i \in 0..k : f[i] = g[i]
<1>1. \A i \in 0..k : f[i] = IntactStep(ls, f, i)
  BY FollowsAt
<1>2. \A i \in 0..k : g[i] = IntactStep(ms, g, i)
  BY FollowsAt
<1> DEFINE T == {i \in 0..k : f[i] # g[i]}
<1>3. SUFFICES ASSUME T # {} PROVE FALSE
  OBVIOUS
<1>4. PICK i \in T : \A j \in T : i <= j
  <2>1. T \in SUBSET Nat
    OBVIOUS
  <2>2. QED
    BY <1>3, <2>1, LeastNatural
<1>5. i \in 0..k /\ f[i] # g[i]
  OBVIOUS
<1>6. f[i] = IntactStep(ls, f, i) /\ g[i] = IntactStep(ms, g, i)
  BY <1>1, <1>2, <1>5
<1>7. CASE i = 0
  BY <1>5, <1>6, <1>7 DEF IntactStep
<1>8. CASE i # 0
  <2>1. i - 1 \in 0..k /\ i \in 1..k /\ ~ (i <= i - 1)
    BY <1>5, <1>8
  <2>2. f[i - 1] = g[i - 1]
    BY <2>1, <1>4
  <2>3. ls[i] = ms[i]
    BY <2>1 DEF SameTo
  <2>4. QED
    BY <1>5, <1>6, <2>2, <2>3 DEF IntactStep
<1>9. QED
  BY <1>7, <1>8

LEMMA IntactIs ==
    ASSUME NEW ls \in Lines
    PROVE  \E f : Follows(ls, f, Len(ls)) /\ IntactOf(ls) = f[Len(ls)]
<1>1. Len(ls) \in Nat
  BY LenProperties DEF Lines
<1>2. \E f : Follows(ls, f, Len(ls))
  BY <1>1, FollowsExists
<1>3. IntactOf(ls) = (CHOOSE f : Follows(ls, f, Len(ls)))[Len(ls)]
  BY DEF IntactOf, Follows, IntactStep
<1>4. QED
  BY <1>2, <1>3

(* What a step yields is a sequence of messages of the lines.              *)
LEMMA FollowsType ==
    ASSUME NEW ls \in Lines, NEW f, Follows(ls, f, Len(ls))
    PROVE  \A i \in 0..Len(ls) : f[i] \in Seq(ToSet(ls) \ {Torn})
<1>1. Len(ls) \in Nat /\ DOMAIN ls = 1..Len(ls)
  BY LenProperties DEF Lines
<1>2. \A i \in 0..Len(ls) : f[i] = IntactStep(ls, f, i)
  BY <1>1, FollowsAt
<1> DEFINE M == ToSet(ls) \ {Torn}
           T == {i \in 0..Len(ls) : f[i] \notin Seq(M)}
<1>3. SUFFICES ASSUME T # {} PROVE FALSE
  OBVIOUS
<1>4. PICK i \in T : \A j \in T : i <= j
  <2>1. T \in SUBSET Nat
    BY <1>1
  <2> HIDE DEF T
  <2>2. QED
    BY <1>3, <2>1, LeastNatural
<1>5. i \in 0..Len(ls) /\ f[i] \notin Seq(M) /\ f[i] = IntactStep(ls, f, i)
  BY <1>2
<1>6. CASE i = 0
  <2>1. f[i] = <<>>
    BY <1>5, <1>6 DEF IntactStep
  <2> HIDE DEF M
  <2>2. QED
    BY <2>1, <1>5, EmptySeq
<1>7. CASE i # 0
  <2>1. i - 1 \in 0..Len(ls) /\ i \in 1..Len(ls) /\ ~ (i <= i - 1)
    BY <1>1, <1>5, <1>7
  <2>2. f[i - 1] \in Seq(M)
    BY <2>1, <1>4
  <2>3. ls[i] # Torn => ls[i] \in M
    BY <2>1, <1>1 DEF ToSet
  <2> HIDE DEF M
  <2>4. CASE ls[i] = Torn
    BY <1>5, <1>7, <2>2, <2>4 DEF IntactStep
  <2>5. CASE ls[i] # Torn
    <3>1. f[i] = Append(f[i - 1], ls[i])
      BY <1>5, <1>7, <2>5 DEF IntactStep
    <3>2. ls[i] \in M
      BY <2>3, <2>5
    <3>3. Append(f[i - 1], ls[i]) \in Seq(M)
      BY <2>2, <3>2, AppendProperties
    <3> HIDE DEF T
    <3>4. QED
      BY <3>1, <3>3, <1>5
  <2>6. QED
    BY <2>4, <2>5
<1>8. QED
  BY <1>6, <1>7

LEMMA LineTypes ==
    ASSUME NEW ls \in Lines
    PROVE  /\ Len(ls) \in Nat /\ DOMAIN ls = 1..Len(ls)
           /\ \A i \in 1..Len(ls) : ls[i] \in ToSet(ls)
           /\ ToSet(ls) \subseteq Messages \cup {Torn}
<1>1. Len(ls) \in Nat /\ DOMAIN ls = 1..Len(ls)
  BY LenProperties DEF Lines
<1>2. \A i \in 1..Len(ls) : ls[i] \in Messages \cup {Torn}
  BY ElementOfSeq DEF Lines
<1>3. QED
  BY <1>1, <1>2 DEF ToSet

(* The intact lines of a file are messages, each of them a line of it.     *)
LEMMA IntactType ==
    ASSUME NEW ls \in Lines
    PROVE  /\ IntactOf(ls) \in Seq(Messages)
           /\ ToSet(IntactOf(ls)) \subseteq ToSet(ls) \ {Torn}
<1>1. PICK f : Follows(ls, f, Len(ls)) /\ IntactOf(ls) = f[Len(ls)]
  BY IntactIs
<1>2. Len(ls) \in Nat /\ Len(ls) \in 0..Len(ls) /\ ToSet(ls) \ {Torn} \subseteq Messages
  BY LineTypes
<1> DEFINE M == ToSet(ls) \ {Torn}
<1>3. IntactOf(ls) \in Seq(M)
  BY <1>1, <1>2, FollowsType
<1>4. M \subseteq Messages
  BY <1>2
<1>5. ToSet(IntactOf(ls)) \subseteq M
  <2> HIDE DEF M
  <2>1. DOMAIN IntactOf(ls) = 1..Len(IntactOf(ls))
    BY <1>3, LenProperties
  <2>2. \A i \in 1..Len(IntactOf(ls)) : IntactOf(ls)[i] \in M
    BY <1>3, ElementOfSeq
  <2>3. QED
    BY <2>1, <2>2 DEF ToSet
<1>6. IntactOf(ls) \in Seq(Messages)
  <2> HIDE DEF M
  <2>1. QED
    BY <1>3, <1>4, SeqMonotonic
<1>7. QED
  BY <1>5, <1>6

LEMMA IntactEmpty == IntactOf(<<>>) = <<>>
<1>1. <<>> \in Lines /\ Len(<<>>) = 0
  BY EmptySeq DEF Lines
<1>2. PICK f : Follows(<<>>, f, 0) /\ IntactOf(<<>>) = f[0]
  BY <1>1, IntactIs
<1>3. f[0] = IntactStep(<<>>, f, 0)
  BY <1>2, FollowsAt
<1>4. QED
  BY <1>2, <1>3 DEF IntactStep

(* A line appended is appended to the intact ones when it is one of them.  *)
LEMMA IntactAppend ==
    ASSUME NEW ls \in Lines, NEW l \in Messages \cup {Torn}
    PROVE  /\ Append(ls, l) \in Lines
           /\ IntactOf(Append(ls, l))
                = IF l = Torn THEN IntactOf(ls) ELSE Append(IntactOf(ls), l)
<1> DEFINE ms == Append(ls, l)
<1>1. /\ ms \in Lines /\ Len(ms) = Len(ls) + 1 /\ Len(ls) \in Nat
      /\ \A i \in 1..Len(ls) : ls[i] = ms[i]
      /\ ms[Len(ls) + 1] = l
  BY AppendProperties, LenProperties DEF Lines
<1> HIDE DEF ms
<1>2. PICK f : Follows(ls, f, Len(ls)) /\ IntactOf(ls) = f[Len(ls)]
  BY IntactIs
<1>3. PICK g : Follows(ms, g, Len(ms)) /\ IntactOf(ms) = g[Len(ms)]
  BY <1>1, IntactIs
<1>4. /\ Len(ls) \in Nat /\ Len(ms) \in Nat /\ Len(ls) <= Len(ms)
      /\ Len(ms) - 1 = Len(ls) /\ Len(ms) # 0
      /\ Len(ms) \in 0..Len(ms) /\ Len(ls) \in 0..Len(ls)
  BY <1>1
<1>5. g[Len(ls)] = IntactOf(ls)
  <2>1. \A i \in 0..Len(ls) : f[i] = g[i]
    <3>1. PICK k, n \in Nat : k = Len(ls) /\ n = Len(ms)
      BY <1>4
    <3>2. k <= n /\ SameTo(ls, ms, k)
      BY <1>1, <1>4, <3>1 DEF SameTo
    <3>3. Follows(ls, f, k) /\ Follows(ms, g, n)
      BY <1>2, <1>3, <3>1
    <3>4. \A i \in 0..k : f[i] = g[i]
      BY <3>2, <3>3, FollowsAgree
    <3>5. QED
      BY <3>1, <3>4
  <2>2. QED
    BY <2>1, <1>2, <1>4
<1>6. g[Len(ms)] = IntactStep(ms, g, Len(ms))
  BY <1>3, <1>4, FollowsAt
<1>7. IntactOf(ms) = IF l = Torn THEN IntactOf(ls) ELSE Append(IntactOf(ls), l)
  BY <1>1, <1>3, <1>4, <1>5, <1>6 DEF IntactStep
<1>8. QED
  BY <1>1, <1>7 DEF ms

(* Where no line is torn, all of them are intact.                          *)
LEMMA IntactWhole ==
    ASSUME NEW ls \in Seq(Messages)
    PROVE  ls \in Lines /\ IntactOf(ls) = ls
<1>1. /\ Len(ls) \in Nat /\ \A i \in 1..Len(ls) : ls[i] \in Messages
  BY LenProperties, ElementOfSeq
<1>2. ls \in Lines
  BY SeqMonotonic DEF Lines
<1>3. PICK f : Follows(ls, f, Len(ls)) /\ IntactOf(ls) = f[Len(ls)]
  BY <1>2, IntactIs
<1>4. \A i \in 0..Len(ls) : f[i] = IntactStep(ls, f, i)
  BY <1>1, <1>3, FollowsAt
<1> DEFINE T == {i \in 0..Len(ls) : f[i] # SubSeq(ls, 1, i)}
<1>5. ASSUME T # {} PROVE FALSE
  <2>1. PICK i \in T : \A j \in T : i <= j
    <3>1. T \in SUBSET Nat
      BY <1>1
    <3> HIDE DEF T
    <3>2. QED
      BY <1>5, <3>1, LeastNatural
  <2>2. i \in 0..Len(ls) /\ f[i] # SubSeq(ls, 1, i) /\ f[i] = IntactStep(ls, f, i)
    BY <1>4
  <2>3. CASE i = 0
    <3>1. SubSeq(ls, 1, i) = <<>>
      BY <2>3, SubSeqEmpty
    <3>2. QED
      BY <2>2, <2>3, <3>1 DEF IntactStep
  <2>4. CASE i # 0
    <3>1. i - 1 \in 0..Len(ls) /\ i \in 1..Len(ls) /\ ~ (i <= i - 1)
      BY <1>1, <2>2, <2>4
    <3>2. f[i - 1] = SubSeq(ls, 1, i - 1)
      BY <3>1, <2>1
    <3>3. ls[i] \in Messages /\ ls[i] # Torn
      BY <3>1, <1>1
    <3>4. f[i] = Append(SubSeq(ls, 1, i - 1), ls[i])
      BY <2>2, <2>4, <3>2, <3>3 DEF IntactStep
    <3>5. SubSeq(ls, 1, i) = SubSeq(ls, 1, i - 1) \o <<ls[i]>>
      <4>1. 1 \in 1..Len(ls) /\ i \in 1..Len(ls)
        BY <3>1, <1>1
      <4>2. QED
        BY <4>1, SubSeqRecursiveSecond
    <3>6. SubSeq(ls, 1, i - 1) \in Seq(Messages)
      <4>1. \A j \in 1..(i - 1) : ls[j] \in Messages
        BY <1>1, <3>1
      <4>2. i - 1 \in Int /\ 1 \in Int
        BY <3>1
      <4>3. QED
        BY <4>1, <4>2, SubSeqProperties
    <3>7. QED
      BY <3>3, <3>4, <3>5, <3>6, <2>2, AppendIsConcat
  <2>5. QED
    BY <2>3, <2>4
<1>6. f[Len(ls)] = SubSeq(ls, 1, Len(ls))
  BY <1>1, <1>5
<1>7. QED
  BY <1>2, <1>3, <1>6, SubSeqFull

LEMMA MessageTypes ==
    ASSUME NEW ms \in Seq(Messages)
    PROVE  /\ Len(ms) \in Nat /\ DOMAIN ms = 1..Len(ms)
           /\ \A i \in 1..Len(ms) : ms[i] \in ToSet(ms)
           /\ ToSet(ms) \subseteq Messages /\ ms \in Lines
<1>1. ms \in Lines
  BY IntactWhole
<1>2. \A i \in 1..Len(ms) : ms[i] \in Messages
  BY ElementOfSeq
<1>3. QED
  BY <1>1, <1>2, LineTypes DEF ToSet

LEMMA EmptyTypes == /\ <<>> \in Lines /\ <<>> \in Seq(Messages)
                    /\ DOMAIN <<>> = {} /\ ToSet(<<>>) = {}
<1>1. <<>> \in Lines /\ <<>> \in Seq(Messages) /\ Len(<<>>) = 0
  BY EmptySeq DEF Lines
<1>2. DOMAIN <<>> = 1..0
  BY <1>1, LenProperties
<1>3. DOMAIN <<>> = {}
  BY <1>2
<1>4. QED
  BY <1>1, <1>3 DEF ToSet

(* What is in a sequence is in a place of it.                              *)
LEMMA PlaceOf ==
    ASSUME NEW ls \in Lines, NEW m
    PROVE  m \in ToSet(ls) <=> \E i \in 1..Len(ls) : ls[i] = m
BY LineTypes DEF ToSet

LEMMA SetOfAppend ==
    ASSUME NEW ls \in Lines, NEW l \in Messages \cup {Torn}
    PROVE  ToSet(Append(ls, l)) = ToSet(ls) \cup {l}
<1> DEFINE ms == Append(ls, l)
<1>1. /\ ms \in Lines /\ Len(ms) = Len(ls) + 1 /\ Len(ls) \in Nat
      /\ \A i \in 1..Len(ls) : ms[i] = ls[i]
      /\ ms[Len(ls) + 1] = l
  BY AppendProperties, LenProperties DEF Lines
<1> HIDE DEF ms
<1>2. \A m : m \in ToSet(ms) <=> \E i \in 1..Len(ms) : ms[i] = m
  BY <1>1, PlaceOf
<1>3. \A m : m \in ToSet(ls) <=> \E i \in 1..Len(ls) : ls[i] = m
  BY PlaceOf
<1>4. ASSUME NEW m \in ToSet(ms) PROVE m \in ToSet(ls) \cup {l}
  <2>1. PICK i \in 1..Len(ms) : ms[i] = m
    BY <1>2
  <2>2. i \in 1..Len(ls) \/ i = Len(ls) + 1
    BY <1>1, <2>1
  <2>3. QED
    BY <1>1, <1>3, <2>1, <2>2
<1>5. ASSUME NEW m \in ToSet(ls) PROVE m \in ToSet(ms)
  <2>1. PICK i \in 1..Len(ls) : ls[i] = m
    BY <1>3
  <2>2. i \in 1..Len(ms) /\ ms[i] = m
    BY <1>1, <2>1
  <2>3. QED
    BY <1>2, <2>2
<1>6. l \in ToSet(ms)
  <2>1. Len(ls) + 1 \in 1..Len(ms)
    BY <1>1
  <2>2. QED
    BY <1>1, <1>2, <2>1
<1>7. ToSet(ms) = ToSet(ls) \cup {l}
  BY <1>4, <1>5, <1>6
<1>8. QED
  BY <1>7 DEF ms

(* Where each message of a concatenation lies.                             *)
LEMMA ConcatPlaces ==
    ASSUME NEW a \in Seq(Messages), NEW b \in Seq(Messages)
    PROVE  /\ a \o b \in Seq(Messages)
           /\ ToSet(a \o b) = ToSet(a) \cup ToSet(b)
           /\ Len(a) \in Nat /\ Len(b) \in Nat /\ Len(a \o b) = Len(a) + Len(b)
           /\ \A i \in 1..Len(a) : (a \o b)[i] = a[i]
           /\ \A i \in 1..Len(b) : (a \o b)[Len(a) + i] = b[i]
<1> DEFINE c == a \o b
<1>1. /\ c \in Seq(Messages) /\ Len(c) = Len(a) + Len(b)
      /\ \A i \in 1..(Len(a) + Len(b)) :
            c[i] = IF i <= Len(a) THEN a[i] ELSE b[i - Len(a)]
  BY ConcatProperties
<1> HIDE DEF c
<1>2. Len(a) \in Nat /\ Len(b) \in Nat
  BY MessageTypes
<1>3. \A i \in 1..Len(a) : i \in 1..Len(c) /\ c[i] = a[i]
  BY <1>1, <1>2
<1>4. ASSUME NEW i \in 1..Len(b)
      PROVE  Len(a) + i \in 1..Len(c) /\ c[Len(a) + i] = b[i]
  <2>1. Len(a) + i \in 1..(Len(a) + Len(b)) /\ ~ (Len(a) + i <= Len(a))
        /\ (Len(a) + i) - Len(a) = i
    BY <1>2
  <2>2. QED
    BY <1>1, <2>1
<1>5. a \in Lines /\ b \in Lines /\ c \in Lines
  BY <1>1, MessageTypes
<1>6. ASSUME NEW m \in ToSet(c) PROVE m \in ToSet(a) \cup ToSet(b)
  <2>1. PICK i \in 1..Len(c) : c[i] = m
    BY <1>5, PlaceOf
  <2>2. CASE i <= Len(a)
    <3>1. i \in 1..Len(a)
      BY <1>2, <2>2
    <3>2. QED
      BY <2>1, <3>1, <1>3, <1>5, PlaceOf
  <2>3. CASE ~ (i <= Len(a))
    <3>1. i - Len(a) \in 1..Len(b) /\ c[i] = b[i - Len(a)]
      BY <1>1, <1>2, <2>3
    <3>2. QED
      BY <2>1, <3>1, <1>5, PlaceOf
  <2>4. QED
    BY <2>2, <2>3
<1>7. ASSUME NEW m \in ToSet(a) \cup ToSet(b) PROVE m \in ToSet(c)
  <2>1. CASE m \in ToSet(a)
    BY <2>1, <1>3, <1>5, PlaceOf
  <2>2. CASE m \in ToSet(b)
    BY <2>2, <1>4, <1>5, PlaceOf
  <2>3. QED
    BY <2>1, <2>2
<1>8. ToSet(c) = ToSet(a) \cup ToSet(b)
  BY <1>6, <1>7
<1>9. QED
  BY <1>1, <1>2, <1>3, <1>4, <1>8 DEF c

(* No message lies in two places of ms.                                    *)
Distinct(ms) == \A i, j \in 1..Len(ms) : ms[i] = ms[j] => i = j

LEMMA DistinctParts ==
    ASSUME NEW a \in Seq(Messages), NEW b \in Seq(Messages), Distinct(a \o b)
    PROVE  Distinct(a) /\ Distinct(b) /\ ToSet(a) \cap ToSet(b) = {}
<1> DEFINE c == a \o b
<1>1. /\ Len(a) \in Nat /\ Len(b) \in Nat /\ Len(c) = Len(a) + Len(b)
      /\ \A i \in 1..Len(a) : c[i] = a[i]
      /\ \A i \in 1..Len(b) : c[Len(a) + i] = b[i]
  BY ConcatPlaces
<1>2. \A i, j \in 1..Len(c) : c[i] = c[j] => i = j
  BY DEF Distinct
<1> HIDE DEF c
<1>3. Distinct(a)
  <2>1. SUFFICES ASSUME NEW i \in 1..Len(a), NEW j \in 1..Len(a), a[i] = a[j] PROVE i = j
    BY DEF Distinct
  <2>2. i \in 1..Len(c) /\ j \in 1..Len(c)
    BY <1>1
  <2>3. QED
    BY <1>1, <1>2, <2>1, <2>2
<1>4. Distinct(b)
  <2>1. SUFFICES ASSUME NEW i \in 1..Len(b), NEW j \in 1..Len(b), b[i] = b[j] PROVE i = j
    BY DEF Distinct
  <2>2. Len(a) + i \in 1..Len(c) /\ Len(a) + j \in 1..Len(c)
    BY <1>1
  <2>3. Len(a) + i = Len(a) + j
    BY <1>1, <1>2, <2>1, <2>2
  <2>4. QED
    BY <2>3, <1>1
<1>5. ASSUME NEW m \in ToSet(a), m \in ToSet(b) PROVE FALSE
  <2>1. a \in Lines /\ b \in Lines
    BY MessageTypes
  <2>2. PICK i \in 1..Len(a) : a[i] = m
    BY <2>1, PlaceOf
  <2>3. PICK j \in 1..Len(b) : b[j] = m
    BY <1>5, <2>1, PlaceOf
  <2>4. i \in 1..Len(c) /\ Len(a) + j \in 1..Len(c) /\ i # Len(a) + j
    BY <1>1
  <2>5. c[i] = m /\ c[Len(a) + j] = m
    BY <1>1, <2>2, <2>3
  <2>6. QED
    BY <1>2, <2>4, <2>5
<1>6. QED
  BY <1>3, <1>4, <1>5

LEMMA DistinctAppend ==
    ASSUME NEW a \in Seq(Messages), Distinct(a), NEW m \in Messages, m \notin ToSet(a)
    PROVE  Distinct(Append(a, m))
<1> DEFINE c == Append(a, m)
<1>1. /\ Len(c) = Len(a) + 1 /\ Len(a) \in Nat
      /\ \A i \in 1..Len(a) : c[i] = a[i]
      /\ c[Len(a) + 1] = m
  BY AppendProperties, LenProperties
<1>2. \A i \in 1..Len(a) : a[i] # m
  BY MessageTypes
<1> HIDE DEF c
<1>3. SUFFICES ASSUME NEW i \in 1..Len(c), NEW j \in 1..Len(c), c[i] = c[j] PROVE i = j
  BY DEF Distinct, c
<1>4. i \in 1..Len(a) \/ i = Len(a) + 1
  BY <1>1
<1>5. j \in 1..Len(a) \/ j = Len(a) + 1
  BY <1>1
<1>6. CASE i \in 1..Len(a) /\ j \in 1..Len(a)
  BY <1>1, <1>3, <1>6 DEF Distinct
<1>7. CASE i \in 1..Len(a) /\ j = Len(a) + 1
  BY <1>1, <1>2, <1>3, <1>7
<1>8. CASE i = Len(a) + 1 /\ j \in 1..Len(a)
  BY <1>1, <1>2, <1>3, <1>8
<1>9. QED
  BY <1>4, <1>5, <1>6, <1>7, <1>8

(* The cut of a sequence.                                                  *)
LEMMA Cut ==
    ASSUME NEW ms \in Seq(Messages), NEW k \in 0..Len(ms)
    PROVE  /\ SubSeq(ms, 1, k) \in Seq(Messages)
           /\ SubSeq(ms, k + 1, Len(ms)) \in Seq(Messages)
           /\ SubSeq(ms, 1, k) \o SubSeq(ms, k + 1, Len(ms)) = ms
<1>1. Len(ms) \in Nat /\ \A i \in 1..Len(ms) : ms[i] \in Messages
  BY MessageTypes
<1>2. /\ k \in Int /\ k + 1 \in Int /\ Len(ms) \in Int
      /\ \A i \in 1..k : ms[i] \in Messages
      /\ \A i \in (k + 1)..Len(ms) : ms[i] \in Messages
  BY <1>1
<1>3. SubSeq(ms, 1, k) \in Seq(Messages) /\ SubSeq(ms, k + 1, Len(ms)) \in Seq(Messages)
  BY <1>2, SubSeqProperties
<1>4. 1 \in 1..(Len(ms) + 1) /\ k \in (1 - 1)..Len(ms) /\ Len(ms) \in k..Len(ms)
  BY <1>1
<1>5. SubSeq(ms, 1, k) \o SubSeq(ms, k + 1, Len(ms)) = SubSeq(ms, 1, Len(ms))
  BY <1>4, ConcatAdjacentSubSeq
<1>6. QED
  BY <1>3, <1>5, SubSeqFull

LEMMA FrontType ==
    ASSUME NEW ls \in Lines
    PROVE  Front(ls) \in Lines /\ ToSet(Front(ls)) \subseteq ToSet(ls)
<1>1. /\ Len(ls) \in Nat /\ \A i \in 1..Len(ls) : ls[i] \in ToSet(ls)
      /\ ToSet(ls) \subseteq Messages \cup {Torn}
  BY LineTypes
<1> DEFINE f == SubSeq(ls, 1, Len(ls) - 1)
<1>2. 1 \in Int /\ Len(ls) - 1 \in Int /\ \A i \in 1..(Len(ls) - 1) : ls[i] \in ToSet(ls)
  BY <1>1
<1>3. f \in Seq(ToSet(ls))
  BY <1>2, SubSeqProperties
<1> HIDE DEF f
<1>4. f \in Lines
  BY <1>1, <1>3, SeqMonotonic DEF Lines
<1>5. ToSet(f) \subseteq ToSet(ls)
  <2>1. DOMAIN f = 1..Len(f) /\ \A i \in 1..Len(f) : f[i] \in ToSet(ls)
    BY <1>3, LenProperties, ElementOfSeq
  <2>2. \A m \in ToSet(f) : \E i \in 1..Len(f) : f[i] = m
    BY <1>4, PlaceOf
  <2>3. QED
    BY <2>1, <2>2
<1>6. QED
  BY <1>4, <1>5 DEF Front, f

(* A line more, fused or not, brings the line or a torn one.               *)
LEMMA WithLineType ==
    ASSUME NEW ls \in Lines, NEW l \in Messages \cup {Torn}, NEW fused \in BOOLEAN
    PROVE  /\ WithLine(ls, l, fused) \in Lines
           /\ ToSet(WithLine(ls, l, fused))
                \subseteq ToSet(ls) \cup IF fused THEN {Torn} ELSE {l}
<1>1. CASE fused
  <2>1. Front(ls) \in Lines /\ ToSet(Front(ls)) \subseteq ToSet(ls)
    BY FrontType
  <2>2. WithLine(ls, l, fused) = Append(Front(ls), Torn)
    BY <1>1 DEF WithLine
  <2>3. Append(Front(ls), Torn) \in Lines
    BY <2>1, IntactAppend
  <2>4. ToSet(Append(Front(ls), Torn)) = ToSet(Front(ls)) \cup {Torn}
    BY <2>1, SetOfAppend
  <2>5. QED
    BY <1>1, <2>1, <2>2, <2>3, <2>4
<1>2. CASE ~ fused
  <2>1. WithLine(ls, l, fused) = Append(ls, l)
    BY <1>2 DEF WithLine
  <2>2. Append(ls, l) \in Lines
    BY IntactAppend
  <2>3. ToSet(Append(ls, l)) = ToSet(ls) \cup {l}
    BY SetOfAppend
  <2>4. QED
    BY <1>2, <2>1, <2>2, <2>3
<1>3. QED
  BY <1>1, <1>2

-----------------------------------------------------------------------------
(* The inductive invariant.                                                *)

(* Where a process stands, and the dirs it has opened by then: they were   *)
(* made before, and the path holds none of them or the youngest.           *)
Outside == {"idle", "make", "lock", "wait", "print", "clear lock", "clear wait"}
Sends == {"make", "lock", "wait", "append", "tail", "gen", "line"}
Opened == {"tail", "gen", "line"}
Waits == {"wait", "clear wait"}

PointInv ==
    /\ \A p \in Senders : pc[p] \in Sends \cup {"idle"} /\ (pc[p] # "idle" => msg[p] \in Messages)
    /\ \A p \in Hooks : pc[p] \notin {"make", "append"} \cup Opened
    /\ \A p \in Procs : (pc[p] \notin Outside \/ pc[p] \in Waits) => home[p] \in Dirs
    /\ \A p \in Procs : pc[p] \in Opened => fd[p] \in Dirs
DirInv ==
    /\ made \in Dirs /\ cur \in {None, made} /\ (cur = None => made < MaxDirs)
    /\ \A p \in Procs : home[p] <= made /\ fd[p] <= made
    /\ \A d \in Dirs : d > made => lines[d] = <<>>
TypeInv == TypeOK /\ PointInv /\ DirInv

(* A process between the lock and the unlock holds it.                     *)
HoldInv == \A p \in Procs : pc[p] \notin Outside => holder[home[p]] = p

(* A tail without a newline has something before it, and whoever is about  *)
(* to write a line under the lock of the dir has seen to the tail.  What a *)
(* hook has read is what is still in the file when it writes it back.      *)
TailInv ==
    /\ \A d \in Dirs : open[d] => lines[d] # <<>>
    /\ \A p \in Procs :
        pc[p] \in {"gen", "line"} /\ fd[p] = home[p] /\ fd[p] \notin crossed
        => ~ open[fd[p]]
ReadInv ==
    \A p \in Procs :
        pc[p] = "replace" /\ cur = home[p] /\ cur \notin crossed
        => load[p] \o kept[p] = IntactOf(lines[cur])
FileInv == TypeInv /\ HoldInv /\ TailInv /\ ReadInv /\ NothingLost

-----------------------------------------------------------------------------
(* Types.                                                                  *)

OwnOK ==
    /\ holder \in [Dirs -> Procs \cup {Nothing}]
    /\ pc \in [Procs -> Points]
    /\ msg \in [Procs -> Messages \cup {Nothing}]
    /\ {home, fd} \subseteq [Procs -> 0..MaxDirs]
    /\ {kept, load} \subseteq [Procs -> Seq(Messages)]
    /\ \A p \in Procs : home[p] <= made /\ fd[p] <= made
FilesOK ==
    /\ lines \in [Dirs -> Seq(Messages \cup {Torn})]
    /\ {open, short} \subseteq [Dirs -> BOOLEAN]
    /\ \A d \in Dirs : d > made => lines[d] = <<>>
DirsOK ==
    /\ cur \in 0..MaxDirs /\ made \in 0..MaxDirs /\ cur <= made
    /\ made \in Dirs /\ cur \in {None, made} /\ (cur = None => made < MaxDirs)
PastOK ==
    /\ {arrived, taken} \subseteq [Dirs -> Seq(Messages)]
    /\ printed \in Seq(Messages)
    /\ dropped \subseteq Messages /\ crossed \subseteq Dirs

LEMMA TypeParts ==
    /\ TypeInv <=> OwnOK /\ FilesOK /\ DirsOK /\ PastOK /\ PointInv /\ faults \in 0..MaxFaults
    /\ TypeInv' <=> OwnOK' /\ FilesOK' /\ DirsOK' /\ PastOK' /\ PointInv'
                    /\ faults' \in 0..MaxFaults
BY DEF TypeInv, TypeOK, DirInv, OwnOK, FilesOK, DirsOK, PastOK

LEMMA TypeInit == Init => TypeInv
<1> SUFFICES ASSUME Init PROVE TypeInv
  OBVIOUS
<1>1. <<>> \in Seq(Messages) /\ <<>> \in Seq(Messages \cup {Torn})
  BY EmptySeq
<1>2. 1 \in Dirs /\ 1 \in 0..MaxDirs
  BY DEF Dirs
<1>3. /\ lines = [d \in Dirs |-> <<>>] /\ arrived = [d \in Dirs |-> <<>>]
      /\ taken = [d \in Dirs |-> <<>>]
      /\ open = [d \in Dirs |-> FALSE] /\ short = [d \in Dirs |-> FALSE]
      /\ home = [p \in Procs |-> None] /\ fd = [p \in Procs |-> None]
      /\ kept = [p \in Procs |-> <<>>] /\ load = [p \in Procs |-> <<>>]
  BY DEF Init
<1>4. OwnOK
  BY <1>1, <1>2, <1>3 DEF OwnOK, Init, None, Points
<1>5. FilesOK
  BY <1>1, <1>3 DEF FilesOK
<1>6. DirsOK
  BY <1>2 DEF DirsOK, Init, None
<1>7. PastOK
  BY <1>1, <1>3 DEF PastOK, Init
<1>8. PointInv
  BY DEF PointInv, Init, Procs, Sends, Opened, Outside, Waits
<1>9. faults \in 0..MaxFaults
  BY DEF Init
<1>10. QED
  BY <1>4, <1>5, <1>6, <1>7, <1>8, <1>9, TypeParts

(* A process that finishes leaves everything of its own in order.          *)
LEMMA FinishTypes ==
    ASSUME TypeInv, NEW p \in Procs, Finish(p), made' = made
    PROVE  OwnOK' /\ PointInv'
<1>1. OwnOK /\ PointInv
  BY TypeParts
<1>2. /\ holder' = [d \in Dirs |-> IF holder[d] = p THEN Nothing ELSE holder[d]]
      /\ msg' = [msg EXCEPT ![p] = Nothing]
      /\ home' = [home EXCEPT ![p] = None] /\ fd' = [fd EXCEPT ![p] = None]
      /\ kept' = [kept EXCEPT ![p] = <<>>] /\ load' = [load EXCEPT ![p] = <<>>]
      /\ pc' = [pc EXCEPT ![p] = "idle"]
  BY DEF Finish, Unlock, Forget, Goto
<1>3. <<>> \in Seq(Messages) /\ None \in 0..MaxDirs /\ "idle" \in Points
  BY EmptySeq DEF None, Points
<1>4. holder' \in [Dirs -> Procs \cup {Nothing}]
  BY <1>1, <1>2 DEF OwnOK
<1>5. pc' \in [Procs -> Points] /\ msg' \in [Procs -> Messages \cup {Nothing}]
  BY <1>1, <1>2, <1>3 DEF OwnOK
<1>6. {home', fd'} \subseteq [Procs -> 0..MaxDirs]
  BY <1>1, <1>2, <1>3 DEF OwnOK
<1>7. {kept', load'} \subseteq [Procs -> Seq(Messages)]
  BY <1>1, <1>2, <1>3 DEF OwnOK
<1>8. \A q \in Procs : home'[q] <= made' /\ fd'[q] <= made'
  <2>1. None <= made
    BY TypeParts DEF None, DirsOK
  <2>2. QED
    BY <2>1, <1>1, <1>2 DEF OwnOK
<1>9. OwnOK'
  BY <1>4, <1>5, <1>6, <1>7, <1>8 DEF OwnOK
<1>10. PointInv'
  BY <1>1, <1>2 DEF PointInv, OwnOK, Procs, Sends, Opened, Outside, Waits
<1>11. QED
  BY <1>9, <1>10

(* So does one that only goes on.                                          *)
LEMMA GotoTypes ==
    ASSUME TypeInv, NEW p \in Procs, NEW point \in Points, Goto(p, point),
           UNCHANGED <<holder, msg, home, fd, kept, load>>, made' >= made, made' \in 0..MaxDirs,
           p \in Senders => point \in Sends /\ msg[p] \in Messages,
           p \in Hooks => point \notin {"make", "append"} \cup Opened,
           point \notin Outside \/ point \in Waits => home[p] \in Dirs,
           point \in Opened => fd[p] \in Dirs
    PROVE  OwnOK' /\ PointInv'
<1>1. OwnOK /\ PointInv /\ DirsOK
  BY TypeParts
<1>2. pc' = [pc EXCEPT ![p] = point]
  BY DEF Goto
<1>3. OwnOK'
  <2>1. \A q \in Procs : home[q] <= made' /\ fd[q] <= made'
    <3>1. \A q \in Procs : home[q] \in Nat /\ fd[q] \in Nat /\ home[q] <= made /\ fd[q] <= made
      BY <1>1 DEF OwnOK
    <3>2. made \in Nat /\ made' \in Nat
      BY <1>1 DEF DirsOK
    <3>3. QED
      BY <3>1, <3>2
  <2>2. pc' \in [Procs -> Points]
    BY <1>1, <1>2 DEF OwnOK
  <2>3. QED
    BY <1>1, <2>1, <2>2 DEF OwnOK
<1>4. PointInv'
  <2>1. \A q \in Procs : pc'[q] = IF q = p THEN point ELSE pc[q]
    BY <1>1, <1>2 DEF OwnOK
  <2>2. ASSUME NEW q \in Senders
        PROVE  pc'[q] \in Sends \cup {"idle"} /\ (pc'[q] # "idle" => msg'[q] \in Messages)
    BY <2>1, <1>1 DEF PointInv, Procs
  <2>3. ASSUME NEW q \in Hooks PROVE pc'[q] \notin {"make", "append"} \cup Opened
    BY <2>1, <1>1 DEF PointInv, Procs
  <2>4. ASSUME NEW q \in Procs, pc'[q] \notin Outside \/ pc'[q] \in Waits
        PROVE  home'[q] \in Dirs
    BY <2>1, <2>4, <1>1 DEF PointInv
  <2>5. ASSUME NEW q \in Procs, pc'[q] \in Opened PROVE fd'[q] \in Dirs
    BY <2>1, <2>5, <1>1 DEF PointInv
  <2>6. QED
    BY <2>2, <2>3, <2>4, <2>5 DEF PointInv
<1>5. QED
  BY <1>3, <1>4

(* The steps of all, one by one.                                           *)
LEMMA TypeSay ==
    ASSUME TypeInv, NEW p \in Senders, NEW m \in Messages, Say(p, m)
    PROVE  TypeInv'
<1>1. OwnOK /\ PointInv /\ p \in Procs
  BY TypeParts DEF Procs
<1>2. /\ msg' = [msg EXCEPT ![p] = m] /\ pc' = [pc EXCEPT ![p] = "make"]
      /\ UNCHANGED <<files, holder, dirs, home, fd, kept, load, faults, past>>
  BY DEF Say, Goto
<1>3. OwnOK'
  BY <1>1, <1>2 DEF OwnOK, Points, dirs
<1>4. PointInv'
  BY <1>1, <1>2 DEF OwnOK, PointInv, Procs, Sends, Opened, Outside, Waits
<1>5. QED
  BY <1>2, <1>3, <1>4, TypeParts DEF FilesOK, DirsOK, PastOK, files, dirs, past

(* A dir more.                                                             *)
LEMMA DirsGrow ==
    ASSUME TypeInv,
           \/ cur' = made + 1 /\ made' = made + 1 /\ cur = None
           \/ UNCHANGED <<cur, made>>
    PROVE  DirsOK' /\ made' >= made /\ made' \in 0..MaxDirs
BY TypeParts DEF DirsOK, Dirs, None

LEMMA TypeMakeDir ==
    ASSUME TypeInv, NEW p \in Senders, MakeDir(p)
    PROVE  TypeInv'
<1>1. OwnOK /\ PointInv /\ DirsOK /\ FilesOK /\ p \in Procs /\ p \notin Hooks
  BY TypeParts DEF Procs
<1>2. /\ pc[p] = "make" /\ Goto(p, "lock") /\ UNCHANGED <<files, holder, own, faults, past>>
      /\ \/ cur' = made + 1 /\ made' = made + 1 /\ cur = None
         \/ UNCHANGED <<cur, made>>
  BY DEF MakeDir
<1>3. DirsOK' /\ made' >= made /\ made' \in 0..MaxDirs
  BY <1>2, DirsGrow
<1>4. msg[p] \in Messages
  BY <1>1, <1>2 DEF PointInv
<1>5. "lock" \in Points /\ "lock" \in Sends /\ "lock" \notin Waits
      /\ "lock" \in Outside /\ "lock" \notin Opened
  BY DEF Points, Sends, Waits, Outside, Opened
<1>6. OwnOK' /\ PointInv'
  BY <1>1, <1>2, <1>3, <1>4, <1>5, GotoTypes DEF own
<1>7. FilesOK'
  BY <1>1, <1>2, <1>3 DEF FilesOK, files, DirsOK, Dirs
<1>8. QED
  BY <1>2, <1>3, <1>6, <1>7, TypeParts DEF PastOK, past

LEMMA TypeRemakeDir ==
    ASSUME TypeInv, RemakeDir
    PROVE  TypeInv'
<1>1. OwnOK /\ PointInv /\ DirsOK /\ FilesOK
  BY TypeParts
<1>2. /\ UNCHANGED <<files, holder, pc, own, faults, past>>
      /\ cur' = made + 1 /\ made' = made + 1 /\ cur = None
  BY DEF RemakeDir
<1>3. DirsOK' /\ made' >= made /\ made' \in 0..MaxDirs
  BY <1>2, DirsGrow
<1>4. OwnOK'
  BY <1>1, <1>2, <1>3 DEF OwnOK, own, DirsOK
<1>5. FilesOK'
  BY <1>1, <1>2, <1>3 DEF FilesOK, files, DirsOK, Dirs
<1>6. QED
  BY <1>1, <1>2, <1>3, <1>4, <1>5, TypeParts DEF PastOK, past, PointInv, own

LEMMA TypeRetireDir ==
    ASSUME TypeInv, RetireDir
    PROVE  TypeInv'
<1>1. OwnOK /\ PointInv /\ DirsOK /\ FilesOK
  BY TypeParts
<1>2. /\ UNCHANGED <<files, holder, made, pc, own, faults, past>>
      /\ cur' = None /\ made < MaxDirs
  BY DEF RetireDir
<1>3. DirsOK'
  BY <1>1, <1>2 DEF DirsOK, None
<1>4. QED
  BY <1>1, <1>2, <1>3, TypeParts DEF PastOK, past, PointInv, own, OwnOK, FilesOK, files

LEMMA TypeOpenLock ==
    ASSUME TypeInv, NEW p \in Procs, OpenLock(p)
    PROVE  TypeInv'
<1>1. OwnOK /\ PointInv /\ DirsOK /\ p \in Senders \cup Hooks
  BY TypeParts DEF Procs
<1>2. UNCHANGED <<files, dirs, faults, past>>
  BY DEF OpenLock
<1>3. CASE cur = None
  <2>1. Finish(p) /\ made' = made
    BY <1>2, <1>3 DEF OpenLock, dirs
  <2>2. OwnOK' /\ PointInv'
    BY <2>1, FinishTypes
  <2>3. QED
    BY <1>2, <2>2, TypeParts DEF FilesOK, DirsOK, PastOK, files, dirs, past
<1>4. CASE cur # None
  <2>1. PICK point : point = Wait(pc[p])
    OBVIOUS
  <2>2. /\ pc[p] \in {"lock", "clear lock"}
        /\ home' = [home EXCEPT ![p] = cur] /\ pc' = [pc EXCEPT ![p] = point]
        /\ UNCHANGED <<holder, msg, fd, kept, load>>
    BY <1>4, <2>1 DEF OpenLock, Goto
  <2>3. point = IF pc[p] = "lock" THEN "wait" ELSE "clear wait"
    BY <2>1, <2>2 DEF Wait
  <2>4. /\ cur \in Dirs /\ cur \in 0..MaxDirs /\ cur <= made
        /\ point \notin {"make", "append"} \cup Opened
    BY <1>1, <1>4, <2>3 DEF DirsOK, Opened
  <2>5. OwnOK'
    <3>1. pc' \in [Procs -> Points]
      BY <1>1, <2>2, <2>3 DEF OwnOK, Points
    <3>2. \A q \in Procs : home'[q] <= made
      BY <1>1, <2>2, <2>4 DEF OwnOK
    <3>3. home' \in [Procs -> 0..MaxDirs]
      BY <1>1, <2>2, <2>4 DEF OwnOK
    <3>4. QED
      BY <1>1, <1>2, <2>2, <3>1, <3>2, <3>3 DEF OwnOK, dirs
  <2>6. PointInv'
    <3>1. \A q \in Procs : /\ pc'[q] = IF q = p THEN point ELSE pc[q]
                           /\ home'[q] = IF q = p THEN cur ELSE home[q]
      BY <1>1, <2>2 DEF OwnOK
    <3>2. p \in Senders => pc[p] = "lock" /\ msg[p] \in Messages
      BY <1>1, <2>2 DEF PointInv, Sends
    <3>3. ASSUME NEW q \in Senders
          PROVE  pc'[q] \in Sends \cup {"idle"} /\ (pc'[q] # "idle" => msg'[q] \in Messages)
      BY <1>1, <2>2, <2>3, <3>1, <3>2, <3>3 DEF PointInv, Procs, Sends
    <3>4. ASSUME NEW q \in Hooks PROVE pc'[q] \notin {"make", "append"} \cup Opened
      BY <1>1, <2>4, <3>1 DEF PointInv, Procs
    <3>5. ASSUME NEW q \in Procs, pc'[q] \notin Outside \/ pc'[q] \in Waits
          PROVE  home'[q] \in Dirs
      BY <1>1, <2>4, <3>1, <3>5 DEF PointInv
    <3>6. ASSUME NEW q \in Procs, pc'[q] \in Opened PROVE fd'[q] \in Dirs
      BY <1>1, <2>2, <2>4, <3>1, <3>6 DEF PointInv
    <3>7. QED
      BY <3>3, <3>4, <3>5, <3>6 DEF PointInv
  <2>7. QED
    BY <1>2, <2>5, <2>6, TypeParts DEF FilesOK, DirsOK, PastOK, files, dirs, past
<1>5. QED
  BY <1>3, <1>4

(* Steps that only go on, and leave the files and the past.                *)
LEMMA TypeGoto ==
    ASSUME TypeInv, NEW p \in Procs, NEW point \in Points, Goto(p, point),
           UNCHANGED <<msg, home, fd, kept, load, files, dirs, faults, past>>,
           holder' \in [Dirs -> Procs \cup {Nothing}],
           p \in Senders => point \in Sends /\ msg[p] \in Messages,
           p \in Hooks => point \notin {"make", "append"} \cup Opened,
           point \notin Outside \/ point \in Waits => home[p] \in Dirs,
           point \in Opened => fd[p] \in Dirs
    PROVE  TypeInv'
<1>1. OwnOK /\ PointInv /\ DirsOK
  BY TypeParts
<1>2. pc' = [pc EXCEPT ![p] = point]
  BY DEF Goto
<1>3. OwnOK'
  BY <1>1, <1>2 DEF OwnOK, dirs
<1>4. PointInv'
  <2>1. \A q \in Procs : pc'[q] = IF q = p THEN point ELSE pc[q]
    BY <1>1, <1>2 DEF OwnOK
  <2>2. ASSUME NEW q \in Senders
        PROVE  pc'[q] \in Sends \cup {"idle"} /\ (pc'[q] # "idle" => msg'[q] \in Messages)
    BY <2>1, <1>1 DEF PointInv, Procs
  <2>3. ASSUME NEW q \in Hooks PROVE pc'[q] \notin {"make", "append"} \cup Opened
    BY <2>1, <1>1 DEF PointInv, Procs
  <2>4. ASSUME NEW q \in Procs, pc'[q] \notin Outside \/ pc'[q] \in Waits
        PROVE  home'[q] \in Dirs
    BY <2>1, <2>4, <1>1 DEF PointInv
  <2>5. ASSUME NEW q \in Procs, pc'[q] \in Opened PROVE fd'[q] \in Dirs
    BY <2>1, <2>5, <1>1 DEF PointInv
  <2>6. QED
    BY <2>2, <2>3, <2>4, <2>5 DEF PointInv
<1>5. QED
  BY <1>3, <1>4, TypeParts DEF FilesOK, DirsOK, PastOK, files, dirs, past

LEMMA TypeLock ==
    ASSUME TypeInv, NEW p \in Procs, Lock(p)
    PROVE  TypeInv'
<1>1. OwnOK /\ PointInv /\ DirsOK /\ p \in Senders \cup Hooks
  BY TypeParts DEF Procs
<1>2. PICK point : point = Locked(p)
  OBVIOUS
<1>3. /\ pc[p] \in {"wait", "clear wait"} /\ Goto(p, point)
      /\ holder' = [holder EXCEPT ![home[p]] = p]
      /\ UNCHANGED <<msg, home, fd, kept, load, files, dirs, faults, past>>
  BY <1>2 DEF Lock, own
<1>4. /\ p \in Senders => pc[p] = "wait" /\ msg[p] \in Messages
      /\ p \in Hooks => p \notin Senders
      /\ home[p] \in Dirs
  BY <1>1, <1>3 DEF PointInv, Sends, Waits
<1>5. /\ p \in Senders => point = "append"
      /\ p \in Hooks => point \in {"take", "clear"}
  BY <1>2, <1>3, <1>4 DEF Locked
<1>6. holder' \in [Dirs -> Procs \cup {Nothing}]
  BY <1>1, <1>3 DEF OwnOK
<1>7. /\ point \in Points /\ (p \in Senders => point \in Sends)
      /\ (p \in Hooks => point \notin {"make", "append"} \cup Opened)
      /\ point \notin Opened
  BY <1>1, <1>4, <1>5 DEF Points, Sends, Opened
<1>8. QED
  BY <1>3, <1>4, <1>6, <1>7, TypeGoto

LEMMA TypeQuiet ==
    ASSUME TypeInv, NEW p \in Procs, Finish(p), UNCHANGED <<files, dirs, past>>,
           faults' \in 0..MaxFaults
    PROVE  TypeInv'
<1>1. OwnOK' /\ PointInv'
  BY FinishTypes DEF dirs
<1>2. QED
  BY <1>1, TypeParts DEF FilesOK, DirsOK, PastOK, files, dirs, past

LEMMA FaultBound == ASSUME TypeInv, faults < MaxFaults, faults' = faults + 1
                    PROVE  faults' \in 0..MaxFaults
BY TypeParts

LEMMA TypeLockTimeOut ==
    ASSUME TypeInv, NEW p \in Procs, LockTimeOut(p)
    PROVE  TypeInv'
BY TypeQuiet, FaultBound DEF LockTimeOut

LEMMA TypeOpenInbox ==
    ASSUME TypeInv, NEW p \in Senders, OpenInbox(p)
    PROVE  TypeInv'
<1>1. OwnOK /\ PointInv /\ DirsOK /\ p \in Procs /\ p \notin Hooks /\ faults \in 0..MaxFaults
  BY TypeParts DEF Procs
<1>2. pc[p] = "append" /\ UNCHANGED <<files, dirs, faults, past>>
  BY DEF OpenInbox
<1>3. CASE cur = None
  <2>1. Finish(p)
    BY <1>3 DEF OpenInbox
  <2>2. QED
    BY <1>1, <1>2, <2>1, TypeQuiet
<1>4. CASE cur # None
  <2>1. PICK point \in {"gen", "tail"} : Goto(p, point)
    BY <1>4 DEF OpenInbox
  <2>2. /\ fd' = [fd EXCEPT ![p] = cur] /\ UNCHANGED <<holder, msg, home, kept, load>>
        /\ pc' = [pc EXCEPT ![p] = point]
    BY <1>4, <2>1 DEF OpenInbox, Goto
  <2>3. cur \in Dirs /\ cur \in 0..MaxDirs /\ cur <= made
    BY <1>1, <1>4 DEF DirsOK
  <2>4. OwnOK'
    <3>1. pc' \in [Procs -> Points]
      BY <1>1, <2>2 DEF OwnOK, Points
    <3>2. \A q \in Procs : fd'[q] <= made
      BY <1>1, <2>2, <2>3 DEF OwnOK
    <3>3. fd' \in [Procs -> 0..MaxDirs]
      BY <1>1, <2>2, <2>3 DEF OwnOK
    <3>4. QED
      BY <1>1, <1>2, <2>2, <3>1, <3>2, <3>3 DEF OwnOK, dirs
  <2>5. PointInv'
    <3>1. \A q \in Procs : /\ pc'[q] = IF q = p THEN point ELSE pc[q]
                           /\ fd'[q] = IF q = p THEN cur ELSE fd[q]
      BY <1>1, <2>2 DEF OwnOK
    <3>2. msg[p] \in Messages /\ home[p] \in Dirs
      BY <1>1, <1>2 DEF PointInv, Outside
    <3>3. ASSUME NEW q \in Senders
          PROVE  pc'[q] \in Sends \cup {"idle"} /\ (pc'[q] # "idle" => msg'[q] \in Messages)
      BY <1>1, <2>2, <3>1, <3>2 DEF PointInv, Procs, Sends
    <3>4. ASSUME NEW q \in Hooks PROVE pc'[q] \notin {"make", "append"} \cup Opened
      BY <1>1, <3>1 DEF PointInv, Procs
    <3>5. ASSUME NEW q \in Procs, pc'[q] \notin Outside \/ pc'[q] \in Waits
          PROVE  home'[q] \in Dirs
      BY <1>1, <2>2, <3>1, <3>2, <3>5 DEF PointInv
    <3>6. ASSUME NEW q \in Procs, pc'[q] \in Opened PROVE fd'[q] \in Dirs
      BY <1>1, <2>3, <3>1, <3>6 DEF PointInv
    <3>7. QED
      BY <3>3, <3>4, <3>5, <3>6 DEF PointInv
  <2>6. QED
    BY <1>1, <1>2, <2>4, <2>5, TypeParts DEF FilesOK, DirsOK, PastOK, files, dirs, past
<1>5. QED
  BY <1>3, <1>4

LEMMA TypeCheckTail ==
    ASSUME TypeInv, NEW p \in Senders, CheckTail(p)
    PROVE  TypeInv'
<1>1. OwnOK /\ PointInv /\ DirsOK /\ FilesOK /\ PastOK /\ p \in Procs /\ p \notin Hooks
  BY TypeParts DEF Procs
<1>2. /\ pc[p] = "tail" /\ UNCHANGED <<lines, short, dirs, faults, arrived, taken, printed, dropped>>
      /\ crossed' = IF cur # fd[p] THEN crossed \cup {fd[p]} ELSE crossed
      /\ open' = open \/ open' = [open EXCEPT ![fd[p]] = FALSE]
      /\ Finish(p) \/ (Goto(p, "line") /\ UNCHANGED <<holder, own>>)
  BY DEF CheckTail, EndTail
<1>3. fd[p] \in Dirs /\ msg[p] \in Messages /\ home[p] \in Dirs
  BY <1>1, <1>2 DEF PointInv, Opened, Outside
<1>4. OwnOK' /\ PointInv'
  <2>1. CASE Finish(p)
    BY <1>1, <1>2, <2>1, FinishTypes DEF dirs
  <2>2. CASE Goto(p, "line") /\ UNCHANGED <<holder, own>>
    <3>1. "line" \in Points /\ "line" \in Sends
      BY DEF Points, Sends
    <3>2. made' >= made /\ made' \in 0..MaxDirs
      BY <1>1, <1>2 DEF DirsOK, dirs
    <3>3. QED
      BY <1>1, <1>3, <2>2, <3>1, <3>2, GotoTypes DEF own
  <2>3. QED
    BY <1>2, <2>1, <2>2
<1>5. FilesOK'
  BY <1>1, <1>2 DEF FilesOK, dirs
<1>6. PastOK'
  BY <1>1, <1>2, <1>3 DEF PastOK
<1>7. QED
  BY <1>2, <1>4, <1>5, <1>6, TypeParts DEF DirsOK, dirs

LEMMA TypeBump ==
    ASSUME TypeInv, NEW p \in Senders, Bump(p)
    PROVE  TypeInv'
<1>1. OwnOK /\ PointInv /\ p \in Procs /\ p \notin Hooks /\ faults \in 0..MaxFaults
  BY TypeParts DEF Procs
<1>2. /\ pc[p] = "gen" /\ UNCHANGED <<files, dirs, faults, past>>
      /\ Finish(p) \/ (Goto(p, "line") /\ UNCHANGED <<holder, own>>)
  BY DEF Bump
<1>3. fd[p] \in Dirs /\ msg[p] \in Messages /\ home[p] \in Dirs
  BY <1>1, <1>2 DEF PointInv, Opened, Outside
<1>4. CASE Finish(p)
  BY <1>1, <1>2, <1>4, TypeQuiet
<1>5. CASE Goto(p, "line") /\ UNCHANGED <<holder, own>>
  <2>1. "line" \in Points /\ "line" \in Sends
    BY DEF Points, Sends
  <2>2. holder' \in [Dirs -> Procs \cup {Nothing}]
    BY <1>1, <1>5 DEF OwnOK
  <2>3. QED
    BY <1>1, <1>2, <1>3, <1>5, <2>1, <2>2, TypeGoto DEF own
<1>6. QED
  BY <1>2, <1>4, <1>5

(* A write into a file.                                                    *)
LEMMA CrossType ==
    ASSUME TypeInv, NEW p \in Procs, NEW d, crossed' = Cross(p, d)
    PROVE  crossed' \subseteq Dirs /\ crossed \subseteq crossed'
BY TypeParts DEF Cross, PastOK

LEMMA LineTyped ==
    ASSUME TypeInv, NEW d \in Dirs, d <= made, NEW l \in Messages \cup {Torn}, NEW b \in BOOLEAN,
           lines' = [lines EXCEPT ![d] = WithLine(@, l, open[d])],
           open' = [open EXCEPT ![d] = b], UNCHANGED <<short, made>>
    PROVE  FilesOK'
<1>1. FilesOK /\ DirsOK
  BY TypeParts
<1>2. PICK ls : ls = WithLine(lines[d], l, open[d])
  OBVIOUS
<1>3. ls \in Seq(Messages \cup {Torn})
  <2>1. lines[d] \in Lines /\ open[d] \in BOOLEAN
    BY <1>1 DEF FilesOK, Lines
  <2>2. QED
    BY <1>2, <2>1, WithLineType DEF Lines
<1>4. lines' = [lines EXCEPT ![d] = ls]
  BY <1>2
<1>5. \A e \in Dirs : e > made => e # d
  BY <1>1 DEF Dirs, DirsOK
<1>6. QED
  BY <1>1, <1>3, <1>4, <1>5 DEF FilesOK

LEMMA ArriveTyped ==
    ASSUME TypeInv, NEW d \in Dirs, NEW m \in Messages,
           arrived' = arrived \/ Arrive(d, m), UNCHANGED <<taken, printed, dropped>>,
           crossed' \subseteq Dirs
    PROVE  PastOK'
<1>1. PastOK
  BY TypeParts
<1>2. PICK ms : ms = Append(arrived[d], m)
  OBVIOUS
<1>3. ms \in Seq(Messages)
  BY <1>1, <1>2, AppendProperties DEF PastOK
<1>4. arrived' = arrived \/ arrived' = [arrived EXCEPT ![d] = ms]
  BY <1>2 DEF Arrive
<1>5. QED
  BY <1>1, <1>3, <1>4 DEF PastOK

LEMMA AtLine ==
    ASSUME TypeInv, NEW p \in Procs, pc[p] \in Opened
    PROVE  fd[p] \in Dirs /\ fd[p] <= made /\ msg[p] \in Messages /\ home[p] \in Dirs
           /\ p \in Senders
<1>1. OwnOK /\ PointInv
  BY TypeParts
<1>2. p \in Senders
  BY <1>1 DEF PointInv, Procs
<1>3. QED
  BY <1>1, <1>2 DEF PointInv, OwnOK, Procs, Opened, Outside

LEMMA TypeWriteLine ==
    ASSUME TypeInv, NEW p \in Senders, WriteLine(p)
    PROVE  TypeInv'
<1>1. PICK d : d = fd[p]
  OBVIOUS
<1>2. /\ pc[p] = "line" /\ Finish(p) /\ UNCHANGED <<short, dirs, faults, taken, printed, dropped>>
      /\ lines' = [lines EXCEPT ![d] = WithLine(@, msg[p], open[d])]
      /\ open' = [open EXCEPT ![d] = FALSE]
      /\ arrived' = arrived \/ Arrive(d, msg[p])
      /\ crossed' = Cross(p, d)
  BY <1>1 DEF WriteLine
<1>3. p \in Procs /\ d \in Dirs /\ d <= made /\ msg[p] \in Messages
  BY <1>1, <1>2, AtLine DEF Opened, Procs
<1>4. OwnOK' /\ PointInv'
  BY <1>2, <1>3, FinishTypes DEF dirs
<1>5. FilesOK'
  BY <1>2, <1>3, LineTyped DEF dirs
<1>6. PastOK'
  BY <1>2, <1>3, CrossType, ArriveTyped
<1>7. QED
  BY <1>2, <1>4, <1>5, <1>6, TypeParts DEF DirsOK, dirs

LEMMA TypeDrain ==
    ASSUME TypeInv, NEW p \in Hooks, Drain(p) \/ StartClear(p)
    PROVE  TypeInv'
<1>1. OwnOK /\ p \in Procs /\ p \notin Senders
  BY TypeParts DEF Procs
<1>2. PICK point \in {"lock", "clear lock"} : Goto(p, point)
  BY DEF Drain, StartClear
<1>3. UNCHANGED <<holder, msg, home, fd, kept, load, files, dirs, faults, past>>
  BY DEF Drain, StartClear, own
<1>4. point \in Points /\ point \notin {"make", "append"} \cup Opened
      /\ point \in Outside /\ point \notin Waits /\ point \notin Opened
  BY DEF Points, Opened, Outside, Waits
<1>5. holder' \in [Dirs -> Procs \cup {Nothing}]
  BY <1>1, <1>3 DEF OwnOK
<1>6. QED
  BY <1>1, <1>2, <1>3, <1>4, <1>5, TypeGoto

(* What a hook takes, for some cut of the intact lines.                    *)
LEMMA TakeCuts ==
    ASSUME TypeInv, NEW p \in Hooks, Take(p)
    PROVE  \/ Finish(p) /\ UNCHANGED crossed
           \/ /\ cur \in Dirs /\ crossed' = Cross(p, cur)
              /\ Goto(p, "replace") /\ UNCHANGED <<holder, msg, home, fd>>
              /\ \E as, bs \in Seq(Messages) :
                    /\ load' = [load EXCEPT ![p] = as] /\ kept' = [kept EXCEPT ![p] = bs]
                    /\ as \o bs = IntactOf(lines[cur])
<1>1. SUFFICES ASSUME ~ (cur = None \/ (cur # None /\ lines[cur] = <<>>))
               PROVE  /\ cur \in Dirs /\ crossed' = Cross(p, cur)
                      /\ Goto(p, "replace") /\ UNCHANGED <<holder, msg, home, fd>>
                      /\ \E as, bs \in Seq(Messages) :
                            /\ load' = [load EXCEPT ![p] = as]
                            /\ kept' = [kept EXCEPT ![p] = bs]
                            /\ as \o bs = IntactOf(lines[cur])
  BY DEF Take
<1>2. cur \in Dirs /\ lines[cur] \in Lines
  BY <1>1, TypeParts DEF DirsOK, FilesOK, Lines
<1>3. PICK ms : ms = IntactOf(lines[cur])
  OBVIOUS
<1>4. ms \in Seq(Messages)
  BY <1>2, <1>3, IntactType
<1>5. PICK k \in Fitting(ms) :
        /\ load' = [load EXCEPT ![p] = SubSeq(ms, 1, k)]
        /\ kept' = [kept EXCEPT ![p] = SubSeq(ms, k + 1, Len(ms))]
  BY <1>1, <1>3 DEF Take
<1>6. k \in 0..Len(ms)
  BY DEF Fitting
<1>7. PICK as, bs : as = SubSeq(ms, 1, k) /\ bs = SubSeq(ms, k + 1, Len(ms))
  OBVIOUS
<1>8. as \in Seq(Messages) /\ bs \in Seq(Messages) /\ as \o bs = ms
  BY <1>4, <1>6, <1>7, Cut
<1>9. load' = [load EXCEPT ![p] = as] /\ kept' = [kept EXCEPT ![p] = bs]
  BY <1>5, <1>7
<1>10. crossed' = Cross(p, cur) /\ Goto(p, "replace") /\ UNCHANGED <<holder, msg, home, fd>>
  BY <1>1 DEF Take
<1>11. QED
  BY <1>2, <1>3, <1>8, <1>9, <1>10

LEMMA TypeTake ==
    ASSUME TypeInv, NEW p \in Hooks, Take(p)
    PROVE  TypeInv'
<1>1. OwnOK /\ PointInv /\ PastOK /\ DirsOK /\ p \in Procs /\ p \notin Senders
  BY TypeParts DEF Procs
<1>2. pc[p] = "take" /\ UNCHANGED <<files, dirs, faults, arrived, taken, printed, dropped>>
  BY DEF Take
<1>3. home[p] \in Dirs /\ faults \in 0..MaxFaults
  BY <1>1, <1>2, TypeParts DEF PointInv, Outside
<1>4. CASE Finish(p) /\ UNCHANGED crossed
  BY <1>1, <1>2, <1>3, <1>4, TypeQuiet DEF past
<1>5. CASE /\ cur \in Dirs /\ crossed' = Cross(p, cur)
           /\ Goto(p, "replace") /\ UNCHANGED <<holder, msg, home, fd>>
           /\ \E as, bs \in Seq(Messages) :
                /\ load' = [load EXCEPT ![p] = as] /\ kept' = [kept EXCEPT ![p] = bs]
                /\ as \o bs = IntactOf(lines[cur])
  <2>1. PICK as, bs \in Seq(Messages) :
            load' = [load EXCEPT ![p] = as] /\ kept' = [kept EXCEPT ![p] = bs]
    BY <1>5
  <2>2. pc' = [pc EXCEPT ![p] = "replace"] /\ UNCHANGED <<holder, msg, home, fd>>
    BY <1>5 DEF Goto
  <2>3. OwnOK'
    <3>1. pc' \in [Procs -> Points]
      BY <1>1, <2>2 DEF OwnOK, Points
    <3>2. {kept', load'} \subseteq [Procs -> Seq(Messages)]
      BY <1>1, <2>1 DEF OwnOK
    <3>3. QED
      BY <1>1, <1>2, <2>2, <3>1, <3>2 DEF OwnOK, dirs
  <2>4. PointInv'
    BY <1>1, <1>3, <2>2 DEF PointInv, OwnOK, Procs, Opened
  <2>5. crossed' \subseteq Dirs
    BY <1>1, <1>5, CrossType
  <2>6. QED
    BY <1>1, <1>2, <2>3, <2>4, <2>5, TypeParts DEF FilesOK, DirsOK, PastOK, files, dirs
<1>6. QED
  BY <1>4, <1>5, TakeCuts

LEMMA RewriteTyped ==
    ASSUME TypeInv, NEW p \in Procs, cur \in Dirs, NEW ls \in Lines, NEW ms \in Seq(Messages),
           lines' = [lines EXCEPT ![cur] = ls], open' = [open EXCEPT ![cur] = FALSE],
           taken' = [taken EXCEPT ![cur] = @ \o ms], crossed' = Cross(p, cur),
           dropped' \subseteq Messages, UNCHANGED <<short, made, arrived, printed>>
    PROVE  FilesOK' /\ PastOK'
<1>1. FilesOK /\ PastOK /\ DirsOK
  BY TypeParts
<1>2. PICK ts : ts = taken[cur] \o ms
  OBVIOUS
<1>3. ts \in Seq(Messages)
  BY <1>1, <1>2, ConcatProperties DEF PastOK
<1>4. taken' = [taken EXCEPT ![cur] = ts]
  BY <1>2
<1>5. crossed' \subseteq Dirs
  BY CrossType
<1>6. \A e \in Dirs : e > made => e # cur
  BY <1>1 DEF Dirs, DirsOK
<1>7. QED
  BY <1>1, <1>3, <1>4, <1>5, <1>6 DEF FilesOK, PastOK, Lines

LEMMA TypeReplace ==
    ASSUME TypeInv, NEW p \in Hooks, Replace(p)
    PROVE  TypeInv'
<1>1. /\ OwnOK /\ PointInv /\ PastOK /\ DirsOK /\ p \in Procs /\ p \notin Senders
      /\ faults \in 0..MaxFaults
  BY TypeParts DEF Procs
<1>2. pc[p] = "replace" /\ UNCHANGED <<short, dirs, faults, arrived, printed, dropped>>
  BY DEF Replace
<1>3. CASE cur = None
  <2>1. Finish(p) /\ UNCHANGED <<lines, open, taken, crossed>>
    BY <1>3 DEF Replace
  <2>2. QED
    BY <1>1, <1>2, <2>1, TypeQuiet DEF files, past
<1>4. CASE cur # None
  <2>1. cur \in Dirs
    BY <1>1, <1>4 DEF DirsOK
  <2>2. PICK ls, ms : ls = kept[p] /\ ms = load[p]
    OBVIOUS
  <2>3. /\ lines' = [lines EXCEPT ![cur] = ls] /\ open' = [open EXCEPT ![cur] = FALSE]
        /\ taken' = [taken EXCEPT ![cur] = @ \o ms] /\ crossed' = Cross(p, cur)
        /\ Goto(p, "count") /\ UNCHANGED <<holder, own>>
    BY <1>4, <2>2 DEF Replace
  <2>4. ls \in Lines /\ ms \in Seq(Messages)
    BY <1>1, <2>2, IntactWhole DEF OwnOK
  <2>5. FilesOK' /\ PastOK'
    <3>1. dropped' \subseteq Messages
      BY <1>1, <1>2 DEF PastOK
    <3>2. QED
      BY <1>1, <1>2, <2>1, <2>3, <2>4, <3>1, RewriteTyped DEF dirs
  <2>6. OwnOK' /\ PointInv'
    <3>1. "count" \in Points /\ "count" \notin {"make", "append"} \cup Opened
          /\ "count" \notin Opened
      BY DEF Points, Opened
    <3>2. home[p] \in Dirs
      BY <1>1, <1>2 DEF PointInv, Outside
    <3>3. made' >= made /\ made' \in 0..MaxDirs
      BY <1>1, <1>2 DEF DirsOK, dirs
    <3>4. QED
      BY <1>1, <2>3, <3>1, <3>2, <3>3, GotoTypes DEF own
  <2>7. QED
    BY <1>2, <1>1, <2>5, <2>6, TypeParts DEF DirsOK, dirs
<1>5. QED
  BY <1>3, <1>4

LEMMA TypeClear ==
    ASSUME TypeInv, NEW p \in Hooks, Clear(p)
    PROVE  TypeInv'
<1>1. /\ OwnOK /\ PointInv /\ PastOK /\ DirsOK /\ FilesOK /\ p \in Procs /\ p \notin Senders
      /\ faults \in 0..MaxFaults
  BY TypeParts DEF Procs
<1>2. pc[p] = "clear" /\ UNCHANGED <<short, dirs, faults, arrived, printed>>
  BY DEF Clear
<1>3. CASE cur = None
  <2>1. Finish(p) /\ UNCHANGED <<lines, open, taken, dropped, crossed>>
    BY <1>3 DEF Clear
  <2>2. QED
    BY <1>1, <1>2, <2>1, TypeQuiet DEF files, past
<1>4. CASE cur # None
  <2>1. cur \in Dirs /\ lines[cur] \in Lines
    BY <1>1, <1>4 DEF DirsOK, FilesOK, Lines
  <2>2. PICK ms : ms = IntactOf(lines[cur])
    OBVIOUS
  <2>3. /\ lines' = [lines EXCEPT ![cur] = <<>>] /\ open' = [open EXCEPT ![cur] = FALSE]
        /\ taken' = [taken EXCEPT ![cur] = @ \o ms] /\ crossed' = Cross(p, cur)
        /\ dropped' = dropped \cup ToSet(ms)
        /\ Goto(p, "clear count") /\ UNCHANGED <<holder, own>>
    BY <1>4, <2>2 DEF Clear
  <2>4. <<>> \in Lines /\ ms \in Seq(Messages)
    BY <2>1, <2>2, IntactType, EmptyTypes
  <2>5. FilesOK' /\ PastOK'
    <3>1. dropped' \subseteq Messages
      BY <1>1, <2>3, <2>4, MessageTypes DEF PastOK
    <3>2. QED
      BY <1>1, <1>2, <2>1, <2>3, <2>4, <3>1, RewriteTyped DEF dirs
  <2>6. OwnOK' /\ PointInv'
    <3>1. "clear count" \in Points /\ "clear count" \notin {"make", "append"} \cup Opened
          /\ "clear count" \notin Opened
      BY DEF Points, Opened
    <3>2. home[p] \in Dirs
      BY <1>1, <1>2 DEF PointInv, Outside
    <3>3. made' >= made /\ made' \in 0..MaxDirs
      BY <1>1, <1>2 DEF DirsOK, dirs
    <3>4. QED
      BY <1>1, <2>3, <3>1, <3>2, <3>3, GotoTypes DEF own
  <2>7. QED
    BY <1>2, <1>1, <2>5, <2>6, TypeParts DEF DirsOK, dirs
<1>5. QED
  BY <1>3, <1>4

LEMMA TypeClearCount ==
    ASSUME TypeInv, NEW p \in Hooks, ClearCount(p)
    PROVE  TypeInv'
BY TypeQuiet, TypeParts DEF ClearCount, Procs

LEMMA TypeCount ==
    ASSUME TypeInv, NEW p \in Hooks, Count(p)
    PROVE  TypeInv'
<1>1. OwnOK /\ PointInv /\ p \in Procs /\ p \notin Senders /\ faults \in 0..MaxFaults /\ DirsOK
  BY TypeParts DEF Procs
<1>2. /\ holder' = [d \in Dirs |-> IF holder[d] = p THEN Nothing ELSE holder[d]]
      /\ msg' = [msg EXCEPT ![p] = Nothing]
      /\ home' = [home EXCEPT ![p] = None] /\ fd' = [fd EXCEPT ![p] = None]
      /\ kept' = [kept EXCEPT ![p] = <<>>] /\ load' = load
      /\ pc' = [pc EXCEPT ![p] = "print"]
      /\ UNCHANGED <<files, dirs, faults, past>>
  BY DEF Count, Unlock, Forget, Goto
<1>3. OwnOK'
  <2>1. <<>> \in Seq(Messages) /\ None \in 0..MaxDirs /\ "print" \in Points /\ None <= made
    BY <1>1, EmptySeq DEF None, Points, DirsOK
  <2>2. holder' \in [Dirs -> Procs \cup {Nothing}]
    BY <1>1, <1>2 DEF OwnOK
  <2>3. pc' \in [Procs -> Points] /\ msg' \in [Procs -> Messages \cup {Nothing}]
    BY <1>1, <1>2, <2>1 DEF OwnOK
  <2>4. {home', fd'} \subseteq [Procs -> 0..MaxDirs]
    BY <1>1, <1>2, <2>1 DEF OwnOK
  <2>5. {kept', load'} \subseteq [Procs -> Seq(Messages)]
    BY <1>1, <1>2, <2>1 DEF OwnOK
  <2>6. \A q \in Procs : home'[q] <= made' /\ fd'[q] <= made'
    BY <2>1, <1>1, <1>2 DEF OwnOK, dirs
  <2>7. QED
    BY <2>2, <2>3, <2>4, <2>5, <2>6 DEF OwnOK
<1>4. PointInv'
  BY <1>1, <1>2 DEF PointInv, OwnOK, Procs, Sends, Opened, Outside, Waits
<1>5. QED
  BY <1>1, <1>2, <1>3, <1>4, TypeParts DEF FilesOK, DirsOK, PastOK, files, dirs, past

LEMMA TypePresent ==
    ASSUME TypeInv, NEW p \in Hooks, Present(p)
    PROVE  TypeInv'
<1>1. OwnOK /\ PastOK /\ p \in Procs /\ faults \in 0..MaxFaults
  BY TypeParts DEF Procs
<1>2. /\ printed' = printed \o load[p] /\ Finish(p)
      /\ UNCHANGED <<files, dirs, faults, arrived, taken, dropped, crossed>>
  BY DEF Present
<1>3. printed' \in Seq(Messages)
  BY <1>1, <1>2, ConcatProperties DEF OwnOK, PastOK
<1>4. OwnOK' /\ PointInv'
  BY <1>1, <1>2, FinishTypes DEF dirs
<1>5. QED
  BY <1>1, <1>2, <1>3, <1>4, TypeParts DEF FilesOK, DirsOK, PastOK, files, dirs

(* A death leaves the files and the past as they were but for a line, a    *)
(* sidecar or a payload.                                                   *)
LEMMA TypeDie ==
    ASSUME TypeInv, NEW p \in Procs, Die(p)
    PROVE  TypeInv'
<1>1. OwnOK /\ PastOK /\ FilesOK /\ DirsOK
  BY TypeParts
<1>2. Finish(p) /\ UNCHANGED dirs /\ faults' \in 0..MaxFaults
  BY FaultBound DEF Die
<1>3. OwnOK' /\ PointInv'
  BY <1>2, FinishTypes DEF dirs
<1>4. ToSet(load[p]) \subseteq Messages
  BY <1>1, MessageTypes DEF OwnOK
<1>5. CASE TornLine(p)
  <2>1. PICK d : d = fd[p]
    OBVIOUS
  <2>2. pc[p] = "line" /\ crossed' = Cross(p, d) /\ UNCHANGED <<short, taken, printed, dropped>>
    BY <1>5, <2>1 DEF TornLine
  <2>3. d \in Dirs /\ d <= made /\ msg[p] \in Messages
    BY <2>1, <2>2, AtLine DEF Opened
  <2>4. crossed' \subseteq Dirs
    BY <2>2, CrossType
  <2>5. CASE UNCHANGED <<lines, open, arrived>>
    BY <1>1, <1>2, <1>3, <2>2, <2>4, <2>5, TypeParts DEF FilesOK, PastOK, DirsOK, dirs
  <2>6. CASE \E l \in {Torn, msg[p]} :
                /\ lines' = [lines EXCEPT ![d] = WithLine(@, l, open[d])]
                /\ open' = [open EXCEPT ![d] = TRUE]
                /\ IF l = Torn \/ open[d] THEN arrived' = arrived ELSE Arrive(d, msg[p])
    <3>1. PICK l \in {Torn, msg[p]} :
                /\ lines' = [lines EXCEPT ![d] = WithLine(@, l, open[d])]
                /\ open' = [open EXCEPT ![d] = TRUE]
                /\ IF l = Torn \/ open[d] THEN arrived' = arrived ELSE Arrive(d, msg[p])
      BY <2>6
    <3>2. l \in Messages \cup {Torn} /\ (arrived' = arrived \/ Arrive(d, msg[p]))
      BY <2>3, <3>1
    <3>3. FilesOK'
      BY <1>2, <2>2, <2>3, <3>1, <3>2, LineTyped DEF dirs
    <3>4. PastOK'
      BY <2>2, <2>3, <2>4, <3>2, ArriveTyped
    <3>5. QED
      BY <1>1, <1>2, <1>3, <3>3, <3>4, TypeParts DEF DirsOK, dirs
  <2>7. QED
    BY <1>5, <2>1, <2>5, <2>6 DEF TornLine
<1>6. CASE TornGen(p) \/ DiedClean(p)
  <2>1. /\ short' = short \/ short' = [short EXCEPT ![cur] = TRUE]
        /\ dropped' \subseteq dropped \cup ToSet(load[p])
        /\ UNCHANGED <<lines, open, arrived, taken, printed, crossed>>
    BY <1>6 DEF TornGen, DiedClean, files
  <2>2. FilesOK'
    BY <1>1, <1>2, <2>1 DEF FilesOK, dirs
  <2>3. PastOK'
    BY <1>1, <1>4, <2>1 DEF PastOK
  <2>4. QED
    BY <1>1, <1>2, <1>3, <2>2, <2>3, TypeParts DEF DirsOK, dirs
<1>7. QED
  BY <1>5, <1>6 DEF Die

LEMMA TypeStutter == TypeInv /\ UNCHANGED vars => TypeInv'
BY TypeParts DEF vars, files, dirs, own, past, OwnOK, FilesOK, DirsOK, PastOK, PointInv

LEMMA TypeStep == TypeInv /\ [Next]_vars => TypeInv'
<1> SUFFICES ASSUME TypeInv, [Next]_vars PROVE TypeInv'
  OBVIOUS
<1>1. ASSUME NEW p \in Senders, Speaking(p) \/ Sending(p) PROVE TypeInv'
  <2>1. p \in Procs
    BY DEF Procs
  <2>2. CASE Speaking(p)
    BY <2>2, TypeSay DEF Speaking
  <2>3. CASE MakeDir(p)
    BY <2>3, TypeMakeDir
  <2>4. CASE OpenLock(p)
    BY <2>1, <2>4, TypeOpenLock
  <2>5. CASE Lock(p)
    BY <2>1, <2>5, TypeLock
  <2>6. CASE OpenInbox(p)
    BY <2>6, TypeOpenInbox
  <2>7. CASE CheckTail(p)
    BY <2>7, TypeCheckTail
  <2>8. CASE Bump(p)
    BY <2>8, TypeBump
  <2>9. CASE WriteLine(p)
    BY <2>9, TypeWriteLine
  <2>10. QED
    BY <1>1, <2>2, <2>3, <2>4, <2>5, <2>6, <2>7, <2>8, <2>9 DEF Sending
<1>2. ASSUME NEW p \in Hooks, Draining(p) \/ StartClear(p) PROVE TypeInv'
  <2>1. p \in Procs
    BY DEF Procs
  <2>2. CASE Drain(p) \/ StartClear(p)
    BY <2>2, TypeDrain
  <2>3. CASE OpenLock(p)
    BY <2>1, <2>3, TypeOpenLock
  <2>4. CASE Lock(p)
    BY <2>1, <2>4, TypeLock
  <2>5. CASE Take(p)
    BY <2>5, TypeTake
  <2>6. CASE Replace(p)
    BY <2>6, TypeReplace
  <2>7. CASE Count(p)
    BY <2>7, TypeCount
  <2>8. CASE Present(p)
    BY <2>8, TypePresent
  <2>9. CASE Clear(p)
    BY <2>9, TypeClear
  <2>10. CASE ClearCount(p)
    BY <2>10, TypeClearCount
  <2>11. QED
    BY <1>2, <2>2, <2>3, <2>4, <2>5, <2>6, <2>7, <2>8, <2>9, <2>10 DEF Draining
<1>3. ASSUME NEW p \in Procs, LockTimeOut(p) \/ Die(p) PROVE TypeInv'
  BY <1>3, TypeLockTimeOut, TypeDie
<1>4. CASE RetireDir \/ RemakeDir
  BY <1>4, TypeRetireDir, TypeRemakeDir
<1>5. CASE UNCHANGED vars
  BY <1>5, TypeStutter
<1>6. QED
  BY <1>1, <1>2, <1>3, <1>4, <1>5 DEF Next

(* What is in the inbox, who holds its lock and what is under way are      *)
(* always of their kind, whoever dies and however often the dir is gone.   *)
THEOREM TypeCorrect == Spec => []TypeOK
<1>1. Spec => []TypeInv
  BY TypeInit, TypeStep, PTL DEF Spec
<1>2. TypeInv => TypeOK
  BY DEF TypeInv
<1>3. QED
  BY <1>1, <1>2, PTL

-----------------------------------------------------------------------------
(* The lock.                                                               *)

(* What no process but p does.                                             *)
Others(p) ==
    \A q \in Procs \ {p} :
        /\ pc'[q] = pc[q] /\ msg'[q] = msg[q] /\ home'[q] = home[q] /\ fd'[q] = fd[q]
        /\ load'[q] = load[q] /\ kept'[q] = kept[q]

LEMMA FinishOthers ==
    ASSUME TypeInv, NEW p \in Procs, Finish(p)
    PROVE  /\ Others(p) /\ pc'[p] = "idle" /\ msg'[p] = Nothing
           /\ \A d \in Dirs : holder'[d] = IF holder[d] = p THEN Nothing ELSE holder[d]
BY TypeParts DEF Finish, Unlock, Forget, Goto, Others, OwnOK

LEMMA GotoOthers ==
    ASSUME TypeInv, NEW p \in Procs, NEW point, Goto(p, point),
           UNCHANGED <<msg, home, fd, kept, load>>
    PROVE  Others(p) /\ pc'[p] = point
BY TypeParts DEF Goto, Others, OwnOK

LEMMA HoldFinish ==
    ASSUME TypeInv, HoldInv, NEW p \in Procs, Others(p), pc'[p] \in Outside,
           \A d \in Dirs : holder'[d] = IF holder[d] = p THEN Nothing ELSE holder[d]
    PROVE  HoldInv'
<1>1. ASSUME NEW q \in Procs, pc'[q] \notin Outside PROVE holder'[home'[q]] = q
  <2>1. q \in Procs \ {p} /\ pc'[q] = pc[q] /\ home'[q] = home[q]
    BY <1>1 DEF Others
  <2>2. home[q] \in Dirs /\ holder[home[q]] = q
    BY <1>1, <2>1, TypeParts DEF PointInv, HoldInv
  <2>3. QED
    BY <2>1, <2>2
<1>2. QED
  BY <1>1 DEF HoldInv

LEMMA HoldOn ==
    ASSUME TypeInv, HoldInv, NEW p \in Procs, Others(p), holder' = holder,
           pc'[p] \notin Outside => pc[p] \notin Outside /\ home'[p] = home[p]
    PROVE  HoldInv'
<1>1. ASSUME NEW q \in Procs, pc'[q] \notin Outside PROVE holder'[home'[q]] = q
  <2>1. pc[q] \notin Outside /\ home'[q] = home[q]
    BY <1>1 DEF Others
  <2>2. QED
    BY <2>1 DEF HoldInv
<1>2. QED
  BY <1>1 DEF HoldInv

LEMMA HoldLock ==
    ASSUME TypeInv, HoldInv, NEW p \in Procs, Lock(p)
    PROVE  HoldInv'
<1>1. /\ home[p] \in Dirs /\ holder[home[p]] = Nothing
      /\ holder' = [holder EXCEPT ![home[p]] = p] /\ home' = home /\ Others(p)
  <2>1. PICK point : point = Locked(p)
    OBVIOUS
  <2>2. Goto(p, point) /\ UNCHANGED <<msg, home, fd, kept, load>>
    BY <2>1 DEF Lock, own
  <2>3. Others(p)
    BY <2>2, GotoOthers
  <2>4. home[p] \in Dirs
    BY TypeParts DEF Lock, PointInv, Waits
  <2>5. QED
    BY <2>2, <2>3, <2>4 DEF Lock
<1>2. \A d \in Dirs : holder'[d] = IF d = home[p] THEN p ELSE holder[d]
  BY <1>1, TypeParts DEF OwnOK
<1>3. ASSUME NEW q \in Procs, pc'[q] \notin Outside PROVE holder'[home'[q]] = q
  <2>1. CASE q = p
    BY <1>1, <1>2, <2>1
  <2>2. CASE q # p
    <3>1. pc'[q] = pc[q]
      BY <1>1, <2>2 DEF Others
    <3>2. home[q] \in Dirs /\ holder[home[q]] = q
      BY <1>3, <3>1, TypeParts DEF PointInv, HoldInv
    <3>3. q # Nothing
      BY DEF Procs
    <3>4. home[q] # home[p]
      BY <1>1, <3>2, <3>3
    <3>5. QED
      BY <1>1, <1>2, <3>2, <3>4
  <2>3. QED
    BY <2>1, <2>2
<1>4. QED
  BY <1>3 DEF HoldInv

(* Two processes do not hold the lock of one dir.                          *)
LEMMA OneHolder ==
    ASSUME HoldInv, NEW p \in Procs, NEW q \in Procs,
           pc[p] \notin Outside, pc[q] \notin Outside, home[p] = home[q]
    PROVE  p = q
BY DEF HoldInv

LEMMA HoldStep == TypeInv /\ HoldInv /\ [Next]_vars => HoldInv'
<1> SUFFICES ASSUME TypeInv, HoldInv, [Next]_vars PROVE HoldInv'
  OBVIOUS
<1>1. ASSUME NEW p \in Procs, Finish(p) PROVE HoldInv'
  BY <1>1, FinishOthers, HoldFinish DEF Outside
<1>2. ASSUME NEW p \in Procs, NEW point, Goto(p, point),
             UNCHANGED <<holder, msg, home, fd, kept, load>>,
             point \notin Outside => pc[p] \notin Outside
      PROVE  HoldInv'
  BY <1>2, GotoOthers, HoldOn
<1>3. ASSUME NEW p \in Senders, Speaking(p) \/ Sending(p) PROVE HoldInv'
  <2>1. p \in Procs /\ "make" \in Outside /\ "lock" \in Outside
        /\ {"append", "tail", "gen", "line"} \cap Outside = {}
    BY DEF Procs, Outside
  <2>2. CASE Speaking(p)
    <3>1. PICK m \in Messages : Say(p, m)
      BY <2>2 DEF Speaking
    <3>2. Others(p) /\ pc'[p] = "make" /\ holder' = holder
      BY <2>1, <3>1, TypeParts DEF Say, Goto, Others, OwnOK
    <3>3. QED
      BY <2>1, <3>2, HoldOn
  <2>3. CASE MakeDir(p)
    BY <2>1, <2>3, <1>2 DEF MakeDir, own
  <2>4. CASE OpenLock(p)
    <3>1. CASE cur = None
      BY <2>1, <2>4, <3>1, <1>1 DEF OpenLock
    <3>2. CASE cur # None
      <4>1. /\ pc' = [pc EXCEPT ![p] = Wait(pc[p])] /\ home' = [home EXCEPT ![p] = cur]
            /\ UNCHANGED <<holder, msg, fd, kept, load>> /\ pc[p] \in {"lock", "clear lock"}
        BY <2>4, <3>2 DEF OpenLock, Goto
      <4>2. Wait(pc[p]) \in Outside
        BY <4>1 DEF Wait, Outside
      <4>3. Others(p) /\ pc'[p] \in Outside
        BY <2>1, <4>1, <4>2, TypeParts DEF Others, OwnOK
      <4>4. QED
        BY <2>1, <4>1, <4>3, HoldOn
    <3>3. QED
      BY <3>1, <3>2
  <2>5. CASE Lock(p)
    BY <2>1, <2>5, HoldLock
  <2>6. CASE OpenInbox(p)
    <3>1. CASE cur = None
      BY <2>1, <2>6, <3>1, <1>1 DEF OpenInbox
    <3>2. CASE cur # None
      <4>1. PICK point : Goto(p, point)
        BY <2>6, <3>2 DEF OpenInbox
      <4>2. /\ pc[p] = "append" /\ fd' = [fd EXCEPT ![p] = cur]
            /\ UNCHANGED <<holder, msg, home, kept, load>>
        BY <2>6, <3>2 DEF OpenInbox
      <4>3. Others(p)
        BY <2>1, <4>1, <4>2, TypeParts DEF Others, OwnOK, Goto
      <4>4. QED
        BY <2>1, <4>2, <4>3, HoldOn
    <3>3. QED
      BY <3>1, <3>2
  <2>7. CASE CheckTail(p)
    <3>1. pc[p] = "tail" /\ (Finish(p) \/ (Goto(p, "line") /\ UNCHANGED <<holder, own>>))
      BY <2>7 DEF CheckTail
    <3>2. QED
      BY <2>1, <3>1, <1>1, <1>2 DEF own
  <2>8. CASE Bump(p)
    <3>1. pc[p] = "gen" /\ (Finish(p) \/ (Goto(p, "line") /\ UNCHANGED <<holder, own>>))
      BY <2>8 DEF Bump
    <3>2. QED
      BY <2>1, <3>1, <1>1, <1>2 DEF own
  <2>9. CASE WriteLine(p)
    BY <2>1, <2>9, <1>1 DEF WriteLine
  <2>10. QED
    BY <1>3, <2>2, <2>3, <2>4, <2>5, <2>6, <2>7, <2>8, <2>9 DEF Sending
<1>4. ASSUME NEW p \in Hooks, Draining(p) \/ StartClear(p) PROVE HoldInv'
  <2>1. /\ p \in Procs /\ "lock" \in Outside /\ "clear lock" \in Outside
        /\ {"take", "replace", "count", "clear", "clear count"} \cap Outside = {}
    BY DEF Procs, Outside
  <2>2. CASE Drain(p) \/ StartClear(p)
    BY <2>1, <2>2, <1>2 DEF Drain, StartClear, own
  <2>3. CASE OpenLock(p)
    <3>1. CASE cur = None
      BY <2>1, <2>3, <3>1, <1>1 DEF OpenLock
    <3>2. CASE cur # None
      <4>1. /\ pc' = [pc EXCEPT ![p] = Wait(pc[p])] /\ home' = [home EXCEPT ![p] = cur]
            /\ UNCHANGED <<holder, msg, fd, kept, load>> /\ pc[p] \in {"lock", "clear lock"}
        BY <2>3, <3>2 DEF OpenLock, Goto
      <4>2. Wait(pc[p]) \in Outside
        BY <4>1 DEF Wait, Outside
      <4>3. Others(p) /\ pc'[p] \in Outside
        BY <2>1, <4>1, <4>2, TypeParts DEF Others, OwnOK
      <4>4. QED
        BY <2>1, <4>1, <4>3, HoldOn
    <3>3. QED
      BY <3>1, <3>2
  <2>4. CASE Lock(p)
    BY <2>1, <2>4, HoldLock
  <2>5. CASE Take(p)
    <3>1. CASE Finish(p)
      BY <2>1, <3>1, <1>1
    <3>2. CASE ~ Finish(p)
      <4>1. /\ pc[p] = "take" /\ Goto(p, "replace") /\ UNCHANGED <<holder, msg, home, fd>>
            /\ \E as, bs : load' = [load EXCEPT ![p] = as] /\ kept' = [kept EXCEPT ![p] = bs]
        <5>1. pc[p] = "take"
          BY <2>5 DEF Take
        <5>2. QED
          BY <2>5, <3>2, <5>1, TakeCuts
      <4>2. Others(p)
        BY <2>1, <4>1, TypeParts DEF Others, OwnOK, Goto
      <4>3. QED
        BY <2>1, <4>1, <4>2, HoldOn
    <3>3. QED
      BY <3>1, <3>2
  <2>6. CASE Replace(p)
    <3>1. pc[p] = "replace" /\ (Finish(p) \/ (Goto(p, "count") /\ UNCHANGED <<holder, own>>))
      BY <2>6 DEF Replace
    <3>2. QED
      BY <2>1, <3>1, <1>1, <1>2 DEF own
  <2>7. CASE Count(p)
    <3>1. Others(p) /\ pc'[p] = "print"
          /\ \A d \in Dirs : holder'[d] = IF holder[d] = p THEN Nothing ELSE holder[d]
      BY <2>1, <2>7, TypeParts DEF Count, Unlock, Forget, Goto, Others, OwnOK
    <3>2. QED
      BY <2>1, <3>1, HoldFinish DEF Outside
  <2>8. CASE Present(p)
    BY <2>1, <2>8, <1>1 DEF Present
  <2>9. CASE Clear(p)
    <3>1. pc[p] = "clear" /\ (Finish(p) \/ (Goto(p, "clear count") /\ UNCHANGED <<holder, own>>))
      BY <2>9 DEF Clear
    <3>2. QED
      BY <2>1, <3>1, <1>1, <1>2 DEF own
  <2>10. CASE ClearCount(p)
    BY <2>1, <2>10, <1>1 DEF ClearCount
  <2>11. QED
    BY <1>4, <2>2, <2>3, <2>4, <2>5, <2>6, <2>7, <2>8, <2>9, <2>10 DEF Draining
<1>5. ASSUME NEW p \in Procs, LockTimeOut(p) \/ Die(p) PROVE HoldInv'
  BY <1>5, <1>1 DEF LockTimeOut, Die
<1>6. CASE RetireDir \/ RemakeDir \/ UNCHANGED vars
  <2>1. UNCHANGED <<holder, pc, home>>
    BY <1>6 DEF RetireDir, RemakeDir, vars, own
  <2>2. QED
    BY <2>1 DEF HoldInv
<1>7. QED
  BY <1>3, <1>4, <1>5, <1>6 DEF Next

-----------------------------------------------------------------------------
(* The kinds of steps, by what they do to the files and to the messages.   *)

TailSeen(p) ==
    pc[p] \in {"gen", "line"} /\ fd[p] = home[p] /\ fd[p] \notin crossed => ~ open[fd[p]]
Fresh(p) == msg'[p] \notin Everywhere /\ \A q \in Procs : msg[q] # msg'[p]

(* Nothing moves but p itself, which is not about to show anything.        *)
Calm(p) ==
    /\ Others(p) /\ UNCHANGED <<lines, arrived, taken, printed, dropped, cur, made>>
    /\ crossed \subseteq crossed' /\ \A d \in Dirs : open'[d] => open[d]
    /\ pc[p] \notin {"count", "print"} /\ pc'[p] \notin {"replace", "count", "print"}
    /\ TailSeen(p)'
    /\ msg'[p] \in {msg[p], Nothing} \/ Fresh(p)
(* The dir goes or comes.                                                  *)
DirStep ==
    /\ UNCHANGED <<files, own, past>>
    /\ \A q \in Procs : pc'[q] = pc[q] \/ (pc[q] = "make" /\ pc'[q] = "lock")
    /\ cur' = None \/ (cur = None /\ cur' = made + 1)
(* A line is written, whole or not.                                        *)
LineStep(p) ==
    /\ pc[p] = "line" /\ pc'[p] = "idle" /\ msg'[p] = Nothing
    /\ Others(p) /\ UNCHANGED <<taken, printed, dropped, cur, made>>
    /\ crossed' = Cross(p, fd[p])
    /\ \E l \in {Torn, msg[p]}, b \in BOOLEAN :
        /\ lines' = [lines EXCEPT ![fd[p]] = WithLine(@, l, open[fd[p]])]
        /\ open' = [open EXCEPT ![fd[p]] = b]
        /\ IF l = Torn \/ open[fd[p]] THEN arrived' = arrived ELSE Arrive(fd[p], msg[p])
(* Lines are read, to be taken or kept.                                    *)
TakeStep(p) ==
    /\ pc[p] = "take" /\ pc'[p] = "replace" /\ Others(p)
    /\ UNCHANGED <<lines, open, arrived, taken, printed, dropped, cur, made, home, msg>>
    /\ cur \in Dirs /\ crossed' = Cross(p, cur)
    /\ load'[p] \o kept'[p] = IntactOf(lines[cur])
(* The file is written anew, with ls in it and without ms.                 *)
Rewrite(p, ls, ms) ==
    /\ cur \in Dirs /\ crossed' = Cross(p, cur) /\ UNCHANGED <<arrived, printed, cur, made>>
    /\ Others(p) /\ UNCHANGED <<home, load, msg>>
    /\ lines' = [lines EXCEPT ![cur] = ls] /\ open' = [open EXCEPT ![cur] = FALSE]
    /\ taken' = [taken EXCEPT ![cur] = @ \o ms]
ReplaceStep(p) ==
    pc[p] = "replace" /\ pc'[p] = "count" /\ Rewrite(p, kept[p], load[p]) /\ dropped' = dropped
ClearStep(p) ==
    /\ pc[p] = "clear" /\ pc'[p] = "clear count"
    /\ Rewrite(p, <<>>, IntactOf(lines[cur]))
    /\ dropped' = dropped \cup ToSet(IntactOf(lines[cur]))
(* What was taken goes towards the payload, into it, or with its hook.     *)
Aside(p) ==
    /\ Others(p) /\ UNCHANGED <<lines, open, arrived, taken, crossed, cur, made>>
    /\ msg'[p] = Nothing
CountStep(p) ==
    /\ pc[p] = "count" /\ pc'[p] = "print" /\ load'[p] = load[p]
    /\ Aside(p) /\ UNCHANGED <<printed, dropped>>
PrintStep(p) ==
    /\ pc[p] = "print" /\ pc'[p] = "idle" /\ Aside(p)
    /\ printed' = printed \o load[p] /\ dropped' = dropped
DeathStep(p) ==
    /\ pc[p] \in {"count", "print"} /\ pc'[p] = "idle" /\ Aside(p)
    /\ dropped' = dropped \cup ToSet(load[p]) /\ printed' = printed

LEMMA CalmFinish ==
    ASSUME TypeInv, NEW p \in Procs, Finish(p), pc[p] \notin {"count", "print"},
           UNCHANGED <<lines, arrived, taken, printed, dropped, cur, made>>,
           crossed \subseteq crossed', \A d \in Dirs : open'[d] => open[d]
    PROVE  Calm(p)
<1>1. Others(p) /\ pc'[p] = "idle" /\ msg'[p] = Nothing
  BY FinishOthers
<1>2. TailSeen(p)'
  BY <1>1 DEF TailSeen
<1>3. QED
  BY <1>1, <1>2 DEF Calm

LEMMA CalmGoto ==
    ASSUME TypeInv, NEW p \in Procs, NEW point, Goto(p, point),
           pc[p] \notin {"count", "print"}, point \notin {"gen", "line", "replace", "count", "print"},
           UNCHANGED <<msg, home, fd, kept, load>>,
           UNCHANGED <<lines, open, arrived, taken, printed, dropped, cur, made, crossed>>
    PROVE  Calm(p)
<1>1. Others(p) /\ pc'[p] = point
  BY GotoOthers
<1>2. TailSeen(p)'
  BY <1>1 DEF TailSeen
<1>3. QED
  BY <1>1, <1>2 DEF Calm

LEMMA SayKind ==
    ASSUME TypeInv, NEW p \in Senders, NEW m \in Messages, Say(p, m)
    PROVE  Calm(p)
<1>1. p \in Procs /\ OwnOK
  BY TypeParts DEF Procs
<1>2. /\ pc[p] = "idle" /\ m \notin Everywhere /\ \A q \in Procs : msg[q] # m
      /\ msg' = [msg EXCEPT ![p] = m] /\ pc' = [pc EXCEPT ![p] = "make"]
      /\ UNCHANGED <<files, dirs, home, fd, kept, load, past>>
  BY DEF Say, Goto
<1>3. Others(p) /\ pc'[p] = "make" /\ msg'[p] = m
  BY <1>1, <1>2 DEF Others, OwnOK
<1>4. Fresh(p)
  BY <1>2, <1>3 DEF Fresh
<1>5. TailSeen(p)'
  BY <1>3 DEF TailSeen
<1>6. QED
  BY <1>2, <1>3, <1>4, <1>5 DEF Calm, files, dirs, past

LEMMA MakeKind ==
    ASSUME TypeInv, NEW p \in Senders, MakeDir(p)
    PROVE  Calm(p) \/ DirStep
<1>1. p \in Procs /\ OwnOK
  BY TypeParts DEF Procs
<1>2. pc[p] = "make" /\ Goto(p, "lock") /\ UNCHANGED <<files, holder, own, faults, past>>
  BY DEF MakeDir
<1>3. CASE cur = None
  <2>1. cur' = made + 1
    BY <1>3 DEF MakeDir
  <2>2. \A q \in Procs : pc'[q] = pc[q] \/ (pc[q] = "make" /\ pc'[q] = "lock")
    BY <1>1, <1>2 DEF Goto, OwnOK
  <2>3. QED
    BY <1>2, <1>3, <2>1, <2>2 DEF DirStep
<1>4. CASE cur # None
  <2>1. UNCHANGED <<cur, made>>
    BY <1>4 DEF MakeDir
  <2>2. QED
    BY <1>1, <1>2, <2>1, CalmGoto DEF own, files, past
<1>5. QED
  BY <1>3, <1>4

LEMMA LockKinds ==
    ASSUME TypeInv, NEW p \in Procs, OpenLock(p) \/ Lock(p)
    PROVE  Calm(p)
<1>1. CASE OpenLock(p)
  <2>1. pc[p] \in {"lock", "clear lock"} /\ UNCHANGED <<files, dirs, faults, past>>
    BY <1>1 DEF OpenLock
  <2>2. CASE cur = None
    BY <1>1, <2>1, <2>2, CalmFinish DEF OpenLock, files, dirs, past
  <2>3. CASE cur # None
    <3>1. PICK point : point = Wait(pc[p])
      OBVIOUS
    <3>2. /\ home' = [home EXCEPT ![p] = cur] /\ pc' = [pc EXCEPT ![p] = point]
          /\ UNCHANGED <<msg, fd, kept, load>>
      BY <1>1, <2>3, <3>1 DEF OpenLock, Goto
    <3>3. point \in {"wait", "clear wait"}
      BY <2>1, <3>1 DEF Wait
    <3>4. Others(p) /\ pc'[p] = point /\ msg'[p] = msg[p]
      BY <3>2, TypeParts DEF Others, OwnOK
    <3>5. TailSeen(p)'
      BY <3>3, <3>4 DEF TailSeen
    <3>6. QED
      BY <2>1, <3>3, <3>4, <3>5 DEF Calm, files, dirs, past
  <2>4. QED
    BY <2>2, <2>3
<1>2. CASE Lock(p)
  <2>1. PICK point : point = Locked(p)
    OBVIOUS
  <2>2. /\ pc[p] \in {"wait", "clear wait"} /\ Goto(p, point)
        /\ UNCHANGED <<files, dirs, own, faults, past>>
    BY <1>2, <2>1 DEF Lock
  <2>3. point \in {"clear", "append", "take"}
    BY <2>1 DEF Locked
  <2>4. QED
    BY <2>2, <2>3, CalmGoto DEF files, dirs, own, past
<1>3. QED
  BY <1>1, <1>2

LEMMA OpenInboxKind ==
    ASSUME TypeInv, TailInv, NEW p \in Senders, OpenInbox(p)
    PROVE  Calm(p)
<1>1. p \in Procs /\ OwnOK /\ DirsOK /\ FilesOK
  BY TypeParts DEF Procs
<1>2. pc[p] = "append" /\ UNCHANGED <<files, dirs, faults, past>>
  BY DEF OpenInbox
<1>3. CASE cur = None
  BY <1>1, <1>2, <1>3, CalmFinish DEF OpenInbox, files, dirs, past
<1>4. CASE cur # None
  <2>1. PICK point : point = IF lines[cur] = <<>> THEN "gen" ELSE "tail"
    OBVIOUS
  <2>2. /\ fd' = [fd EXCEPT ![p] = cur] /\ pc' = [pc EXCEPT ![p] = point]
        /\ UNCHANGED <<msg, home, kept, load>>
    BY <1>4, <2>1 DEF OpenInbox, Goto
  <2>3. Others(p) /\ pc'[p] = point /\ msg'[p] = msg[p] /\ fd'[p] = cur
    BY <1>1, <2>2 DEF Others, OwnOK
  <2>4. point = "gen" => ~ open[cur]
    <3>1. cur \in Dirs
      BY <1>1, <1>4 DEF DirsOK
    <3>2. QED
      BY <2>1, <3>1 DEF TailInv
  <2>5. TailSeen(p)'
    BY <1>2, <2>1, <2>3, <2>4 DEF TailSeen, files
  <2>6. QED
    BY <1>2, <2>1, <2>3, <2>5 DEF Calm, files, dirs, past
<1>5. QED
  BY <1>3, <1>4

LEMMA CheckTailKind ==
    ASSUME TypeInv, NEW p \in Senders, CheckTail(p)
    PROVE  Calm(p)
<1>1. p \in Procs /\ OwnOK /\ DirsOK /\ FilesOK
  BY TypeParts DEF Procs
<1>2. /\ pc[p] = "tail" /\ UNCHANGED <<lines, short, dirs, faults, arrived, taken, printed, dropped>>
      /\ crossed' = IF cur # fd[p] THEN crossed \cup {fd[p]} ELSE crossed
      /\ Finish(p) \/ (Goto(p, "line") /\ UNCHANGED <<holder, own>>)
  BY DEF CheckTail
<1>3. fd[p] \in Dirs
  BY <1>1, <1>2, AtLine DEF Opened
<1>4. crossed \subseteq crossed' /\ \A d \in Dirs : open'[d] => open[d]
  BY <1>1, <1>2, <1>3 DEF CheckTail, EndTail, FilesOK
<1>5. CASE Finish(p)
  BY <1>1, <1>2, <1>4, <1>5, CalmFinish DEF dirs
<1>6. CASE Goto(p, "line") /\ UNCHANGED <<holder, own>> /\ ~ Finish(p)
  <2>1. Others(p) /\ pc'[p] = "line" /\ msg'[p] = msg[p]
    BY <1>1, <1>6, GotoOthers DEF own
  <2>2. cur = fd[p] => ~ open'[fd[p]]
    BY <1>1, <1>3, <1>6 DEF CheckTail, EndTail, FilesOK
  <2>3. TailSeen(p)'
    BY <1>2, <1>6, <2>2 DEF TailSeen, own
  <2>4. QED
    BY <1>2, <1>4, <2>1, <2>3 DEF Calm, dirs
<1>7. QED
  BY <1>2, <1>5, <1>6

LEMMA BumpKind ==
    ASSUME TypeInv, TailInv, NEW p \in Senders, Bump(p)
    PROVE  Calm(p)
<1>1. p \in Procs /\ OwnOK
  BY TypeParts DEF Procs
<1>2. /\ pc[p] = "gen" /\ UNCHANGED <<files, dirs, faults, past>>
      /\ Finish(p) \/ (Goto(p, "line") /\ UNCHANGED <<holder, own>>)
  BY DEF Bump
<1>3. CASE Finish(p)
  BY <1>1, <1>2, <1>3, CalmFinish DEF files, dirs, past
<1>4. CASE Goto(p, "line") /\ UNCHANGED <<holder, own>>
  <2>1. Others(p) /\ pc'[p] = "line" /\ msg'[p] = msg[p]
    BY <1>1, <1>4, GotoOthers DEF own
  <2>2. fd[p] = home[p] /\ fd[p] \notin crossed => ~ open[fd[p]]
    BY <1>1, <1>2 DEF TailInv
  <2>3. TailSeen(p)'
    BY <1>2, <1>4, <2>2 DEF TailSeen, own, files, past
  <2>4. QED
    BY <1>2, <2>1, <2>3 DEF Calm, files, dirs, past
<1>5. QED
  BY <1>2, <1>3, <1>4

LEMMA WriteKind ==
    ASSUME TypeInv, NEW p \in Senders, WriteLine(p)
    PROVE  LineStep(p)
<1>1. /\ pc[p] = "line" /\ Finish(p) /\ UNCHANGED <<short, dirs, faults, taken, printed, dropped>>
      /\ lines' = [lines EXCEPT ![fd[p]] = WithLine(@, msg[p], open[fd[p]])]
      /\ open' = [open EXCEPT ![fd[p]] = FALSE]
      /\ IF open[fd[p]] THEN arrived' = arrived ELSE Arrive(fd[p], msg[p])
      /\ crossed' = Cross(p, fd[p])
  BY DEF WriteLine
<1>2. p \in Procs /\ msg[p] # Torn
  BY <1>1, AtLine DEF Opened, Procs
<1>3. Others(p) /\ pc'[p] = "idle" /\ msg'[p] = Nothing
  BY <1>1, <1>2, FinishOthers
<1>4. \E l \in {Torn, msg[p]}, b \in BOOLEAN :
        /\ lines' = [lines EXCEPT ![fd[p]] = WithLine(@, l, open[fd[p]])]
        /\ open' = [open EXCEPT ![fd[p]] = b]
        /\ IF l = Torn \/ open[fd[p]] THEN arrived' = arrived ELSE Arrive(fd[p], msg[p])
  BY <1>1, <1>2
<1>5. QED
  BY <1>1, <1>3, <1>4 DEF LineStep, dirs

LEMMA DrainKind ==
    ASSUME TypeInv, NEW p \in Hooks, Drain(p) \/ StartClear(p)
    PROVE  Calm(p)
<1>1. PICK point \in {"lock", "clear lock"} : Goto(p, point)
  BY DEF Drain, StartClear
<1>2. pc[p] = "idle" /\ UNCHANGED <<files, dirs, own, past>> /\ p \in Procs
  BY DEF Drain, StartClear, Procs
<1>3. QED
  BY <1>1, <1>2, CalmGoto DEF files, dirs, own, past

LEMMA TakeKind ==
    ASSUME TypeInv, NEW p \in Hooks, Take(p)
    PROVE  Calm(p) \/ TakeStep(p)
<1>1. p \in Procs /\ OwnOK /\ pc[p] = "take"
      /\ UNCHANGED <<files, dirs, faults, arrived, taken, printed, dropped>>
  BY TypeParts DEF Procs, Take
<1>2. CASE Finish(p) /\ UNCHANGED crossed
  BY <1>1, <1>2, CalmFinish DEF files, dirs
<1>3. CASE /\ cur \in Dirs /\ crossed' = Cross(p, cur)
           /\ Goto(p, "replace") /\ UNCHANGED <<holder, msg, home, fd>>
           /\ \E as, bs \in Seq(Messages) :
                /\ load' = [load EXCEPT ![p] = as] /\ kept' = [kept EXCEPT ![p] = bs]
                /\ as \o bs = IntactOf(lines[cur])
  <2>1. PICK as, bs \in Seq(Messages) :
            /\ load' = [load EXCEPT ![p] = as] /\ kept' = [kept EXCEPT ![p] = bs]
            /\ as \o bs = IntactOf(lines[cur])
    BY <1>3
  <2>2. load'[p] \o kept'[p] = IntactOf(lines[cur])
    BY <1>1, <2>1 DEF OwnOK
  <2>3. Others(p) /\ pc'[p] = "replace"
    BY <1>1, <1>3, <2>1 DEF Others, OwnOK, Goto
  <2>4. QED
    BY <1>1, <1>3, <2>2, <2>3 DEF TakeStep, files, dirs
<1>4. QED
  BY <1>2, <1>3, TakeCuts

LEMMA ReplaceKind ==
    ASSUME TypeInv, NEW p \in Hooks, Replace(p)
    PROVE  Calm(p) \/ ReplaceStep(p)
<1>1. p \in Procs /\ OwnOK /\ DirsOK /\ pc[p] = "replace"
      /\ UNCHANGED <<short, dirs, faults, arrived, printed, dropped>>
  BY TypeParts DEF Procs, Replace
<1>2. CASE cur = None
  BY <1>1, <1>2, CalmFinish DEF Replace, dirs
<1>3. CASE cur # None
  <2>1. /\ lines' = [lines EXCEPT ![cur] = kept[p]] /\ open' = [open EXCEPT ![cur] = FALSE]
        /\ taken' = [taken EXCEPT ![cur] = @ \o load[p]] /\ crossed' = Cross(p, cur)
        /\ Goto(p, "count") /\ UNCHANGED <<holder, own>>
    BY <1>3 DEF Replace
  <2>2. Others(p) /\ pc'[p] = "count"
    BY <1>1, <2>1, GotoOthers DEF own
  <2>3. cur \in Dirs
    BY <1>1, <1>3 DEF DirsOK
  <2>4. QED
    BY <1>1, <2>1, <2>2, <2>3 DEF ReplaceStep, Rewrite, dirs, own
<1>4. QED
  BY <1>2, <1>3

LEMMA ClearKind ==
    ASSUME TypeInv, NEW p \in Hooks, Clear(p)
    PROVE  Calm(p) \/ ClearStep(p)
<1>1. p \in Procs /\ OwnOK /\ DirsOK /\ pc[p] = "clear"
      /\ UNCHANGED <<short, dirs, faults, arrived, printed>>
  BY TypeParts DEF Procs, Clear
<1>2. CASE cur = None
  BY <1>1, <1>2, CalmFinish DEF Clear, dirs
<1>3. CASE cur # None
  <2>1. /\ lines' = [lines EXCEPT ![cur] = <<>>] /\ open' = [open EXCEPT ![cur] = FALSE]
        /\ taken' = [taken EXCEPT ![cur] = @ \o IntactOf(lines[cur])] /\ crossed' = Cross(p, cur)
        /\ dropped' = dropped \cup ToSet(IntactOf(lines[cur]))
        /\ Goto(p, "clear count") /\ UNCHANGED <<holder, own>>
    BY <1>3 DEF Clear
  <2>2. Others(p) /\ pc'[p] = "clear count"
    BY <1>1, <2>1, GotoOthers DEF own
  <2>3. cur \in Dirs
    BY <1>1, <1>3 DEF DirsOK
  <2>4. QED
    BY <1>1, <2>1, <2>2, <2>3 DEF ClearStep, Rewrite, dirs, own
<1>4. QED
  BY <1>2, <1>3

LEMMA ShowKinds ==
    ASSUME TypeInv, NEW p \in Hooks, Count(p) \/ Present(p) \/ ClearCount(p)
    PROVE  Calm(p) \/ CountStep(p) \/ PrintStep(p)
<1>1. p \in Procs /\ OwnOK
  BY TypeParts DEF Procs
<1>2. CASE Count(p)
  <2>1. Others(p) /\ pc'[p] = "print" /\ load'[p] = load[p] /\ msg'[p] = Nothing
    BY <1>1, <1>2 DEF Count, Unlock, Forget, Goto, Others, OwnOK
  <2>2. QED
    BY <1>2, <2>1 DEF Count, CountStep, Aside, files, dirs, past
<1>3. CASE Present(p)
  <2>1. Others(p) /\ pc'[p] = "idle" /\ msg'[p] = Nothing
    BY <1>1, <1>3, FinishOthers DEF Present
  <2>2. QED
    BY <1>3, <2>1 DEF Present, PrintStep, Aside, files, dirs
<1>4. CASE ClearCount(p)
  BY <1>1, <1>4, CalmFinish DEF ClearCount, files, dirs, past
<1>5. QED
  BY <1>2, <1>3, <1>4

LEMMA DieKind ==
    ASSUME TypeInv, NEW p \in Procs, Die(p)
    PROVE  Calm(p) \/ LineStep(p) \/ DeathStep(p)
<1>1. OwnOK /\ Finish(p) /\ UNCHANGED dirs
  BY TypeParts DEF Die
<1>2. Others(p) /\ pc'[p] = "idle" /\ msg'[p] = Nothing
  BY <1>1, FinishOthers
<1>3. CASE TornLine(p)
  <2>1. pc[p] = "line" /\ crossed' = Cross(p, fd[p]) /\ UNCHANGED <<short, taken, printed, dropped>>
    BY <1>3 DEF TornLine
  <2>2. CASE UNCHANGED <<lines, open, arrived>>
    <3>1. crossed \subseteq crossed'
      BY <2>1, CrossType
    <3>2. QED
      BY <1>1, <2>1, <2>2, <3>1, CalmFinish DEF dirs
  <2>3. CASE \E l \in {Torn, msg[p]} :
                /\ lines' = [lines EXCEPT ![fd[p]] = WithLine(@, l, open[fd[p]])]
                /\ open' = [open EXCEPT ![fd[p]] = TRUE]
                /\ IF l = Torn \/ open[fd[p]] THEN arrived' = arrived ELSE Arrive(fd[p], msg[p])
    BY <1>1, <1>2, <2>1, <2>3 DEF LineStep, dirs
  <2>4. QED
    BY <1>3, <2>2, <2>3 DEF TornLine
<1>4. CASE TornGen(p) \/ DiedClean(p)
  <2>1. UNCHANGED <<lines, open, arrived, taken, printed, crossed>>
    BY <1>4 DEF TornGen, DiedClean, files
  <2>2. CASE pc[p] \in {"count", "print"}
    <3>1. dropped' = dropped \cup ToSet(load[p])
      BY <1>4, <2>2 DEF TornGen, DiedClean
    <3>2. QED
      BY <1>1, <1>2, <2>1, <2>2, <3>1 DEF DeathStep, Aside, dirs
  <2>3. CASE pc[p] \notin {"count", "print"}
    <3>1. dropped' = dropped
      BY <1>4, <2>3 DEF TornGen, DiedClean
    <3>2. QED
      BY <1>1, <2>1, <2>3, <3>1, CalmFinish DEF dirs
  <2>4. QED
    BY <2>2, <2>3
<1>5. QED
  BY <1>3, <1>4, <1>1 DEF Die

LEMMA TimeOutKind ==
    ASSUME TypeInv, NEW p \in Procs, LockTimeOut(p)
    PROVE  Calm(p)
BY CalmFinish DEF LockTimeOut, files, dirs, past

Kinds(p) ==
    \/ Calm(p) \/ LineStep(p) \/ TakeStep(p) \/ ReplaceStep(p) \/ ClearStep(p)
    \/ CountStep(p) \/ PrintStep(p) \/ DeathStep(p)

LEMMA StepKinds ==
    ASSUME TypeInv, TailInv, [Next]_vars
    PROVE  (\E p \in Procs : Kinds(p)) \/ DirStep \/ UNCHANGED vars
<1>1. ASSUME NEW p \in Senders, Speaking(p) \/ Sending(p) PROVE Kinds(p) \/ DirStep
  <2>1. p \in Procs
    BY DEF Procs
  <2>2. CASE Speaking(p)
    BY <2>2, SayKind DEF Speaking, Kinds
  <2>3. CASE MakeDir(p)
    BY <2>3, MakeKind DEF Kinds
  <2>4. CASE OpenLock(p) \/ Lock(p)
    BY <2>1, <2>4, LockKinds DEF Kinds
  <2>5. CASE OpenInbox(p)
    BY <2>5, OpenInboxKind DEF Kinds
  <2>6. CASE CheckTail(p)
    BY <2>6, CheckTailKind DEF Kinds
  <2>7. CASE Bump(p)
    BY <2>7, BumpKind DEF Kinds
  <2>8. CASE WriteLine(p)
    BY <2>8, WriteKind DEF Kinds
  <2>9. QED
    BY <1>1, <2>2, <2>3, <2>4, <2>5, <2>6, <2>7, <2>8 DEF Sending
<1>2. ASSUME NEW p \in Hooks, Draining(p) \/ StartClear(p) PROVE Kinds(p)
  <2>1. p \in Procs
    BY DEF Procs
  <2>2. CASE Drain(p) \/ StartClear(p)
    BY <2>2, DrainKind DEF Kinds
  <2>3. CASE OpenLock(p) \/ Lock(p)
    BY <2>1, <2>3, LockKinds DEF Kinds
  <2>4. CASE Take(p)
    BY <2>4, TakeKind DEF Kinds
  <2>5. CASE Replace(p)
    BY <2>5, ReplaceKind DEF Kinds
  <2>6. CASE Clear(p)
    BY <2>6, ClearKind DEF Kinds
  <2>7. CASE Count(p) \/ Present(p) \/ ClearCount(p)
    BY <2>7, ShowKinds DEF Kinds
  <2>8. QED
    BY <1>2, <2>2, <2>3, <2>4, <2>5, <2>6, <2>7 DEF Draining
<1>3. ASSUME NEW p \in Procs, LockTimeOut(p) \/ Die(p) PROVE Kinds(p)
  BY <1>3, TimeOutKind, DieKind DEF Kinds
<1>4. CASE RetireDir \/ RemakeDir
  <2>1. UNCHANGED <<files, own, past>> /\ pc' = pc
    BY <1>4 DEF RetireDir, RemakeDir
  <2>2. cur' = None \/ (cur = None /\ cur' = made + 1)
    BY <1>4 DEF RetireDir, RemakeDir
  <2>3. QED
    BY <2>1, <2>2 DEF DirStep
<1>5. QED
  BY <1>1, <1>2, <1>3, <1>4 DEF Next, Procs

-----------------------------------------------------------------------------
(* Tails.                                                                  *)

LEMMA TailKeeps ==
    ASSUME TypeInv, TailInv, NEW p \in Procs, Others(p), TailSeen(p)', crossed \subseteq crossed',
           \A d \in Dirs : open'[d] => open[d], \A d \in Dirs : open'[d] => lines'[d] # <<>>
    PROVE  TailInv'
<1>1. ASSUME NEW q \in Procs, pc'[q] \in {"gen", "line"}, fd'[q] = home'[q], fd'[q] \notin crossed'
      PROVE  ~ open'[fd'[q]]
  <2>1. CASE q = p
    BY <1>1, <2>1 DEF TailSeen
  <2>2. CASE q # p
    <3>1. pc[q] \in {"gen", "line"} /\ fd'[q] = fd[q] /\ home'[q] = home[q]
      BY <1>1, <2>2 DEF Others
    <3>2. fd[q] \notin crossed
      BY <1>1, <3>1
    <3>3. ~ open[fd[q]]
      BY <1>1, <3>1, <3>2 DEF TailInv
    <3>4. fd[q] \in Dirs
      BY <3>1, AtLine DEF Opened
    <3>5. QED
      BY <3>1, <3>3, <3>4
  <2>3. QED
    BY <2>1, <2>2
<1>2. QED
  BY <1>1 DEF TailInv

LEMMA CrossGrows ==
    ASSUME NEW p, NEW d, crossed' = Cross(p, d)
    PROVE  crossed \subseteq crossed' /\ (d \in Dirs /\ d \notin crossed' => home[p] = d)
BY DEF Cross

LEMMA TailLine ==
    ASSUME TypeInv, HoldInv, TailInv, NEW p \in Procs, LineStep(p)
    PROVE  TailInv'
<1>1. PICK l \in {Torn, msg[p]}, b \in BOOLEAN :
        /\ lines' = [lines EXCEPT ![fd[p]] = WithLine(@, l, open[fd[p]])]
        /\ open' = [open EXCEPT ![fd[p]] = b]
  BY DEF LineStep
<1>2. PICK d, ls : d = fd[p] /\ ls = WithLine(lines[d], l, open[d])
  OBVIOUS
<1>3. /\ pc[p] = "line" /\ pc'[p] = "idle" /\ Others(p) /\ crossed' = Cross(p, d)
      /\ d \in Dirs /\ msg[p] \in Messages
      /\ lines' = [lines EXCEPT ![d] = ls] /\ open' = [open EXCEPT ![d] = b]
  BY <1>1, <1>2, AtLine DEF LineStep, Opened
<1>4. \A e \in Dirs : /\ lines'[e] = IF e = d THEN ls ELSE lines[e]
                      /\ open'[e] = IF e = d THEN b ELSE open[e]
  BY <1>3, TypeParts DEF FilesOK
<1>5. ls # <<>>
  <2>1. lines[d] \in Lines /\ l \in Messages \cup {Torn}
    BY <1>3, TypeParts DEF FilesOK, Lines
  <2>2. Front(lines[d]) \in Lines
    BY <2>1, FrontType
  <2>3. Append(Front(lines[d]), Torn) # <<>> /\ Append(lines[d], l) # <<>>
    BY <2>1, <2>2, AppendProperties DEF Lines
  <2>4. QED
    BY <1>2, <2>3 DEF WithLine
<1>6. \A e \in Dirs : open'[e] => lines'[e] # <<>>
  BY <1>4, <1>5 DEF TailInv
<1>7. ASSUME NEW q \in Procs, pc'[q] \in {"gen", "line"}, fd'[q] = home'[q], fd'[q] \notin crossed'
      PROVE  ~ open'[fd'[q]]
  <2>1. q # p
    BY <1>3, <1>7
  <2>2. pc[q] \in {"gen", "line"} /\ fd'[q] = fd[q] /\ home'[q] = home[q]
    BY <1>3, <1>7, <2>1 DEF Others
  <2>3. fd[q] \in Dirs /\ fd[q] \notin crossed
    BY <1>3, <1>7, <2>2, AtLine, CrossGrows DEF Opened
  <2>4. ~ open[fd[q]]
    BY <1>7, <2>2, <2>3 DEF TailInv
  <2>5. fd[q] # d
    <3>1. SUFFICES ASSUME fd[q] = d PROVE FALSE
      OBVIOUS
    <3>2. home[p] = d /\ home[q] = d
      BY <1>3, <1>7, <2>2, <3>1, CrossGrows
    <3>3. pc[p] \notin Outside /\ pc[q] \notin Outside
      BY <1>3, <2>2 DEF Outside
    <3>4. QED
      BY <2>1, <3>2, <3>3, OneHolder
  <2>6. QED
    BY <1>4, <2>2, <2>3, <2>4, <2>5
<1>8. QED
  BY <1>6, <1>7 DEF TailInv

LEMMA TailRewrite ==
    ASSUME TypeInv, TailInv, NEW p \in Procs, NEW ls, NEW ms, Rewrite(p, ls, ms),
           pc'[p] \notin {"gen", "line"}
    PROVE  TailInv'
<1>1. /\ Others(p) /\ crossed' = Cross(p, cur) /\ cur \in Dirs
      /\ lines' = [lines EXCEPT ![cur] = ls] /\ open' = [open EXCEPT ![cur] = FALSE]
  BY DEF Rewrite
<1>2. \A d \in Dirs : /\ lines'[d] = IF d = cur THEN ls ELSE lines[d]
                      /\ open'[d] = IF d = cur THEN FALSE ELSE open[d]
  BY <1>1, TypeParts DEF FilesOK
<1>3. crossed \subseteq crossed'
  BY <1>1, CrossGrows
<1>4. TailSeen(p)'
  BY DEF TailSeen
<1>5. \A d \in Dirs : open'[d] => open[d]
  BY <1>2
<1>6. \A d \in Dirs : open'[d] => lines'[d] # <<>>
  BY <1>2 DEF TailInv
<1>7. QED
  BY <1>1, <1>3, <1>4, <1>5, <1>6, TailKeeps

LEMMA TailStep == TypeInv /\ HoldInv /\ TailInv /\ [Next]_vars => TailInv'
<1> SUFFICES ASSUME TypeInv, HoldInv, TailInv, [Next]_vars PROVE TailInv'
  OBVIOUS
<1>1. ASSUME NEW p \in Procs, Kinds(p) PROVE TailInv'
  <2>1. CASE Calm(p)
    BY <2>1, TailKeeps DEF Calm, TailInv
  <2>2. CASE LineStep(p)
    BY <2>2, TailLine
  <2>3. CASE TakeStep(p)
    <3>1. TailSeen(p)'
      BY <2>3 DEF TakeStep, TailSeen
    <3>2. crossed \subseteq crossed'
      BY <2>3, CrossGrows DEF TakeStep
    <3>3. QED
      BY <2>3, <3>1, <3>2, TailKeeps DEF TakeStep, TailInv
  <2>4. CASE ReplaceStep(p) \/ ClearStep(p)
    BY <2>4, TailRewrite DEF ReplaceStep, ClearStep
  <2>5. CASE CountStep(p) \/ PrintStep(p) \/ DeathStep(p)
    <3>1. Aside(p) /\ pc'[p] \in {"print", "idle"}
      BY <2>5 DEF CountStep, PrintStep, DeathStep
    <3>2. TailSeen(p)'
      BY <3>1 DEF TailSeen
    <3>3. QED
      BY <3>1, <3>2, TailKeeps DEF Aside, TailInv
  <2>6. QED
    BY <1>1, <2>1, <2>2, <2>3, <2>4, <2>5 DEF Kinds
<1>2. CASE DirStep
  BY <1>2 DEF DirStep, TailInv, files, own, past
<1>3. CASE UNCHANGED vars
  BY <1>3 DEF TailInv, vars, files, own, past
<1>4. QED
  BY <1>1, <1>2, <1>3, StepKinds

-----------------------------------------------------------------------------
(* Nothing is lost.                                                        *)

(* A file whose lock another holds changes only by a crossing.             *)
Unmoved(p) ==
    \A d \in Dirs \ crossed' : lines'[d] = lines[d] \/ (home[p] = d /\ pc[p] \notin Outside)

LEMMA ReadKeeps ==
    ASSUME TypeInv, HoldInv, ReadInv, NEW p \in Procs, Others(p), Unmoved(p),
           cur' = cur, crossed \subseteq crossed', pc'[p] # "replace"
    PROVE  ReadInv'
<1>1. ASSUME NEW q \in Procs, pc'[q] = "replace", cur' = home'[q], cur' \notin crossed'
      PROVE  load'[q] \o kept'[q] = IntactOf(lines'[cur'])
  <2>1. q # p
    BY <1>1
  <2>2. /\ pc[q] = "replace" /\ home'[q] = home[q] /\ load'[q] = load[q] /\ kept'[q] = kept[q]
    BY <1>1, <2>1 DEF Others
  <2>3. cur = home[q] /\ cur \notin crossed /\ pc[q] \notin Outside
    BY <1>1, <2>2 DEF Outside
  <2>4. cur \in Dirs
    BY <2>3, TypeParts DEF PointInv
  <2>5. lines'[cur] = lines[cur]
    <3>1. SUFFICES ASSUME home[p] = cur, pc[p] \notin Outside PROVE FALSE
      BY <1>1, <2>4 DEF Unmoved
    <3>2. QED
      BY <2>1, <2>3, <3>1, OneHolder
  <2>6. load[q] \o kept[q] = IntactOf(lines[cur])
    BY <2>2, <2>3 DEF ReadInv
  <2>7. QED
    BY <2>2, <2>5, <2>6
<1>2. QED
  BY <1>1 DEF ReadInv

LEMMA ReadTake ==
    ASSUME TypeInv, ReadInv, NEW p \in Procs, TakeStep(p)
    PROVE  ReadInv'
<1>1. ASSUME NEW q \in Procs, pc'[q] = "replace", cur' = home'[q], cur' \notin crossed'
      PROVE  load'[q] \o kept'[q] = IntactOf(lines'[cur'])
  <2>1. CASE q = p
    BY <2>1 DEF TakeStep
  <2>2. CASE q # p
    <3>1. pc[q] = "replace" /\ home'[q] = home[q] /\ load'[q] = load[q] /\ kept'[q] = kept[q]
          /\ crossed \subseteq crossed'
      BY <1>1, <2>2, CrossGrows DEF Others, TakeStep
    <3>2. QED
      BY <1>1, <3>1 DEF ReadInv, TakeStep
  <2>3. QED
    BY <2>1, <2>2
<1>2. QED
  BY <1>1 DEF ReadInv

LEMMA LineUnmoved ==
    ASSUME TypeInv, NEW p \in Procs, LineStep(p)
    PROVE  Unmoved(p)
<1>1. PICK l \in {Torn, msg[p]}, b \in BOOLEAN :
        lines' = [lines EXCEPT ![fd[p]] = WithLine(@, l, open[fd[p]])]
  BY DEF LineStep
<1>2. pc[p] = "line" /\ crossed' = Cross(p, fd[p])
  BY DEF LineStep
<1>3. \A d \in Dirs : d # fd[p] => lines'[d] = lines[d]
  BY <1>1, TypeParts DEF FilesOK
<1>4. fd[p] \in Dirs \ crossed' => home[p] = fd[p] /\ pc[p] \notin Outside
  BY <1>2, CrossGrows DEF Outside
<1>5. QED
  BY <1>3, <1>4 DEF Unmoved

LEMMA RewriteUnmoved ==
    ASSUME TypeInv, NEW p \in Procs, NEW ls, NEW ms, Rewrite(p, ls, ms),
           pc[p] \in {"replace", "clear"}
    PROVE  Unmoved(p)
<1>1. lines' = [lines EXCEPT ![cur] = ls] /\ crossed' = Cross(p, cur) /\ cur \in Dirs
  BY DEF Rewrite
<1>2. \A d \in Dirs : d # cur => lines'[d] = lines[d]
  BY <1>1, TypeParts DEF FilesOK
<1>3. cur \notin crossed' => home[p] = cur /\ pc[p] \notin Outside
  BY <1>1, CrossGrows DEF Outside
<1>4. QED
  BY <1>2, <1>3 DEF Unmoved

LEMMA ReadStep == TypeInv /\ HoldInv /\ TailInv /\ ReadInv /\ [Next]_vars => ReadInv'
<1> SUFFICES ASSUME TypeInv, HoldInv, TailInv, ReadInv, [Next]_vars PROVE ReadInv'
  OBVIOUS
<1>1. ASSUME NEW p \in Procs, Kinds(p) PROVE ReadInv'
  <2>1. CASE Calm(p)
    BY <2>1, ReadKeeps DEF Calm, Unmoved
  <2>2. CASE LineStep(p)
    <3>1. Unmoved(p)
      BY <2>2, LineUnmoved
    <3>2. crossed \subseteq crossed'
      BY <2>2, CrossGrows DEF LineStep
    <3>3. QED
      BY <2>2, <3>1, <3>2, ReadKeeps DEF LineStep
  <2>3. CASE TakeStep(p)
    BY <2>3, ReadTake
  <2>4. CASE ReplaceStep(p) \/ ClearStep(p)
    <3>1. PICK ls, ms : Rewrite(p, ls, ms)
      BY <2>4 DEF ReplaceStep, ClearStep
    <3>2. pc[p] \in {"replace", "clear"} /\ pc'[p] # "replace"
      BY <2>4 DEF ReplaceStep, ClearStep
    <3>3. Unmoved(p) /\ crossed \subseteq crossed'
      BY <3>1, <3>2, RewriteUnmoved, CrossGrows DEF Rewrite
    <3>4. QED
      BY <3>1, <3>2, <3>3, ReadKeeps DEF Rewrite
  <2>5. CASE CountStep(p) \/ PrintStep(p) \/ DeathStep(p)
    <3>1. Aside(p) /\ pc'[p] \in {"print", "idle"}
      BY <2>5 DEF CountStep, PrintStep, DeathStep
    <3>2. QED
      BY <3>1, ReadKeeps DEF Aside, Unmoved
  <2>6. QED
    BY <1>1, <2>1, <2>2, <2>3, <2>4, <2>5 DEF Kinds
<1>2. CASE DirStep
  <2>1. ASSUME NEW q \in Procs, pc'[q] = "replace", cur' = home'[q] PROVE FALSE
    <3>1. pc[q] = "replace" /\ home'[q] = home[q]
      BY <1>2, <2>1 DEF DirStep, own
    <3>2. home[q] \in Dirs /\ home[q] <= made /\ made \in Dirs
      BY <3>1, TypeParts DEF PointInv, OwnOK, DirsOK, Outside
    <3>3. cur' = None \/ cur' = made + 1
      BY <1>2 DEF DirStep
    <3>4. QED
      BY <2>1, <3>1, <3>2, <3>3 DEF None, Dirs
  <2>2. QED
    BY <2>1 DEF ReadInv
<1>3. CASE UNCHANGED vars
  BY <1>3 DEF ReadInv, vars, files, own, past, dirs
<1>4. QED
  BY <1>1, <1>2, <1>3, StepKinds

LEMMA LostLine ==
    ASSUME TypeInv, TailInv, NothingLost, NEW p \in Procs, LineStep(p)
    PROVE  NothingLost'
<1>1. PICK l \in {Torn, msg[p]}, b \in BOOLEAN :
        /\ lines' = [lines EXCEPT ![fd[p]] = WithLine(@, l, open[fd[p]])]
        /\ IF l = Torn \/ open[fd[p]] THEN arrived' = arrived ELSE Arrive(fd[p], msg[p])
  BY DEF LineStep
<1>2. PICK d, m : d = fd[p] /\ m = msg[p]
  OBVIOUS
<1>3. /\ pc[p] = "line" /\ crossed' = Cross(p, d) /\ taken' = taken
      /\ d \in Dirs /\ m \in Messages /\ m # Torn /\ l \in {Torn, m} /\ l \in Messages \cup {Torn}
      /\ lines' = [lines EXCEPT ![d] = WithLine(@, l, open[d])]
      /\ IF l = Torn \/ open[d] THEN arrived' = arrived
         ELSE arrived' = [arrived EXCEPT ![d] = Append(@, m)]
  BY <1>1, <1>2, AtLine DEF LineStep, Opened, Arrive
<1>4. crossed \subseteq crossed' /\ (d \notin crossed' => home[p] = d)
  BY <1>3, CrossGrows
<1>5. \A e \in Dirs : /\ lines[e] \in Lines /\ arrived[e] \in Seq(Messages)
                      /\ taken[e] \in Seq(Messages)
  BY TypeParts DEF FilesOK, PastOK, Lines
<1>6. ASSUME NEW e \in Dirs \ crossed'
      PROVE  arrived'[e] = taken'[e] \o IntactOf(lines'[e])
  <2>1. arrived[e] = taken[e] \o IntactOf(lines[e])
    BY <1>4 DEF NothingLost
  <2>2. CASE e # d
    <3>1. lines'[e] = lines[e] /\ arrived'[e] = arrived[e]
      BY <1>3, <2>2, TypeParts DEF FilesOK, PastOK
    <3>2. QED
      BY <1>3, <2>1, <3>1
  <2>3. CASE e = d
    <3>1. ~ open[d]
      BY <1>2, <1>3, <1>4, <1>6, <2>3 DEF TailInv
    <3>2. lines'[d] = Append(lines[d], l)
      BY <1>3, <3>1, TypeParts DEF FilesOK, WithLine
    <3>3. PICK a, t, ls, is :
            a = arrived[d] /\ t = taken[d] /\ ls = lines[d] /\ is = IntactOf(lines[d])
      OBVIOUS
    <3>4. a \in Seq(Messages) /\ t \in Seq(Messages) /\ ls \in Lines /\ is \in Seq(Messages)
      BY <1>3, <1>5, <3>3, IntactType
    <3>5. CASE l = Torn
      BY <1>3, <2>1, <2>3, <3>2, <3>3, <3>4, <3>5, IntactAppend
    <3>6. CASE l = m
      <4>1. arrived'[d] = Append(a, m)
        BY <1>3, <3>1, <3>3, <3>6, TypeParts DEF PastOK
      <4>2. IntactOf(lines'[d]) = Append(is, m)
        <5>1. IntactOf(Append(ls, l))
              = IF l = Torn THEN IntactOf(ls) ELSE Append(IntactOf(ls), l)
          BY <1>3, <3>4, IntactAppend
        <5>2. l # Torn /\ l = m /\ lines'[d] = Append(ls, l) /\ is = IntactOf(ls)
          BY <1>3, <3>2, <3>3, <3>6
        <5>3. QED
          BY <5>1, <5>2
      <4>3. a = t \o is
        BY <2>1, <2>3, <3>3
      <4>4. Append(a, m) = a \o <<m>> /\ Append(is, m) = is \o <<m>> /\ <<m>> \in Seq(Messages)
        <5>1. Append(a, m) = a \o <<m>> /\ Append(is, m) = is \o <<m>>
          BY <1>3, <3>4, AppendIsConcat
        <5>2. <<m>> \in Seq(Messages)
          BY <1>3
        <5>3. QED
          BY <5>1, <5>2
      <4>5. (t \o is) \o <<m>> = t \o (is \o <<m>>)
        BY <3>4, <4>4, ConcatAssociative
      <4>6. QED
        BY <1>3, <2>3, <3>3, <4>1, <4>2, <4>3, <4>4, <4>5
    <3>7. QED
      BY <1>3, <3>5, <3>6
  <2>4. QED
    BY <2>2, <2>3
<1>7. QED
  BY <1>6 DEF NothingLost

LEMMA LostRewrite ==
    ASSUME TypeInv, NothingLost, NEW p \in Procs,
           NEW ls \in Seq(Messages), NEW ms \in Seq(Messages), Rewrite(p, ls, ms),
           cur \notin crossed' => ms \o ls = IntactOf(lines[cur])
    PROVE  NothingLost'
<1>1. /\ cur \in Dirs /\ crossed' = Cross(p, cur) /\ arrived' = arrived
      /\ lines' = [lines EXCEPT ![cur] = ls]
      /\ taken' = [taken EXCEPT ![cur] = @ \o ms]
  BY DEF Rewrite
<1>2. crossed \subseteq crossed'
  BY <1>1, CrossGrows
<1>3. ASSUME NEW e \in Dirs \ crossed'
      PROVE  arrived'[e] = taken'[e] \o IntactOf(lines'[e])
  <2>1. arrived[e] = taken[e] \o IntactOf(lines[e])
    BY <1>2 DEF NothingLost
  <2>2. CASE e # cur
    <3>1. lines'[e] = lines[e] /\ taken'[e] = taken[e]
      BY <1>1, <2>2, TypeParts DEF FilesOK, PastOK
    <3>2. QED
      BY <1>1, <2>1, <3>1
  <2>3. CASE e = cur
    <3>1. lines'[cur] = ls /\ taken'[cur] = taken[cur] \o ms
      BY <1>1, TypeParts DEF FilesOK, PastOK
    <3>2. IntactOf(ls) = ls
      BY IntactWhole
    <3>3. taken[cur] \in Seq(Messages)
      BY <1>1, TypeParts DEF PastOK
    <3>4. (taken[cur] \o ms) \o ls = taken[cur] \o (ms \o ls)
      <4>1. PICK ts \in Seq(Messages) : ts = taken[cur]
        BY <3>3
      <4>2. (ts \o ms) \o ls = ts \o (ms \o ls)
        BY ConcatAssociative
      <4>3. QED
        BY <4>1, <4>2
    <3>5. QED
      BY <1>1, <1>3, <2>1, <2>3, <3>1, <3>2, <3>4
  <2>4. QED
    BY <2>2, <2>3
<1>4. QED
  BY <1>3 DEF NothingLost

LEMMA LostStep ==
    TypeInv /\ HoldInv /\ TailInv /\ ReadInv /\ NothingLost /\ [Next]_vars => NothingLost'
<1> SUFFICES ASSUME TypeInv, HoldInv, TailInv, ReadInv, NothingLost, [Next]_vars
             PROVE  NothingLost'
  OBVIOUS
<1>1. ASSUME UNCHANGED <<lines, arrived, taken>>, crossed \subseteq crossed' PROVE NothingLost'
  BY <1>1 DEF NothingLost
<1>2. ASSUME NEW p \in Procs, Kinds(p) PROVE NothingLost'
  <2>1. CASE Calm(p)
    BY <2>1, <1>1 DEF Calm
  <2>2. CASE LineStep(p)
    BY <2>2, LostLine
  <2>3. CASE TakeStep(p)
    BY <2>3, <1>1, CrossGrows DEF TakeStep
  <2>4. CASE ReplaceStep(p)
    <3>1. kept[p] \in Seq(Messages) /\ load[p] \in Seq(Messages)
      BY TypeParts DEF OwnOK
    <3>2. Rewrite(p, kept[p], load[p]) /\ pc[p] = "replace"
      BY <2>4 DEF ReplaceStep
    <3>3. cur \notin crossed' => load[p] \o kept[p] = IntactOf(lines[cur])
      <4>1. cur \notin crossed' => cur = home[p] /\ cur \notin crossed
        BY <3>2, CrossGrows DEF Rewrite
      <4>2. QED
        BY <3>2, <4>1 DEF ReadInv
    <3>4. QED
      BY <3>1, <3>2, <3>3, LostRewrite
  <2>5. CASE ClearStep(p)
    <3>1. PICK ms : ms = IntactOf(lines[cur])
      OBVIOUS
    <3>2. Rewrite(p, <<>>, ms)
      BY <2>5, <3>1 DEF ClearStep
    <3>3. ms \in Seq(Messages) /\ <<>> \in Seq(Messages)
      <4>1. lines[cur] \in Lines
        BY <3>2, TypeParts DEF Rewrite, FilesOK, Lines
      <4>2. QED
        BY <3>1, <4>1, IntactType, EmptyTypes
    <3>4. ms \o <<>> = ms
      BY <3>3, ConcatEmptySeq
    <3>5. QED
      BY <3>1, <3>2, <3>3, <3>4, LostRewrite
  <2>6. CASE CountStep(p) \/ PrintStep(p) \/ DeathStep(p)
    BY <2>6, <1>1 DEF CountStep, PrintStep, DeathStep, Aside
  <2>7. QED
    BY <1>2, <2>1, <2>2, <2>3, <2>4, <2>5, <2>6 DEF Kinds
<1>3. CASE DirStep
  BY <1>3, <1>1 DEF DirStep, files, past
<1>4. CASE UNCHANGED vars
  BY <1>4, <1>1 DEF vars, files, past
<1>5. QED
  BY <1>2, <1>3, <1>4, StepKinds

LEMMA FileInit == Init => FileInv
<1> SUFFICES ASSUME Init PROVE FileInv
  OBVIOUS
<1>1. /\ \A d \in Dirs : lines[d] = <<>> /\ arrived[d] = <<>> /\ taken[d] = <<>> /\ ~ open[d]
      /\ \A p \in Procs : pc[p] = "idle"
  BY DEF Init
<1>2. NothingLost
  <2>1. <<>> \o IntactOf(<<>>) = <<>>
    BY IntactEmpty, EmptyTypes, ConcatEmptySeq
  <2>2. QED
    BY <1>1, <2>1 DEF NothingLost
<1>3. HoldInv /\ TailInv /\ ReadInv
  BY <1>1 DEF HoldInv, TailInv, ReadInv, Outside
<1>4. QED
  BY <1>2, <1>3, TypeInit DEF FileInv

LEMMA FileStep == FileInv /\ [Next]_vars => FileInv'
BY TypeStep, HoldStep, TailStep, ReadStep, LostStep DEF FileInv

(* A line written whole under the lock is not lost: it is taken, or it is  *)
(* in the file, in the order of the writes, whoever dies in the middle of  *)
(* an append, a take or a clear.                                           *)
THEOREM InboxKeepsAll == Spec => []NothingLost
<1>1. Spec => []FileInv
  BY FileInit, FileStep, PTL DEF Spec
<1>2. FileInv => NothingLost
  BY DEF FileInv
<1>3. QED
  BY <1>1, <1>2, PTL

-----------------------------------------------------------------------------
(* Every message is shown once.                                            *)

(* A message is in one place of one file at most, what is under way was    *)
(* written before, and what is about to be written was not.                *)
Carries == {"replace", "count", "print"}
WrittenInv ==
    /\ \A d \in Dirs : Distinct(arrived[d]) /\ ToSet(lines[d]) \subseteq Everywhere \cup {Torn}
    /\ ToSet(printed) \cup dropped \subseteq Everywhere
    /\ \A p \in Procs : pc[p] \in Carries => ToSet(load[p]) \subseteq Everywhere
    /\ \A p \in Procs : pc[p] = "replace" => ToSet(kept[p]) \subseteq Everywhere
    /\ \A p \in Procs :
        msg[p] \in Messages => msg[p] \notin Everywhere /\ \A q \in Procs : msg[q] = msg[p] => q = p

(* Who is about to show it.                                                *)
Shows(p, m) == pc[p] \in {"count", "print"} /\ m \in ToSet(load[p])
Unshown(m) == m \notin dropped \cup ToSet(printed) /\ \A p \in Procs : ~ Shows(p, m)
OneIn(ms, m) == \E i \in 1..Len(ms) : ms[i] = m /\ \A j \in 1..Len(ms) : ms[j] = m => j = i
Once(m) ==
    \/ /\ m \in dropped
       /\ m \notin ToSet(printed) /\ \A p \in Procs : ~ Shows(p, m)
    \/ /\ OneIn(printed, m)
       /\ m \notin dropped /\ \A p \in Procs : ~ Shows(p, m)
    \/ /\ m \notin dropped \cup ToSet(printed)
       /\ \E p \in Procs : Shows(p, m) /\ OneIn(load[p], m) /\ \A q \in Procs : Shows(q, m) => q = p

(* Who has it in hand to be shown or written back.                         *)
Reads(p, m) == pc[p] = "replace" /\ m \in ToSet(load[p]) \cup ToSet(kept[p])

(* What was taken is in no file and in no hand that could write or take it *)
(* again, and is shown once; what is in the file of the session is in no   *)
(* other file or hand, and nobody shows it.                                *)
Gone(m) == (\A d \in Dirs : m \notin ToSet(lines[d])) /\ \A p \in Procs : ~ Reads(p, m)
Alone(m) ==
    /\ \A d \in Dirs \ {cur} : m \notin ToSet(lines[d])
    /\ \A p \in Procs : Reads(p, m) => home[p] = cur
TakenInv == \A d \in Dirs \ crossed : \A m \in ToSet(taken[d]) : Gone(m) /\ Once(m)
WaitInv ==
    cur \in Dirs \ crossed => \A m \in ToSet(lines[cur]) \ {Torn} : Alone(m) /\ Unshown(m)
ShowInv == FileInv /\ WrittenInv /\ TakenInv /\ WaitInv

LEMMA EverywhereIs ==
    \A m : m \in Everywhere <=> \E d \in Dirs : m \in ToSet(arrived[d])
BY DEF Everywhere

LEMMA WrittenKeeps ==
    ASSUME WrittenInv, NEW p \in Procs, Others(p), arrived' = arrived,
           \A d \in Dirs : ToSet(lines'[d]) \subseteq Everywhere \cup {Torn},
           ToSet(printed') \cup dropped' \subseteq Everywhere,
           pc'[p] \in Carries => ToSet(load'[p]) \subseteq Everywhere,
           pc'[p] = "replace" => ToSet(kept'[p]) \subseteq Everywhere,
           msg'[p] \in {msg[p], Nothing} \/ Fresh(p)
    PROVE  WrittenInv'
<1>1. PICK E : E = Everywhere
  OBVIOUS
<1>2. Everywhere' = E
  BY <1>1 DEF Everywhere
<1>3. \A d \in Dirs : Distinct(arrived'[d]) /\ ToSet(lines'[d]) \subseteq E \cup {Torn}
  BY <1>1 DEF WrittenInv
<1>4. ToSet(printed') \cup dropped' \subseteq E
  BY <1>1
<1>5. \A q \in Procs : pc'[q] \in Carries => ToSet(load'[q]) \subseteq E
  BY <1>1 DEF WrittenInv, Others
<1>6. \A q \in Procs : pc'[q] = "replace" => ToSet(kept'[q]) \subseteq E
  BY <1>1 DEF WrittenInv, Others
<1>7. ASSUME NEW q \in Procs, msg'[q] \in Messages
      PROVE  msg'[q] \notin E /\ \A r \in Procs : msg'[r] = msg'[q] => r = q
  <2>1. \A r \in Procs : r # p => msg'[r] = msg[r]
    BY DEF Others
  <2>2. \A r \in Procs : msg[r] \in Messages =>
            msg[r] \notin E /\ \A s \in Procs : msg[s] = msg[r] => s = r
    BY <1>1 DEF WrittenInv
  <2>3. CASE Fresh(p)
    <3>1. msg'[p] \notin E /\ \A r \in Procs : msg[r] # msg'[p]
      BY <1>1, <2>3 DEF Fresh
    <3>2. QED
      BY <1>7, <2>1, <2>2, <3>1
  <2>4. CASE msg'[p] = msg[p]
    BY <1>7, <2>1, <2>2, <2>4
  <2>5. CASE msg'[p] = Nothing
    <3>1. Nothing \notin Messages
      OBVIOUS
    <3>2. QED
      BY <1>7, <2>1, <2>2, <2>5, <3>1
  <2>6. QED
    BY <2>3, <2>4, <2>5
<1>8. QED
  BY <1>2, <1>3, <1>4, <1>5, <1>6, <1>7 DEF WrittenInv

(* What a line step does to the sets of messages.                          *)
LEMMA LineSets ==
    ASSUME TypeInv, WrittenInv, NEW p \in Procs, LineStep(p)
    PROVE  /\ fd[p] \in Dirs /\ msg[p] \in Messages /\ msg[p] \notin Everywhere
           /\ \A d \in Dirs : d # fd[p] => lines'[d] = lines[d]
           /\ \/ /\ arrived' = arrived
                 /\ ToSet(lines'[fd[p]]) \subseteq ToSet(lines[fd[p]]) \cup {Torn}
              \/ /\ Arrive(fd[p], msg[p])
                 /\ ToSet(lines'[fd[p]]) \subseteq ToSet(lines[fd[p]]) \cup {msg[p]}
<1>1. PICK l \in {Torn, msg[p]}, b \in BOOLEAN :
        /\ lines' = [lines EXCEPT ![fd[p]] = WithLine(@, l, open[fd[p]])]
        /\ IF l = Torn \/ open[fd[p]] THEN arrived' = arrived ELSE Arrive(fd[p], msg[p])
  BY DEF LineStep
<1>2. fd[p] \in Dirs /\ msg[p] \in Messages
  BY AtLine DEF LineStep, Opened
<1>3. msg[p] \notin Everywhere
  BY <1>2 DEF WrittenInv
<1>4. PICK ls, fused : ls = lines[fd[p]] /\ fused = open[fd[p]]
  OBVIOUS
<1>5. ls \in Lines /\ fused \in BOOLEAN /\ l \in Messages \cup {Torn}
  BY <1>2, <1>4, TypeParts DEF FilesOK, Lines
<1>6. /\ lines'[fd[p]] = WithLine(ls, l, fused)
      /\ \A d \in Dirs : d # fd[p] => lines'[d] = lines[d]
  BY <1>1, <1>2, <1>4, TypeParts DEF FilesOK
<1>7. ToSet(WithLine(ls, l, fused)) \subseteq ToSet(ls) \cup IF fused THEN {Torn} ELSE {l}
  BY <1>5, WithLineType
<1>8. QED
  BY <1>1, <1>2, <1>3, <1>4, <1>6, <1>7

LEMMA WrittenLine ==
    ASSUME TypeInv, WrittenInv, NEW p \in Procs, LineStep(p)
    PROVE  WrittenInv'
<1>1. PICK d, m : d = fd[p] /\ m = msg[p]
  OBVIOUS
<1>2. /\ d \in Dirs /\ m \in Messages /\ m \notin Everywhere
      /\ \A e \in Dirs : e # d => lines'[e] = lines[e]
      /\ \/ arrived' = arrived /\ ToSet(lines'[d]) \subseteq ToSet(lines[d]) \cup {Torn}
         \/ Arrive(d, m) /\ ToSet(lines'[d]) \subseteq ToSet(lines[d]) \cup {m}
  BY <1>1, LineSets
<1>3. /\ pc'[p] = "idle" /\ msg'[p] = Nothing /\ Others(p) /\ UNCHANGED <<printed, dropped>>
  BY DEF LineStep
<1>4. "idle" \notin Carries /\ ToSet(printed) \cup dropped \subseteq Everywhere
  BY DEF Carries, WrittenInv
<1>5. CASE arrived' = arrived /\ ToSet(lines'[d]) \subseteq ToSet(lines[d]) \cup {Torn}
  <2>1. \A e \in Dirs : ToSet(lines'[e]) \subseteq Everywhere \cup {Torn}
    BY <1>2, <1>5 DEF WrittenInv
  <2>2. QED
    BY <1>3, <1>4, <1>5, <2>1, WrittenKeeps
<1>6. CASE Arrive(d, m) /\ ToSet(lines'[d]) \subseteq ToSet(lines[d]) \cup {m}
  <2>1. PICK E : E = Everywhere
    OBVIOUS
  <2>2. \A e \in Dirs : arrived[e] \in Seq(Messages)
    BY TypeParts DEF PastOK
  <2>3. \A e \in Dirs : arrived'[e] = IF e = d THEN Append(arrived[d], m) ELSE arrived[e]
    BY <1>2, <1>6, TypeParts DEF Arrive, PastOK
  <2>4. ToSet(Append(arrived[d], m)) = ToSet(arrived[d]) \cup {m}
    <3>1. arrived[d] \in Lines /\ m \in Messages \cup {Torn}
      BY <1>2, <2>2, IntactWhole
    <3>2. QED
      BY <3>1, SetOfAppend
  <2>5. Everywhere' = E \cup {m}
    <3>1. \A x : x \in Everywhere' <=> \E e \in Dirs : x \in ToSet(arrived'[e])
      BY DEF Everywhere
    <3>2. \A x : x \in E <=> \E e \in Dirs : x \in ToSet(arrived[e])
      BY <2>1, EverywhereIs
    <3>3. QED
      BY <1>2, <2>3, <2>4, <3>1, <3>2
  <2>6. Distinct(Append(arrived[d], m))
    <3>1. m \notin ToSet(arrived[d]) /\ Distinct(arrived[d])
      BY <1>2, EverywhereIs DEF WrittenInv
    <3>2. PICK a : a = arrived[d]
      OBVIOUS
    <3>3. QED
      BY <1>2, <2>2, <3>1, <3>2, DistinctAppend
  <2>7. \A e \in Dirs : /\ Distinct(arrived'[e])
                        /\ ToSet(lines'[e]) \subseteq E \cup {m} \cup {Torn}
    BY <1>2, <1>6, <2>1, <2>3, <2>6 DEF WrittenInv
  <2>8. \A q \in Procs : pc'[q] \in Carries => ToSet(load'[q]) \subseteq E
    BY <1>3, <1>4, <2>1 DEF WrittenInv, Others
  <2>9. \A q \in Procs : pc'[q] = "replace" => ToSet(kept'[q]) \subseteq E
    BY <1>3, <2>1 DEF WrittenInv, Others
  <2>10. ASSUME NEW q \in Procs, msg'[q] \in Messages
         PROVE  msg'[q] \notin E \cup {m} /\ \A r \in Procs : msg'[r] = msg'[q] => r = q
    <3>1. q # p /\ \A r \in Procs : r # p => msg'[r] = msg[r]
      BY <1>3, <2>10 DEF Others
    <3>2. \A r \in Procs : msg[r] \in Messages =>
              msg[r] \notin E /\ \A s \in Procs : msg[s] = msg[r] => s = r
      BY <2>1 DEF WrittenInv
    <3>3. QED
      BY <1>1, <1>3, <2>10, <3>1, <3>2
  <2>11. QED
    BY <1>3, <1>4, <2>1, <2>5, <2>7, <2>8, <2>9, <2>10 DEF WrittenInv
<1>7. QED
  BY <1>2, <1>5, <1>6

(* What an intact line, read, taken or kept, is.                           *)
LEMMA ReadSets ==
    ASSUME TypeInv, WrittenInv, NEW d \in Dirs
    PROVE  /\ IntactOf(lines[d]) \in Seq(Messages)
           /\ ToSet(IntactOf(lines[d])) \subseteq ToSet(lines[d]) \ {Torn}
           /\ ToSet(IntactOf(lines[d])) \subseteq Everywhere
<1>1. lines[d] \in Lines
  BY TypeParts DEF FilesOK, Lines
<1>2. QED
  BY <1>1, IntactType DEF WrittenInv

LEMMA OwnLines ==
    ASSUME TypeInv, NEW p \in Procs
    PROVE  /\ load[p] \in Seq(Messages) /\ kept[p] \in Seq(Messages)
           /\ ToSet(load[p] \o kept[p]) = ToSet(load[p]) \cup ToSet(kept[p])
           /\ ToSet(load[p]) \subseteq Messages /\ ToSet(kept[p]) \subseteq Messages
BY TypeParts, ConcatPlaces, MessageTypes DEF OwnOK

LEMMA WrittenStep == TypeInv /\ TypeInv' /\ TailInv /\ WrittenInv /\ [Next]_vars => WrittenInv'
<1> SUFFICES ASSUME TypeInv, TypeInv', TailInv, WrittenInv, [Next]_vars PROVE WrittenInv'
  OBVIOUS
<1>1. ASSUME NEW p \in Procs, Kinds(p) PROVE WrittenInv'
  <2> DEFINE E == Everywhere
  <2>1. /\ \A d \in Dirs : ToSet(lines[d]) \subseteq Everywhere \cup {Torn}
        /\ ToSet(printed) \cup dropped \subseteq Everywhere
        /\ pc[p] \in Carries => ToSet(load[p]) \subseteq Everywhere
        /\ pc[p] = "replace" => ToSet(kept[p]) \subseteq Everywhere
    BY DEF WrittenInv
  <2>2. /\ {"idle", "clear count", "clear", "take", "line"} \cap Carries = {}
        /\ {"replace", "count", "print"} \subseteq Carries
    BY DEF Carries
  <2>3. CASE Calm(p)
    <3>1. pc'[p] \notin Carries
      BY <2>3 DEF Calm, Carries
    <3>2. QED
      BY <2>1, <2>2, <2>3, <3>1, WrittenKeeps DEF Calm
  <2>4. CASE LineStep(p)
    BY <2>4, WrittenLine
  <2>5. CASE TakeStep(p)
    <3>1. ToSet(load'[p] \o kept'[p]) \subseteq Everywhere
      BY <2>5, ReadSets DEF TakeStep
    <3>2. ToSet(load'[p]) \cup ToSet(kept'[p]) \subseteq Everywhere
      <4>1. load'[p] \in Seq(Messages) /\ kept'[p] \in Seq(Messages)
        BY TypeParts DEF OwnOK
      <4>2. QED
        BY <3>1, <4>1, ConcatPlaces
    <3>3. QED
      BY <2>1, <2>5, <3>2, WrittenKeeps DEF TakeStep
  <2>6. CASE ReplaceStep(p) \/ ClearStep(p)
    <3>1. PICK ls, ms : /\ Rewrite(p, ls, ms)
                        /\ \/ ls = kept[p] /\ ReplaceStep(p)
                           \/ ls = <<>> /\ ClearStep(p)
      BY <2>6 DEF ReplaceStep, ClearStep
    <3>2. ToSet(ls) \subseteq Everywhere
      BY <2>1, <3>1, EmptyTypes DEF ReplaceStep
    <3>3. /\ Others(p) /\ arrived' = arrived /\ printed' = printed /\ msg' = msg /\ load' = load
          /\ lines' = [lines EXCEPT ![cur] = ls] /\ cur \in Dirs
      BY <3>1 DEF Rewrite
    <3>4. \A d \in Dirs : ToSet(lines'[d]) \subseteq Everywhere \cup {Torn}
      BY <2>1, <3>2, <3>3, TypeParts DEF FilesOK
    <3>5. dropped' \subseteq Everywhere
      BY <2>1, <3>1, <3>3, ReadSets DEF ReplaceStep, ClearStep
    <3>6. /\ pc'[p] \in Carries => ToSet(load'[p]) \subseteq Everywhere
          /\ pc'[p] # "replace"
      BY <2>1, <2>2, <3>1, <3>3 DEF ReplaceStep, ClearStep
    <3>7. QED
      BY <2>1, <3>3, <3>4, <3>5, <3>6, WrittenKeeps
  <2>7. CASE CountStep(p)
    BY <2>1, <2>2, <2>7, WrittenKeeps DEF CountStep, Aside
  <2>8. CASE PrintStep(p)
    <3>1. printed \in Seq(Messages) /\ load[p] \in Seq(Messages)
      BY TypeParts DEF PastOK, OwnOK
    <3>2. ToSet(printed \o load[p]) = ToSet(printed) \cup ToSet(load[p])
      BY <3>1, ConcatPlaces
    <3>3. ToSet(printed') \cup dropped' \subseteq Everywhere
      BY <2>1, <2>2, <2>8, <3>2 DEF PrintStep
    <3>4. QED
      BY <2>1, <2>2, <2>8, <3>3, WrittenKeeps DEF PrintStep, Aside
  <2>9. CASE DeathStep(p)
    <3>1. ToSet(printed') \cup dropped' \subseteq Everywhere
      BY <2>1, <2>2, <2>9 DEF DeathStep
    <3>2. QED
      BY <2>1, <2>2, <2>9, <3>1, WrittenKeeps DEF DeathStep, Aside
  <2>10. QED
    BY <1>1, <2>3, <2>4, <2>5, <2>6, <2>7, <2>8, <2>9 DEF Kinds
<1>2. CASE DirStep
  <2>1. UNCHANGED <<lines, arrived, printed, dropped, load, kept, msg>>
    BY <1>2 DEF DirStep, files, own, past
  <2>2. \A q \in Procs : /\ pc'[q] \in Carries => pc[q] \in Carries
                         /\ pc'[q] = "replace" => pc[q] = "replace"
    BY <1>2 DEF DirStep, Carries
  <2>3. QED
    BY <2>1, <2>2 DEF WrittenInv, Everywhere
<1>3. CASE UNCHANGED vars
  BY <1>3 DEF vars, files, own, past, WrittenInv, Everywhere
<1>4. QED
  BY <1>1, <1>2, <1>3, StepKinds

-----------------------------------------------------------------------------
(* Once.                                                                   *)

(* Who shows m, what was printed and what was dropped of it is the same.   *)
SameOf(m) ==
    /\ \A q \in Procs : Shows(q, m)' <=> Shows(q, m)
    /\ \A q \in Procs : Shows(q, m) => load'[q] = load[q]
    /\ m \in dropped' <=> m \in dropped
    /\ m \in ToSet(printed') <=> m \in ToSet(printed)
    /\ OneIn(printed', m) <=> OneIn(printed, m)

LEMMA OnceKeeps ==
    ASSUME NEW m, SameOf(m)
    PROVE  (Once(m) => Once(m)') /\ (Unshown(m) => Unshown(m)')
<1>1. Unshown(m) => Unshown(m)'
  BY DEF SameOf, Unshown
<1>2. ASSUME Once(m) PROVE Once(m)'
  <2>1. CASE m \in dropped /\ m \notin ToSet(printed) /\ \A p \in Procs : ~ Shows(p, m)
    BY <2>1 DEF SameOf, Once
  <2>2. CASE OneIn(printed, m) /\ m \notin dropped /\ \A p \in Procs : ~ Shows(p, m)
    <3>1. OneIn(printed, m)'
      BY <2>2 DEF SameOf, OneIn
    <3>2. QED
      BY <2>2, <3>1 DEF SameOf, Once
  <2>3. CASE /\ m \notin dropped \cup ToSet(printed)
             /\ \E p \in Procs : Shows(p, m) /\ OneIn(load[p], m)
                                 /\ \A q \in Procs : Shows(q, m) => q = p
    <3>1. PICK p \in Procs : Shows(p, m) /\ OneIn(load[p], m)
                             /\ \A q \in Procs : Shows(q, m) => q = p
      BY <2>3
    <3>2. load'[p] = load[p] /\ Shows(p, m)' /\ \A q \in Procs : Shows(q, m)' => q = p
      BY <3>1 DEF SameOf
    <3>3. OneIn(load[p], m)'
      BY <3>1, <3>2 DEF OneIn
    <3>4. m \notin dropped' \cup ToSet(printed')
      BY <2>3 DEF SameOf
    <3>5. QED
      BY <3>2, <3>3, <3>4 DEF Once
  <2>4. QED
    BY <1>2, <2>1, <2>2, <2>3 DEF Once
<1>3. QED
  BY <1>1, <1>2

(* A step of p that leaves the printed and the dropped, and what p shows.  *)
LEMMA SameKeeps ==
    ASSUME NEW m, NEW p \in Procs, Others(p), UNCHANGED printed,
           m \in dropped' <=> m \in dropped,
           Shows(p, m)' <=> Shows(p, m), Shows(p, m) => load'[p] = load[p]
    PROVE  SameOf(m)
<1>1. \A q \in Procs : q # p => (Shows(q, m)' <=> Shows(q, m)) /\ load'[q] = load[q]
  BY DEF Others, Shows
<1>2. QED
  BY <1>1 DEF SameOf

(* What was taken was written.                                             *)
LEMMA TakenArrived ==
    ASSUME TypeInv, NothingLost, NEW d \in Dirs \ crossed
    PROVE  /\ ToSet(taken[d]) \subseteq Everywhere /\ ToSet(taken[d]) \subseteq Messages
           /\ taken[d] \in Seq(Messages) /\ arrived[d] = taken[d] \o IntactOf(lines[d])
<1>1. lines[d] \in Lines /\ taken[d] \in Seq(Messages)
  BY TypeParts DEF FilesOK, PastOK, Lines
<1>2. PICK ts, is : ts = taken[d] /\ is = IntactOf(lines[d])
  OBVIOUS
<1>3. ts \in Seq(Messages) /\ is \in Seq(Messages)
  BY <1>1, <1>2, IntactType
<1>4. ToSet(ts \o is) = ToSet(ts) \cup ToSet(is) /\ ToSet(ts) \subseteq Messages
  BY <1>3, ConcatPlaces, MessageTypes
<1>5. arrived[d] = ts \o is
  BY <1>2 DEF NothingLost
<1>6. ToSet(ts) \subseteq Everywhere
  BY <1>4, <1>5, EverywhereIs
<1>7. QED
  BY <1>1, <1>2, <1>4, <1>5, <1>6

(* A step that moves no line and takes none.                               *)
LEMMA ShowKeeps ==
    ASSUME ShowInv, NEW p \in Procs, Others(p), UNCHANGED <<lines, taken, cur>>,
           crossed \subseteq crossed', \A m : SameOf(m), pc'[p] # "replace"
    PROVE  TakenInv' /\ WaitInv'
<1>1. \A q \in Procs : \A m : Reads(q, m)' => Reads(q, m) /\ home'[q] = home[q]
  BY DEF Reads, Others
<1>2. ASSUME NEW d \in Dirs \ crossed', NEW m \in ToSet(taken'[d])
      PROVE  Gone(m)' /\ Once(m)'
  <2>1. d \in Dirs \ crossed /\ m \in ToSet(taken[d])
    BY <1>2
  <2>2. Gone(m) /\ Once(m)
    BY <2>1 DEF ShowInv, TakenInv
  <2>3. Gone(m)'
    BY <1>1, <2>2 DEF Gone
  <2>4. QED
    BY <2>2, <2>3, OnceKeeps
<1>3. ASSUME cur' \in Dirs \ crossed', NEW m \in ToSet(lines'[cur']) \ {Torn}
      PROVE  Alone(m)' /\ Unshown(m)'
  <2>1. cur \in Dirs \ crossed /\ m \in ToSet(lines[cur]) \ {Torn}
    BY <1>3
  <2>2. Alone(m) /\ Unshown(m)
    BY <2>1 DEF ShowInv, WaitInv
  <2>3. Alone(m)'
    BY <1>1, <2>2 DEF Alone
  <2>4. QED
    BY <2>2, <2>3, OnceKeeps
<1>4. QED
  BY <1>2, <1>3 DEF TakenInv, WaitInv

LEMMA ShowTake ==
    ASSUME ShowInv, TypeInv', NEW p \in Procs, TakeStep(p)
    PROVE  TakenInv' /\ WaitInv'
<1>1. /\ pc[p] = "take" /\ pc'[p] = "replace" /\ Others(p) /\ cur \in Dirs
      /\ UNCHANGED <<lines, taken, printed, dropped, cur, home>> /\ crossed' = Cross(p, cur)
      /\ crossed \subseteq crossed' /\ (cur \notin crossed' => home[p] = cur)
  BY CrossGrows DEF TakeStep
<1>2. \A m : SameOf(m)
  BY <1>1, SameKeeps DEF Shows
<1>3. ToSet(load'[p]) \cup ToSet(kept'[p]) \subseteq ToSet(lines[cur]) \ {Torn}
  <2>1. ToSet(load'[p] \o kept'[p]) \subseteq ToSet(lines[cur]) \ {Torn}
    BY <1>1, ReadSets DEF TakeStep, ShowInv, FileInv
  <2>2. load'[p] \in Seq(Messages) /\ kept'[p] \in Seq(Messages)
    BY TypeParts DEF OwnOK
  <2>3. QED
    BY <2>1, <2>2, ConcatPlaces
<1>4. \A q \in Procs : \A m : Reads(q, m)' =>
        Reads(q, m) \/ (q = p /\ m \in ToSet(lines[cur]) \ {Torn})
  BY <1>1, <1>3 DEF Reads, Others
<1>5. ASSUME NEW d \in Dirs \ crossed', NEW m \in ToSet(taken'[d])
      PROVE  Gone(m)' /\ Once(m)'
  <2>1. Gone(m) /\ Once(m)
    BY <1>1, <1>5 DEF ShowInv, TakenInv
  <2>2. Gone(m)'
    BY <1>1, <1>4, <2>1 DEF Gone
  <2>3. QED
    BY <1>2, <2>1, <2>2, OnceKeeps
<1>6. ASSUME cur' \in Dirs \ crossed', NEW m \in ToSet(lines'[cur']) \ {Torn}
      PROVE  Alone(m)' /\ Unshown(m)'
  <2>1. Alone(m) /\ Unshown(m)
    BY <1>1, <1>6 DEF ShowInv, WaitInv
  <2>2. Alone(m)'
    BY <1>1, <1>4, <1>6, <2>1 DEF Alone
  <2>3. QED
    BY <1>2, <2>1, <2>2, OnceKeeps
<1>7. QED
  BY <1>5, <1>6 DEF TakenInv, WaitInv

LEMMA ShowLine ==
    ASSUME ShowInv, NEW p \in Procs, LineStep(p)
    PROVE  TakenInv' /\ WaitInv'
<1>1. TypeInv /\ WrittenInv /\ NothingLost
  BY DEF ShowInv, FileInv
<1>2. /\ pc[p] = "line" /\ pc'[p] = "idle" /\ Others(p)
      /\ UNCHANGED <<taken, printed, dropped, cur>> /\ crossed \subseteq crossed'
  BY CrossGrows DEF LineStep
<1>3. \A m : SameOf(m)
  BY <1>2, SameKeeps DEF Shows
<1>4. \A q \in Procs : \A m : Reads(q, m)' => Reads(q, m) /\ home'[q] = home[q]
  BY <1>2 DEF Reads, Others
<1>5. PICK d, w : d = fd[p] /\ w = msg[p]
  OBVIOUS
<1>6. /\ d \in Dirs /\ w \in Messages /\ w \notin Everywhere
      /\ \A e \in Dirs : e # d => lines'[e] = lines[e]
      /\ ToSet(lines'[d]) \subseteq ToSet(lines[d]) \cup {w, Torn}
  BY <1>1, <1>5, LineSets
<1>7. \A e \in Dirs : \A m \in ToSet(lines'[e]) :
        m \in ToSet(lines[e]) \/ m = Torn \/ (e = d /\ m = w)
  BY <1>6
<1>8. ASSUME NEW e \in Dirs \ crossed', NEW m \in ToSet(taken'[e])
      PROVE  Gone(m)' /\ Once(m)'
  <2>1. e \in Dirs \ crossed /\ m \in ToSet(taken[e])
    BY <1>2, <1>8
  <2>2. Gone(m) /\ Once(m)
    BY <2>1 DEF ShowInv, TakenInv
  <2>3. m \in Everywhere /\ m \in Messages /\ m # Torn
    BY <1>1, <2>1, TakenArrived
  <2>4. Gone(m)'
    BY <1>4, <1>6, <1>7, <2>2, <2>3 DEF Gone
  <2>5. QED
    BY <1>3, <2>2, <2>4, OnceKeeps
<1>9. ASSUME cur' \in Dirs \ crossed', NEW m \in ToSet(lines'[cur']) \ {Torn}
      PROVE  Alone(m)' /\ Unshown(m)'
  <2>1. cur \in Dirs \ crossed /\ cur' = cur
    BY <1>2, <1>9
  <2>2. CASE m \in ToSet(lines[cur])
    <3>1. Alone(m) /\ Unshown(m)
      BY <1>9, <2>1, <2>2 DEF ShowInv, WaitInv
    <3>2. m \in Everywhere /\ m # w /\ m # Torn
      BY <1>1, <1>6, <1>9, <2>1, <2>2 DEF WrittenInv
    <3>3. Alone(m)'
      BY <1>4, <1>7, <2>1, <3>1, <3>2 DEF Alone
    <3>4. QED
      BY <1>3, <3>1, <3>3, OnceKeeps
  <2>3. CASE m \notin ToSet(lines[cur])
    <3>1. m = w /\ cur = d
      BY <1>7, <1>9, <2>1, <2>3
    <3>2. \A e \in Dirs : m \notin ToSet(lines[e])
      BY <1>1, <1>6, <3>1 DEF WrittenInv
    <3>3. \A q \in Procs : ~ Reads(q, m) /\ ~ Shows(q, m)
      BY <1>1, <1>6, <3>1 DEF WrittenInv, Reads, Shows, Carries
    <3>4. m \notin dropped \cup ToSet(printed)
      BY <1>1, <1>6, <3>1 DEF WrittenInv
    <3>5. Unshown(m)
      BY <3>3, <3>4 DEF Unshown
    <3>6. Alone(m)'
      BY <1>4, <1>6, <2>1, <3>1, <3>2, <3>3 DEF Alone
    <3>7. QED
      BY <1>3, <3>5, <3>6, OnceKeeps
  <2>4. QED
    BY <2>2, <2>3
<1>10. QED
  BY <1>8, <1>9 DEF TakenInv, WaitInv

LEMMA ShowDir ==
    ASSUME ShowInv, DirStep
    PROVE  TakenInv' /\ WaitInv'
<1>1. /\ UNCHANGED <<lines, taken, printed, dropped, crossed, home, load, kept>>
      /\ \A q \in Procs : pc'[q] = pc[q] \/ (pc[q] = "make" /\ pc'[q] = "lock")
      /\ cur' = None \/ (cur = None /\ cur' = made + 1)
  BY DEF DirStep, files, own, past
<1>2. \A q \in Procs : \A m : Reads(q, m)' <=> Reads(q, m)
  BY <1>1 DEF Reads
<1>3. \A m : SameOf(m)
  BY <1>1 DEF Shows, SameOf
<1>4. ASSUME NEW d \in Dirs \ crossed', NEW m \in ToSet(taken'[d])
      PROVE  Gone(m)' /\ Once(m)'
  <2>1. Gone(m) /\ Once(m)
    BY <1>1, <1>4 DEF ShowInv, TakenInv
  <2>2. Gone(m)'
    BY <1>1, <1>2, <2>1 DEF Gone
  <2>3. QED
    BY <1>3, <2>1, <2>2, OnceKeeps
<1>5. ASSUME cur' \in Dirs \ crossed', NEW m \in ToSet(lines'[cur']) \ {Torn}
      PROVE  FALSE
  <2>1. cur' = made + 1
    BY <1>1, <1>5 DEF None, Dirs
  <2>2. FilesOK /\ DirsOK
    BY TypeParts DEF ShowInv, FileInv
  <2>3. cur' \in Dirs /\ cur' > made
    BY <1>5, <2>1, <2>2 DEF DirsOK
  <2>4. lines'[cur'] = <<>>
    BY <1>1, <2>2, <2>3 DEF FilesOK
  <2>5. QED
    BY <1>5, <2>4, EmptyTypes
<1>6. QED
  BY <1>4, <1>5 DEF TakenInv, WaitInv

LEMMA DistinctOne ==
    ASSUME NEW ms \in Seq(Messages), Distinct(ms), NEW m \in ToSet(ms)
    PROVE  OneIn(ms, m)
<1>1. PICK i \in 1..Len(ms) : ms[i] = m
  BY MessageTypes, PlaceOf
<1>2. QED
  BY <1>1 DEF Distinct, OneIn

LEMMA OneInConcat ==
    ASSUME NEW a \in Seq(Messages), NEW b \in Seq(Messages), NEW m
    PROVE  /\ m \notin ToSet(b) => (OneIn(a \o b, m) <=> OneIn(a, m))
           /\ m \notin ToSet(a) /\ OneIn(b, m) => OneIn(a \o b, m)
<1> DEFINE c == a \o b
<1>1. /\ Len(a) \in Nat /\ Len(b) \in Nat /\ Len(c) = Len(a) + Len(b)
      /\ \A i \in 1..Len(a) : c[i] = a[i]
      /\ \A i \in 1..Len(b) : c[Len(a) + i] = b[i]
  BY ConcatPlaces
<1> HIDE DEF c
<1>2. a \in Lines /\ b \in Lines
  BY MessageTypes
<1>3. \A i \in 1..Len(c) : i \in 1..Len(a) \/ (i - Len(a) \in 1..Len(b) /\ c[i] = b[i - Len(a)])
  <2>1. SUFFICES ASSUME NEW i \in 1..Len(c), i \notin 1..Len(a)
                 PROVE  i - Len(a) \in 1..Len(b) /\ c[i] = b[i - Len(a)]
    OBVIOUS
  <2>2. i - Len(a) \in 1..Len(b) /\ Len(a) + (i - Len(a)) = i
    BY <1>1, <2>1
  <2>3. QED
    BY <1>1, <2>2
<1>4. ASSUME m \notin ToSet(b) PROVE OneIn(c, m) <=> OneIn(a, m)
  <2>1. \A j \in 1..Len(b) : b[j] # m
    BY <1>2, <1>4, PlaceOf
  <2>2. \A i \in 1..Len(c) : c[i] = m => i \in 1..Len(a) /\ a[i] = m
    BY <1>1, <1>3, <2>1
  <2>3. \A i \in 1..Len(a) : i \in 1..Len(c) /\ (a[i] = m => c[i] = m)
    BY <1>1
  <2>4. QED
    BY <2>2, <2>3 DEF OneIn
<1>5. ASSUME m \notin ToSet(a), OneIn(b, m) PROVE OneIn(c, m)
  <2>1. \A j \in 1..Len(a) : a[j] # m
    BY <1>2, <1>5, PlaceOf
  <2>2. PICK i \in 1..Len(b) : b[i] = m /\ \A j \in 1..Len(b) : b[j] = m => j = i
    BY <1>5 DEF OneIn
  <2>3. Len(a) + i \in 1..Len(c) /\ c[Len(a) + i] = m
    BY <1>1, <2>2
  <2>4. ASSUME NEW j \in 1..Len(c), c[j] = m PROVE j = Len(a) + i
    <3>1. j \notin 1..Len(a)
      BY <1>1, <2>1, <2>4
    <3>2. j - Len(a) \in 1..Len(b) /\ b[j - Len(a)] = m
      BY <1>3, <2>4, <3>1
    <3>3. j - Len(a) = i
      BY <2>2, <3>2
    <3>4. QED
      BY <1>1, <3>3
  <2>5. QED
    BY <2>3, <2>4 DEF OneIn
<1>6. QED
  BY <1>4, <1>5 DEF c

(* What a process has read under the lock of its dir is what the file of   *)
(* that dir still holds, each message once.                                *)
LEMMA ReadOnce ==
    ASSUME ShowInv, NEW p \in Procs, pc[p] = "replace", cur = home[p], cur \in Dirs \ crossed
    PROVE  /\ Distinct(load[p]) /\ ToSet(load[p]) \cap ToSet(kept[p]) = {}
           /\ ToSet(load[p]) \cup ToSet(kept[p]) \subseteq ToSet(lines[cur]) \ {Torn}
<1>1. TypeInv /\ WrittenInv /\ NothingLost
  BY DEF ShowInv, FileInv
<1>2. PICK as, bs, is, ts :
        as = load[p] /\ bs = kept[p] /\ is = IntactOf(lines[cur]) /\ ts = taken[cur]
  OBVIOUS
<1>3. as \o bs = is
  BY <1>2 DEF ShowInv, FileInv, ReadInv
<1>4. /\ as \in Seq(Messages) /\ bs \in Seq(Messages)
      /\ ToSet(as \o bs) = ToSet(as) \cup ToSet(bs)
  BY <1>1, <1>2, OwnLines
<1>5. is \in Seq(Messages) /\ ToSet(is) \subseteq ToSet(lines[cur]) \ {Torn}
  BY <1>1, <1>2, ReadSets
<1>6. ts \in Seq(Messages) /\ Distinct(ts \o is)
  <2>1. arrived[cur] = ts \o is /\ ts \in Seq(Messages)
    BY <1>1, <1>2, TakenArrived
  <2>2. Distinct(arrived[cur])
    BY <1>1 DEF WrittenInv
  <2>3. QED
    BY <2>1, <2>2
<1>7. Distinct(is)
  BY <1>5, <1>6, DistinctParts
<1>8. Distinct(as) /\ ToSet(as) \cap ToSet(bs) = {}
  BY <1>3, <1>4, <1>7, DistinctParts
<1>9. QED
  BY <1>2, <1>3, <1>4, <1>5, <1>8

LEMMA ShowReplace ==
    ASSUME ShowInv, NEW p \in Procs, ReplaceStep(p)
    PROVE  TakenInv' /\ WaitInv'
<1>1. TypeInv /\ WrittenInv /\ NothingLost /\ HoldInv
  BY DEF ShowInv, FileInv
<1>2. /\ pc[p] = "replace" /\ pc'[p] = "count" /\ Others(p) /\ cur \in Dirs /\ cur' = cur
      /\ UNCHANGED <<printed, dropped, home, load>> /\ crossed' = Cross(p, cur)
      /\ crossed \subseteq crossed' /\ (cur \notin crossed' => home[p] = cur)
      /\ lines' = [lines EXCEPT ![cur] = kept[p]]
      /\ taken' = [taken EXCEPT ![cur] = @ \o load[p]]
  BY CrossGrows DEF ReplaceStep, Rewrite
<1>3. \A d \in Dirs : /\ lines'[d] = IF d = cur THEN kept[p] ELSE lines[d]
                      /\ taken'[d] = IF d = cur THEN taken[cur] \o load[p] ELSE taken[d]
  BY <1>1, <1>2, TypeParts DEF FilesOK, PastOK
<1>4. \A q \in Procs : \A m : Reads(q, m)' => q # p /\ Reads(q, m) /\ home'[q] = home[q]
  BY <1>2 DEF Reads, Others
<1>5. \A m : m \notin ToSet(load[p]) => SameOf(m)
  BY <1>2, SameKeeps DEF Shows
<1>6. ASSUME NEW m, Gone(m), Once(m) PROVE Gone(m)' /\ Once(m)'
  <2>1. m \notin ToSet(load[p]) /\ m \notin ToSet(kept[p])
    BY <1>2, <1>6 DEF Gone, Reads
  <2>2. Gone(m)'
    BY <1>3, <1>4, <1>6, <2>1 DEF Gone
  <2>3. QED
    BY <1>5, <1>6, <2>1, <2>2, OnceKeeps
<1>7. ASSUME NEW m \in ToSet(load[p]), cur \in Dirs \ crossed' PROVE Gone(m)' /\ Once(m)'
  <2>1. home[p] = cur /\ cur \in Dirs \ crossed
    BY <1>2, <1>7
  <2>2. /\ Distinct(load[p]) /\ m \notin ToSet(kept[p]) /\ m \in ToSet(lines[cur]) \ {Torn}
    BY <1>2, <1>7, <2>1, ReadOnce
  <2>3. Alone(m) /\ Unshown(m)
    BY <2>1, <2>2 DEF ShowInv, WaitInv
  <2>4. \A q \in Procs : ~ Reads(q, m)'
    <3>1. SUFFICES ASSUME NEW q \in Procs, Reads(q, m)' PROVE FALSE
      OBVIOUS
    <3>2. q # p /\ Reads(q, m) /\ home[q] = cur
      BY <1>4, <2>3, <3>1 DEF Alone
    <3>3. pc[p] \notin Outside /\ pc[q] \notin Outside
      BY <1>2, <3>2 DEF Outside, Reads
    <3>4. QED
      BY <1>1, <2>1, <3>2, <3>3, OneHolder
  <2>5. Gone(m)'
    BY <1>3, <2>2, <2>3, <2>4 DEF Gone, Alone
  <2>6. Shows(p, m)' /\ OneIn(load[p], m)'
    <3>1. OneIn(load[p], m)
      BY <1>1, <1>7, <2>2, OwnLines, DistinctOne
    <3>2. load'[p] = load[p]
      BY <1>2
    <3>3. Shows(p, m)'
      BY <1>2, <1>7, <3>2 DEF Shows
    <3>4. OneIn(load[p], m)'
      BY <3>1, <3>2 DEF OneIn
    <3>5. QED
      BY <3>3, <3>4
  <2>7. \A q \in Procs : Shows(q, m)' => q = p
    BY <1>2, <2>3 DEF Unshown, Shows, Others
  <2>8. m \notin dropped' \cup ToSet(printed')
    BY <1>2, <2>3 DEF Unshown
  <2>9. QED
    BY <2>5, <2>6, <2>7, <2>8 DEF Once
<1>8. ASSUME NEW d \in Dirs \ crossed', NEW m \in ToSet(taken'[d])
      PROVE  Gone(m)' /\ Once(m)'
  <2>1. d \in Dirs \ crossed
    BY <1>2
  <2>2. CASE m \in ToSet(taken[d])
    BY <1>6, <2>1, <2>2 DEF ShowInv, TakenInv
  <2>3. CASE m \notin ToSet(taken[d])
    <3>1. d = cur /\ m \in ToSet(taken[cur] \o load[p])
      BY <1>3, <1>8, <2>3
    <3>2. m \in ToSet(taken[cur]) \cup ToSet(load[p])
      <4>1. PICK ts, as : ts = taken[cur] /\ as = load[p]
        OBVIOUS
      <4>2. ts \in Seq(Messages) /\ as \in Seq(Messages)
        BY <1>1, <1>2, <4>1, OwnLines, TypeParts DEF PastOK
      <4>3. QED
        BY <3>1, <4>1, <4>2, ConcatPlaces
    <3>3. QED
      BY <1>7, <2>3, <3>1, <3>2
  <2>4. QED
    BY <2>2, <2>3
<1>9. ASSUME cur' \in Dirs \ crossed', NEW m \in ToSet(lines'[cur']) \ {Torn}
      PROVE  Alone(m)' /\ Unshown(m)'
  <2>1. home[p] = cur /\ cur \in Dirs \ crossed /\ m \in ToSet(kept[p])
    BY <1>2, <1>3, <1>9
  <2>2. m \notin ToSet(load[p]) /\ m \in ToSet(lines[cur]) \ {Torn}
    BY <1>2, <2>1, ReadOnce
  <2>3. Alone(m) /\ Unshown(m)
    BY <2>1, <2>2 DEF ShowInv, WaitInv
  <2>4. Alone(m)'
    BY <1>2, <1>3, <1>4, <2>3 DEF Alone
  <2>5. QED
    BY <1>5, <2>2, <2>3, <2>4, OnceKeeps
<1>10. QED
  BY <1>8, <1>9 DEF TakenInv, WaitInv

LEMMA ShowClear ==
    ASSUME ShowInv, NEW p \in Procs, ClearStep(p)
    PROVE  TakenInv' /\ WaitInv'
<1>1. TypeInv /\ WrittenInv /\ NothingLost /\ HoldInv
  BY DEF ShowInv, FileInv
<1>2. PICK ms : ms = IntactOf(lines[cur])
  OBVIOUS
<1>3. /\ pc[p] = "clear" /\ pc'[p] = "clear count" /\ Others(p) /\ cur \in Dirs /\ cur' = cur
      /\ UNCHANGED <<printed, home, load>> /\ crossed' = Cross(p, cur)
      /\ crossed \subseteq crossed' /\ (cur \notin crossed' => home[p] = cur)
      /\ lines' = [lines EXCEPT ![cur] = <<>>] /\ taken' = [taken EXCEPT ![cur] = @ \o ms]
      /\ dropped' = dropped \cup ToSet(ms)
  BY <1>2, CrossGrows DEF ClearStep, Rewrite
<1>4. \A d \in Dirs : /\ lines'[d] = IF d = cur THEN <<>> ELSE lines[d]
                      /\ taken'[d] = IF d = cur THEN taken[cur] \o ms ELSE taken[d]
  BY <1>1, <1>3, TypeParts DEF FilesOK, PastOK
<1>5. \A q \in Procs : \A m : Reads(q, m)' => q # p /\ Reads(q, m) /\ home'[q] = home[q]
  BY <1>3 DEF Reads, Others
<1>6. ms \in Seq(Messages) /\ ToSet(ms) \subseteq ToSet(lines[cur]) \ {Torn}
  BY <1>1, <1>2, <1>3, ReadSets
<1>7. ASSUME NEW m, Gone(m), Once(m) PROVE Gone(m)' /\ Once(m)'
  <2>1. m \notin ToSet(ms)
    BY <1>3, <1>6, <1>7 DEF Gone
  <2>2. SameOf(m)
    BY <1>3, <2>1, SameKeeps DEF Shows
  <2>3. Gone(m)'
    BY <1>4, <1>5, <1>7, EmptyTypes DEF Gone
  <2>4. QED
    BY <1>7, <2>2, <2>3, OnceKeeps
<1>8. ASSUME NEW m \in ToSet(ms), cur \in Dirs \ crossed' PROVE Gone(m)' /\ Once(m)'
  <2>1. Alone(m) /\ Unshown(m) /\ home[p] = cur
    BY <1>3, <1>6, <1>8 DEF ShowInv, WaitInv
  <2>2. \A q \in Procs : ~ Reads(q, m)'
    <3>1. SUFFICES ASSUME NEW q \in Procs, Reads(q, m)' PROVE FALSE
      OBVIOUS
    <3>2. q # p /\ Reads(q, m) /\ home[q] = cur
      BY <1>5, <2>1, <3>1 DEF Alone
    <3>3. pc[p] \notin Outside /\ pc[q] \notin Outside
      BY <1>3, <3>2 DEF Outside, Reads
    <3>4. QED
      BY <1>1, <2>1, <3>2, <3>3, OneHolder
  <2>3. Gone(m)'
    BY <1>4, <2>1, <2>2, EmptyTypes DEF Gone, Alone
  <2>4. \A q \in Procs : ~ Shows(q, m)'
    BY <1>3, <2>1 DEF Unshown, Shows, Others
  <2>5. m \in dropped' /\ m \notin ToSet(printed')
    BY <1>3, <1>8, <2>1 DEF Unshown
  <2>6. QED
    BY <2>3, <2>4, <2>5 DEF Once
<1>9. ASSUME NEW d \in Dirs \ crossed', NEW m \in ToSet(taken'[d])
      PROVE  Gone(m)' /\ Once(m)'
  <2>1. d \in Dirs \ crossed
    BY <1>3
  <2>2. CASE m \in ToSet(taken[d])
    BY <1>7, <2>1, <2>2 DEF ShowInv, TakenInv
  <2>3. CASE m \notin ToSet(taken[d])
    <3>1. d = cur /\ m \in ToSet(taken[cur] \o ms)
      BY <1>4, <1>9, <2>3
    <3>2. m \in ToSet(taken[cur]) \cup ToSet(ms)
      <4>1. PICK ts : ts = taken[cur]
        OBVIOUS
      <4>2. ts \in Seq(Messages)
        BY <1>1, <1>3, <4>1, TypeParts DEF PastOK
      <4>3. QED
        BY <1>6, <3>1, <4>1, <4>2, ConcatPlaces
    <3>3. QED
      BY <1>8, <2>3, <3>1, <3>2
  <2>4. QED
    BY <2>2, <2>3
<1>10. WaitInv'
  BY <1>3, <1>4, EmptyTypes DEF WaitInv
<1>11. QED
  BY <1>9, <1>10 DEF TakenInv

(* The payload is printed, or lost with its hook.                          *)
LEMMA ShowEnds ==
    ASSUME ShowInv, NEW p \in Procs, PrintStep(p) \/ DeathStep(p)
    PROVE  TakenInv' /\ WaitInv'
<1>1. /\ pc[p] \in {"count", "print"} /\ pc'[p] = "idle" /\ Others(p)
      /\ UNCHANGED <<lines, taken, crossed, cur>>
      /\ \/ printed' = printed \o load[p] /\ dropped' = dropped
         \/ dropped' = dropped \cup ToSet(load[p]) /\ printed' = printed
  BY DEF PrintStep, DeathStep, Aside
<1>2. printed \in Seq(Messages) /\ load[p] \in Seq(Messages)
  BY TypeParts DEF ShowInv, FileInv, PastOK, OwnOK
<1>3. ToSet(printed \o load[p]) = ToSet(printed) \cup ToSet(load[p])
  BY <1>2, ConcatPlaces
<1>4. \A q \in Procs : \A m : Reads(q, m)' => Reads(q, m) /\ home'[q] = home[q]
  BY <1>1 DEF Reads, Others
<1>5. ASSUME NEW m, m \notin ToSet(load[p]) PROVE SameOf(m)
  <2>1. OneIn(printed', m) <=> OneIn(printed, m)
    <3>1. OneIn(printed \o load[p], m) <=> OneIn(printed, m)
      BY <1>2, <1>5, OneInConcat
    <3>2. CASE printed' = printed \o load[p]
      BY <3>1, <3>2
    <3>3. CASE printed' = printed
      BY <3>3
    <3>4. QED
      BY <1>1, <3>2, <3>3
  <2>2. /\ m \in ToSet(printed') <=> m \in ToSet(printed)
        /\ m \in dropped' <=> m \in dropped
    BY <1>1, <1>3, <1>5
  <2>3. \A q \in Procs : (Shows(q, m)' <=> Shows(q, m)) /\ (Shows(q, m) => load'[q] = load[q])
    BY <1>1, <1>5 DEF Shows, Others
  <2>4. QED
    BY <2>1, <2>2, <2>3 DEF SameOf
<1>6. ASSUME NEW m \in ToSet(load[p]), Once(m) PROVE Once(m)'
  <2>1. Shows(p, m)
    BY <1>1, <1>6 DEF Shows
  <2>2. /\ m \notin dropped \cup ToSet(printed) /\ OneIn(load[p], m)
        /\ \A q \in Procs : Shows(q, m) => q = p
    BY <1>6, <2>1 DEF Once
  <2>3. \A q \in Procs : ~ Shows(q, m)'
    BY <1>1, <2>2 DEF Shows, Others
  <2>4. CASE printed' = printed \o load[p] /\ dropped' = dropped
    <3>1. OneIn(printed', m)
      BY <1>2, <2>2, <2>4, OneInConcat
    <3>2. OneIn(printed, m)'
      BY <3>1 DEF OneIn
    <3>3. QED
      BY <2>2, <2>3, <2>4, <3>2 DEF Once
  <2>5. CASE dropped' = dropped \cup ToSet(load[p]) /\ printed' = printed
    BY <1>6, <2>2, <2>3, <2>5 DEF Once
  <2>6. QED
    BY <1>1, <2>4, <2>5
<1>7. ASSUME NEW d \in Dirs \ crossed', NEW m \in ToSet(taken'[d])
      PROVE  Gone(m)' /\ Once(m)'
  <2>1. Gone(m) /\ Once(m)
    BY <1>1, <1>7 DEF ShowInv, TakenInv
  <2>2. Gone(m)'
    BY <1>1, <1>4, <2>1 DEF Gone
  <2>3. Once(m)'
    BY <1>5, <1>6, <2>1, OnceKeeps
  <2>4. QED
    BY <2>2, <2>3
<1>8. ASSUME cur' \in Dirs \ crossed', NEW m \in ToSet(lines'[cur']) \ {Torn}
      PROVE  Alone(m)' /\ Unshown(m)'
  <2>1. Alone(m) /\ Unshown(m)
    BY <1>1, <1>8 DEF ShowInv, WaitInv
  <2>2. m \notin ToSet(load[p])
    BY <1>1, <2>1 DEF Unshown, Shows
  <2>3. Alone(m)'
    BY <1>1, <1>4, <2>1 DEF Alone
  <2>4. QED
    BY <1>5, <2>1, <2>2, <2>3, OnceKeeps
<1>9. QED
  BY <1>7, <1>8 DEF TakenInv, WaitInv

LEMMA ShowStep == ShowInv /\ [Next]_vars => ShowInv'
<1> SUFFICES ASSUME ShowInv, [Next]_vars PROVE ShowInv'
  OBVIOUS
<1>1. FileInv' /\ TypeInv' /\ TypeInv /\ TailInv /\ WrittenInv
  BY FileStep DEF ShowInv, FileInv
<1>2. WrittenInv'
  BY <1>1, WrittenStep
<1>3. ASSUME NEW p \in Procs, Kinds(p) PROVE TakenInv' /\ WaitInv'
  <2>1. CASE Calm(p)
    <3>1. /\ Others(p) /\ UNCHANGED <<lines, taken, cur, printed, dropped>>
          /\ crossed \subseteq crossed'
          /\ pc[p] \notin {"count", "print"} /\ pc'[p] \notin {"replace", "count", "print"}
      BY <2>1 DEF Calm
    <3>2. \A m : SameOf(m)
      BY <3>1, SameKeeps DEF Shows
    <3>3. QED
      BY <3>1, <3>2, ShowKeeps
  <2>2. CASE CountStep(p)
    <3>1. /\ Others(p) /\ UNCHANGED <<lines, taken, cur, printed, dropped, crossed>>
          /\ pc[p] = "count" /\ pc'[p] = "print" /\ load'[p] = load[p]
      BY <2>2 DEF CountStep, Aside
    <3>2. \A m : SameOf(m)
      BY <3>1, SameKeeps DEF Shows
    <3>3. QED
      BY <3>1, <3>2, ShowKeeps
  <2>3. QED
    BY <1>1, <1>3, <2>1, <2>2, ShowLine, ShowTake, ShowReplace, ShowClear, ShowEnds DEF Kinds
<1>4. ASSUME DirStep PROVE TakenInv' /\ WaitInv'
  BY <1>4, ShowDir
<1>5. ASSUME UNCHANGED vars PROVE TakenInv' /\ WaitInv'
  <2>1. UNCHANGED <<lines, taken, printed, dropped, crossed, cur, pc, home, load, kept>>
    BY <1>5 DEF vars, files, dirs, own, past
  <2>2. TakenInv /\ WaitInv
    BY DEF ShowInv
  <2>3. QED
    BY <2>1, <2>2 DEF TakenInv, WaitInv, Gone, Once, Alone, Unshown, Reads, Shows, OneIn
<1>6. QED
  BY <1>1, <1>2, <1>3, <1>4, <1>5, StepKinds DEF ShowInv

LEMMA ShowInit == Init => ShowInv
<1> SUFFICES ASSUME Init PROVE ShowInv
  OBVIOUS
<1>1. /\ \A d \in Dirs : lines[d] = <<>> /\ arrived[d] = <<>> /\ taken[d] = <<>>
      /\ \A p \in Procs : pc[p] = "idle" /\ msg[p] = Nothing
      /\ printed = <<>> /\ dropped = {}
  BY DEF Init
<1>2. ToSet(<<>>) = {} /\ Distinct(<<>>)
  <2>1. Len(<<>>) = 0 /\ 1..0 = {}
    BY EmptySeq
  <2>2. QED
    BY <2>1, EmptyTypes DEF Distinct
<1>3. WrittenInv
  BY <1>1, <1>2 DEF WrittenInv, Carries
<1>4. TakenInv /\ WaitInv
  BY <1>1, <1>2 DEF TakenInv, WaitInv
<1>5. QED
  BY <1>3, <1>4, FileInit DEF ShowInv

(* Counting the copies.                                                    *)
LEMMA CountOne == ASSUME NEW S, NEW x, S = {x} PROVE Cardinality(S) = 1
BY FS_Singleton

LEMMA CountNone == ASSUME NEW S, S = {} PROVE Cardinality(S) = 0
BY FS_EmptySet

LEMMA OnceCounts ==
    ASSUME TypeInv, NEW m, Once(m)
    PROVE  Copies(m) = 1
<1> DEFINE P == {i \in DOMAIN printed : printed[i] = m}
           H == {p \in Hooks : pc[p] \in {"count", "print"} /\ m \in ToSet(load[p])}
           D == {m} \cap dropped
<1>1. Copies(m) = Cardinality(P) + Cardinality(H) + Cardinality(D)
  BY DEF Copies
<1>2. DOMAIN printed = 1..Len(printed) /\ printed \in Lines
  BY TypeParts, MessageTypes DEF PastOK
<1>3. m \notin ToSet(printed) => P = {}
  BY <1>2, PlaceOf
<1>4. OneIn(printed, m) => \E i : P = {i}
  BY <1>2 DEF OneIn
<1>5. (\A p \in Procs : ~ Shows(p, m)) => H = {}
  BY DEF Shows, Procs
<1>6. ASSUME NEW p \in Procs, Shows(p, m), \A q \in Procs : Shows(q, m) => q = p
      PROVE  H = {p}
  <2>1. p \in Hooks
    BY <1>6, TypeParts DEF PointInv, Procs, Shows, Sends
  <2>2. QED
    BY <1>6, <2>1 DEF Shows, Procs
<1>7. (m \in dropped => D = {m}) /\ (m \notin dropped => D = {})
  OBVIOUS
<1>8. CASE m \in dropped /\ m \notin ToSet(printed) /\ \A p \in Procs : ~ Shows(p, m)
  <2>1. P = {} /\ H = {} /\ D = {m}
    BY <1>3, <1>5, <1>7, <1>8
  <2> HIDE DEF P, H, D
  <2>2. Cardinality(P) = 0 /\ Cardinality(H) = 0 /\ Cardinality(D) = 1
    BY <2>1, CountOne, CountNone
  <2>3. QED
    BY <1>1, <2>2
<1>9. CASE OneIn(printed, m) /\ m \notin dropped /\ \A p \in Procs : ~ Shows(p, m)
  <2>1. (\E i : P = {i}) /\ H = {} /\ D = {}
    BY <1>4, <1>5, <1>7, <1>9
  <2> HIDE DEF P, H, D
  <2>2. Cardinality(P) = 1 /\ Cardinality(H) = 0 /\ Cardinality(D) = 0
    BY <2>1, CountOne, CountNone
  <2>3. QED
    BY <1>1, <2>2
<1>10. CASE /\ m \notin dropped \cup ToSet(printed)
            /\ \E p \in Procs : Shows(p, m) /\ OneIn(load[p], m)
                                /\ \A q \in Procs : Shows(q, m) => q = p
  <2>1. P = {} /\ (\E p : H = {p}) /\ D = {}
    BY <1>3, <1>6, <1>7, <1>10
  <2> HIDE DEF P, H, D
  <2>2. Cardinality(P) = 0 /\ Cardinality(H) = 1 /\ Cardinality(D) = 0
    BY <2>1, CountOne, CountNone
  <2>3. QED
    BY <1>1, <2>2
<1>11. QED
  BY <1>8, <1>9, <1>10 DEF Once

(* What was taken out of the inbox is printed once, unless the user        *)
(* cleared it or the hook that took it died.                               *)
THEOREM InboxShowsOnce == Spec => []ShownOnce
<1>1. Spec => []ShowInv
  BY ShowInit, ShowStep, PTL DEF Spec
<1>2. ShowInv => ShownOnce
  BY OnceCounts DEF ShowInv, FileInv, TakenInv, ShownOnce
<1>3. QED
  BY <1>1, <1>2, PTL
=============================================================================
