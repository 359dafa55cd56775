-------------------------- MODULE LineDiffsProofs ---------------------------
(***************************************************************************)
(* What holds of the lines of a zone and of its diffs, for every set of    *)
(* characters and every bound.                                             *)
(*                                                                         *)
(* First what a shortest edit script is, and that accepting one of its     *)
(* diffs makes the rest of it a shortest script again; then what an edit   *)
(* does to each line of a text; then where a zone is after a change.  The  *)
(* invariant of the state comes last, one lemma for each kind of step.     *)
(***************************************************************************)
EXTENDS LineDiffs, TLAPS, FiniteSetTheorems, SequenceTheorems

\* Sets of numbers have a least element,
LEMMA LeastNat ==
    ASSUME NEW T \in SUBSET Nat, T # {}
    PROVE  \E x \in T : \A y \in T : x <= y
<1> DEFINE U == {1..n : n \in T}
<1>1. IsWellFoundedOn(StrictSubsetOrdering(Nat), FiniteSubsetsOf(Nat))
  BY FS_StrictSubsetOrderingWellFounded
<1>2. U \subseteq FiniteSubsetsOf(Nat) /\ U # {}
  <2>1. \A n \in Nat : IsFiniteSet(1..n)
    BY FS_Interval
  <2>2. \A n \in T : 1..n \in SUBSET Nat /\ IsFiniteSet(1..n)
    BY <2>1, SMT
  <2> QED
    BY <2>2 DEF FiniteSubsetsOf
<1>3. PICK u \in U : \A v \in U : ~ (<<v, u>> \in StrictSubsetOrdering(Nat))
  <2> HIDE DEF U
  <2> QED
    BY <1>1, <1>2, WFMin
<1>4. PICK x \in T : u = 1..x
  BY <1>3
<1>5. ASSUME NEW y \in T PROVE x <= y
  <2> SUFFICES ASSUME y < x PROVE FALSE
    BY SMT
  <2>1. 1..y \in U /\ 1..y \subseteq Nat /\ 1..x \subseteq Nat
    BY SMT
  <2>2. x \in 1..x /\ x \notin 1..y /\ 1..y \subseteq 1..x
    BY SMT
  <2>3. <<1..y, 1..x>> \in StrictSubsetOrdering(Nat)
    BY <2>1, <2>2 DEF StrictSubsetOrdering
  <2> QED
    BY <2>1, <2>3, <1>3, <1>4
<1> QED
  BY <1>5

\* and a greatest one when they are bounded.
LEMMA GreatestNat ==
    ASSUME NEW n \in Nat, NEW T \in SUBSET (0..n), T # {}
    PROVE  \E x \in T : \A y \in T : y <= x
<1> DEFINE U == {n - y : y \in T}
<1>1. U \in SUBSET Nat /\ U # {}
  <2>1. \A y \in T : n - y \in Nat
    OBVIOUS
  <2> QED
    BY <2>1
<1>2. PICK u \in U : \A v \in U : u <= v
  <2> HIDE DEF U
  <2> QED
    BY <1>1, LeastNat
<1>3. PICK x \in T : u = n - x
  BY <1>2
<1>4. ASSUME NEW y \in T PROVE y <= x
  <2>1. n - x <= n - y
    BY <1>2, <1>3
  <2> QED
    BY <2>1
<1> QED
  BY <1>4

\* Min and Max of the library.
LEMMA MinIsLeast ==
    ASSUME NEW T \in SUBSET Nat, T # {}
    PROVE  Min(T) \in T /\ \A y \in T : Min(T) <= y
BY LeastNat DEF Min

\* Max of a bounded set.
LEMMA MaxIsGreatest ==
    ASSUME NEW n \in Nat, NEW T \in SUBSET (0..n), T # {}
    PROVE  Max(T) \in T /\ \A y \in T : y <= Max(T)
<1>1. \E x \in T : \A y \in T : x >= y
  BY GreatestNat
<1> QED
  BY <1>1 DEF Max

-----------------------------------------------------------------------------
\* Edit scripts.

\* What a script says of the lines it keeps.
LEMMA ScriptFacts ==
    ASSUME NEW S, NEW old \in Seq(S), NEW new \in Seq(S), NEW m \in Scripts(old, new)
    PROVE  /\ Len(old) \in Nat /\ Len(new) \in Nat
           /\ m \in [1..Len(old) -> 0..Len(new)] /\ Len(m) = Len(old) /\ DOMAIN m = 1..Len(old)
           /\ Kept(m) \subseteq 1..Len(old)
           /\ \A i \in 1..Len(old) : m[i] \in 0..Len(new) /\ (m[i] # 0 <=> i \in Kept(m))
           /\ \A i \in Kept(m) : old[i] = new[m[i]] /\ m[i] \in 1..Len(new)
           /\ \A i, j \in Kept(m) : j < i => m[j] < m[i]
<1>1. Len(old) \in Nat /\ Len(new) \in Nat /\ DOMAIN old = 1..Len(old)
  BY LenProperties
<1>2. m \in [1..Len(old) -> 0..Len(new)]
  BY <1>1 DEF Scripts
<1>3. Len(m) = Len(old) /\ DOMAIN m = 1..Len(old)
  BY <1>1, <1>2
<1>4. Kept(m) \subseteq 1..Len(old) /\ \A i \in 1..Len(old) : m[i] \in 0..Len(new) /\ (m[i] # 0 <=> i \in Kept(m))
  BY <1>2 DEF Kept
<1>5. \A i \in Kept(m) : old[i] = new[m[i]] /\ m[i] \in 1..Len(new)
  <2> SUFFICES ASSUME NEW i \in Kept(m) PROVE old[i] = new[m[i]] /\ m[i] \in 1..Len(new)
    OBVIOUS
  <2>1. i \in DOMAIN old /\ m[i] # 0 /\ m[i] \in 0..Len(new)
    BY <1>1, <1>4
  <2>2. old[i] = new[m[i]]
    BY <2>1 DEF Scripts
  <2> QED
    BY <1>1, <2>1, <2>2
<1>6. \A i, j \in Kept(m) : j < i => m[j] < m[i]
  <2> SUFFICES ASSUME NEW i \in Kept(m), NEW j \in Kept(m), j < i PROVE m[j] < m[i]
    OBVIOUS
  <2>1. i \in DOMAIN old /\ m[i] # 0 /\ j \in 1..(i - 1)
    BY <1>1, <1>4
  <2> QED
    BY <2>1 DEF Scripts
<1> QED
  BY <1>1, <1>2, <1>3, <1>4, <1>5, <1>6

\* What makes a function a script.
LEMMA IsScript ==
    ASSUME NEW S, NEW old \in Seq(S), NEW new \in Seq(S), NEW m \in [1..Len(old) -> 0..Len(new)],
           \A i \in 1..Len(old) : m[i] # 0 => old[i] = new[m[i]],
           \A i, j \in 1..Len(old) : m[i] # 0 /\ j < i => m[j] < m[i]
    PROVE  m \in Scripts(old, new)
<1>1. Len(old) \in Nat /\ DOMAIN old = 1..Len(old)
  BY LenProperties
<1>2. \A i \in 1..Len(old) : \A j \in 1..(i - 1) : j \in 1..Len(old) /\ j < i
  BY <1>1
<1> QED
  BY <1>1, <1>2 DEF Scripts

\* The kept line after line i, and the lines of the streak between them.
LEMMA NextKept ==
    ASSUME NEW S, NEW old \in Seq(S), NEW new \in Seq(S), NEW m \in Scripts(old, new), NEW i \in Kept(m) \cup {0}
    PROVE  /\ After(m, i) \in Kept(m) \cup {Len(old) + 1}
           /\ i \in 0..Len(old) /\ After(m, i) \in 1..(Len(old) + 1) /\ i < After(m, i)
           /\ \A k \in Kept(m) : k <= i \/ After(m, i) <= k
           /\ Place(m, Len(new), i) = IF i = 0 THEN 0 ELSE m[i]
           /\ Place(m, Len(new), After(m, i)) = IF After(m, i) = Len(old) + 1 THEN Len(new) + 1 ELSE m[After(m, i)]
           /\ Place(m, Len(new), i) \in 0..Len(new) /\ Place(m, Len(new), After(m, i)) \in 1..(Len(new) + 1)
           /\ Place(m, Len(new), i) < Place(m, Len(new), After(m, i))
           /\ After(m, i) = Len(old) + 1 <=> Place(m, Len(new), After(m, i)) = Len(new) + 1
           /\ i = 0 <=> Place(m, Len(new), i) = 0
<1> DEFINE n1 == Len(old)
           n2 == Len(new)
           T == {k \in Kept(m) \cup {Len(m) + 1} : k > i}
           a == After(m, i)
<1>1. /\ n1 \in Nat /\ n2 \in Nat /\ Len(m) = n1 /\ DOMAIN m = 1..n1 /\ Kept(m) \subseteq 1..n1
      /\ \A k \in Kept(m) : m[k] \in 1..n2
      /\ \A k, j \in Kept(m) : j < k => m[j] < m[k]
  BY ScriptFacts
<1>2. i \in 0..n1 /\ (i # 0 => i \in Kept(m))
  BY <1>1
<1>3. T \in SUBSET Nat /\ n1 + 1 \in T
  BY <1>1, <1>2
<1>4. a \in T /\ \A k \in T : a <= k
  <2> HIDE DEF T
  <2>1. a = Min(T)
    BY DEF T, a, After
  <2> QED
    BY <1>3, <2>1, MinIsLeast
<1>5. /\ a \in Kept(m) \cup {n1 + 1} /\ i < a /\ a \in 1..(n1 + 1)
      /\ \A k \in Kept(m) : k <= i \/ a <= k
  BY <1>1, <1>2, <1>4
<1> HIDE DEF a, T
<1>6. Place(m, n2, i) = IF i = 0 THEN 0 ELSE m[i]
  BY <1>1, <1>2 DEF Place
<1>7. Place(m, n2, a) = IF a = n1 + 1 THEN n2 + 1 ELSE m[a]
  BY <1>1, <1>5 DEF Place
<1>8. Place(m, n2, i) \in 0..n2 /\ Place(m, n2, a) \in 1..(n2 + 1) /\ (i = 0 <=> Place(m, n2, i) = 0)
      /\ (a = n1 + 1 <=> Place(m, n2, a) = n2 + 1)
  BY <1>1, <1>2, <1>5, <1>6, <1>7
<1>9. Place(m, n2, i) < Place(m, n2, a)
  BY <1>1, <1>2, <1>5, <1>6, <1>7, <1>8
<1> QED
  BY <1>2, <1>5, <1>6, <1>7, <1>8, <1>9 DEF a

\* The books of findDiffs: no diff is left exactly when there is no streak.
LEMMA NoStreak ==
    ASSUME NEW S, NEW old \in Seq(S), NEW new \in Seq(S), NEW m \in Scripts(old, new), NEW i \in Kept(m) \cup {0},
           StreakAfter(m, Len(new), i) \notin findDiffs(m, Len(new))
    PROVE  After(m, i) = i + 1 /\ Place(m, Len(new), i + 1) = Place(m, Len(new), i) + 1
<1> DEFINE d == StreakAfter(m, Len(new), i)
<1>1. ~(d.originalStartLine <= d.originalEndLine \/ d.startLine <= d.endLine)
  BY DEF findDiffs
<1>2. ~(i + 1 <= After(m, i) - 1) /\ ~(Place(m, Len(new), i) + 1 <= Place(m, Len(new), After(m, i)) - 1)
  BY <1>1 DEF StreakAfter
<1>3. /\ i \in 0..Len(old) /\ After(m, i) \in 1..(Len(old) + 1) /\ i < After(m, i)
      /\ Place(m, Len(new), i) \in 0..Len(new) /\ Place(m, Len(new), After(m, i)) \in 1..(Len(new) + 1)
      /\ Place(m, Len(new), i) < Place(m, Len(new), After(m, i))
      /\ Len(old) \in Nat /\ Len(new) \in Nat
  BY NextKept, ScriptFacts
<1>4. After(m, i) = i + 1
  BY <1>2, <1>3
<1> QED
  BY <1>2, <1>3, <1>4

\* Texts without a diff are equal.
LEMMA NoDiffsEqual ==
    ASSUME NEW S, NEW old \in Seq(S), NEW new \in Seq(S), NEW m \in Scripts(old, new),
           findDiffs(m, Len(new)) = {}
    PROVE  old = new
<1> DEFINE n1 == Len(old)
           n2 == Len(new)
           Same(i) == i \in Kept(m) \cup {0} /\ Place(m, n2, i) = i
           T == {i \in 0..n1 : ~Same(i)}
<1>1. n1 \in Nat /\ n2 \in Nat /\ Kept(m) \subseteq 1..n1
  BY ScriptFacts
<1>2. ASSUME NEW i \in 0..n1, Same(i)
      PROVE  After(m, i) = i + 1 /\ Place(m, n2, i + 1) = i + 1 /\ (i + 1 \in Kept(m) \/ (i = n1 /\ n1 = n2))
  <2>1. i \in Kept(m) \cup {0} /\ Place(m, n2, i) = i
    BY <1>2
  <2>2. After(m, i) = i + 1 /\ Place(m, n2, i + 1) = i + 1
    BY <2>1, NoStreak
  <2>3. i + 1 \in Kept(m) \cup {n1 + 1} /\ (i + 1 = n1 + 1 => i + 1 = n2 + 1)
    BY <2>1, <2>2, NextKept
  <2> QED
    BY <1>1, <2>2, <2>3
<1>3. Same(0)
  <2>1. 0 \in Kept(m) \cup {0}
    OBVIOUS
  <2> QED
    BY <2>1, NextKept
<1> HIDE DEF Same
<1>4. T = {}
  <2> SUFFICES ASSUME T # {} PROVE FALSE
    OBVIOUS
  <2>1. T \in SUBSET Nat
    BY <1>1
  <2>2. PICK i \in T : \A k \in T : i <= k
    <3> HIDE DEF T
    <3> QED
      BY <2>1, LeastNat
  <2>3. i \in 1..n1 /\ i - 1 \in 0..n1 /\ Same(i - 1)
    <3>1. i # 0
      BY <1>3, <2>2
    <3>2. i \in 0..n1 /\ i - 1 \in 0..n1 /\ i - 1 \notin T
      BY <1>1, <2>2, <3>1
    <3> QED
      BY <1>1, <3>1, <3>2
  <2>4. (i - 1) + 1 = i
    BY <2>3
  <2>5. Place(m, n2, i) = i /\ i \in Kept(m)
    BY <1>1, <1>2, <2>3, <2>4
  <2> QED
    BY <2>2, <2>5 DEF Same
<1>5. n1 = n2
  BY <1>1, <1>2, <1>4
<1>6. \A i \in 1..n1 : old[i] = new[i]
  <2> SUFFICES ASSUME NEW i \in 1..n1 PROVE old[i] = new[i]
    OBVIOUS
  <2>1. i \in Kept(m) \cup {0} /\ Place(m, n2, i) = i
    BY <1>1, <1>4 DEF Same
  <2>2. m[i] = i /\ i \in Kept(m)
    BY <2>1, NextKept
  <2> QED
    BY <2>2, ScriptFacts
<1> QED
  BY <1>5, <1>6, SeqEqual

\* As many numbers as it counts.
LEMMA UpTo ==
    ASSUME NEW n \in Nat
    PROVE  IsFiniteSet(1..n) /\ Cardinality(1..n) = n
<1>1. 1 \in Int /\ n \in Int
  OBVIOUS
<1>2. IsFiniteSet(1..n) /\ Cardinality(1..n) = IF 1 > n THEN 0 ELSE n - 1 + 1
  BY ONLY <1>1, FS_Interval
<1> QED
  BY <1>2

\* How many lines a script keeps.
LEMMA KeptCount ==
    ASSUME NEW S, NEW old \in Seq(S), NEW new \in Seq(S), NEW m \in Scripts(old, new)
    PROVE  /\ IsFiniteSet(Kept(m)) /\ Cardinality(Kept(m)) \in 0..Len(old)
           /\ Cardinality(Kept(m)) = Len(old) => Kept(m) = 1..Len(old)
<1>1. Len(old) \in Nat /\ Kept(m) \subseteq 1..Len(old)
  BY ScriptFacts
<1>2. IsFiniteSet(1..Len(old)) /\ Cardinality(1..Len(old)) = Len(old)
  BY <1>1, UpTo
<1>3. IsFiniteSet(Kept(m)) /\ Cardinality(Kept(m)) <= Len(old) /\ (Cardinality(Kept(m)) = Len(old) => Kept(m) = 1..Len(old))
  BY <1>1, <1>2, FS_Subset
<1> QED
  BY <1>1, <1>3, FS_CardinalityType

\* Most is the number of lines some script keeps, and none keeps more.
LEMMA MostIsGreatest ==
    ASSUME NEW S, NEW old \in Seq(S), NEW new \in Seq(S)
    PROVE  /\ Most(Scripts(old, new)) \in 0..Len(old)
           /\ \A m \in Scripts(old, new) : Cardinality(Kept(m)) <= Most(Scripts(old, new))
           /\ \E m \in Scripts(old, new) : Cardinality(Kept(m)) = Most(Scripts(old, new))
<1> DEFINE T == {Cardinality(Kept(m)) : m \in Scripts(old, new)}
<1>1. Len(old) \in Nat /\ Len(new) \in Nat
  BY LenProperties
<1>2. [i \in 1..Len(old) |-> 0] \in Scripts(old, new)
  BY <1>1, IsScript
<1>3. T \in SUBSET (0..Len(old)) /\ T # {}
  BY <1>2, KeptCount
<1>4. Most(Scripts(old, new)) \in T /\ \A x \in T : x <= Most(Scripts(old, new))
  <2>1. Most(Scripts(old, new)) = Max(T)
    BY DEF Most
  <2> HIDE DEF T
  <2> QED
    BY <1>1, <1>3, <2>1, MaxIsGreatest
<1> QED
  BY <1>3, <1>4

\* Equal texts have no diffs: a script that keeps the most keeps every line in its place.
LEMMA EqualNoDiffs ==
    ASSUME NEW S, NEW text \in Seq(S), NEW m \in diffLines(text, text)
    PROVE  findDiffs(m, Len(text)) = {}
<1> DEFINE n == Len(text)
           same == [i \in 1..n |-> i]
<1>1. n \in Nat /\ m \in Scripts(text, text) /\ Cardinality(Kept(m)) = Most(Scripts(text, text))
  BY LenProperties DEF diffLines
<1>2. same \in Scripts(text, text) /\ Kept(same) = 1..n
  <2>1. same \in [1..n -> 0..n] /\ DOMAIN same = 1..n /\ \A i \in 1..n : same[i] = i
    BY <1>1
  <2> HIDE DEF same
  <2>2. same \in Scripts(text, text)
    BY <1>1, <2>1, IsScript
  <2> QED
    BY <1>1, <2>1, <2>2 DEF Kept
<1>3. Kept(m) = 1..n
  <2>1. Cardinality(1..n) = n
    BY <1>1, UpTo
  <2>2. n <= Cardinality(Kept(m))
    BY <1>1, <1>2, <2>1, MostIsGreatest
  <2>3. Cardinality(Kept(m)) \in 0..n /\ (Cardinality(Kept(m)) = n => Kept(m) = 1..n)
    BY <1>1, KeptCount
  <2> QED
    BY <1>1, <2>2, <2>3
<1>4. \A i \in 1..n : m[i] \in 1..n /\ \A j \in 1..n : j < i => m[j] < m[i]
  BY <1>1, <1>3, ScriptFacts
<1>5. \A i \in 1..n : i <= m[i]
  <2> DEFINE T == {i \in 1..n : ~(i <= m[i])}
  <2> SUFFICES ASSUME T # {} PROVE FALSE
    OBVIOUS
  <2>1. T \in SUBSET Nat
    BY <1>1
  <2>2. PICK i \in T : \A k \in T : i <= k
    <3> HIDE DEF T
    <3> QED
      BY <2>1, LeastNat
  <2>3. i \in 1..n /\ m[i] < i /\ m[i] \in 1..n
    BY <1>1, <1>4, <2>2
  <2>4. i - 1 \in 1..n /\ i - 1 < i /\ i - 1 \notin T
    BY <1>1, <2>2, <2>3
  <2>5. m[i - 1] < m[i] /\ i - 1 <= m[i - 1] /\ m[i - 1] \in 1..n
    BY <1>4, <2>3, <2>4
  <2> QED
    BY <1>1, <2>3, <2>4, <2>5
<1>6. \A i \in 1..n : m[i] <= i
  <2> DEFINE T == {i \in 1..n : ~(m[i] <= i)}
  <2> SUFFICES ASSUME T # {} PROVE FALSE
    OBVIOUS
  <2>1. T \in SUBSET (0..n)
    BY <1>1
  <2>2. PICK i \in T : \A k \in T : k <= i
    <3> HIDE DEF T
    <3> QED
      BY <1>1, <2>1, GreatestNat
  <2>3. i \in 1..n /\ i < m[i] /\ m[i] \in 1..n
    BY <1>1, <1>4, <2>2
  <2>4. i + 1 \in 1..n /\ i < i + 1 /\ i + 1 \notin T
    BY <1>1, <2>2, <2>3
  <2>5. m[i] < m[i + 1] /\ m[i + 1] <= i + 1 /\ m[i + 1] \in 1..n
    BY <1>4, <2>3, <2>4
  <2> QED
    BY <1>1, <2>3, <2>4, <2>5
<1>7. \A i \in 1..n : m[i] = i
  BY <1>1, <1>4, <1>5, <1>6
<1>8. ASSUME NEW i \in Kept(m) \cup {0}
      PROVE  After(m, i) = i + 1 /\ Place(m, n, i) = i /\ Place(m, n, i + 1) = i + 1
  <2>1. /\ After(m, i) \in 1..(n + 1) /\ i \in 0..n /\ i < After(m, i)
        /\ \A k \in 1..n : k <= i \/ After(m, i) <= k
        /\ Place(m, n, i) = IF i = 0 THEN 0 ELSE m[i]
        /\ Place(m, n, After(m, i)) = IF After(m, i) = n + 1 THEN n + 1 ELSE m[After(m, i)]
    BY <1>1, <1>3, NextKept
  <2>2. After(m, i) = i + 1
    BY <1>1, <2>1
  <2> QED
    BY <1>1, <1>7, <2>1, <2>2
<1>9. ASSUME NEW i \in Kept(m) \cup {0}
      PROVE  LET d == StreakAfter(m, n, i) IN ~(d.originalStartLine <= d.originalEndLine \/ d.startLine <= d.endLine)
  <2>1. i \in Nat
    BY <1>1, <1>3
  <2> QED
    BY <1>8, <1>9, <2>1 DEF StreakAfter
<1> QED
  BY <1>9 DEF findDiffs

-----------------------------------------------------------------------------
\* Texts.

\* A part of a text.
LEMMA PartFacts ==
    ASSUME NEW S, NEW text \in Seq(S), NEW lo \in Nat, NEW hi \in Nat, 1 <= lo, lo <= hi + 1, hi <= Len(text)
    PROVE  /\ SubSeq(text, lo, hi) \in Seq(S) /\ Len(SubSeq(text, lo, hi)) = hi + 1 - lo
           /\ \A k \in 1..(hi + 1 - lo) : SubSeq(text, lo, hi)[k] = text[lo + k - 1]
<1>1. Len(text) \in Nat /\ \A k \in 1..Len(text) : text[k] \in S
  BY LenProperties, ElementOfSeq
<1>2. lo \in Int /\ hi \in Int /\ \A k \in lo..hi : text[k] \in S
  BY <1>1
<1>3. /\ SubSeq(text, lo, hi) \in Seq(S)
      /\ Len(SubSeq(text, lo, hi)) = IF lo <= hi THEN hi - lo + 1 ELSE 0
      /\ \A k \in 1..(hi - lo + 1) : SubSeq(text, lo, hi)[k] = text[lo + k - 1]
  BY <1>2, SubSeqProperties
<1> QED
  BY <1>2, <1>3

\* A text of which lines lo..hi are replaced by others.
LEMMA ReplacedFacts ==
    ASSUME NEW S, NEW text \in Seq(S), NEW lo \in Nat, NEW hi \in Nat, 1 <= lo, lo <= hi + 1, hi <= Len(text),
           NEW new \in Seq(S)
    PROVE  LET r == Replaced(text, lo, hi, new)
               n == Len(text) - (hi + 1 - lo) + Len(new)
           IN  /\ r \in Seq(S) /\ Len(r) = n /\ n \in Nat /\ Len(new) \in Nat
               /\ \A k \in 1..n : r[k] =
                    IF k < lo THEN text[k]
                    ELSE IF k < lo + Len(new) THEN new[k - lo + 1] ELSE text[k - Len(new) + (hi + 1 - lo)]
<1> DEFINE left == SubSeq(text, 1, lo - 1)
           right == SubSeq(text, hi + 1, Len(text))
           both == left \o new
           r == both \o right
           n == Len(text) - (hi + 1 - lo) + Len(new)
<1>1. Len(text) \in Nat /\ Len(new) \in Nat
  BY LenProperties
<1>2. left \in Seq(S) /\ Len(left) = lo - 1 /\ \A k \in 1..(lo - 1) : left[k] = text[k]
  <2>1. 1 \in Nat /\ 1 <= 1 /\ lo - 1 \in Nat /\ 1 <= (lo - 1) + 1 /\ lo - 1 <= Len(text)
    BY <1>1
  <2>2. /\ left \in Seq(S) /\ Len(left) = (lo - 1) + 1 - 1
        /\ \A k \in 1..((lo - 1) + 1 - 1) : left[k] = text[1 + k - 1]
    BY ONLY <2>1, PartFacts, text \in Seq(S)
  <2> QED
    BY <2>1, <2>2
<1>3. right \in Seq(S) /\ Len(right) = Len(text) - hi /\ \A k \in 1..(Len(text) - hi) : right[k] = text[hi + k]
  <2>1. hi + 1 \in Nat /\ 1 <= hi + 1 /\ hi + 1 <= Len(text) + 1 /\ Len(text) <= Len(text)
    BY <1>1
  <2>2. /\ right \in Seq(S) /\ Len(right) = Len(text) + 1 - (hi + 1)
        /\ \A k \in 1..(Len(text) + 1 - (hi + 1)) : right[k] = text[(hi + 1) + k - 1]
    BY ONLY <1>1, <2>1, PartFacts, text \in Seq(S)
  <2> QED
    BY <1>1, <2>1, <2>2
<1> HIDE DEF left, right
<1>4. /\ both \in Seq(S) /\ Len(both) = lo - 1 + Len(new)
      /\ \A k \in 1..(lo - 1 + Len(new)) : both[k] = IF k < lo THEN text[k] ELSE new[k - lo + 1]
  <2>1. /\ both \in Seq(S) /\ Len(both) = Len(left) + Len(new)
        /\ \A k \in 1..(Len(left) + Len(new)) : both[k] = IF k <= Len(left) THEN left[k] ELSE new[k - Len(left)]
    BY <1>2, ConcatProperties
  <2> HIDE DEF both
  <2> SUFFICES ASSUME NEW k \in 1..(lo - 1 + Len(new)) PROVE both[k] = IF k < lo THEN text[k] ELSE new[k - lo + 1]
    BY <1>1, <1>2, <2>1
  <2>2. both[k] = IF k <= lo - 1 THEN left[k] ELSE new[k - (lo - 1)]
    BY <1>2, <2>1
  <2>3. k - (lo - 1) = k - lo + 1 /\ (k <= lo - 1 <=> k < lo) /\ (k < lo => k \in 1..(lo - 1))
    BY <1>1
  <2> QED
    BY <1>2, <2>2, <2>3
<1> HIDE DEF both
<1>5. /\ r \in Seq(S) /\ Len(r) = n /\ n \in Nat
      /\ \A k \in 1..n : r[k] =
            IF k < lo THEN text[k]
            ELSE IF k < lo + Len(new) THEN new[k - lo + 1] ELSE text[k - Len(new) + (hi + 1 - lo)]
  <2>1. /\ r \in Seq(S) /\ Len(r) = Len(both) + Len(right)
        /\ \A k \in 1..(Len(both) + Len(right)) : r[k] = IF k <= Len(both) THEN both[k] ELSE right[k - Len(both)]
    <3>1. both \in Seq(S) /\ right \in Seq(S)
      BY <1>3, <1>4
    <3> QED
      BY ONLY <3>1, ConcatProperties
  <2> HIDE DEF r
  <2>2. n \in Nat /\ Len(r) = n /\ n = Len(both) + Len(right)
    BY <1>1, <1>3, <1>4, <2>1, SMTT(30)
  <2> SUFFICES ASSUME NEW k \in 1..n
               PROVE  r[k] = IF k < lo THEN text[k]
                             ELSE IF k < lo + Len(new) THEN new[k - lo + 1] ELSE text[k - Len(new) + (hi + 1 - lo)]
    BY <2>1, <2>2
  <2>3. k \in Nat \ {0} /\ k \in 1..(Len(both) + Len(right))
    BY <2>2
  <2>4. CASE k < lo + Len(new)
    <3>1. k \in 1..(lo - 1 + Len(new)) /\ k <= Len(both)
      BY <1>1, <1>4, <2>3, <2>4
    <3> QED
      BY <1>4, <2>1, <2>3, <2>4, <3>1
  <2>5. CASE ~(k < lo + Len(new))
    <3>1. /\ ~(k <= Len(both)) /\ k - Len(both) \in 1..(Len(text) - hi) /\ ~(k < lo)
          /\ hi + (k - Len(both)) = k - Len(new) + (hi + 1 - lo)
      BY <1>1, <1>3, <1>4, <2>2, <2>3, <2>5
    <3>2. r[k] = right[k - Len(both)] /\ right[k - Len(both)] = text[hi + (k - Len(both))]
      BY <1>3, <2>1, <2>3, <3>1
    <3> QED
      BY <2>5, <3>1, <3>2
  <2> QED
    BY <2>4, <2>5
<1> QED
  BY <1>1, <1>5 DEF Replaced, r, both, left, right

-----------------------------------------------------------------------------
\* Streaks.

\* Where a diff of a script lies in both texts.
LEMMA DiffFacts ==
    ASSUME NEW S, NEW old \in Seq(S), NEW new \in Seq(S), NEW m \in Scripts(old, new),
           NEW d \in findDiffs(m, Len(new))
    PROVE  /\ d.originalStartLine \in 1..(Len(old) + 1) /\ d.originalEndLine \in 0..Len(old)
           /\ d.startLine \in 1..(Len(new) + 1) /\ d.endLine \in 0..Len(new)
           /\ d.originalStartLine <= d.originalEndLine + 1 /\ d.startLine <= d.endLine + 1
           /\ d.originalStartLine <= d.originalEndLine \/ d.startLine <= d.endLine
           /\ d.originalStartLine - 1 \in Kept(m) \cup {0} /\ d = StreakAfter(m, Len(new), d.originalStartLine - 1)
           /\ After(m, d.originalStartLine - 1) = d.originalEndLine + 1
           /\ Place(m, Len(new), d.originalStartLine - 1) = d.startLine - 1
           /\ Place(m, Len(new), d.originalEndLine + 1) = d.endLine + 1
           /\ d.startLine = 1 /\ d.endLine = Len(new) => d.originalStartLine = 1 /\ d.originalEndLine = Len(old)
           /\ d.originalStartLine = 1 /\ d.originalEndLine = Len(old) => d.startLine = 1 /\ d.endLine = Len(new)
<1>1. PICK i \in Kept(m) \cup {0} : d = StreakAfter(m, Len(new), i)
  BY DEF findDiffs
<1>2. d.originalStartLine <= d.originalEndLine \/ d.startLine <= d.endLine
  BY DEF findDiffs
<1>3. /\ d.originalStartLine = i + 1 /\ d.originalEndLine = After(m, i) - 1
      /\ d.startLine = Place(m, Len(new), i) + 1 /\ d.endLine = Place(m, Len(new), After(m, i)) - 1
  BY <1>1 DEF StreakAfter
<1>4. /\ i \in 0..Len(old) /\ After(m, i) \in 1..(Len(old) + 1) /\ i < After(m, i)
      /\ Place(m, Len(new), i) \in 0..Len(new) /\ Place(m, Len(new), After(m, i)) \in 1..(Len(new) + 1)
      /\ Place(m, Len(new), i) < Place(m, Len(new), After(m, i))
      /\ (After(m, i) = Len(old) + 1 <=> Place(m, Len(new), After(m, i)) = Len(new) + 1)
      /\ (i = 0 <=> Place(m, Len(new), i) = 0)
      /\ Len(old) \in Nat /\ Len(new) \in Nat
  BY NextKept, ScriptFacts
<1>5. d.originalStartLine - 1 = i /\ d.originalEndLine + 1 = After(m, i)
      /\ d.startLine - 1 = Place(m, Len(new), i) /\ d.endLine + 1 = Place(m, Len(new), After(m, i))
  BY <1>3, <1>4
<1> QED
  BY <1>1, <1>2, <1>3, <1>4, <1>5, SMTT(30)

\* No kept line lies in a streak, and the others keep their side of it.
LEMMA StreakParts ==
    ASSUME NEW S, NEW old \in Seq(S), NEW new \in Seq(S), NEW m \in Scripts(old, new),
           NEW d \in findDiffs(m, Len(new)), NEW k \in Kept(m)
    PROVE  /\ k < d.originalStartLine \/ d.originalEndLine < k
           /\ k < d.originalStartLine => m[k] < d.startLine
           /\ d.originalEndLine < k => d.endLine < m[k]
<1> DEFINE i == d.originalStartLine - 1
<1>1. /\ i \in Kept(m) \cup {0} /\ After(m, i) = d.originalEndLine + 1
      /\ d.originalStartLine \in 1..(Len(old) + 1) /\ d.originalEndLine \in 0..Len(old)
      /\ d.startLine \in 1..(Len(new) + 1) /\ d.endLine \in 0..Len(new)
      /\ Place(m, Len(new), i) = d.startLine - 1
      /\ Place(m, Len(new), d.originalEndLine + 1) = d.endLine + 1
  BY DiffFacts
<1>2. /\ k <= i \/ After(m, i) <= k
      /\ Place(m, Len(new), i) = IF i = 0 THEN 0 ELSE m[i]
      /\ Place(m, Len(new), After(m, i)) = IF After(m, i) = Len(old) + 1 THEN Len(new) + 1 ELSE m[After(m, i)]
      /\ After(m, i) \in Kept(m) \cup {Len(old) + 1}
  <2>1. i \in Kept(m) \cup {0}
    BY <1>1
  <2> HIDE DEF i
  <2>2. /\ After(m, i) \in Kept(m) \cup {Len(old) + 1}
        /\ \A j \in Kept(m) : j <= i \/ After(m, i) <= j
        /\ Place(m, Len(new), i) = IF i = 0 THEN 0 ELSE m[i]
        /\ Place(m, Len(new), After(m, i)) = IF After(m, i) = Len(old) + 1 THEN Len(new) + 1 ELSE m[After(m, i)]
    BY <2>1, NextKept
  <2> QED
    BY <2>2
<1>3. /\ Kept(m) \subseteq 1..Len(old) /\ Len(old) \in Nat /\ Len(new) \in Nat
      /\ \A j \in Kept(m) : m[j] \in 1..Len(new)
      /\ \A j, l \in Kept(m) : j < l => m[j] < m[l]
  BY ScriptFacts
<1>4. k \in 1..Len(old) /\ m[k] \in 1..Len(new)
  BY <1>3
<1>5. k < d.originalStartLine \/ d.originalEndLine < k
  BY <1>1, <1>2, <1>4
<1>6. ASSUME k < d.originalStartLine PROVE m[k] < d.startLine
  <2>1. i # 0 /\ i \in Kept(m) /\ m[i] = d.startLine - 1 /\ (k = i \/ k < i)
    BY <1>1, <1>2, <1>4, <1>6
  <2>2. k < i => m[k] < m[i]
    BY <1>3, <2>1
  <2> QED
    BY <1>1, <1>3, <1>4, <2>1, <2>2
<1>7. ASSUME d.originalEndLine < k PROVE d.endLine < m[k]
  <2> DEFINE a == d.originalEndLine + 1
  <2>1. a \in Kept(m) /\ m[a] = d.endLine + 1 /\ (k = a \/ a < k)
    BY <1>1, <1>2, <1>4, <1>7
  <2>2. a < k => m[a] < m[k]
    BY <1>3, <2>1
  <2> QED
    BY <1>1, <1>3, <1>4, <2>1, <2>2
<1> QED
  BY <1>5, <1>6, <1>7

-----------------------------------------------------------------------------
\* Accepting a diff: its new lines become part of the old text.

Removed(d) == d.originalEndLine + 1 - d.originalStartLine
Added(d) == d.endLine + 1 - d.startLine
Patched(old, new, d) == Replaced(old, d.originalStartLine, d.originalEndLine, SubSeq(new, d.startLine, d.endLine))

\* A script for the patched text from one for the old: the new lines are kept; and back.
Widened(m, d, n) ==
    [k \in 1..n |->
        IF k < d.originalStartLine THEN m[k]
        ELSE IF k < d.originalStartLine + Added(d) THEN d.startLine + (k - d.originalStartLine)
        ELSE m[k - Added(d) + Removed(d)]]
Narrowed(m, d, n) ==
    [k \in 1..n |->
        IF k < d.originalStartLine THEN m[k]
        ELSE IF k <= d.originalEndLine THEN 0
        ELSE m[k - Removed(d) + Added(d)]]

\* The lines of the patched text.
LEMMA PatchedFacts ==
    ASSUME NEW S, NEW old \in Seq(S), NEW new \in Seq(S), NEW m \in Scripts(old, new),
           NEW d \in findDiffs(m, Len(new))
    PROVE  LET r == Patched(old, new, d)
               n == Len(old) - Removed(d) + Added(d)
           IN  /\ r \in Seq(S) /\ Len(r) = n /\ n \in Nat /\ Removed(d) \in Nat /\ Added(d) \in Nat
               /\ d.originalStartLine \in 1..(n + 1) /\ d.originalStartLine + Added(d) \in 1..(n + 1)
               /\ \A k \in 1..n : r[k] =
                    IF k < d.originalStartLine THEN old[k]
                    ELSE IF k < d.originalStartLine + Added(d) THEN new[d.startLine + (k - d.originalStartLine)]
                    ELSE old[k - Added(d) + Removed(d)]
<1> DEFINE os == d.originalStartLine
           oe == d.originalEndLine
           s == d.startLine
           e == d.endLine
           part == SubSeq(new, s, e)
           r == Patched(old, new, d)
           n == Len(old) - Removed(d) + Added(d)
<1>1. /\ os \in 1..(Len(old) + 1) /\ oe \in 0..Len(old) /\ os <= oe + 1
      /\ s \in 1..(Len(new) + 1) /\ e \in 0..Len(new) /\ s <= e + 1
      /\ Len(old) \in Nat /\ Len(new) \in Nat
  BY DiffFacts, ScriptFacts
<1>2. Removed(d) = oe + 1 - os /\ Added(d) = e + 1 - s
  BY DEF Removed, Added
<1>3. r = Replaced(old, os, oe, part)
  BY DEF Patched
<1> HIDE DEF os, oe, s, e, r
<1>4. part \in Seq(S) /\ Len(part) = Added(d) /\ \A k \in 1..Added(d) : part[k] = new[s + k - 1]
  <2>1. s \in Nat /\ e \in Nat /\ 1 <= s /\ s <= e + 1 /\ e <= Len(new)
    BY <1>1
  <2>2. part \in Seq(S) /\ Len(part) = e + 1 - s /\ \A k \in 1..(e + 1 - s) : part[k] = new[s + k - 1]
    BY <2>1, PartFacts
  <2> QED
    BY <1>2, <2>2
<1> HIDE DEF part
<1>5. /\ r \in Seq(S) /\ Len(r) = n /\ n \in Nat
      /\ \A k \in 1..n : r[k] =
            IF k < os THEN old[k]
            ELSE IF k < os + Len(part) THEN part[k - os + 1] ELSE old[k - Len(part) + (oe + 1 - os)]
  <2>1. os \in Nat /\ oe \in Nat /\ 1 <= os /\ os <= oe + 1 /\ oe <= Len(old) /\ part \in Seq(S) /\ old \in Seq(S)
    BY <1>1, <1>4
  <2>2. Replaced(old, os, oe, part) \in Seq(S)
    BY ONLY <2>1, ReplacedFacts
  <2>4. Len(Replaced(old, os, oe, part)) = Len(old) - (oe + 1 - os) + Len(part)
    BY ONLY <2>1, ReplacedFacts
  <2>6. Len(old) \in Nat /\ Len(part) \in Nat
    BY ONLY <2>1, LenProperties
  <2>7. Len(old) - (oe + 1 - os) + Len(part) \in Nat
    BY ONLY <2>1, <2>6
  <2>5. \A k \in 1..(Len(old) - (oe + 1 - os) + Len(part)) : Replaced(old, os, oe, part)[k] =
             IF k < os THEN old[k]
             ELSE IF k < os + Len(part) THEN part[k - os + 1] ELSE old[k - Len(part) + (oe + 1 - os)]
    BY ONLY <2>1, ReplacedFacts
  <2>3. n = Len(old) - (oe + 1 - os) + Len(part)
    BY <1>2, <1>4
  <2> QED
    BY <1>3, <2>2, <2>3, <2>4, <2>5, <2>6, <2>7
<1>6. Removed(d) \in Nat /\ Added(d) \in Nat /\ os \in 1..(n + 1) /\ os + Added(d) \in 1..(n + 1)
  BY <1>1, <1>2
<1>7. ASSUME NEW k \in 1..n, ~(k < os), k < os + Added(d)
      PROVE  part[k - os + 1] = new[s + (k - os)]
  <2> HIDE DEF n
  <2>1. k - os + 1 \in 1..Added(d) /\ s + (k - os + 1) - 1 = s + (k - os)
    <3> DEFINE a == Added(d)
    <3>1. k \in Nat /\ os \in Nat /\ a \in Nat /\ s \in Nat /\ ~(k < os) /\ k < os + a
      <4>1. k \in Nat
        BY ONLY <1>5, k \in 1..n
      <4> QED
        BY <1>1, <1>6, <1>7, <4>1
    <3> HIDE DEF a
    <3>2. k - os + 1 \in 1..a /\ s + (k - os + 1) - 1 = s + (k - os)
      BY ONLY <3>1
    <3> QED
      BY <3>2 DEF a
  <2> QED
    BY <1>4, <2>1
<1>8. \A k \in 1..n : k - Len(part) + (oe + 1 - os) = k - Added(d) + Removed(d)
  BY <1>2, <1>4
<1>9. \A k \in 1..n : r[k] =
            IF k < os THEN old[k]
            ELSE IF k < os + Added(d) THEN new[s + (k - os)] ELSE old[k - Added(d) + Removed(d)]
  <2> SUFFICES ASSUME NEW k \in 1..n
               PROVE  r[k] = IF k < os THEN old[k]
                        ELSE IF k < os + Added(d) THEN new[s + (k - os)] ELSE old[k - Added(d) + Removed(d)]
    OBVIOUS
  <2>1. r[k] = IF k < os THEN old[k]
               ELSE IF k < os + Added(d) THEN part[k - os + 1] ELSE old[k - Added(d) + Removed(d)]
    BY <1>4, <1>5, <1>8
  <2> QED
    BY <1>7, <2>1
<1> QED
  BY <1>5, <1>6, <1>9 DEF os, oe, s, e, r

\* The widened script.
LEMMA WidenedFacts ==
    ASSUME NEW S, NEW old \in Seq(S), NEW new \in Seq(S), NEW m \in Scripts(old, new),
           NEW d \in findDiffs(m, Len(new))
    PROVE  LET r == Patched(old, new, d)
               w == Widened(m, d, Len(r))
           IN  /\ w \in Scripts(r, new)
               /\ \A k \in 1..Len(r) : k \in Kept(w) <=>
                    IF k < d.originalStartLine THEN k \in Kept(m)
                    ELSE k < d.originalStartLine + Added(d) \/ k - Added(d) + Removed(d) \in Kept(m)
               /\ \A k \in Kept(w) : w[k] =
                    IF k < d.originalStartLine THEN m[k]
                    ELSE IF k < d.originalStartLine + Added(d) THEN d.startLine + (k - d.originalStartLine)
                    ELSE m[k - Added(d) + Removed(d)]
<1> DEFINE os == d.originalStartLine
           oe == d.originalEndLine
           s == d.startLine
           e == d.endLine
           x == Removed(d)
           y == Added(d)
           r == Patched(old, new, d)
           n == Len(r)
           w == Widened(m, d, n)
<1>1. /\ os \in 1..(Len(old) + 1) /\ oe \in 0..Len(old) /\ os <= oe + 1
      /\ s \in 1..(Len(new) + 1) /\ e \in 0..Len(new) /\ s <= e + 1
      /\ Len(old) \in Nat /\ Len(new) \in Nat
  BY DiffFacts, ScriptFacts
<1>2. x = oe + 1 - os /\ y = e + 1 - s /\ x \in Nat /\ y \in Nat
  <2>1. x = oe + 1 - os /\ y = e + 1 - s
    BY DEF Removed, Added
  <2> HIDE DEF os, oe, s, e, x, y
  <2> QED
    BY <1>1, <2>1
<1>3. /\ r \in Seq(S) /\ n = Len(old) - x + y /\ n \in Nat
      /\ \A k \in 1..n : r[k] =
            IF k < os THEN old[k] ELSE IF k < os + y THEN new[s + (k - os)] ELSE old[k - y + x]
  BY PatchedFacts
<1>4. /\ Len(old) \in Nat /\ Len(new) \in Nat
      /\ \A i \in 1..Len(old) : m[i] \in 0..Len(new) /\ (m[i] # 0 <=> i \in Kept(m))
      /\ \A i \in Kept(m) : i \in 1..Len(old) /\ old[i] = new[m[i]] /\ m[i] \in 1..Len(new)
      /\ \A i, j \in Kept(m) : j < i => m[j] < m[i]
  BY ScriptFacts
<1>5. w = [k \in 1..n |-> IF k < os THEN m[k] ELSE IF k < os + y THEN s + (k - os) ELSE m[k - y + x]]
  BY DEF Widened
<1>6. \A k \in Kept(m) : /\ k < os \/ oe < k
                         /\ k < os => m[k] < s
                         /\ oe < k => e < m[k]
  BY StreakParts
<1> HIDE DEF os, oe, s, e, x, y, r, n, w
<1>7. ASSUME NEW k \in 1..n
      PROVE  /\ k < os => k \in 1..Len(old)
             /\ ~(k < os + y) => k - y + x \in 1..Len(old) /\ oe < k - y + x
             /\ ~(k < os) /\ k < os + y => s + (k - os) \in s..e /\ s + (k - os) \in 1..Len(new)
  BY <1>1, <1>2, <1>3, <1>4
<1>8. w \in [1..n -> 0..Len(new)] /\ DOMAIN w = 1..n
  BY <1>4, <1>5, <1>7
<1>9. \A k \in 1..n : w[k] # 0 <=> IF k < os THEN k \in Kept(m) ELSE k < os + y \/ k - y + x \in Kept(m)
  BY <1>4, <1>5, <1>7
<1>10. ASSUME NEW k \in 1..n, w[k] # 0 PROVE r[k] = new[w[k]]
  <2>1. CASE k < os
    BY <1>3, <1>4, <1>5, <1>9, <1>10, <2>1
  <2>2. CASE ~(k < os) /\ k < os + y
    BY <1>3, <1>5, <2>2
  <2>3. CASE ~(k < os) /\ ~(k < os + y)
    BY <1>3, <1>4, <1>5, <1>9, <1>10, <2>3
  <2> QED
    BY <2>1, <2>2, <2>3
<1>11. ASSUME NEW i \in 1..n, NEW j \in 1..n, w[i] # 0, j < i PROVE w[j] < w[i]
  <2>1. w[j] \in 0..Len(new) /\ w[i] \in 0..Len(new)
    BY <1>8
  <2>2. CASE w[j] = 0
    BY <1>11, <2>1, <2>2
  <2>3. CASE w[j] # 0
    <3>1. CASE i < os
      <4>1. w[i] = m[i] /\ w[j] = m[j] /\ i \in Kept(m) /\ j \in Kept(m)
        BY <1>1, <1>5, <1>9, <1>11, <2>3, <3>1
      <4> QED
        BY <1>4, <1>11, <4>1
    <3>2. CASE ~(i < os) /\ i < os + y
      <4>1. w[i] = s + (i - os)
        BY <1>5, <3>2
      <4>2. CASE j < os
        <5>1. w[j] = m[j] /\ j \in Kept(m)
          BY <1>5, <1>9, <2>3, <4>2
        <5> QED
          BY <1>1, <1>4, <1>6, <3>2, <4>1, <4>2, <5>1
      <4>3. CASE ~(j < os)
        <5>1. j < os + y /\ w[j] = s + (j - os)
          BY <1>1, <1>2, <1>5, <1>11, <3>2, <4>3
        <5> QED
          BY <1>1, <1>11, <4>1, <5>1
      <4> QED
        BY <4>2, <4>3
    <3>3. CASE ~(i < os) /\ ~(i < os + y)
      <4>1. w[i] = m[i - y + x] /\ i - y + x \in Kept(m) /\ oe < i - y + x
        BY <1>1, <1>2, <1>5, <1>7, <1>9, <1>11, <3>3
      <4>2. e < m[i - y + x] /\ m[i - y + x] \in 1..Len(new)
        BY <1>4, <1>6, <4>1
      <4>3. CASE j < os
        <5>1. w[j] = m[j] /\ j \in Kept(m) /\ m[j] < s /\ m[j] \in 1..Len(new)
          BY <1>4, <1>5, <1>6, <1>9, <2>3, <4>3
        <5> QED
          BY <1>1, <4>1, <4>2, <5>1
      <4>4. CASE ~(j < os) /\ j < os + y
        <5>1. w[j] = s + (j - os) /\ w[j] \in s..e
          BY <1>5, <1>7, <4>4
        <5> QED
          BY <1>1, <4>1, <4>2, <5>1
      <4>5. CASE ~(j < os) /\ ~(j < os + y)
        <5>1. w[j] = m[j - y + x] /\ j - y + x \in Kept(m)
          BY <1>5, <1>9, <2>3, <4>5
        <5>2. j - y + x < i - y + x
          BY <1>2, <1>11
        <5> QED
          BY <1>4, <4>1, <5>1, <5>2
      <4> QED
        BY <4>3, <4>4, <4>5
    <3> QED
      BY <3>1, <3>2, <3>3
  <2> QED
    BY <2>2, <2>3
<1>12. w \in Scripts(r, new)
  <2>1. n = Len(r)
    BY DEF n
  <2> QED
    BY <1>3, <1>8, <1>10, <1>11, <2>1, IsScript
<1>13. \A k \in 1..n : k \in Kept(w) <=> w[k] # 0
  BY <1>8 DEF Kept
<1>14. \A k \in Kept(w) : k \in 1..n
  BY <1>8 DEF Kept
<1>15. /\ \A k \in 1..n : k \in Kept(w) <=> IF k < os THEN k \in Kept(m) ELSE k < os + y \/ k - y + x \in Kept(m)
       /\ \A k \in Kept(w) : w[k] = IF k < os THEN m[k] ELSE IF k < os + y THEN s + (k - os) ELSE m[k - y + x]
  BY <1>5, <1>9, <1>13, <1>14
<1> QED
  BY <1>12, <1>15 DEF os, oe, s, e, x, y, r, n, w

\* Widening and narrowing give the script back.
LEMMA NarrowedFacts ==
    ASSUME NEW S, NEW old \in Seq(S), NEW new \in Seq(S), NEW m \in Scripts(old, new),
           NEW d \in findDiffs(m, Len(new)), NEW w \in Scripts(Patched(old, new, d), new)
    PROVE  LET k == Narrowed(w, d, Len(old))
               added == d.originalStartLine..(d.originalStartLine + Added(d) - 1)
           IN  /\ k \in Scripts(old, new)
               /\ Cardinality(Kept(w)) <= Cardinality(Kept(k)) + Added(d)
               /\ added \subseteq Kept(w) => Cardinality(Kept(w)) = Cardinality(Kept(k)) + Added(d)
<1> DEFINE os == d.originalStartLine
           oe == d.originalEndLine
           x == Removed(d)
           y == Added(d)
           r == Patched(old, new, d)
           n == Len(r)
           n1 == Len(old)
           k == Narrowed(w, d, n1)
           added == os..(os + y - 1)
<1>1. /\ os \in 1..(n1 + 1) /\ oe \in 0..n1 /\ os <= oe + 1 /\ n1 \in Nat
      /\ d.startLine \in 1..(Len(new) + 1) /\ d.endLine \in 0..Len(new) /\ d.startLine <= d.endLine + 1 /\ Len(new) \in Nat
  BY DiffFacts, ScriptFacts
<1>2. x = oe + 1 - os /\ x \in Nat /\ y \in Nat
  <2>1. x = oe + 1 - os
    BY DEF Removed
  <2> QED
    BY <2>1, PatchedFacts
<1>3. /\ r \in Seq(S) /\ n = n1 - x + y /\ n \in Nat
      /\ \A j \in 1..n : j < os => r[j] = old[j]
      /\ \A j \in 1..n : ~(j < os + y) => r[j] = old[j - y + x]
  <2>1. /\ r \in Seq(S) /\ n = n1 - x + y /\ n \in Nat
        /\ \A j \in 1..n : r[j] =
              IF j < os THEN old[j] ELSE IF j < os + y THEN new[d.startLine + (j - os)] ELSE old[j - y + x]
    BY PatchedFacts
  <2> HIDE DEF os, oe, x, y, r, n, n1
  <2>2. \A j \in 1..n : j < os => j < os + y
    BY <1>1, <1>2
  <2> QED
    BY <2>1, <2>2
<1>4. k = [j \in 1..n1 |-> IF j < os THEN w[j] ELSE IF j <= oe THEN 0 ELSE w[j - x + y]]
  BY DEF Narrowed
<1> HIDE DEF os, oe, x, y, r, k
<1>5. /\ w \in [1..n -> 0..Len(new)]
      /\ \A i \in 1..n : w[i] \in 0..Len(new) /\ (w[i] # 0 <=> i \in Kept(w))
      /\ \A i \in Kept(w) : i \in 1..n /\ r[i] = new[w[i]] /\ w[i] \in 1..Len(new)
      /\ \A i, j \in Kept(w) : j < i => w[j] < w[i]
  <2>1. w \in Scripts(r, new)
    BY DEF r
  <2> QED
    BY <1>3, <2>1, ScriptFacts
<1> HIDE DEF n, n1, added
<1>6. ASSUME NEW j \in 1..n1
      PROVE  /\ j < os => j \in 1..n
             /\ oe < j => j - x + y \in 1..n /\ ~(j - x + y < os + y) /\ (j - x + y) - y + x = j
  <2>1. /\ os \in Nat /\ oe \in Nat /\ 1 <= os /\ os <= oe + 1 /\ oe <= n1 /\ n1 \in Nat
        /\ x = oe + 1 - os /\ x \in Nat /\ y \in Nat /\ n = n1 - x + y /\ n \in Nat
        /\ j \in Nat /\ 1 <= j /\ j <= n1
    BY <1>1, <1>2, <1>3
  <2>2. j < os => j \in 1..n
    BY ONLY <2>1
  <2>3. ASSUME oe < j PROVE j - x + y \in 1..n /\ ~(j - x + y < os + y) /\ (j - x + y) - y + x = j
    BY ONLY <2>1, <2>3
  <2> QED
    BY <2>2, <2>3
<1>7. k \in [1..n1 -> 0..Len(new)] /\ DOMAIN k = 1..n1
  BY <1>1, <1>4, <1>5, <1>6
<1>8. \A j \in 1..n1 : k[j] # 0 <=> (j < os /\ j \in Kept(w)) \/ (oe < j /\ j - x + y \in Kept(w))
  BY <1>1, <1>4, <1>5, <1>6
<1>9. ASSUME NEW j \in 1..n1, k[j] # 0 PROVE old[j] = new[k[j]]
  <2>1. CASE j < os
    <3>1. k[j] = w[j] /\ j \in Kept(w) /\ j \in 1..n
      BY <1>1, <1>4, <1>6, <1>8, <1>9, <2>1
    <3> QED
      BY <1>3, <1>5, <2>1, <3>1
  <2>2. CASE ~(j < os)
    <3>1. k[j] = w[j - x + y] /\ j - x + y \in Kept(w) /\ oe < j
      BY <1>1, <1>4, <1>8, <1>9, <2>2
    <3> QED
      BY <1>3, <1>5, <1>6, <3>1
  <2> QED
    BY <2>1, <2>2
<1>10. ASSUME NEW i \in 1..n1, NEW j \in 1..n1, k[i] # 0, j < i PROVE k[j] < k[i]
  <2>1. k[j] \in 0..Len(new) /\ k[i] \in 0..Len(new)
    BY <1>7
  <2>2. CASE k[j] = 0
    BY <1>10, <2>1, <2>2
  <2>3. CASE k[j] # 0
    <3>1. CASE i < os
      <4>1. k[i] = w[i] /\ k[j] = w[j] /\ i \in Kept(w) /\ j \in Kept(w)
        BY <1>1, <1>4, <1>8, <1>10, <2>3, <3>1
      <4> QED
        BY <1>5, <1>10, <4>1
    <3>2. CASE ~(i < os)
      <4>1. k[i] = w[i - x + y] /\ i - x + y \in Kept(w) /\ oe < i
        BY <1>1, <1>4, <1>8, <1>10, <3>2
      <4>2. CASE j < os
        <5>1. k[j] = w[j] /\ j \in Kept(w)
          BY <1>1, <1>4, <1>8, <2>3, <4>2
        <5>2. j < i - x + y
          BY <1>1, <1>2, <1>6, <4>1, <4>2
        <5> QED
          BY <1>5, <4>1, <5>1, <5>2
      <4>3. CASE ~(j < os)
        <5>1. k[j] = w[j - x + y] /\ j - x + y \in Kept(w)
          BY <1>1, <1>4, <1>8, <2>3, <4>3
        <5>2. j - x + y < i - x + y
          BY <1>2, <1>10
        <5> QED
          BY <1>5, <4>1, <5>1, <5>2
      <4> QED
        BY <4>2, <4>3
    <3> QED
      BY <3>1, <3>2
  <2> QED
    BY <2>2, <2>3
<1>11. k \in Scripts(old, new)
  BY <1>7, <1>9, <1>10, IsScript DEF n1
<1>12. Kept(k) = {j \in 1..n1 : (j < os /\ j \in Kept(w)) \/ (oe < j /\ j - x + y \in Kept(w))}
  BY <1>7, <1>8 DEF Kept
<1>13. Cardinality(Kept(w) \ added) = Cardinality(Kept(k)) /\ IsFiniteSet(Kept(w) \ added)
  <2> DEFINE f == [j \in Kept(k) |-> IF j < os THEN j ELSE j - x + y]
             T == Kept(w) \ added
  <2>1. \A j \in Kept(k) : f[j] = (IF j < os THEN j ELSE j - x + y) /\ f[j] \in T
    <3> SUFFICES ASSUME NEW j \in Kept(k) PROVE f[j] \in T
      OBVIOUS
    <3>1. j \in 1..n1 /\ ((j < os /\ j \in Kept(w)) \/ (oe < j /\ j - x + y \in Kept(w)))
      BY <1>12
    <3>2. CASE j < os
      BY <1>1, <1>2, <3>1, <3>2 DEF added
    <3>3. CASE ~(j < os)
      <4>1. oe < j /\ j - x + y \in Kept(w) /\ f[j] = j - x + y
        BY <1>1, <3>1, <3>3
      <4>2. ~(j - x + y < os + y)
        BY <1>6, <3>1, <4>1
      <4>3. j - x + y \notin added
        BY <1>1, <1>2, <3>1, <4>2 DEF added
      <4> QED
        BY <4>1, <4>3
    <3> QED
      BY <3>2, <3>3
  <2>2. f \in [Kept(k) -> T]
    BY <2>1
  <2>3. \A i, j \in Kept(k) : f[i] = f[j] => i = j
    <3> SUFFICES ASSUME NEW i \in Kept(k), NEW j \in Kept(k), f[i] = f[j] PROVE i = j
      OBVIOUS
    <3>1. i \in 1..n1 /\ j \in 1..n1 /\ (i < os \/ oe < i) /\ (j < os \/ oe < j)
      BY <1>12
    <3>2. /\ f[i] = IF i < os THEN i ELSE i - x + y
          /\ f[j] = IF j < os THEN j ELSE j - x + y
      BY <2>1
    <3> QED
      BY <1>1, <1>2, <3>1, <3>2
  <2>4. \A t \in T : \E j \in Kept(k) : f[j] = t
    <3> SUFFICES ASSUME NEW t \in T PROVE \E j \in Kept(k) : f[j] = t
      OBVIOUS
    <3>1. t \in Kept(w) /\ t \in 1..n /\ (t < os \/ ~(t < os + y))
      BY <1>1, <1>2, <1>3, <1>5 DEF added
    <3>2. CASE t < os
      <4>1. t \in 1..n1
        BY <1>1, <3>1, <3>2
      <4>2. t \in Kept(k) /\ f[t] = t
        BY <1>12, <3>1, <3>2, <4>1
      <4> QED
        BY <4>2
    <3>3. CASE ~(t < os)
      <4> DEFINE j == t - y + x
      <4>1. j \in 1..n1 /\ oe < j /\ j - x + y = t /\ ~(j < os)
        BY <1>1, <1>2, <1>3, <3>1, <3>3
      <4> HIDE DEF j
      <4>2. j \in Kept(k)
        BY <1>12, <3>1, <4>1
      <4> QED
        BY <4>1, <4>2
    <3> QED
      BY <3>2, <3>3
  <2>5. f \in Bijection(Kept(k), T)
    <3> HIDE DEF f
    <3> QED
      BY <2>2, <2>3, <2>4 DEF Bijection, Injection, Surjection, IsInjective
  <2>6. IsFiniteSet(Kept(k))
    BY <1>11, KeptCount DEF n1
  <2> HIDE DEF f, T
  <2>7. ExistsBijection(Kept(k), T)
    BY <2>5 DEF ExistsBijection
  <2>8. IsFiniteSet(T) /\ Cardinality(T) = Cardinality(Kept(k))
    BY <2>6, <2>7, FS_Bijection
  <2> QED
    BY <2>8 DEF T
<1>14. IsFiniteSet(added) /\ Cardinality(added) = y
  <2>1. os \in Int /\ os + y - 1 \in Int
    BY <1>1, <1>2
  <2>2. IsFiniteSet(added) /\ Cardinality(added) = IF os > os + y - 1 THEN 0 ELSE (os + y - 1) - os + 1
    BY ONLY <2>1, FS_Interval DEF added
  <2> QED
    BY <1>1, <1>2, <2>2
<1>15. IsFiniteSet(Kept(w)) /\ Cardinality(Kept(w)) \in Nat
  <2>1. w \in Scripts(r, new)
    BY DEF r
  <2>2. Len(r) \in Nat
    BY <1>3 DEF n
  <2> QED
    BY <1>3, <2>1, <2>2, KeptCount
<1>16. Cardinality(Kept(w) \ added) = Cardinality(Kept(w)) - Cardinality(Kept(w) \cap added)
  BY <1>15, FS_Difference
<1>17. /\ Cardinality(Kept(w) \cap added) \in Nat /\ Cardinality(Kept(w) \cap added) <= y
       /\ added \subseteq Kept(w) => Cardinality(Kept(w) \cap added) = y
  <2>1. IsFiniteSet(Kept(w) \cap added) /\ Cardinality(Kept(w) \cap added) <= Cardinality(added)
    BY <1>14, FS_Subset
  <2>2. Cardinality(Kept(w) \cap added) \in Nat
    BY <2>1, FS_CardinalityType
  <2>3. added \subseteq Kept(w) => Kept(w) \cap added = added
    OBVIOUS
  <2> QED
    BY <1>14, <2>1, <2>2, <2>3
<1>18. Cardinality(Kept(k)) \in Nat
  BY <1>1, <1>11, KeptCount DEF n1
<1>19. /\ Cardinality(Kept(w)) <= Cardinality(Kept(k)) + y
       /\ added \subseteq Kept(w) => Cardinality(Kept(w)) = Cardinality(Kept(k)) + y
  BY <1>2, <1>13, <1>15, <1>16, <1>17, <1>18
<1> QED
  BY <1>11, <1>19 DEF os, y, k, added, n1

\* The patched text has as many more common lines with the new one as the diff adds, and
\* the widened script is a shortest one.
LEMMA PatchedMost ==
    ASSUME NEW S, NEW old \in Seq(S), NEW new \in Seq(S), NEW m \in diffLines(old, new),
           NEW d \in findDiffs(m, Len(new))
    PROVE  LET r == Patched(old, new, d)
           IN  /\ Widened(m, d, Len(r)) \in diffLines(r, new)
               /\ Most(Scripts(r, new)) = Most(Scripts(old, new)) + Added(d)
<1> DEFINE os == d.originalStartLine
           oe == d.originalEndLine
           x == Removed(d)
           y == Added(d)
           r == Patched(old, new, d)
           n == Len(r)
           n1 == Len(old)
           w == Widened(m, d, n)
           added == os..(os + y - 1)
<1>1. m \in Scripts(old, new) /\ Cardinality(Kept(m)) = Most(Scripts(old, new))
  BY DEF diffLines
<1>2. /\ os \in 1..(n1 + 1) /\ oe \in 0..n1 /\ os <= oe + 1 /\ n1 \in Nat /\ Len(new) \in Nat
  BY <1>1, DiffFacts, ScriptFacts
<1>3. x = oe + 1 - os /\ x \in Nat /\ y \in Nat /\ r \in Seq(S) /\ n = n1 - x + y /\ n \in Nat
  <2>1. x = oe + 1 - os
    BY DEF Removed
  <2> QED
    BY <1>1, <2>1, PatchedFacts
<1>4. w \in Scripts(r, new)
  BY <1>1, WidenedFacts
<1>5. \A k \in 1..n : k \in Kept(w) <=>
                    IF k < os THEN k \in Kept(m) ELSE k < os + y \/ k - y + x \in Kept(m)
  BY <1>1, WidenedFacts
<1>6. w = [k \in 1..n |-> IF k < os THEN m[k] ELSE IF k < os + y THEN d.startLine + (k - os) ELSE m[k - y + x]]
  BY DEF Widened
<1>7. Narrowed(w, d, n1) = [j \in 1..n1 |-> IF j < os THEN w[j] ELSE IF j <= oe THEN 0 ELSE w[j - x + y]]
  BY DEF Narrowed
<1>8. m \in [1..n1 -> 0..Len(new)] /\ \A j \in 1..n1 : j \notin Kept(m) => m[j] = 0
  BY <1>1, ScriptFacts
<1>9. \A j \in Kept(m) : j < os \/ oe < j
  BY <1>1, StreakParts
<1> HIDE DEF os, oe, x, y, r, n, n1, w, added
<1>10. added \subseteq Kept(w)
  <2> SUFFICES ASSUME NEW k \in added PROVE k \in Kept(w)
    OBVIOUS
  <2>1. k \in 1..n /\ ~(k < os) /\ k < os + y
    BY <1>2, <1>3 DEF added
  <2> QED
    BY <1>5, <2>1
<1>11. Narrowed(w, d, n1) = m
  <2> SUFFICES ASSUME NEW j \in 1..n1
               PROVE  (IF j < os THEN w[j] ELSE IF j <= oe THEN 0 ELSE w[j - x + y]) = m[j]
    BY <1>7, <1>8
  <2>1. CASE j < os
    <3>1. j \in 1..n
      BY <1>2, <1>3, <2>1
    <3> QED
      BY <1>6, <2>1, <3>1
  <2>2. CASE ~(j < os) /\ j <= oe
    <3>1. j \notin Kept(m)
      BY <1>2, <1>9, <2>2
    <3> QED
      BY <1>8, <2>2, <3>1
  <2>3. CASE ~(j < os) /\ ~(j <= oe)
    <3>1. j - x + y \in 1..n /\ ~(j - x + y < os) /\ ~(j - x + y < os + y) /\ (j - x + y) - y + x = j
      BY <1>2, <1>3, <2>3
    <3> QED
      BY <1>6, <2>3, <3>1
  <2> QED
    BY <2>1, <2>2, <2>3
<1>12. ASSUME NEW v \in Scripts(r, new)
       PROVE  /\ Narrowed(v, d, n1) \in Scripts(old, new)
              /\ Cardinality(Kept(v)) <= Cardinality(Kept(Narrowed(v, d, n1))) + y
              /\ added \subseteq Kept(v) => Cardinality(Kept(v)) = Cardinality(Kept(Narrowed(v, d, n1))) + y
  BY <1>1, NarrowedFacts DEF r, n1, y, added, os
<1>13. Cardinality(Kept(w)) = Most(Scripts(old, new)) + y
  BY <1>1, <1>4, <1>10, <1>11, <1>12
<1>14. /\ Most(Scripts(old, new)) \in Nat
       /\ \A k \in Scripts(old, new) : Cardinality(Kept(k)) <= Most(Scripts(old, new))
  BY <1>2, MostIsGreatest DEF n1
<1>15. /\ Most(Scripts(r, new)) \in Nat
       /\ \A v \in Scripts(r, new) : Cardinality(Kept(v)) <= Most(Scripts(r, new))
       /\ \E v \in Scripts(r, new) : Cardinality(Kept(v)) = Most(Scripts(r, new))
  <2>1. Len(r) \in Nat
    BY <1>3 DEF n
  <2> QED
    BY <1>3, <2>1, MostIsGreatest
<1>16. \A k \in Scripts(old, new) : Cardinality(Kept(k)) \in Nat
  BY <1>2, KeptCount DEF n1
<1>17. Most(Scripts(r, new)) = Most(Scripts(old, new)) + y
  <2>1. PICK v \in Scripts(r, new) : Cardinality(Kept(v)) = Most(Scripts(r, new))
    BY <1>15
  <2>2. Most(Scripts(r, new)) <= Most(Scripts(old, new)) + y
    BY <1>3, <1>12, <1>14, <1>15, <1>16, <2>1
  <2>3. Most(Scripts(old, new)) + y <= Most(Scripts(r, new))
    BY <1>4, <1>13, <1>15
  <2>4. Most(Scripts(r, new)) \in Nat /\ Most(Scripts(old, new)) \in Nat /\ y \in Nat
    BY <1>3, <1>14, <1>15
  <2> QED
    BY ONLY <2>2, <2>3, <2>4
<1>18. w \in diffLines(r, new)
  BY <1>4, <1>13, <1>17 DEF diffLines
<1> QED
  BY <1>17, <1>18 DEF r, y, w, n

\* The next kept line, told by what it is.
LEMMA AfterIs ==
    ASSUME NEW S, NEW old \in Seq(S), NEW new \in Seq(S), NEW m \in Scripts(old, new), NEW i \in Kept(m) \cup {0},
           NEW a \in Kept(m) \cup {Len(old) + 1}, i < a, \A k \in Kept(m) : k <= i \/ a <= k
    PROVE  After(m, i) = a
<1>1. /\ After(m, i) \in Kept(m) \cup {Len(old) + 1}
      /\ i \in 0..Len(old) /\ After(m, i) \in 1..(Len(old) + 1) /\ i < After(m, i)
      /\ \A k \in Kept(m) : k <= i \/ After(m, i) <= k
  BY NextKept
<1>2. Kept(m) \subseteq 1..Len(old) /\ Len(old) \in Nat
  BY ScriptFacts
<1>3. a \in Nat /\ a <= Len(old) + 1
  BY <1>2
<1>4. After(m, i) <= a
  BY <1>1, <1>2, <1>3
<1>5. a <= After(m, i)
  BY <1>1, <1>2, <1>3
<1> QED
  BY <1>1, <1>3, <1>4, <1>5

\* A streak is no diff exactly when it is empty.
LEMMA StreakIff ==
    ASSUME NEW S, NEW old \in Seq(S), NEW new \in Seq(S), NEW m \in Scripts(old, new), NEW i \in Kept(m) \cup {0}
    PROVE  StreakAfter(m, Len(new), i) \notin findDiffs(m, Len(new)) <=>
               After(m, i) = i + 1 /\ Place(m, Len(new), After(m, i)) = Place(m, Len(new), i) + 1
<1>1. ASSUME After(m, i) = i + 1, Place(m, Len(new), After(m, i)) = Place(m, Len(new), i) + 1,
             StreakAfter(m, Len(new), i) \in findDiffs(m, Len(new))
      PROVE  FALSE
  <2> DEFINE d == StreakAfter(m, Len(new), i)
             p == Place(m, Len(new), i)
  <2>1. d.originalStartLine <= d.originalEndLine \/ d.startLine <= d.endLine
    BY <1>1 DEF findDiffs
  <2>2. i \in Nat /\ p \in Nat
    BY NextKept, ScriptFacts
  <2>3. d.originalStartLine = i + 1 /\ d.originalEndLine = (i + 1) - 1 /\ d.startLine = p + 1 /\ d.endLine = (p + 1) - 1
    BY <1>1 DEF StreakAfter
  <2> QED
    BY <2>1, <2>2, <2>3
<1> QED
  BY <1>1, NoStreak

\* Where a kept line of the old text is in the patched one.
Moved(j, d) == IF j < d.originalStartLine THEN j ELSE j - Removed(d) + Added(d)

\* The numbers of a patched text, said once.
LEMMA PatchedNumbers ==
    ASSUME NEW S, NEW old \in Seq(S), NEW new \in Seq(S), NEW m \in Scripts(old, new),
           NEW d \in findDiffs(m, Len(new)), NEW r, r = Patched(old, new, d), NEW w, w = Widened(m, d, Len(r))
    PROVE  /\ r \in Seq(S) /\ w \in Scripts(r, new)
           /\ Len(old) \in Nat /\ Len(new) \in Nat /\ Len(r) \in Nat /\ Len(r) = Len(old) - Removed(d) + Added(d)
           /\ d.originalStartLine \in 1..(Len(old) + 1) /\ d.originalEndLine \in 0..Len(old)
           /\ d.startLine \in 1..(Len(new) + 1) /\ d.endLine \in 0..Len(new)
           /\ d.originalStartLine <= d.originalEndLine + 1 /\ d.startLine <= d.endLine + 1
           /\ Removed(d) = d.originalEndLine + 1 - d.originalStartLine /\ Removed(d) \in Nat
           /\ Added(d) = d.endLine + 1 - d.startLine /\ Added(d) \in Nat
           /\ \A k \in 1..Len(r) : k \in Kept(w) <=>
                IF k < d.originalStartLine THEN k \in Kept(m)
                ELSE k < d.originalStartLine + Added(d) \/ k - Added(d) + Removed(d) \in Kept(m)
           /\ \A k \in Kept(w) : k \in 1..Len(r) /\ w[k] =
                IF k < d.originalStartLine THEN m[k]
                ELSE IF k < d.originalStartLine + Added(d) THEN d.startLine + (k - d.originalStartLine)
                ELSE m[k - Added(d) + Removed(d)]
           /\ \A k \in Kept(m) : k \in 1..Len(old) /\ (k < d.originalStartLine \/ d.originalEndLine < k)
           /\ d.originalStartLine - 1 \in Kept(m) \cup {0} /\ After(m, d.originalStartLine - 1) = d.originalEndLine + 1
           /\ Place(m, Len(new), d.originalStartLine - 1) = d.startLine - 1
           /\ Place(m, Len(new), d.originalEndLine + 1) = d.endLine + 1
<1>1. /\ r \in Seq(S) /\ Len(r) = Len(old) - Removed(d) + Added(d) /\ Len(r) \in Nat
      /\ Removed(d) \in Nat /\ Added(d) \in Nat
  <2>1. /\ Patched(old, new, d) \in Seq(S) /\ Len(Patched(old, new, d)) = Len(old) - Removed(d) + Added(d)
        /\ Len(old) - Removed(d) + Added(d) \in Nat
        /\ Removed(d) \in Nat /\ Added(d) \in Nat
    BY PatchedFacts
  <2> QED
    BY <2>1
<1>2. /\ w \in Scripts(r, new)
      /\ \A k \in 1..Len(r) : k \in Kept(w) <=>
                IF k < d.originalStartLine THEN k \in Kept(m)
                ELSE k < d.originalStartLine + Added(d) \/ k - Added(d) + Removed(d) \in Kept(m)
      /\ \A k \in Kept(w) : w[k] =
                IF k < d.originalStartLine THEN m[k]
                ELSE IF k < d.originalStartLine + Added(d) THEN d.startLine + (k - d.originalStartLine)
                ELSE m[k - Added(d) + Removed(d)]
  BY WidenedFacts
<1>3. \A k \in Kept(w) : k \in 1..Len(r)
  BY <1>1, <1>2, ScriptFacts
<1>4. Removed(d) = d.originalEndLine + 1 - d.originalStartLine /\ Added(d) = d.endLine + 1 - d.startLine
  BY DEF Removed, Added
<1>5. \A k \in Kept(m) : k \in 1..Len(old) /\ (k < d.originalStartLine \/ d.originalEndLine < k)
  BY StreakParts, ScriptFacts
<1>6. Len(old) \in Nat /\ Len(new) \in Nat
  BY ScriptFacts
<1>7. /\ d.originalStartLine \in 1..(Len(old) + 1) /\ d.originalEndLine \in 0..Len(old)
      /\ d.startLine \in 1..(Len(new) + 1) /\ d.endLine \in 0..Len(new)
      /\ d.originalStartLine <= d.originalEndLine + 1 /\ d.startLine <= d.endLine + 1
      /\ d.originalStartLine - 1 \in Kept(m) \cup {0} /\ After(m, d.originalStartLine - 1) = d.originalEndLine + 1
      /\ Place(m, Len(new), d.originalStartLine - 1) = d.startLine - 1
      /\ Place(m, Len(new), d.originalEndLine + 1) = d.endLine + 1
  BY DiffFacts
<1> QED
  BY ONLY <1>1, <1>2, <1>3, <1>4, <1>5, <1>6, <1>7

\* The streaks besides the accepted one are those of the patched text.
LEMMA PatchedNext ==
    ASSUME NEW S, NEW old \in Seq(S), NEW new \in Seq(S), NEW m \in Scripts(old, new),
           NEW d \in findDiffs(m, Len(new)), NEW r, r = Patched(old, new, d), NEW w, w = Widened(m, d, Len(r)),
           NEW j \in Kept(m) \cup {0}, j # d.originalStartLine - 1
    PROVE  /\ Moved(j, d) \in Kept(w) \cup {0} /\ After(w, Moved(j, d)) = Moved(After(m, j), d)
           /\ Place(w, Len(new), Moved(j, d)) = Place(m, Len(new), j)
           /\ Place(w, Len(new), Moved(After(m, j), d)) = Place(m, Len(new), After(m, j))
           /\ After(m, j) = j + 1 <=> Moved(After(m, j), d) = Moved(j, d) + 1
<1> DEFINE os == d.originalStartLine
           oe == d.originalEndLine
           x == Removed(d)
           y == Added(d)
           n == Len(r)
           n1 == Len(old)
           n2 == Len(new)
           a == After(m, j)
<1>1. /\ r \in Seq(S) /\ w \in Scripts(r, new)
      /\ n1 \in Nat /\ n2 \in Nat /\ n \in Nat /\ n = n1 - x + y
      /\ os \in 1..(n1 + 1) /\ oe \in 0..n1 /\ os <= oe + 1
      /\ x = oe + 1 - os /\ x \in Nat /\ y \in Nat
      /\ os - 1 \in Kept(m) \cup {0}
  BY PatchedNumbers
<1>2. /\ \A k \in 1..n : k \in Kept(w) <=>
            IF k < os THEN k \in Kept(m) ELSE k < os + y \/ k - y + x \in Kept(m)
      /\ \A k \in Kept(w) : k \in 1..n
      /\ \A k \in Kept(m) : k \in 1..n1 /\ (k < os \/ oe < k)
  BY PatchedNumbers
<1>3. \A k \in Kept(w) : w[k] =
            IF k < os THEN m[k] ELSE IF k < os + y THEN d.startLine + (k - os) ELSE m[k - y + x]
  BY PatchedNumbers, SMTT(30)
<1>4. /\ a \in Kept(m) \cup {n1 + 1}
      /\ j \in 0..n1 /\ a \in 1..(n1 + 1) /\ j < a
      /\ \A k \in Kept(m) : k <= j \/ a <= k
      /\ Place(m, n2, j) = IF j = 0 THEN 0 ELSE m[j]
      /\ Place(m, n2, a) = IF a = n1 + 1 THEN n2 + 1 ELSE m[a]
  BY NextKept
<1>5. Moved(j, d) = (IF j < os THEN j ELSE j - x + y) /\ Moved(a, d) = (IF a < os THEN a ELSE a - x + y)
  BY DEF Moved
<1>6. Len(w) = n /\ DOMAIN w = 1..n
  BY <1>1, ScriptFacts
<1>9. j # os - 1
  OBVIOUS
<1> HIDE DEF os, oe, x, y, n, n1, n2, a
<1>7. CASE j < os
  <2>1. os - 1 \in Kept(m) /\ j < os - 1
    BY <1>1, <1>4, <1>7, <1>9
  <2>2. a < os /\ a \in Kept(m)
    BY <1>1, <1>2, <1>4, <2>1
  <2>3. Moved(j, d) = j /\ Moved(a, d) = a
    BY <1>5, <1>7, <2>2
  <2>4. a \in Kept(w) /\ w[a] = m[a]
    <3>1. a \in 1..n
      BY <1>1, <1>4, <2>2
    <3>2. a \in Kept(w)
      BY <1>2, <2>2, <3>1
    <3> QED
      BY <1>3, <2>2, <3>2
  <2>5. j \in Kept(w) \cup {0} /\ (j # 0 => w[j] = m[j])
    <3> SUFFICES ASSUME j # 0 PROVE j \in Kept(w) /\ w[j] = m[j]
      OBVIOUS
    <3>1. j \in Kept(m) /\ j \in 1..n
      BY <1>1, <1>4, <1>7
    <3>2. j \in Kept(w)
      BY <1>2, <1>7, <3>1
    <3> QED
      BY <1>3, <1>7, <3>2
  <2>6. \A k \in Kept(w) : k <= j \/ a <= k
    <3> SUFFICES ASSUME NEW k \in Kept(w) PROVE k <= j \/ a <= k
      OBVIOUS
    <3>1. k \in 1..n
      BY <1>2
    <3>2. CASE k < os
      BY <1>2, <1>4, <3>1, <3>2
    <3>3. CASE ~(k < os)
      BY <1>1, <1>4, <2>2, <3>1, <3>3
    <3> QED
      BY <3>2, <3>3
  <2>7. After(w, j) = a
    <3>1. a \in Kept(w) \cup {Len(r) + 1} /\ j < a /\ j \in Kept(w) \cup {0} /\ w \in Scripts(r, new) /\ r \in Seq(S)
      BY <1>1, <1>4, <2>4, <2>5
    <3> QED
      BY <2>6, <3>1, AfterIs
  <2>8. Place(w, n2, j) = Place(m, n2, j)
    <3>1. j # 0 => j \in DOMAIN w
      BY <1>2, <1>6, <2>5
    <3> QED
      BY <1>4, <2>5, <3>1 DEF Place
  <2>9. Place(w, n2, a) = Place(m, n2, a)
    <3>1. a \in DOMAIN w /\ a # 0 /\ a # n1 + 1
      BY <1>1, <1>2, <1>6, <2>2, <2>4
    <3> QED
      BY <1>4, <2>4, <3>1 DEF Place
  <2> QED
    BY <2>3, <2>5, <2>7, <2>8, <2>9 DEF n2, a
<1>8. CASE ~(j < os)
  <2>1. j \in Kept(m) /\ j \in 1..n1 /\ oe < j /\ ~(a < os)
    BY <1>1, <1>2, <1>4, <1>8
  <2> DEFINE J == j - x + y
             A == a - x + y
  <2>2. Moved(j, d) = J /\ Moved(a, d) = A
    BY <1>5, <1>8, <2>1
  <2>3. /\ J \in 1..n /\ ~(J < os) /\ ~(J < os + y) /\ J - y + x = j
        /\ A \in 1..(n + 1) /\ ~(A < os) /\ ~(A < os + y) /\ A - y + x = a
        /\ J < A /\ (A = n + 1 <=> a = n1 + 1) /\ (a = j + 1 <=> A = J + 1)
    BY <1>1, <1>4, <2>1
  <2> HIDE DEF J, A
  <2>4. J \in Kept(w) /\ w[J] = m[j]
    <3>1. J \in Kept(w)
      BY <1>2, <2>1, <2>3
    <3> QED
      BY <1>3, <2>3, <3>1
  <2>5. A \in Kept(w) \cup {n + 1} /\ (A # n + 1 => w[A] = m[a])
    <3> SUFFICES ASSUME A # n + 1 PROVE A \in Kept(w) /\ w[A] = m[a]
      OBVIOUS
    <3>1. A \in 1..n /\ a \in Kept(m)
      BY <1>1, <1>4, <2>3
    <3>2. A \in Kept(w)
      BY <1>2, <2>3, <3>1
    <3> QED
      BY <1>3, <2>3, <3>2
  <2>6. \A k \in Kept(w) : k <= J \/ A <= k
    <3> SUFFICES ASSUME NEW k \in Kept(w) PROVE k <= J \/ A <= k
      OBVIOUS
    <3>1. k \in 1..n
      BY <1>2
    <3>2. CASE k < os + y
      BY <1>1, <2>3, <3>1, <3>2
    <3>3. CASE ~(k < os + y)
      <4>1. k - y + x \in Kept(m)
        BY <1>1, <1>2, <3>1, <3>3
      <4>2. k - y + x <= j \/ a <= k - y + x
        BY <1>4, <4>1
      <4> QED
        BY <1>1, <1>4, <3>1, <4>2 DEF J, A
    <3> QED
      BY <3>2, <3>3
  <2>7. After(w, J) = A
    <3>1. A \in Kept(w) \cup {Len(r) + 1} /\ J < A /\ J \in Kept(w) \cup {0} /\ w \in Scripts(r, new) /\ r \in Seq(S)
      BY <1>1, <2>3, <2>4, <2>5 DEF n
    <3> QED
      BY <2>6, <3>1, AfterIs
  <2>8. Place(w, n2, J) = Place(m, n2, j)
    <3>1. J \in DOMAIN w /\ J # 0 /\ j # 0
      BY <1>6, <2>1, <2>3
    <3> QED
      BY <1>4, <2>4, <3>1 DEF Place
  <2>9. Place(w, n2, A) = Place(m, n2, a)
    <3>1. A # 0 /\ (A \in DOMAIN w <=> A # n + 1)
      BY <1>1, <1>6, <2>3
    <3> QED
      BY <1>4, <2>3, <2>5, <3>1 DEF Place
  <2> QED
    BY <2>2, <2>3, <2>4, <2>7, <2>8, <2>9 DEF n2, a
<1> QED
  BY <1>7, <1>8

\* Between the lines the diff adds there is nothing to decide.
LEMMA PatchedNew ==
    ASSUME NEW S, NEW old \in Seq(S), NEW new \in Seq(S), NEW m \in Scripts(old, new),
           NEW d \in findDiffs(m, Len(new)), NEW r, r = Patched(old, new, d), NEW w, w = Widened(m, d, Len(r)),
           NEW k \in (d.originalStartLine - 1)..(d.originalStartLine + Added(d) - 1)
    PROVE  /\ k \in Kept(w) \cup {0} /\ After(w, k) = k + 1
           /\ Place(w, Len(new), After(w, k)) = Place(w, Len(new), k) + 1
<1> DEFINE os == d.originalStartLine
           oe == d.originalEndLine
           s == d.startLine
           x == Removed(d)
           y == Added(d)
           n == Len(r)
           n1 == Len(old)
           n2 == Len(new)
<1>1. /\ r \in Seq(S) /\ w \in Scripts(r, new)
      /\ n1 \in Nat /\ n2 \in Nat /\ n \in Nat /\ n = n1 - x + y
      /\ os \in 1..(n1 + 1) /\ oe \in 0..n1 /\ os <= oe + 1 /\ s \in 1..(n2 + 1)
      /\ x = oe + 1 - os /\ x \in Nat /\ y \in Nat /\ d.endLine + 1 = s + y
      /\ os - 1 \in Kept(m) \cup {0} /\ After(m, os - 1) = oe + 1
  <2>1. /\ r \in Seq(S) /\ w \in Scripts(r, new)
        /\ n1 \in Nat /\ n2 \in Nat /\ n \in Nat /\ n = n1 - x + y
        /\ os \in 1..(n1 + 1) /\ oe \in 0..n1 /\ os <= oe + 1 /\ s \in 1..(n2 + 1) /\ d.endLine \in 0..n2
        /\ x = oe + 1 - os /\ x \in Nat /\ y \in Nat /\ y = d.endLine + 1 - s
        /\ os - 1 \in Kept(m) \cup {0} /\ After(m, os - 1) = oe + 1
    BY PatchedNumbers
  <2> DEFINE e == d.endLine
  <2> HIDE DEF os, oe, s, x, y, n, n1, n2, e
  <2>2. e \in 0..n2 /\ n2 \in Nat /\ s \in 1..(n2 + 1) /\ y = e + 1 - s
    BY <2>1 DEF e
  <2>3. e + 1 = s + y
    BY ONLY <2>2
  <2> QED
    BY <2>1, <2>3 DEF e
<1>2. \A i \in 1..n : i \in Kept(w) <=>
            IF i < os THEN i \in Kept(m) ELSE i < os + y \/ i - y + x \in Kept(m)
  BY PatchedNumbers, SMTT(30)
<1>14. \A i \in Kept(w) : i \in 1..n
  BY PatchedNumbers
<1>3. \A i \in Kept(w) : w[i] =
            IF i < os THEN m[i] ELSE IF i < os + y THEN s + (i - os) ELSE m[i - y + x]
  <2>1. r = Patched(old, new, d) /\ w = Widened(m, d, Len(r))
    OBVIOUS
  <2> QED
    BY ONLY <2>1, PatchedNumbers, old \in Seq(S), new \in Seq(S), m \in Scripts(old, new), d \in findDiffs(m, Len(new)), SMTT(30)
<1>4. \A i \in Kept(m) : i \in 1..n1
  BY PatchedNumbers
<1>5. Place(m, n2, os - 1) = s - 1 /\ Place(m, n2, oe + 1) = s + y
  <2>1. Place(m, n2, os - 1) = s - 1 /\ Place(m, n2, oe + 1) = d.endLine + 1
    BY PatchedNumbers
  <2> QED
    BY <1>1, <2>1
<1>6. /\ oe + 1 \in Kept(m) \cup {n1 + 1}
      /\ s - 1 = IF os - 1 = 0 THEN 0 ELSE m[os - 1]
      /\ s + y = IF oe + 1 = n1 + 1 THEN n2 + 1 ELSE m[oe + 1]
  <2> DEFINE i == os - 1
  <2>1. i \in Kept(m) \cup {0}
    BY <1>1
  <2> HIDE DEF i, os, oe, s, y
  <2>2. /\ After(m, i) \in Kept(m) \cup {n1 + 1}
        /\ Place(m, n2, i) = IF i = 0 THEN 0 ELSE m[i]
        /\ Place(m, n2, After(m, i)) = IF After(m, i) = n1 + 1 THEN n2 + 1 ELSE m[After(m, i)]
    BY <2>1, NextKept
  <2>3. After(m, i) = oe + 1
    BY <1>1 DEF i
  <2>4. Place(m, n2, i) = s - 1
    BY <1>5 DEF i
  <2>5. s - 1 = IF i = 0 THEN 0 ELSE m[i]
    BY <2>2, <2>4
  <2>6. oe + 1 \in Kept(m) \cup {n1 + 1}
    BY <2>2, <2>3
  <2>7. s + y = IF oe + 1 = n1 + 1 THEN n2 + 1 ELSE m[oe + 1]
    BY <1>5, <2>2, <2>3
  <2> QED
    BY <2>5, <2>6, <2>7 DEF i
<1>7. k \in (os - 1)..(os + y - 1)
  OBVIOUS
<1>8. Len(w) = n /\ DOMAIN w = 1..n
  BY <1>1, ScriptFacts
<1> HIDE DEF os, oe, s, x, y, n, n1, n2
<1>9. k \in Nat /\ k + 1 \in 1..(n + 1) /\ k <= n
  BY <1>1, <1>7
<1>10. k + 1 \in Kept(w) \cup {n + 1} /\ Place(w, n2, k + 1) = s + (k + 1 - os)
  <2>1. CASE k + 1 < os + y
    <3>1. k + 1 \in 1..n /\ ~(k + 1 < os)
      BY <1>1, <1>7, <2>1
    <3>2. k + 1 \in Kept(w)
      BY <1>2, <2>1, <3>1
    <3>3. w[k + 1] = s + (k + 1 - os)
      <4> DEFINE i == k + 1
      <4>1. i \in Kept(w) /\ ~(i < os) /\ i < os + y
        BY <2>1, <3>1, <3>2
      <4> HIDE DEF i
      <4>2. w[i] = s + (i - os)
        BY <1>3, <4>1
      <4> QED
        <5>1. k \in Nat /\ os \in Nat
          BY <1>1, <1>9
        <5>2. i - os = k + 1 - os
          BY <5>1 DEF i
        <5> QED
          BY <4>2, <5>2 DEF i
    <3>4. Place(w, n2, k + 1) = w[k + 1]
      <4>1. k + 1 # 0 /\ k + 1 \in DOMAIN w
        BY <1>8, <1>9, <3>1
      <4> QED
        BY <4>1 DEF Place
    <3> QED
      BY <3>2, <3>3, <3>4
  <2>2. CASE ~(k + 1 < os + y)
    <3>1. k + 1 = os + y /\ s + (k + 1 - os) = s + y /\ (k + 1) - y + x = oe + 1 /\ ~(k + 1 < os)
          /\ (k + 1 = n + 1 <=> oe + 1 = n1 + 1)
      BY <1>1, <1>7, <1>9, <2>2
    <3>2. CASE k + 1 = n + 1
      <4>1. k + 1 # 0 /\ k + 1 \notin DOMAIN w
        BY <1>1, <1>8, <1>9, <3>2
      <4>2. Place(w, n2, k + 1) = n2 + 1
        BY <4>1 DEF Place
      <4>3. s + y = n2 + 1
        BY <1>6, <3>1, <3>2
      <4> QED
        BY <3>1, <3>2, <4>2, <4>3
    <3>3. CASE k + 1 # n + 1
      <4>1. k + 1 \in 1..n /\ oe + 1 \in Kept(m)
        BY <1>1, <1>6, <1>9, <3>1, <3>3
      <4>2. k + 1 \in Kept(w)
        BY <1>2, <3>1, <4>1
      <4>3. w[k + 1] = m[oe + 1]
        BY <1>3, <2>2, <3>1, <4>2
      <4>4. w[k + 1] = s + (k + 1 - os)
        BY <1>6, <3>1, <3>3, <4>3
      <4>5. Place(w, n2, k + 1) = w[k + 1]
        <5>1. k + 1 # 0 /\ k + 1 \in DOMAIN w
          BY <1>8, <1>9, <4>1
        <5> QED
          BY <5>1 DEF Place
      <4> QED
        BY <4>2, <4>4, <4>5
    <3> QED
      BY <3>2, <3>3
  <2> QED
    BY <2>1, <2>2
<1>11. k \in Kept(w) \cup {0} /\ Place(w, n2, k) = s + (k - os)
  <2>1. CASE k < os
    <3>1. k = os - 1 /\ s + (k - os) = s - 1
      BY <1>1, <1>7, <1>9, <2>1
    <3>2. CASE k = 0
      <4>1. Place(w, n2, k) = 0 /\ k \in Kept(w) \cup {0}
        BY <1>8, <3>2 DEF Place
      <4>2. s - 1 = 0
        BY <1>6, <3>1, <3>2
      <4> QED
        BY <3>1, <4>1, <4>2
    <3>3. CASE k # 0
      <4>1. k \in 1..n /\ k \in Kept(m)
        BY <1>1, <1>9, <3>1, <3>3
      <4>2. k \in Kept(w)
        BY <1>2, <2>1, <4>1
      <4>3. w[k] = m[k]
        BY <1>3, <2>1, <4>2
      <4>4. m[k] = s - 1
        BY <1>6, <3>1, <3>3
      <4> QED
        BY <1>8, <3>1, <3>3, <4>1, <4>2, <4>3, <4>4 DEF Place
    <3> QED
      BY <3>2, <3>3
  <2>2. CASE ~(k < os)
    <3>1. k \in 1..n /\ k < os + y
      BY <1>1, <1>7, <1>9, <2>2
    <3>2. k \in Kept(w)
      BY <1>2, <2>2, <3>1
    <3>3. w[k] = s + (k - os)
      BY <1>3, <2>2, <3>1, <3>2
    <3> QED
      BY <1>8, <3>1, <3>2, <3>3 DEF Place
  <2> QED
    BY <2>1, <2>2
<1>12. After(w, k) = k + 1
  <2> DEFINE a == k + 1
  <2>1. \A i \in Kept(w) : i <= k \/ a <= i
    BY <1>9, <1>14
  <2>2. a \in Kept(w) \cup {Len(r) + 1} /\ k < a /\ k \in Kept(w) \cup {0} /\ w \in Scripts(r, new) /\ r \in Seq(S)
    BY <1>1, <1>9, <1>10, <1>11 DEF n
  <2> HIDE DEF a
  <2>3. After(w, k) = a
    BY <2>1, <2>2, AfterIs
  <2> QED
    BY <2>3 DEF a
<1>13. s + (k + 1 - os) = (s + (k - os)) + 1
  BY <1>1, <1>9
<1> QED
  BY <1>10, <1>11, <1>12, <1>13 DEF n2

\* With a diff accepted nothing is left exactly when it was the only one.
LEMMA PatchedSettled ==
    ASSUME NEW S, NEW old \in Seq(S), NEW new \in Seq(S), NEW m \in Scripts(old, new),
           NEW d \in findDiffs(m, Len(new)), NEW r, r = Patched(old, new, d), NEW w, w = Widened(m, d, Len(r))
    PROVE  findDiffs(w, Len(new)) = {} <=> findDiffs(m, Len(new)) \ {d} = {}
<1> DEFINE os == d.originalStartLine
           x == Removed(d)
           y == Added(d)
           n == Len(r)
           n2 == Len(new)
           Empty(v, i) == After(v, i) = i + 1 /\ Place(v, n2, After(v, i)) = Place(v, n2, i) + 1
<1>1. /\ r \in Seq(S) /\ w \in Scripts(r, new)
      /\ Len(old) \in Nat /\ n \in Nat /\ n = Len(old) - x + y
      /\ os \in 1..(Len(old) + 1) /\ x \in Nat /\ y \in Nat
      /\ x = d.originalEndLine + 1 - os /\ d.originalEndLine \in 0..Len(old)
      /\ os - 1 \in Kept(m) \cup {0} /\ d = StreakAfter(m, n2, os - 1)
  BY PatchedNumbers, DiffFacts
<1>2. \A k \in 1..n : k \in Kept(w) <=>
            IF k < os THEN k \in Kept(m) ELSE k < os + y \/ k - y + x \in Kept(m)
  BY PatchedNumbers
<1>3. /\ \A k \in Kept(w) : k \in 1..n
      /\ \A k \in Kept(m) : k \in 1..Len(old)
  BY PatchedNumbers
<1>4. \A i \in Kept(m) \cup {0} : StreakAfter(m, n2, i) \notin findDiffs(m, n2) <=> Empty(m, i)
  BY StreakIff
<1>5. \A i \in Kept(w) \cup {0} : StreakAfter(w, n2, i) \notin findDiffs(w, n2) <=> Empty(w, i)
  BY <1>1, StreakIff
<1>6. \A j \in Kept(m) \cup {0} : j # os - 1 =>
         /\ Moved(j, d) \in Kept(w) \cup {0} /\ After(w, Moved(j, d)) = Moved(After(m, j), d)
         /\ Place(w, n2, Moved(j, d)) = Place(m, n2, j)
         /\ Place(w, n2, Moved(After(m, j), d)) = Place(m, n2, After(m, j))
         /\ (After(m, j) = j + 1 <=> Moved(After(m, j), d) = Moved(j, d) + 1)
  BY PatchedNext
<1>7. \A k \in (os - 1)..(os + y - 1) : Empty(w, k)
  BY PatchedNew
<1>8. \A j : Moved(j, d) = IF j < os THEN j ELSE j - x + y
  BY DEF Moved
<1>9. /\ \A e \in findDiffs(m, n2) : \E i \in Kept(m) \cup {0} : e = StreakAfter(m, n2, i)
      /\ \A e \in findDiffs(w, n2) : \E i \in Kept(w) \cup {0} : e = StreakAfter(w, n2, i)
  BY DEF findDiffs
<1>10. \A i, j \in Nat : StreakAfter(m, n2, i) = StreakAfter(m, n2, j) => i = j
  <2>1. \A i, j \in Nat : StreakAfter(m, n2, i) = StreakAfter(m, n2, j) => i + 1 = j + 1
    BY DEF StreakAfter
  <2> QED
    BY <2>1
<1> HIDE DEF os, x, y, n, n2
<1>11. \A j \in Kept(m) \cup {0} : j # os - 1 => (Empty(w, Moved(j, d)) <=> Empty(m, j))
  BY <1>6
<1> HIDE DEF Empty
<1>12. ASSUME findDiffs(w, n2) = {} PROVE findDiffs(m, n2) \ {d} = {}
  <2> SUFFICES ASSUME NEW e \in findDiffs(m, n2), e # d PROVE FALSE
    OBVIOUS
  <2>1. PICK j \in Kept(m) \cup {0} : e = StreakAfter(m, n2, j)
    BY <1>9
  <2>2. j # os - 1 /\ ~Empty(m, j)
    BY <1>1, <1>4, <2>1
  <2>3. Moved(j, d) \in Kept(w) \cup {0} /\ ~Empty(w, Moved(j, d))
    BY <1>6, <1>11, <2>2
  <2> QED
    BY <1>5, <1>12, <2>3
<1>13. ASSUME findDiffs(m, n2) \ {d} = {} PROVE findDiffs(w, n2) = {}
  <2> SUFFICES ASSUME NEW e \in findDiffs(w, n2) PROVE FALSE
    OBVIOUS
  <2>1. PICK k \in Kept(w) \cup {0} : e = StreakAfter(w, n2, k)
    BY <1>9
  <2>2. ~Empty(w, k) /\ k \in 0..n /\ k \notin (os - 1)..(os + y - 1)
    <3>1. ~Empty(w, k)
      BY <1>5, <2>1
    <3>2. k \in 0..n
      BY <1>1, <1>3, SMTT(30)
    <3> QED
      BY <1>7, <3>1, <3>2
  <2>3. PICK j \in Kept(m) \cup {0} : j # os - 1 /\ Moved(j, d) = k
    <3>1. CASE k < os
      <4>1. k \in Kept(m) \cup {0} /\ k # os - 1
        BY <1>1, <1>2, <2>2, <3>1
      <4> QED
        BY <1>8, <3>1, <4>1
    <3>2. CASE ~(k < os)
      <4> DEFINE j == k - y + x
      <4>0. os \in Nat /\ os >= 1 /\ y \in Nat /\ x \in Nat /\ n \in Nat
        BY <1>1
      <4>1. k \in 1..n /\ ~(k < os + y)
        BY <2>2, <3>2, <4>0
      <4>5. j \in Nat /\ ~(j < os) /\ j - x + y = k /\ j # os - 1
        BY <4>0, <4>1
      <4>2. k \in Kept(w)
        BY <4>1
      <4>3. j \in Kept(m)
        BY <1>2, <3>2, <4>1, <4>2
      <4> HIDE DEF j
      <4> QED
        BY <1>8, <4>3, <4>5
    <3> QED
      BY <3>1, <3>2
  <2>4. ~Empty(m, j)
    BY <1>11, <2>2, <2>3
  <2>5. StreakAfter(m, n2, j) = d
    BY <1>4, <1>13, <2>4
  <2>6. j = os - 1
    <3>1. j \in Nat /\ os - 1 \in Nat
      BY <1>1, <1>3
    <3> QED
      BY <1>1, <1>10, <2>5, <3>1
  <2> QED
    BY <2>3, <2>6
<1> QED
  BY <1>12, <1>13 DEF n2

\* The books of acceptDiff: when the accepted diff was the last one, the texts are equal.
LEMMA AcceptedLast ==
    ASSUME NEW S, NEW old \in Seq(S), NEW new \in Seq(S), NEW m \in diffLines(old, new),
           NEW d \in findDiffs(m, Len(new))
    PROVE  findDiffs(m, Len(new)) \ {d} = {} <=> Patched(old, new, d) = new
<1> DEFINE r == Patched(old, new, d)
           w == Widened(m, d, Len(r))
<1>1. m \in Scripts(old, new)
  BY DEF diffLines
<1>2. r \in Seq(S) /\ w \in diffLines(r, new) /\ w \in Scripts(r, new)
  <2>1. r \in Seq(S)
    BY <1>1, PatchedFacts
  <2>2. w \in diffLines(r, new)
    BY PatchedMost
  <2> QED
    BY <2>1, <2>2 DEF diffLines
<1>3. findDiffs(w, Len(new)) = {} <=> findDiffs(m, Len(new)) \ {d} = {}
  BY <1>1, PatchedSettled
<1> HIDE DEF r, w
<1>4. findDiffs(w, Len(new)) = {} => r = new
  BY <1>2, NoDiffsEqual
<1>5. r = new => findDiffs(w, Len(new)) = {}
  <2> SUFFICES ASSUME r = new PROVE findDiffs(w, Len(new)) = {}
    OBVIOUS
  <2>1. w \in diffLines(new, new)
    BY <1>2
  <2> QED
    BY <2>1, EqualNoDiffs
<1> QED
  BY <1>3, <1>4, <1>5 DEF r

-----------------------------------------------------------------------------
\* Zones and their code.

Text == Seq(Seq(Chars))
Zones == [startLine : Nat, endLine : Nat, original : Text, live : BOOLEAN]

\* A zone of a text: it begins in it, and is not empty, nor was it.
Fits(z, text) ==
    /\ z \in Zones /\ text \in Text
    /\ 1 <= z.startLine /\ z.startLine <= Len(text) /\ z.startLine <= z.endLine
    /\ 1 <= Len(z.original)

\* The lines of the code of a zone.
LEMMA CodeFacts ==
    ASSUME NEW text, NEW z, Fits(z, text)
    PROVE  /\ Code(text, z) \in Text /\ Len(Code(text, z)) = Smaller(z.endLine, Len(text)) + 1 - z.startLine
           /\ 1 <= Len(Code(text, z)) /\ Len(Code(text, z)) \in Nat
           /\ z.startLine + Len(Code(text, z)) - 1 <= Len(text) /\ z.startLine + Len(Code(text, z)) - 1 <= z.endLine
           /\ \A k \in 1..Len(Code(text, z)) : Code(text, z)[k] = text[z.startLine + k - 1]
<1> DEFINE s == z.startLine
           e == Smaller(z.endLine, Len(text))
           code == SubSeq(text, s, e)
<1>1. z.startLine \in Nat /\ z.endLine \in Nat /\ text \in Seq(Seq(Chars)) /\ Len(text) \in Nat
  <2>1. text \in Seq(Seq(Chars))
    BY DEF Fits, Text
  <2> QED
    BY <2>1, LenProperties DEF Fits, Zones
<1>2. s \in Nat /\ e \in Nat /\ 1 <= s /\ s <= e /\ s <= e + 1 /\ e <= Len(text) /\ e <= z.endLine
  BY <1>1 DEF Fits, Smaller
<1>3. code \in Seq(Seq(Chars)) /\ Len(code) = e + 1 - s /\ \A k \in 1..(e + 1 - s) : code[k] = text[s + k - 1]
  <2> HIDE DEF s, e
  <2>1. code \in Seq(Seq(Chars))
    BY ONLY <1>1, <1>2, PartFacts
  <2>2. Len(code) = e + 1 - s
    BY ONLY <1>1, <1>2, PartFacts
  <2>3. \A k \in 1..(e + 1 - s) : code[k] = text[s + k - 1]
    BY ONLY <1>1, <1>2, PartFacts
  <2> QED
    BY <2>1, <2>2, <2>3
<1>4. code # << >>
  BY <1>2, <1>3
<1>5. Code(text, z) = code
  BY <1>4 DEF Code
<1> HIDE DEF code, s, e
<1>6. Len(code) \in Nat /\ 1 <= Len(code) /\ s + Len(code) - 1 <= Len(text) /\ s + Len(code) - 1 <= z.endLine
  BY <1>1, <1>2, <1>3
<1>7. \A k \in 1..Len(code) : code[k] = text[s + k - 1]
  BY <1>3
<1> QED
  BY <1>3, <1>5, <1>6, <1>7 DEF s, e, Text

\* The diffs of a zone come from a script.
LEMMA ComputedFacts ==
    ASSUME NEW text, NEW z, Fits(z, text), NEW ds \in Computed(text, z)
    PROVE  \E m \in diffLines(z.original, Code(text, z)) :
              /\ m \in Scripts(z.original, Code(text, z))
              /\ ds = {Shifted(d, z) : d \in findDiffs(m, Len(Code(text, z)))}
BY DEF Computed, diffLines

\* There are some exactly when the code is not the original one.
LEMMA BookFacts ==
    ASSUME NEW text, NEW z, Fits(z, text), NEW ds \in Computed(text, z)
    PROVE  ds # {} <=> Code(text, z) # z.original
<1> DEFINE code == Code(text, z)
           old == z.original
<1>1. code \in Seq(Seq(Chars)) /\ old \in Seq(Seq(Chars))
  BY CodeFacts DEF Fits, Zones, Text
<1>2. PICK m \in diffLines(old, code) :
          m \in Scripts(old, code) /\ ds = {Shifted(d, z) : d \in findDiffs(m, Len(code))}
  BY ComputedFacts
<1> HIDE DEF code, old
<1>3. ds = {} <=> findDiffs(m, Len(code)) = {}
  BY <1>2
<1>4. findDiffs(m, Len(code)) = {} => old = code
  BY <1>1, <1>2, NoDiffsEqual
<1>5. old = code => findDiffs(m, Len(code)) = {}
  <2> SUFFICES ASSUME old = code PROVE findDiffs(m, Len(code)) = {}
    OBVIOUS
  <2>1. m \in diffLines(code, code)
    BY <1>2
  <2> QED
    BY <1>1, <2>1, EqualNoDiffs
<1> QED
  BY <1>3, <1>4, <1>5 DEF code, old

\* A diff in the lines of the file.
LEMMA ShiftedFacts ==
    ASSUME NEW S, NEW old \in Seq(S), NEW new \in Seq(S), NEW m \in Scripts(old, new),
           NEW d \in findDiffs(m, Len(new)), NEW z, z.startLine \in Nat
    PROVE  /\ Shifted(d, z).originalStartLine = d.originalStartLine
           /\ Shifted(d, z).originalEndLine = d.originalEndLine
           /\ Shifted(d, z).startLine = d.startLine + z.startLine - 1
           /\ Shifted(d, z).endLine = d.endLine + z.startLine - 1
<1>1. d = StreakAfter(m, Len(new), d.originalStartLine - 1)
  BY DiffFacts
<1>2. d \in [originalStartLine : {d.originalStartLine}, originalEndLine : {d.originalEndLine},
             startLine : {d.startLine}, endLine : {d.endLine}]
  BY <1>1 DEF StreakAfter
<1> QED
  BY <1>2 DEF Shifted

\* Different diffs stay different.
LEMMA ShiftedOnce ==
    ASSUME NEW S, NEW old \in Seq(S), NEW new \in Seq(S), NEW m \in Scripts(old, new),
           NEW d \in findDiffs(m, Len(new)), NEW e \in findDiffs(m, Len(new)), NEW z, z.startLine \in Nat,
           Shifted(d, z) = Shifted(e, z)
    PROVE  d = e
<1>1. d.originalStartLine = e.originalStartLine
  <2>1. Shifted(d, z).originalStartLine = d.originalStartLine
    BY ShiftedFacts
  <2>2. Shifted(e, z).originalStartLine = e.originalStartLine
    BY ShiftedFacts
  <2> QED
    BY <2>1, <2>2
<1>2. d = StreakAfter(m, Len(new), d.originalStartLine - 1)
  BY DiffFacts
<1>3. e = StreakAfter(m, Len(new), e.originalStartLine - 1)
  BY DiffFacts
<1> QED
  BY <1>1, <1>2, <1>3

\* Where a diff of a zone is, and what it means: it never takes up the whole code without
\* taking up the whole original code.
LEMMA DiffInZone ==
    ASSUME NEW text, NEW z, Fits(z, text), NEW ds \in Computed(text, z), NEW d \in ds
    PROVE  /\ d.originalStartLine \in 1..(Len(z.original) + 1) /\ d.originalEndLine \in 0..Len(z.original)
           /\ d.originalStartLine <= d.originalEndLine + 1
           /\ d.startLine \in Nat /\ d.endLine \in Nat /\ z.startLine <= d.startLine /\ d.startLine <= d.endLine + 1
           /\ d.endLine <= z.endLine /\ d.endLine <= Len(text)
           /\ d.originalStartLine <= d.originalEndLine \/ d.startLine <= d.endLine
           /\ d.originalEndLine < d.originalStartLine =>
                z.startLine < d.startLine \/ d.endLine < Smaller(z.endLine, Len(text))
<1> DEFINE code == Code(text, z)
           old == z.original
           n == Len(code)
           n1 == Len(old)
           last == Smaller(z.endLine, Len(text))
<1>1. code \in Seq(Seq(Chars)) /\ old \in Seq(Seq(Chars)) /\ n \in Nat /\ 1 <= n
      /\ z.startLine + n - 1 <= Len(text) /\ z.startLine + n - 1 <= z.endLine /\ n = last + 1 - z.startLine
  BY CodeFacts DEF Fits, Zones, Text
<1>2. z.startLine \in Nat /\ z.endLine \in Nat /\ n1 \in Nat /\ 1 <= n1 /\ 1 <= z.startLine /\ Len(text) \in Nat /\ last \in Nat
  <2>1. old \in Seq(Seq(Chars)) /\ text \in Seq(Seq(Chars))
    BY DEF Fits, Zones, Text
  <2>2. n1 \in Nat /\ Len(text) \in Nat
    BY <2>1, LenProperties
  <2> QED
    BY <2>2 DEF Fits, Zones, Smaller
<1>3. PICK m \in diffLines(old, code) :
          m \in Scripts(old, code) /\ ds = {Shifted(c, z) : c \in findDiffs(m, n)}
  BY ComputedFacts
<1>4. PICK c \in findDiffs(m, n) : d = Shifted(c, z)
  BY <1>3
<1>5. /\ c.originalStartLine \in 1..(n1 + 1) /\ c.originalEndLine \in 0..n1
      /\ c.startLine \in 1..(n + 1) /\ c.endLine \in 0..n
      /\ c.originalStartLine <= c.originalEndLine + 1 /\ c.startLine <= c.endLine + 1
      /\ c.originalStartLine <= c.originalEndLine \/ c.startLine <= c.endLine
      /\ c.startLine = 1 /\ c.endLine = n => c.originalStartLine = 1 /\ c.originalEndLine = n1
  <2> HIDE DEF code, old
  <2> QED
    BY <1>1, <1>3, DiffFacts, SMTT(30)
<1>6. /\ d.originalStartLine = c.originalStartLine /\ d.originalEndLine = c.originalEndLine
      /\ d.startLine = c.startLine + z.startLine - 1 /\ d.endLine = c.endLine + z.startLine - 1
  <2>1. /\ code \in Seq(Seq(Chars)) /\ old \in Seq(Seq(Chars)) /\ m \in Scripts(old, code)
        /\ c \in findDiffs(m, Len(code)) /\ z.startLine \in Nat
    BY <1>1, <1>2, <1>3
  <2> HIDE DEF code, old
  <2>2. /\ Shifted(c, z).originalStartLine = c.originalStartLine
        /\ Shifted(c, z).originalEndLine = c.originalEndLine
        /\ Shifted(c, z).startLine = c.startLine + z.startLine - 1
        /\ Shifted(c, z).endLine = c.endLine + z.startLine - 1
    BY ONLY <2>1, ShiftedFacts
  <2> QED
    BY <1>4, <2>2
<1> DEFINE cs == c.startLine
           ce == c.endLine
           co == c.originalStartLine
           cp == c.originalEndLine
           zs == z.startLine
           ze == z.endLine
<1> HIDE DEF n, n1, last, code, old, cs, ce, co, cp, zs, ze
<1>7. /\ co \in 1..(n1 + 1) /\ cp \in 0..n1 /\ cs \in 1..(n + 1) /\ ce \in 0..n /\ co <= cp + 1 /\ cs <= ce + 1
      /\ (co <= cp \/ cs <= ce) /\ (cs = 1 /\ ce = n => co = 1 /\ cp = n1)
      /\ n \in Nat /\ 1 <= n /\ zs + n - 1 <= Len(text) /\ zs + n - 1 <= ze /\ n = last + 1 - zs
      /\ zs \in Nat /\ ze \in Nat /\ n1 \in Nat /\ 1 <= n1 /\ 1 <= zs /\ Len(text) \in Nat /\ last \in Nat
  BY <1>1, <1>2, <1>5 DEF cs, ce, co, cp, zs, ze
<1>8. d.originalStartLine = co /\ d.originalEndLine = cp /\ d.startLine = cs + zs - 1 /\ d.endLine = ce + zs - 1
  BY <1>6 DEF cs, ce, co, cp, zs
<1>9. /\ cs + zs - 1 \in Nat /\ ce + zs - 1 \in Nat /\ zs <= cs + zs - 1 /\ cs + zs - 1 <= ce + zs - 1 + 1
      /\ ce + zs - 1 <= ze /\ ce + zs - 1 <= Len(text) /\ (co <= cp \/ cs + zs - 1 <= ce + zs - 1)
      /\ (cp < co => zs < cs + zs - 1 \/ ce + zs - 1 < last)
  BY <1>7
<1> QED
  BY <1>7, <1>8, <1>9 DEF zs, ze, last, n1, old

-----------------------------------------------------------------------------
\* Accepting.

\* The books of acceptDiff and the size of the diff it settles.
LEMMA AcceptedFacts ==
    ASSUME Fits(zone, lines), diffs \in Computed(lines, zone), NEW d \in diffs
    PROVE  /\ Accepted(d) \in Text /\ 1 <= Len(Accepted(d))
           /\ Others(d) # {} <=> Code(lines, zone) # Accepted(d)
           /\ Len(Accepted(d)) + Len(Code(lines, zone)) - 2 * Most(Scripts(Accepted(d), Code(lines, zone))) + Size(d)
                = Len(zone.original) + Len(Code(lines, zone)) - 2 * Most(Scripts(zone.original, Code(lines, zone)))
<1> DEFINE code == Code(lines, zone)
           old == zone.original
           n == Len(code)
           n1 == Len(old)
           zs == zone.startLine
<1>1. /\ code \in Seq(Seq(Chars)) /\ n \in Nat /\ 1 <= n /\ zs + n - 1 <= Len(lines)
      /\ \A k \in 1..n : code[k] = lines[zs + k - 1]
  BY CodeFacts DEF Text
<1>2. /\ old \in Seq(Seq(Chars)) /\ lines \in Seq(Seq(Chars)) /\ zs \in Nat /\ 1 <= zs /\ 1 <= n1
      /\ n1 \in Nat /\ Len(lines) \in Nat
  <2>1. old \in Seq(Seq(Chars)) /\ lines \in Seq(Seq(Chars)) /\ zs \in Nat /\ 1 <= zs /\ 1 <= n1
    BY DEF Fits, Zones, Text
  <2> QED
    BY <2>1, LenProperties
<1>3. PICK m \in diffLines(old, code) :
          m \in Scripts(old, code) /\ diffs = {Shifted(c, zone) : c \in findDiffs(m, n)}
  BY ComputedFacts
<1>4. PICK c \in findDiffs(m, n) : d = Shifted(c, zone)
  BY <1>3
<1> HIDE DEF code, old
<1>5. /\ code \in Seq(Seq(Chars)) /\ old \in Seq(Seq(Chars)) /\ m \in Scripts(old, code) /\ m \in diffLines(old, code)
      /\ c \in findDiffs(m, Len(code)) /\ zone.startLine \in Nat
  BY <1>1, <1>2, <1>3
<1> DEFINE os == c.originalStartLine
           oe == c.originalEndLine
           s == c.startLine
           e == c.endLine
           x == Removed(c)
           y == Added(c)
           r == Patched(old, code, c)
<1>6. d.originalStartLine = os /\ d.originalEndLine = oe /\ d.startLine = s + zs - 1 /\ d.endLine = e + zs - 1
  <2>1. /\ Shifted(c, zone).originalStartLine = c.originalStartLine
        /\ Shifted(c, zone).originalEndLine = c.originalEndLine
        /\ Shifted(c, zone).startLine = c.startLine + zone.startLine - 1
        /\ Shifted(c, zone).endLine = c.endLine + zone.startLine - 1
    BY ONLY <1>5, ShiftedFacts
  <2> QED
    BY <1>4, <2>1
<1>7. /\ os \in 1..(n1 + 1) /\ oe \in 0..n1 /\ s \in 1..(n + 1) /\ e \in 0..n
      /\ os <= oe + 1 /\ s <= e + 1
      /\ os = 1 /\ oe = n1 => s = 1 /\ e = n
  BY ONLY <1>5, DiffFacts
<1>8. x = oe + 1 - os /\ y = e + 1 - s
  BY DEF Removed, Added
<1>9. r \in Seq(Seq(Chars)) /\ Len(r) = n1 - x + y /\ x \in Nat /\ y \in Nat
  BY ONLY <1>5, PatchedFacts
<1>10. Most(Scripts(r, code)) = Most(Scripts(old, code)) + y
  BY ONLY <1>5, PatchedMost
<1>11. findDiffs(m, n) \ {c} = {} <=> r = code
  BY ONLY <1>5, AcceptedLast
<1>12. Others(d) = {} <=> findDiffs(m, n) \ {c} = {}
  <2>1. \A b \in findDiffs(m, n) : Shifted(b, zone) = d => b = c
    <3> SUFFICES ASSUME NEW b \in findDiffs(m, n), Shifted(b, zone) = Shifted(c, zone) PROVE b = c
      BY <1>4
    <3>1. b \in findDiffs(m, Len(code)) /\ Shifted(b, zone) = Shifted(c, zone)
      OBVIOUS
    <3> QED
      BY ONLY <1>5, <3>1, ShiftedOnce
  <2> QED
    BY <1>3, <1>4, <2>1 DEF Others
<1> HIDE DEF n, n1, zs, os, oe, s, e, x, y, r
<1>13. SubSeq(lines, s + zs - 1, e + zs - 1) = SubSeq(code, s, e)
  <2> DEFINE lo == s + zs - 1
             hi == e + zs - 1
  <2>1. /\ lo \in Nat /\ hi \in Nat /\ 1 <= lo /\ lo <= hi + 1 /\ hi <= Len(lines) /\ lines \in Seq(Seq(Chars))
        /\ hi + 1 - lo = e + 1 - s
    BY <1>1, <1>2, <1>7
  <2>2. /\ s \in Nat /\ e \in Nat /\ 1 <= s /\ s <= e + 1 /\ e <= Len(code) /\ code \in Seq(Seq(Chars))
    BY <1>1, <1>7 DEF n
  <2> HIDE DEF lo, hi
  <2>3. SubSeq(lines, lo, hi) \in Seq(Seq(Chars)) /\ SubSeq(code, s, e) \in Seq(Seq(Chars))
    BY ONLY <2>1, <2>2, PartFacts
  <2>4. Len(SubSeq(lines, lo, hi)) = hi + 1 - lo
    BY ONLY <2>1, PartFacts
  <2>5. Len(SubSeq(code, s, e)) = e + 1 - s
    BY ONLY <2>2, PartFacts
  <2>6. \A k \in 1..(hi + 1 - lo) : SubSeq(lines, lo, hi)[k] = lines[lo + k - 1]
    BY ONLY <2>1, PartFacts
  <2>7. \A k \in 1..(e + 1 - s) : SubSeq(code, s, e)[k] = code[s + k - 1]
    BY ONLY <2>2, PartFacts
  <2>8. \A k \in 1..(e + 1 - s) : SubSeq(lines, lo, hi)[k] = SubSeq(code, s, e)[k]
    <3> SUFFICES ASSUME NEW k \in 1..(e + 1 - s) PROVE SubSeq(lines, lo, hi)[k] = SubSeq(code, s, e)[k]
      OBVIOUS
    <3>1. s + k - 1 \in 1..n /\ zs + (s + k - 1) - 1 = lo + k - 1 /\ k \in 1..(hi + 1 - lo)
      BY <1>1, <1>2, <1>7, <2>1 DEF lo
    <3>2. code[s + k - 1] = lines[zs + (s + k - 1) - 1]
      BY <1>1, <3>1
    <3> QED
      BY <2>6, <2>7, <3>1, <3>2
  <2>9. SubSeq(lines, lo, hi) = SubSeq(code, s, e)
    BY <2>1, <2>3, <2>4, <2>5, <2>8, SeqEqual
  <2> QED
    BY <2>9 DEF lo, hi
<1>14. Accepted(d) = r
  <2>1. Accepted(d) = Replaced(old, os, oe, SubSeq(lines, s + zs - 1, e + zs - 1))
    BY <1>6 DEF Accepted, NewLines, old
  <2> QED
    BY <1>13, <2>1 DEF r, Patched, os, oe, s, e
<1>15. 1 <= Len(r)
  BY <1>1, <1>2, <1>7, <1>8, <1>9, SMTT(30)
<1>16. Size(d) = x + y
  <2>1. Size(d) = (oe + 1 - os) + ((e + zs - 1) + 1 - (s + zs - 1))
    BY <1>6 DEF Size
  <2> QED
    BY <1>2, <1>7, <1>8, <2>1
<1>17. Len(r) + n - 2 * Most(Scripts(r, code)) + Size(d) = n1 + n - 2 * Most(Scripts(old, code))
  <2> DEFINE M == Most(Scripts(old, code))
             R == Most(Scripts(r, code))
             L == Len(r)
  <2>1. M \in Nat
    BY <1>1, <1>2, MostIsGreatest
  <2>2. /\ R = M + y /\ L = n1 - x + y /\ Size(d) = x + y
        /\ n \in Nat /\ n1 \in Nat /\ x \in Nat /\ y \in Nat
    BY <1>1, <1>2, <1>9, <1>10, <1>16
  <2> HIDE DEF M, R, L
  <2>3. L + n - 2 * R + Size(d) = n1 + n - 2 * M
    BY ONLY <2>1, <2>2
  <2> QED
    BY <2>3 DEF M, R, L
<1>18. Others(d) # {} <=> code # r
  BY <1>11, <1>12
<1> QED
  BY <1>9, <1>14, <1>15, <1>17, <1>18 DEF code, old, n, n1, Text

-----------------------------------------------------------------------------
\* Edits of a text.

\* Functions on 1..n are texts, and one line is one.
LEMMA MadeSeq ==
    ASSUME NEW S, NEW n \in Nat, NEW f \in [1..n -> S]
    PROVE  f \in Seq(S) /\ Len(f) = n
BY SeqDef

\* A text of one line.
LEMMA OneLine ==
    ASSUME NEW S, NEW x \in S
    PROVE  <<x>> \in Seq(S) /\ Len(<<x>>) = 1 /\ <<x>>[1] = x
OBVIOUS

\* A line that is replaced by itself, and others behind or before it.
LEMMA KeepLast ==
    ASSUME NEW S, NEW text \in Seq(S), NEW lo \in Nat, NEW hi \in Nat, 1 <= lo, lo <= hi, hi <= Len(text),
           NEW new \in Seq(S)
    PROVE  Replaced(text, lo, hi, Append(new, text[hi])) = Replaced(text, lo, hi - 1, new)
<1> DEFINE left == SubSeq(text, 1, lo - 1)
           right == SubSeq(text, hi + 1, Len(text))
           x == <<text[hi]>>
<1>1. Len(text) \in Nat
  BY LenProperties
<1>2. text[hi] \in S /\ x \in Seq(S)
  <2>1. hi \in 1..Len(text)
    BY <1>1
  <2> QED
    BY <2>1, ElementOfSeq, OneLine
<1>3. left \in Seq(S)
  <2>1. 1 \in Nat /\ lo - 1 \in Nat /\ 1 <= 1 /\ 1 <= (lo - 1) + 1 /\ lo - 1 <= Len(text) /\ text \in Seq(S)
    BY <1>1
  <2> QED
    BY ONLY <2>1, PartFacts
<1>4. right \in Seq(S)
  <2>1. hi + 1 \in Nat /\ Len(text) \in Nat /\ 1 <= hi + 1 /\ hi + 1 <= Len(text) + 1 /\ Len(text) <= Len(text) /\ text \in Seq(S)
    BY <1>1
  <2> QED
    BY ONLY <2>1, PartFacts
<1>5. SubSeq(text, hi, Len(text)) = x \o right
  <2>1. hi \in 1..Len(text) /\ Len(text) \in hi..Len(text) /\ text \in Seq(S)
    BY <1>1
  <2> QED
    BY ONLY <2>1, SubSeqRecursiveFirst
<1>6. Append(new, text[hi]) = new \o x
  BY <1>2, AppendIsConcat
<1>7. (hi - 1) + 1 = hi
  OBVIOUS
<1>10. \A a, b, c \in Seq(S) : (a \o b) \o c = a \o (b \o c)
  BY ConcatAssociative, SMTT(30)
<1> HIDE DEF left, right, x
<1>8. left \o new \in Seq(S)
  BY <1>3, ConcatProperties
<1>9. (left \o (new \o x)) \o right = (left \o new) \o (x \o right)
  <2>1. left \o (new \o x) = (left \o new) \o x
    <3>1. left \in Seq(S) /\ new \in Seq(S) /\ x \in Seq(S)
      BY <1>2, <1>3
    <3> QED
      BY ONLY <3>1, <1>10
  <2>2. ((left \o new) \o x) \o right = (left \o new) \o (x \o right)
    <3> DEFINE l == left \o new
    <3>1. l \in Seq(S) /\ right \in Seq(S) /\ x \in Seq(S)
      BY <1>2, <1>4, <1>8
    <3> HIDE DEF l
    <3>2. (l \o x) \o right = l \o (x \o right)
      BY ONLY <3>1, <1>10, SMTT(30)
    <3> QED
      BY <3>2 DEF l
  <2> QED
    BY <2>1, <2>2
<1> QED
  BY <1>5, <1>6, <1>7, <1>9 DEF Replaced, left, right

\* The same of the first line.
LEMMA KeepFirst ==
    ASSUME NEW S, NEW text \in Seq(S), NEW lo \in Nat, NEW hi \in Nat, 1 <= lo, lo <= hi, hi <= Len(text),
           NEW new \in Seq(S)
    PROVE  Replaced(text, lo, hi, <<text[lo]>> \o new) = Replaced(text, lo + 1, hi, new)
<1> DEFINE before == SubSeq(text, 1, lo - 1)
           left == SubSeq(text, 1, lo)
           right == SubSeq(text, hi + 1, Len(text))
           x == <<text[lo]>>
<1>1. Len(text) \in Nat
  BY LenProperties
<1>2. text[lo] \in S /\ x \in Seq(S)
  <2>1. lo \in 1..Len(text)
    BY <1>1
  <2> QED
    BY <2>1, ElementOfSeq, OneLine
<1>3. before \in Seq(S)
  <2>1. 1 \in Nat /\ lo - 1 \in Nat /\ 1 <= 1 /\ 1 <= (lo - 1) + 1 /\ lo - 1 <= Len(text) /\ text \in Seq(S)
    BY <1>1
  <2> QED
    BY ONLY <2>1, PartFacts
<1>4. left = before \o x
  <2>1. 1 \in 1..Len(text) /\ lo \in 1..Len(text) /\ text \in Seq(S)
    BY <1>1
  <2> QED
    BY ONLY <2>1, SubSeqRecursiveSecond
<1>5. (lo + 1) - 1 = lo
  OBVIOUS
<1>10. \A a, b, c \in Seq(S) : (a \o b) \o c = a \o (b \o c)
  BY ConcatAssociative, SMTT(30)
<1> HIDE DEF before, left, x
<1>6. before \o (x \o new) = (before \o x) \o new
  <2>1. before \in Seq(S) /\ new \in Seq(S) /\ x \in Seq(S)
    BY <1>2, <1>3
  <2> QED
    BY ONLY <2>1, <1>10
<1> QED
  BY <1>4, <1>5, <1>6 DEF Replaced, before, left, x

\* What an edit puts in the place of the lines it begins and ends in.
Ends(left, right, new) ==
    [i \in 1..Len(new) |-> (IF i = 1 THEN left ELSE << >>) \o new[i] \o (IF i = Len(new) THEN right ELSE << >>)]

\* An edit whose positions are in the text.
LEMMA EditIs ==
    ASSUME NEW text, NEW from, NEW to, NEW new, Valid(text, from) = from, Valid(text, to) = to
    PROVE  ApplyEdit(text, [from |-> from, to |-> to, text |-> new])
             = Replaced(text, from.line, to.line,
                        Ends(IF from.atEnd THEN text[from.line] ELSE << >>,
                             IF to.atEnd THEN << >> ELSE text[to.line], new))
<1> DEFINE range == [from |-> from, to |-> to, text |-> new]
<1>1. range.from = from /\ range.to = to /\ range.text = new
  OBVIOUS
<1> HIDE DEF range
<1>2. ApplyEdit(text, range) = Replaced(text, from.line, to.line,
                        Ends(IF from.atEnd THEN text[from.line] ELSE << >>,
                             IF to.atEnd THEN << >> ELSE text[to.line], new))
  BY <1>1 DEF ApplyEdit, Replaced, Ends
<1> QED
  BY <1>2 DEF range

\* Positions in the text are left as they are.
LEMMA Positions ==
    ASSUME NEW text, NEW line \in Nat, Len(text) \in Nat, line <= Len(text)
    PROVE  /\ Valid(text, Start(line)) = Start(line) /\ Start(line).line = line /\ Start(line).atEnd = FALSE
           /\ Valid(text, End(line)) = End(line) /\ End(line).line = line /\ End(line).atEnd = TRUE
BY DEF Valid, Start, End

\* The type of what an edit writes.
LEMMA EndsSeq ==
    ASSUME NEW left \in Seq(Chars), NEW right \in Seq(Chars), NEW new \in Seq(Seq(Chars))
    PROVE  Ends(left, right, new) \in Seq(Seq(Chars)) /\ Len(Ends(left, right, new)) = Len(new)
<1> DEFINE r == Ends(left, right, new)
           n == Len(new)
           f(i) == (IF i = 1 THEN left ELSE << >>)
           g(i) == (IF i = n THEN right ELSE << >>)
<1>1. n \in Nat /\ \A i \in 1..n : new[i] \in Seq(Chars)
  BY LenProperties, ElementOfSeq
<1>2. << >> \in Seq(Chars)
  BY EmptySeq
<1>3. \A i \in 1..n : f(i) \in Seq(Chars) /\ g(i) \in Seq(Chars)
  BY <1>1, <1>2
<1>4. r = [i \in 1..n |-> f(i) \o new[i] \o g(i)]
  BY DEF Ends
<1>5. \A i \in 1..n : f(i) \o new[i] \o g(i) \in Seq(Chars)
  <2> SUFFICES ASSUME NEW i \in 1..n PROVE f(i) \o new[i] \o g(i) \in Seq(Chars)
    OBVIOUS
  <2> DEFINE a == f(i)
             b == new[i]
             c == g(i)
  <2>1. a \in Seq(Chars) /\ b \in Seq(Chars) /\ c \in Seq(Chars)
    BY <1>1, <1>3
  <2> HIDE DEF a, b, c
  <2>2. a \o b \in Seq(Chars)
    BY <2>1, ConcatProperties
  <2>3. (a \o b) \o c \in Seq(Chars)
    BY <2>1, <2>2, ConcatProperties
  <2> QED
    BY <2>3 DEF a, b, c
<1> HIDE DEF f, g
<1>6. r \in [1..n -> Seq(Chars)] /\ \A i \in 1..n : r[i] = f(i) \o new[i] \o g(i)
  BY <1>4, <1>5
<1> HIDE DEF r
<1>7. r \in Seq(Seq(Chars)) /\ Len(r) = n
  BY <1>1, <1>6, MadeSeq
<1> QED
  BY <1>7 DEF r

\* Nothing before and nothing behind a line is the line.
LEMMA Blank ==
    ASSUME NEW line \in Seq(Chars)
    PROVE  << >> \o line \o << >> = line
BY ConcatEmptySeq

\* Whole lines for whole lines.
LEMMA EditLines ==
    ASSUME NEW text \in Seq(Seq(Chars)), NEW lo \in 1..Len(text), NEW hi \in 1..Len(text), NEW new \in Seq(Seq(Chars))
    PROVE  ApplyEdit(text, [from |-> Start(lo), to |-> End(hi), text |-> new]) = Replaced(text, lo, hi, new)
<1> DEFINE blank == << >>
           r == Ends(blank, blank, new)
           from == Start(lo)
           to == End(hi)
<1>1. blank \in Seq(Chars) /\ new \in Seq(Seq(Chars)) /\ Len(text) \in Nat /\ lo \in Nat /\ hi \in Nat
      /\ lo <= Len(text) /\ hi <= Len(text) /\ \A i \in 1..Len(new) : new[i] \in Seq(Chars)
  BY LenProperties, EmptySeq, ElementOfSeq
<1>2. /\ Valid(text, from) = from /\ Valid(text, to) = to /\ from.line = lo /\ to.line = hi
      /\ blank = (IF from.atEnd THEN text[from.line] ELSE << >>)
      /\ blank = (IF to.atEnd THEN << >> ELSE text[to.line])
  BY <1>1, Positions
<1>3. \A line \in Seq(Chars) : blank \o line \o blank = line
  BY Blank
<1> HIDE DEF blank, from, to
<1>4. r \in Seq(Seq(Chars)) /\ Len(r) = Len(new)
  BY ONLY <1>1, EndsSeq
<1>5. \A i \in 1..Len(new) : r[i] = (IF i = 1 THEN blank ELSE << >>) \o new[i] \o (IF i = Len(new) THEN blank ELSE << >>)
  BY DEF Ends
<1>6. ApplyEdit(text, [from |-> from, to |-> to, text |-> new]) = Replaced(text, from.line, to.line, r)
  <2> DEFINE a == IF from.atEnd THEN text[from.line] ELSE << >>
             b == IF to.atEnd THEN << >> ELSE text[to.line]
  <2>1. ApplyEdit(text, [from |-> from, to |-> to, text |-> new]) = Replaced(text, from.line, to.line, Ends(a, b, new))
    BY ONLY <1>2, EditIs
  <2> QED
    BY <1>2, <2>1
<1>7. r = new
  <2>1. \A i \in 1..Len(new) : r[i] = blank \o new[i] \o blank
    BY <1>5 DEF blank
  <2> HIDE DEF r
  <2>2. \A i \in 1..Len(r) : r[i] = new[i]
    BY <1>1, <1>3, <1>4, <2>1
  <2> QED
    BY <1>1, <1>4, <2>2, SeqEqual
<1> QED
  BY <1>2, <1>6, <1>7 DEF from, to

\* Lines put before a line, in the place of the lines from lo on.
LEMMA EditBefore ==
    ASSUME NEW text \in Seq(Seq(Chars)), NEW lo \in 1..Len(text), NEW hi \in 1..Len(text), lo <= hi,
           NEW new \in Seq(Seq(Chars))
    PROVE  ApplyEdit(text, [from |-> Start(lo), to |-> Start(hi), text |-> Append(new, << >>)])
             = Replaced(text, lo, hi - 1, new)
<1> DEFINE blank == << >>
           line == text[hi]
           app == Append(new, blank)
           r == Ends(blank, line, app)
           t == Append(new, line)
           n == Len(new)
           from == Start(lo)
           to == Start(hi)
<1>1. /\ blank \in Seq(Chars) /\ line \in Seq(Chars) /\ Len(text) \in Nat /\ lo \in Nat /\ hi \in Nat /\ n \in Nat
      /\ 1 <= lo /\ lo <= hi /\ lo <= Len(text) /\ hi <= Len(text) /\ \A i \in 1..n : new[i] \in Seq(Chars)
      /\ new \in Seq(Seq(Chars)) /\ text \in Seq(Seq(Chars))
  BY LenProperties, EmptySeq, ElementOfSeq
<1>2. /\ Valid(text, from) = from /\ Valid(text, to) = to /\ from.line = lo /\ to.line = hi
      /\ blank = (IF from.atEnd THEN text[from.line] ELSE << >>)
      /\ line = (IF to.atEnd THEN << >> ELSE text[to.line])
  BY <1>1, Positions
<1>3. /\ \A l \in Seq(Chars) : blank \o l \o blank = l
      /\ \A l \in Seq(Chars) : blank \o blank \o l = l
  BY <1>1, Blank, ConcatEmptySeq
<1> HIDE DEF blank, from, to, line, n
<1>4. /\ app \in Seq(Seq(Chars)) /\ Len(app) = n + 1 /\ app[n + 1] = blank /\ \A i \in 1..n : app[i] = new[i]
      /\ t \in Seq(Seq(Chars)) /\ Len(t) = n + 1 /\ t[n + 1] = line /\ \A i \in 1..n : t[i] = new[i]
  BY <1>1, AppendProperties DEF n
<1>5. Replaced(text, lo, hi, t) = Replaced(text, lo, hi - 1, new)
  BY ONLY <1>1, KeepLast DEF line
<1> HIDE DEF app, t
<1>6. r \in Seq(Seq(Chars)) /\ Len(r) = Len(app)
  BY ONLY <1>1, <1>4, EndsSeq
<1>7. \A i \in 1..Len(app) : r[i] = (IF i = 1 THEN blank ELSE << >>) \o app[i] \o (IF i = Len(app) THEN line ELSE << >>)
  BY DEF Ends
<1>8. ApplyEdit(text, [from |-> from, to |-> to, text |-> app]) = Replaced(text, from.line, to.line, r)
  <2> DEFINE a == IF from.atEnd THEN text[from.line] ELSE << >>
             b == IF to.atEnd THEN << >> ELSE text[to.line]
  <2>1. ApplyEdit(text, [from |-> from, to |-> to, text |-> app]) = Replaced(text, from.line, to.line, Ends(a, b, app))
    BY ONLY <1>2, EditIs
  <2> QED
    BY <1>2, <2>1
<1>9. \A i \in 1..(n + 1) : r[i] = blank \o app[i] \o (IF i = n + 1 THEN line ELSE blank)
  BY <1>4, <1>7 DEF blank
<1> HIDE DEF r
<1>10. \A i \in 1..n : r[i] = t[i]
  <2> SUFFICES ASSUME NEW i \in 1..n PROVE r[i] = t[i]
    OBVIOUS
  <2>1. i \in 1..(n + 1) /\ i # n + 1
    BY <1>1
  <2>2. r[i] = blank \o new[i] \o blank
    BY <1>4, <1>9, <2>1
  <2> QED
    BY <1>1, <1>3, <1>4, <2>2
<1>11. r[n + 1] = t[n + 1]
  <2>1. n + 1 \in 1..(n + 1)
    BY <1>1
  <2>2. r[n + 1] = blank \o blank \o line
    BY <1>4, <1>9, <2>1
  <2> QED
    BY <1>1, <1>3, <1>4, <2>2
<1>12. r = t
  <2>1. Len(r) = n + 1
    BY <1>4, <1>6
  <2>2. \A i \in 1..(n + 1) : i \in 1..n \/ i = n + 1
    BY <1>1
  <2>3. \A i \in 1..Len(r) : r[i] = t[i]
    BY <1>10, <1>11, <2>1, <2>2
  <2> QED
    BY <1>4, <1>6, <2>1, <2>3, SeqEqual
<1> QED
  BY <1>2, <1>5, <1>8, <1>12 DEF from, to, app, blank

\* Lines put behind a line.
LEMMA EditBehind ==
    ASSUME NEW text \in Seq(Seq(Chars)), NEW lo \in 1..Len(text), NEW new \in Seq(Seq(Chars))
    PROVE  ApplyEdit(text, [from |-> End(lo), to |-> End(lo), text |-> <<<< >>>> \o new])
             = Replaced(text, lo + 1, lo, new)
<1> DEFINE blank == << >>
           line == text[lo]
           first == <<blank>>
           kept == <<line>>
           app == first \o new
           t == kept \o new
           r == Ends(line, blank, app)
           n == Len(new)
           pos == End(lo)
<1>1. /\ blank \in Seq(Chars) /\ line \in Seq(Chars) /\ Len(text) \in Nat /\ lo \in Nat /\ n \in Nat
      /\ 1 <= lo /\ lo <= lo /\ lo <= Len(text) /\ \A i \in 1..n : new[i] \in Seq(Chars)
      /\ new \in Seq(Seq(Chars)) /\ text \in Seq(Seq(Chars))
  BY LenProperties, EmptySeq, ElementOfSeq
<1>2. /\ Valid(text, pos) = pos /\ pos.line = lo
      /\ line = (IF pos.atEnd THEN text[pos.line] ELSE << >>)
      /\ blank = (IF pos.atEnd THEN << >> ELSE text[pos.line])
  BY <1>1, Positions
<1>3. /\ \A l \in Seq(Chars) : blank \o l \o blank = l
      /\ \A l \in Seq(Chars) : l \o blank \o blank = l
  <2>1. \A l \in Seq(Chars) : l \o blank = l
    BY ConcatEmptySeq
  <2> HIDE DEF blank
  <2>2. \A l \in Seq(Chars) : l \o blank \o blank = l
    BY <2>1
  <2> QED
    BY <2>2, Blank DEF blank
<1>4. first \in Seq(Seq(Chars)) /\ Len(first) = 1 /\ first[1] = blank
      /\ kept \in Seq(Seq(Chars)) /\ Len(kept) = 1 /\ kept[1] = line
  <2> HIDE DEF blank, line
  <2> QED
    BY <1>1, OneLine
<1>5. Replaced(text, lo, lo, t) = Replaced(text, lo + 1, lo, new)
  BY ONLY <1>1, KeepFirst
<1> HIDE DEF blank, line, first, kept, pos
<1>6. /\ app \in Seq(Seq(Chars)) /\ Len(app) = Len(first) + n
      /\ \A i \in 1..(Len(first) + n) : app[i] = IF i <= Len(first) THEN first[i] ELSE new[i - Len(first)]
      /\ t \in Seq(Seq(Chars)) /\ Len(t) = Len(kept) + n
      /\ \A i \in 1..(Len(kept) + n) : t[i] = IF i <= Len(kept) THEN kept[i] ELSE new[i - Len(kept)]
  BY <1>1, <1>4, ConcatProperties, ZenonT(30)
<1> HIDE DEF app, t, n
<1>7. /\ Len(app) = n + 1 /\ \A i \in 1..(n + 1) : app[i] = IF i = 1 THEN blank ELSE new[i - 1]
      /\ Len(t) = n + 1 /\ \A i \in 1..(n + 1) : t[i] = IF i = 1 THEN line ELSE new[i - 1]
  <2>1. Len(first) + n = n + 1 /\ Len(kept) + n = n + 1
    BY <1>1, <1>4
  <2>2. \A i \in 1..(n + 1) : app[i] = (IF i <= 1 THEN first[i] ELSE new[i - 1])
    BY <1>4, <1>6, <2>1
  <2>3. \A i \in 1..(n + 1) : t[i] = (IF i <= 1 THEN kept[i] ELSE new[i - 1])
    BY <1>4, <1>6, <2>1
  <2>4. \A i \in 1..(n + 1) : i <= 1 <=> i = 1
    BY <1>1
  <2> QED
    BY <1>4, <1>6, <2>1, <2>2, <2>3, <2>4
<1>8. r \in Seq(Seq(Chars)) /\ Len(r) = Len(app)
  BY ONLY <1>1, <1>6, EndsSeq
<1>9. \A i \in 1..Len(app) : r[i] = (IF i = 1 THEN line ELSE << >>) \o app[i] \o (IF i = Len(app) THEN blank ELSE << >>)
  BY DEF Ends
<1>10. ApplyEdit(text, [from |-> pos, to |-> pos, text |-> app]) = Replaced(text, pos.line, pos.line, r)
  <2> DEFINE a == IF pos.atEnd THEN text[pos.line] ELSE << >>
             b == IF pos.atEnd THEN << >> ELSE text[pos.line]
  <2>1. ApplyEdit(text, [from |-> pos, to |-> pos, text |-> app]) = Replaced(text, pos.line, pos.line, Ends(a, b, app))
    BY ONLY <1>2, EditIs
  <2> QED
    BY <1>2, <2>1
<1>11. \A i \in 1..(n + 1) : r[i] = (IF i = 1 THEN line ELSE blank) \o app[i] \o blank
  BY <1>7, <1>9 DEF blank
<1> HIDE DEF r
<1>12. \A i \in 1..(n + 1) : r[i] = t[i]
  <2> SUFFICES ASSUME NEW i \in 1..(n + 1) PROVE r[i] = t[i]
    OBVIOUS
  <2>1. CASE i = 1
    <3>1. r[i] = line \o blank \o blank /\ t[i] = line
      BY <1>7, <1>11, <2>1
    <3> QED
      BY <1>1, <1>3, <3>1
  <2>2. CASE i # 1
    <3>1. i - 1 \in 1..n
      BY <1>1, <2>2
    <3>2. r[i] = blank \o new[i - 1] \o blank /\ t[i] = new[i - 1]
      BY <1>7, <1>11, <2>2
    <3> QED
      BY <1>1, <1>3, <3>1, <3>2
  <2> QED
    BY <2>1, <2>2
<1>13. r = t
  <2>1. Len(r) = n + 1 /\ Len(t) = n + 1
    BY <1>7, <1>8
  <2>2. Len(r) = Len(t) /\ \A i \in 1..Len(r) : r[i] = t[i]
    BY <1>12, <2>1
  <2> QED
    BY ONLY <1>6, <1>8, <2>2, SeqEqual
<1> QED
  BY <1>2, <1>5, <1>10, <1>13 DEF pos, app, first, blank

\* Lines taken out together with the newline before them, up to an empty one.
LEMMA EditOut ==
    ASSUME NEW text \in Seq(Seq(Chars)), NEW lo \in 1..Len(text), NEW hi \in 1..Len(text), lo <= hi, text[hi] = << >>
    PROVE  ApplyEdit(text, [from |-> End(lo), to |-> Start(hi), text |-> <<<< >>>>])
             = Replaced(text, lo + 1, hi, << >>)
<1> DEFINE blank == << >>
           line == text[lo]
           app == <<blank>>
           t == <<line>>
           none == << >>
           r == Ends(line, blank, app)
           from == End(lo)
           to == Start(hi)
<1>1. /\ blank \in Seq(Chars) /\ line \in Seq(Chars) /\ Len(text) \in Nat /\ lo \in Nat /\ hi \in Nat
      /\ 1 <= lo /\ lo <= hi /\ lo <= Len(text) /\ hi <= Len(text)
      /\ text \in Seq(Seq(Chars)) /\ none \in Seq(Seq(Chars))
  BY LenProperties, EmptySeq, ElementOfSeq
<1>2. /\ Valid(text, from) = from /\ Valid(text, to) = to /\ from.line = lo /\ to.line = hi
      /\ line = (IF from.atEnd THEN text[from.line] ELSE << >>)
      /\ blank = (IF to.atEnd THEN << >> ELSE text[to.line])
  BY <1>1, Positions
<1>3. \A l \in Seq(Chars) : l \o blank \o blank = l
  <2>1. \A l \in Seq(Chars) : l \o blank = l
    BY ConcatEmptySeq
  <2> HIDE DEF blank
  <2> QED
    BY <2>1
<1>4. app \in Seq(Seq(Chars)) /\ Len(app) = 1 /\ app[1] = blank
      /\ t \in Seq(Seq(Chars)) /\ Len(t) = 1 /\ t[1] = line
  <2> HIDE DEF blank, line
  <2> QED
    BY <1>1, OneLine
<1>5. Replaced(text, lo, hi, t \o none) = Replaced(text, lo + 1, hi, none)
  <2> HIDE DEF none
  <2> QED
    BY ONLY <1>1, KeepFirst
<1>6. t \o none = t
  BY <1>4, ConcatEmptySeq
<1> HIDE DEF blank, line, app, t, from, to
<1>7. r \in Seq(Seq(Chars)) /\ Len(r) = Len(app)
  BY ONLY <1>1, <1>4, EndsSeq
<1>8. \A i \in 1..Len(app) : r[i] = (IF i = 1 THEN line ELSE << >>) \o app[i] \o (IF i = Len(app) THEN blank ELSE << >>)
  BY DEF Ends
<1>9. ApplyEdit(text, [from |-> from, to |-> to, text |-> app]) = Replaced(text, from.line, to.line, r)
  <2> DEFINE a == IF from.atEnd THEN text[from.line] ELSE << >>
             b == IF to.atEnd THEN << >> ELSE text[to.line]
  <2>1. ApplyEdit(text, [from |-> from, to |-> to, text |-> app]) = Replaced(text, from.line, to.line, Ends(a, b, app))
    BY ONLY <1>2, EditIs, SMTT(30)
  <2> QED
    BY <1>2, <2>1
<1> HIDE DEF r
<1>10. r[1] = t[1]
  <2>0. 1 \in 1..Len(app) /\ 1 = Len(app)
    BY <1>4
  <2>1. r[1] = line \o blank \o blank
    BY <1>4, <1>8, <2>0
  <2> QED
    BY <1>1, <1>3, <1>4, <2>1
<1>11. r = t
  BY <1>4, <1>7, <1>10, SeqEqual
<1> QED
  BY <1>2, <1>5, <1>6, <1>9, <1>11 DEF from, to, app, blank, none

\* How long the text is after an edit.
LEMMA EditSize ==
    ASSUME NEW text \in Seq(Seq(Chars)), NEW lo \in 1..Len(text), NEW hi \in 1..Len(text), lo <= hi,
           NEW from \in {Start(lo), End(lo)}, NEW to \in {Start(hi), End(hi)}, NEW new \in Seq(Seq(Chars))
    PROVE  LET r == ApplyEdit(text, [from |-> from, to |-> to, text |-> new])
           IN  r \in Text /\ Len(r) = Len(text) - (hi + 1 - lo) + Len(new) /\ Len(r) \in Nat
<1> DEFINE left == IF from.atEnd THEN text[from.line] ELSE << >>
           right == IF to.atEnd THEN << >> ELSE text[to.line]
           mid == Ends(left, right, new)
<1>1. /\ Len(text) \in Nat /\ lo \in Nat /\ hi \in Nat /\ 1 <= lo /\ lo <= hi + 1 /\ lo <= Len(text) /\ hi <= Len(text)
      /\ text \in Seq(Seq(Chars)) /\ new \in Seq(Seq(Chars)) /\ Len(new) \in Nat
      /\ text[lo] \in Seq(Chars) /\ text[hi] \in Seq(Chars) /\ << >> \in Seq(Chars)
  BY LenProperties, ElementOfSeq, EmptySeq
<1>2. /\ Valid(text, Start(lo)) = Start(lo) /\ Start(lo).line = lo
      /\ Valid(text, End(lo)) = End(lo) /\ End(lo).line = lo
      /\ Valid(text, Start(hi)) = Start(hi) /\ Start(hi).line = hi
      /\ Valid(text, End(hi)) = End(hi) /\ End(hi).line = hi
  BY <1>1, Positions
<1>3. Valid(text, from) = from /\ Valid(text, to) = to /\ from.line = lo /\ to.line = hi
  BY <1>2
<1>4. left \in Seq(Chars) /\ right \in Seq(Chars)
  BY <1>1, <1>3
<1>5. ApplyEdit(text, [from |-> from, to |-> to, text |-> new]) = Replaced(text, from.line, to.line, mid)
  BY ONLY <1>3, EditIs
<1> HIDE DEF left, right
<1>6. mid \in Seq(Seq(Chars)) /\ Len(mid) = Len(new)
  BY ONLY <1>1, <1>4, EndsSeq
<1> HIDE DEF mid
<1>7. Replaced(text, lo, hi, mid) \in Seq(Seq(Chars))
  BY ONLY <1>1, <1>6, ReplacedFacts
<1>8. Len(Replaced(text, lo, hi, mid)) = Len(text) - (hi + 1 - lo) + Len(mid)
  <2>1. lo \in Nat /\ hi \in Nat /\ 1 <= lo /\ lo <= hi + 1 /\ hi <= Len(text) /\ mid \in Seq(Seq(Chars)) /\ text \in Seq(Seq(Chars))
    BY <1>1, <1>6
  <2> QED
    BY ONLY <2>1, ReplacedFacts
<1>9. Len(text) - (hi + 1 - lo) + Len(new) \in Nat
  BY ONLY <1>1
<1> QED
  BY <1>3, <1>5, <1>6, <1>7, <1>8, <1>9 DEF Text

\* Rejecting: the edit stays in the zone, and but for lines it joins it gives the original
\* lines back in the place of the new ones.
LEMMA RejectFacts ==
    ASSUME Fits(zone, lines), zone.endLine <= Len(lines), diffs \in Computed(lines, zone), NEW d \in diffs
    PROVE  \E lo, hi \in Nat : \E from \in {Start(lo), End(lo)}, to \in {Start(hi), End(hi)}, new \in Seq(Seq(Chars)) :
              /\ RejectEdit(d) = [from |-> from, to |-> to, text |-> new]
              /\ zone.startLine <= lo /\ lo <= hi /\ hi <= zone.endLine /\ 1 <= Len(new)
              /\ from.line = lo /\ to.line = hi
              /\ ~JoinsLines(d) => ApplyEdit(lines, RejectEdit(d))
                                     = Replaced(lines, d.startLine, d.endLine, OriginalLines(d, zone))
<1> DEFINE s == d.startLine
           e == d.endLine
           os == d.originalStartLine
           oe == d.originalEndLine
           old == zone.original
           orig == SubSeq(old, os, oe)
           blank == << >>
           none == << >>
           zs == zone.startLine
           ze == zone.endLine
<1>1. /\ lines \in Seq(Seq(Chars)) /\ old \in Seq(Seq(Chars)) /\ zs \in Nat /\ ze \in Nat /\ 1 <= zs /\ zs <= ze
      /\ Len(lines) \in Nat /\ Len(old) \in Nat /\ ze <= Len(lines)
  <2>1. lines \in Seq(Seq(Chars)) /\ old \in Seq(Seq(Chars)) /\ zs \in Nat /\ ze \in Nat /\ 1 <= zs /\ zs <= ze
    BY DEF Fits, Zones, Text
  <2> QED
    BY <2>1, LenProperties
<1>2. /\ os \in 1..(Len(old) + 1) /\ oe \in 0..Len(old) /\ os <= oe + 1
      /\ s \in Nat /\ e \in Nat /\ zs <= s /\ s <= e + 1 /\ e <= ze
      /\ (os <= oe \/ s <= e)
      /\ (oe < os => zs < s \/ e < ze)
  <2>1. Smaller(zone.endLine, Len(lines)) = zone.endLine
    BY <1>1 DEF Smaller
  <2> HIDE DEF s, e, os, oe, old, zs, ze
  <2>2. /\ d.originalStartLine \in 1..(Len(zone.original) + 1) /\ d.originalEndLine \in 0..Len(zone.original)
        /\ d.originalStartLine <= d.originalEndLine + 1
        /\ d.startLine \in Nat /\ d.endLine \in Nat /\ zone.startLine <= d.startLine /\ d.startLine <= d.endLine + 1
        /\ d.endLine <= zone.endLine
        /\ d.originalStartLine <= d.originalEndLine \/ d.startLine <= d.endLine
        /\ d.originalEndLine < d.originalStartLine =>
                zone.startLine < d.startLine \/ d.endLine < Smaller(zone.endLine, Len(lines))
    BY DiffInZone
  <2> QED
    BY <2>1, <2>2 DEF s, e, os, oe, old, zs, ze
<1>3. orig \in Seq(Seq(Chars)) /\ Len(orig) = oe + 1 - os
  <2>1. os \in Nat /\ oe \in Nat /\ 1 <= os /\ os <= oe + 1 /\ oe <= Len(old) /\ old \in Seq(Seq(Chars))
    BY <1>1, <1>2
  <2> HIDE DEF os, oe, old
  <2>2. orig \in Seq(Seq(Chars))
    BY ONLY <2>1, PartFacts
  <2>3. Len(orig) = oe + 1 - os
    BY ONLY <2>1, PartFacts
  <2> QED
    BY <2>2, <2>3
<1>4. OriginalLines(d, zone) = orig
  BY DEF OriginalLines
<1>5. blank \in Seq(Chars) /\ <<blank>> \in Seq(Seq(Chars)) /\ Len(<<blank>>) = 1 /\ none \in Seq(Seq(Chars))
      /\ Append(none, blank) = <<blank>>
  BY EmptySeq, OneLine
<1>6. oe < os => orig = none
  BY <1>2, SubSeqEmpty
<1>7. \A i : Start(i).line = i /\ End(i).line = i
  BY DEF Start, End
<1>8. RejectEdit(d) = IF e < s THEN DeletionEdit(d) ELSE IF oe < os THEN InsertionEdit(d) ELSE EditEdit(d)
  <2>1. ~(e < s /\ oe < os)
    BY <1>1, <1>2
  <2> QED
    BY <2>1 DEF RejectEdit, IsDeletion, IsInsertion
<1>9. JoinsLines(d) <=> oe < os /\ e = ze /\ lines[e] # blank
  BY DEF JoinsLines, IsInsertion
<1>10. /\ DeletionEdit(d) = IF s - 1 = ze THEN [from |-> End(s - 1), to |-> End(s - 1), text |-> <<blank>> \o orig]
                            ELSE [from |-> Start(s), to |-> Start(s), text |-> Append(orig, blank)]
       /\ InsertionEdit(d) = IF e = ze THEN [from |-> End(s - 1), to |-> Start(e), text |-> <<blank>>]
                             ELSE [from |-> Start(s), to |-> Start(e + 1), text |-> <<blank>>]
       /\ EditEdit(d) = [from |-> Start(s), to |-> End(e), text |-> orig]
  BY <1>4 DEF DeletionEdit, InsertionEdit, EditEdit
<1> DEFINE Good(lo, hi, from, to, new) ==
              /\ RejectEdit(d) = [from |-> from, to |-> to, text |-> new]
              /\ zs <= lo /\ lo <= hi /\ hi <= ze /\ 1 <= Len(new)
              /\ from.line = lo /\ to.line = hi
              /\ ~JoinsLines(d) => ApplyEdit(lines, RejectEdit(d)) = Replaced(lines, s, e, OriginalLines(d, zone))
           Some == \E lo, hi \in Nat : \E from \in {Start(lo), End(lo)}, to \in {Start(hi), End(hi)}, new \in Seq(Seq(Chars)) :
                     Good(lo, hi, from, to, new)
<1>11. SUFFICES Some
  OBVIOUS
<1> HIDE DEF s, e, os, oe, orig, old, zs, ze
<1>12. CASE e < s /\ s - 1 = ze
  <2> DEFINE lo == s - 1
             new == <<blank>> \o orig
  <2>1. lo \in Nat /\ zs <= lo /\ lo <= ze /\ lo \in 1..Len(lines) /\ lo + 1 = s /\ lo = e
    BY <1>1, <1>2, <1>12
  <2>2. new \in Seq(Seq(Chars)) /\ 1 <= Len(new)
    <3>1. new \in Seq(Seq(Chars)) /\ Len(new) = Len(<<blank>>) + Len(orig)
      <4> DEFINE b == <<blank>>
      <4>1. b \in Seq(Seq(Chars))
        BY <1>5
      <4> HIDE DEF b
      <4>2. b \o orig \in Seq(Seq(Chars)) /\ Len(b \o orig) = Len(b) + Len(orig)
        BY ONLY <1>3, <4>1, ConcatProperties
      <4> QED
        BY <4>2 DEF b
    <3>2. Len(orig) \in Nat
      BY <1>3, LenProperties
    <3> QED
      BY <1>5, <3>1, <3>2
  <2>3. RejectEdit(d) = [from |-> End(lo), to |-> End(lo), text |-> new]
    BY <1>8, <1>10, <1>12
  <2>4. ApplyEdit(lines, [from |-> End(lo), to |-> End(lo), text |-> new]) = Replaced(lines, lo + 1, lo, orig)
    <3> HIDE DEF lo
    <3> QED
      BY <1>1, <1>3, <2>1, EditBehind
  <2> HIDE DEF lo, new, blank
  <2>5. ApplyEdit(lines, RejectEdit(d)) = Replaced(lines, s, e, orig)
    BY <2>1, <2>3, <2>4
  <2>6. lo <= lo
    BY <2>1
  <2>7. Good(lo, lo, End(lo), End(lo), new)
    BY <1>4, <1>7, <2>1, <2>2, <2>3, <2>5, <2>6
  <2> HIDE DEF Good
  <2> QED
    BY <2>1, <2>2, <2>7
<1>13. CASE e < s /\ s - 1 # ze
  <2> DEFINE new == Append(orig, blank)
  <2>1. s \in Nat /\ zs <= s /\ s <= ze /\ s \in 1..Len(lines) /\ s - 1 = e /\ s <= s
    BY <1>1, <1>2, <1>13
  <2>2. new \in Seq(Seq(Chars)) /\ 1 <= Len(new)
    <3>1. new \in Seq(Seq(Chars)) /\ Len(new) = Len(orig) + 1
      BY <1>3, <1>5, AppendProperties
    <3>2. Len(orig) \in Nat
      BY <1>3, LenProperties
    <3> QED
      BY <3>1, <3>2
  <2>3. RejectEdit(d) = [from |-> Start(s), to |-> Start(s), text |-> new]
    BY <1>8, <1>10, <1>13
  <2>4. ApplyEdit(lines, [from |-> Start(s), to |-> Start(s), text |-> new]) = Replaced(lines, s, s - 1, orig)
    BY <1>1, <1>3, <2>1, EditBefore
  <2> HIDE DEF new, blank
  <2>5. ApplyEdit(lines, RejectEdit(d)) = Replaced(lines, s, e, orig)
    BY <2>1, <2>3, <2>4
  <2>7. Good(s, s, Start(s), Start(s), new)
    BY <1>4, <1>7, <2>1, <2>2, <2>3, <2>5
  <2> HIDE DEF Good
  <2> QED
    BY <2>1, <2>2, <2>7
<1>14. CASE ~(e < s) /\ oe < os /\ e = ze
  <2> DEFINE lo == s - 1
             new == <<blank>>
  <2>1. lo \in Nat /\ zs <= lo /\ lo <= e /\ e <= ze /\ e \in Nat /\ lo \in 1..Len(lines) /\ e \in 1..Len(lines) /\ lo + 1 = s
    BY <1>1, <1>2, <1>14
  <2>2. new \in Seq(Seq(Chars)) /\ 1 <= Len(new)
    BY <1>5
  <2>3. RejectEdit(d) = [from |-> End(lo), to |-> Start(e), text |-> new]
    BY <1>8, <1>10, <1>14
  <2>4. ASSUME ~JoinsLines(d) PROVE ApplyEdit(lines, RejectEdit(d)) = Replaced(lines, s, e, orig)
    <3>1. lines[e] = << >>
      BY <1>9, <1>14, <2>4
    <3> HIDE DEF lo
    <3>2. ApplyEdit(lines, [from |-> End(lo), to |-> Start(e), text |-> new]) = Replaced(lines, lo + 1, e, none)
      BY <1>1, <2>1, <3>1, EditOut
    <3> QED
      BY <1>6, <1>14, <2>1, <2>3, <3>2
  <2> HIDE DEF lo, new, blank
  <2>7. Good(lo, e, End(lo), Start(e), new)
    BY <1>4, <1>7, <2>1, <2>2, <2>3, <2>4
  <2> HIDE DEF Good
  <2> QED
    BY <2>1, <2>2, <2>7
<1>15. CASE ~(e < s) /\ oe < os /\ e # ze
  <2> DEFINE hi == e + 1
             new == <<blank>>
  <2>1. /\ hi \in Nat /\ zs <= s /\ s <= hi /\ hi <= ze /\ s \in Nat /\ s \in 1..Len(lines) /\ hi \in 1..Len(lines)
        /\ hi - 1 = e
    BY <1>1, <1>2, <1>15
  <2>2. new \in Seq(Seq(Chars)) /\ 1 <= Len(new)
    BY <1>5
  <2>3. RejectEdit(d) = [from |-> Start(s), to |-> Start(hi), text |-> new]
    BY <1>8, <1>10, <1>15
  <2>4. ApplyEdit(lines, [from |-> Start(s), to |-> Start(hi), text |-> Append(none, blank)]) = Replaced(lines, s, hi - 1, none)
    <3> HIDE DEF hi, none
    <3> QED
      BY <1>1, <1>5, <2>1, EditBefore
  <2> HIDE DEF hi, new, blank
  <2>5. ApplyEdit(lines, RejectEdit(d)) = Replaced(lines, s, e, orig)
    BY <1>5, <1>6, <1>15, <2>1, <2>3, <2>4 DEF new
  <2>7. Good(s, hi, Start(s), Start(hi), new)
    BY <1>4, <1>7, <2>1, <2>2, <2>3, <2>5
  <2> HIDE DEF Good
  <2> QED
    BY <2>1, <2>2, <2>7
<1>16. CASE ~(e < s) /\ ~(oe < os)
  <2>1. s \in Nat /\ e \in Nat /\ zs <= s /\ s <= e /\ e <= ze /\ s \in 1..Len(lines) /\ e \in 1..Len(lines)
    BY <1>1, <1>2, <1>16
  <2>2. 1 <= Len(orig)
    BY <1>2, <1>3, <1>16
  <2>3. RejectEdit(d) = [from |-> Start(s), to |-> End(e), text |-> orig]
    BY <1>8, <1>10, <1>16
  <2>4. ApplyEdit(lines, [from |-> Start(s), to |-> End(e), text |-> orig]) = Replaced(lines, s, e, orig)
    BY <1>1, <1>3, <2>1, EditLines
  <2>7. Good(s, e, Start(s), End(e), orig)
    BY <1>4, <1>7, <2>1, <2>2, <2>3, <2>4
  <2> HIDE DEF Good
  <2> QED
    BY <1>3, <2>1, <2>7
<1> QED
  BY <1>12, <1>13, <1>14, <1>15, <1>16

-----------------------------------------------------------------------------
\* Zones follow the changes of their file.

\* Whether a line of the changed file is one of a range of lines, or replaced some of them.
Followed(first, last, lo, hi, n, k) ==
    IF k < lo THEN first <= k /\ k <= last
    ELSE IF k < lo + n THEN \E j \in lo..hi : first <= j /\ j <= last
    ELSE first <= k - n + (hi + 1 - lo) /\ k - n + (hi + 1 - lo) <= last

\* Lines lo..hi of a text of len lines become n lines; a zone begins in the text.
Change(len, lo, hi, n) ==
    len \in Nat /\ lo \in Nat /\ hi \in Nat /\ n \in Nat /\ 1 <= lo /\ lo <= hi /\ hi <= len /\ 1 <= n
Begins(z, len) == z \in Zones /\ 1 <= z.startLine /\ z.startLine <= z.endLine /\ z.startLine <= len

\* Every case of _realignAllDiffAreasLines: the zone begins in the text again, and holds the lines it follows.
LEMMA RealignFacts ==
    ASSUME NEW z, NEW len, NEW lo, NEW hi, NEW n, Begins(z, len), Change(len, lo, hi, n),
           NEW y, y = Realigned(z, lo, hi, n)
    PROVE  /\ y \in Zones /\ y.original = z.original
           /\ 1 <= y.startLine /\ y.startLine <= len - (hi + 1 - lo) + n /\ y.startLine <= y.endLine
           /\ z.startLine <= lo /\ hi <= z.endLine => y.startLine = z.startLine
           /\ z.endLine <= len /\ ~(lo < z.startLine /\ z.endLine < hi) =>
                /\ y.endLine <= len - (hi + 1 - lo) + n
                /\ \A k \in 1..(len - (hi + 1 - lo) + n) :
                      y.startLine <= k /\ k <= y.endLine <=> Followed(z.startLine, z.endLine, lo, hi, n, k)
<1> DEFINE start == z.startLine
           end == z.endLine
           grown == len - (hi + 1 - lo) + n
           a == y.startLine
           b == y.endLine
           shift == n - (hi - lo + 1)
           spans(first, last) == [z EXCEPT !.startLine = first, !.endLine = last]
           Kind == y \in Zones /\ y.original = z.original
           Bounds == 1 <= a /\ a <= grown /\ a <= b /\ (start <= lo /\ hi <= end => a = start)
           Same == \A k \in 1..grown : a <= k /\ k <= b <=> Followed(start, end, lo, hi, n, k)
           Outside == end <= len /\ ~(lo < start /\ end < hi)
           Done == Kind /\ Bounds /\ (Outside => b <= grown /\ Same)
<1>1. start \in Nat /\ end \in Nat /\ 1 <= start /\ start <= end /\ start <= len
  BY DEF Begins, Zones
<1>2. len \in Nat /\ lo \in Nat /\ hi \in Nat /\ n \in Nat /\ 1 <= lo /\ lo <= hi /\ hi <= len /\ 1 <= n
  BY DEF Change
<1>3. ASSUME NEW first \in Nat, NEW last \in Nat, y = spans(first, last)
      PROVE  Kind /\ a = first /\ b = last
  BY <1>3 DEF Begins, Zones
<1>4. ShiftedBy(z, lo, hi, n) = IF hi < start THEN shift ELSE 0
  BY DEF ShiftedBy
<1> SUFFICES Done
  OBVIOUS
<1> HIDE DEF start, end, a, b, spans, Kind
<1>5. CASE end < lo
  <2>1. y = z
    BY <1>1, <1>2, <1>5 DEF Realigned, start, end
  <2>2. Kind /\ a = start /\ b = end
    BY <2>1 DEF Begins, Kind, a, b, start, end
  <2>4. Bounds
    BY ONLY <1>1, <1>2, <1>5, <2>2
  <2>6. Same
    BY ONLY <1>1, <1>2, <1>5, <2>2 DEF Followed
  <2>7. Outside => b <= grown
    BY ONLY <1>1, <1>2, <1>5, <2>2
  <2> QED
    BY <2>2, <2>4, <2>6, <2>7
<1>6. CASE hi < start
  <2>1. y = spans(start + shift, end + shift)
    BY <1>1, <1>2, <1>4, <1>6 DEF Realigned, spans, start, end
  <2>2. start + shift \in Nat /\ end + shift \in Nat
    BY ONLY <1>1, <1>2, <1>6
  <2>3. Kind /\ a = start + shift /\ b = end + shift
    BY ONLY <1>3, <2>1, <2>2
  <2>4. Bounds
    BY ONLY <1>1, <1>2, <1>6, <2>3
  <2>6. Same
    BY ONLY <1>1, <1>2, <1>6, <2>3 DEF Followed
  <2>7. Outside => b <= grown
    BY ONLY <1>1, <1>2, <1>6, <2>3
  <2> QED
    BY <2>3, <2>4, <2>6, <2>7
<1>7. CASE start <= lo /\ hi <= end
  <2>1. y = spans(start + 0, end + n - (hi - lo + 1))
    <3>1. ~(hi < start) /\ ~(end < lo) /\ ~(start > lo /\ end < hi) /\ ~(lo < start /\ start <= hi /\ hi <= end)
      BY <1>1, <1>2, <1>7
    <3>2. ShiftedBy(z, lo, hi, n) = 0
      BY <1>4, <3>1
    <3> QED
      BY <1>7, <3>1, <3>2 DEF Realigned, spans, start, end
  <2>2. start + 0 \in Nat /\ end + n - (hi - lo + 1) \in Nat
    BY ONLY <1>1, <1>2, <1>7
  <2>3. Kind /\ a = start + 0 /\ b = end + n - (hi - lo + 1)
    BY ONLY <1>3, <2>1, <2>2
  <2>4. Bounds
    BY ONLY <1>1, <1>2, <1>7, <2>3
  <2>5. \E j \in lo..hi : start <= j /\ j <= end
    BY ONLY <1>1, <1>2, <1>7
  <2>6. Same
    BY ONLY <1>1, <1>2, <1>7, <2>3, <2>5 DEF Followed
  <2>7. Outside => b <= grown
    BY ONLY <1>1, <1>2, <1>7, <2>3
  <2> QED
    BY <2>3, <2>4, <2>6, <2>7
<1>8. CASE lo < start /\ end < hi
  <2>1. y = spans(lo, lo + n)
    BY <1>1, <1>2, <1>8 DEF Realigned, spans, start, end
  <2>2. lo \in Nat /\ lo + n \in Nat
    BY ONLY <1>1, <1>2, <1>8
  <2>3. Kind /\ a = lo /\ b = lo + n
    BY ONLY <1>3, <2>1, <2>2
  <2>4. Bounds
    BY ONLY <1>1, <1>2, <1>8, <2>3
  <2>5. ~Outside
    BY <1>8
  <2> QED
    BY <2>3, <2>4, <2>5
<1>9. CASE lo < start /\ start <= hi /\ hi <= end
  <2>1. y = spans(lo, lo + ((end - hi) - 1) + n)
    BY <1>1, <1>2, <1>9 DEF Realigned, spans, start, end
  <2>2. lo \in Nat /\ lo + ((end - hi) - 1) + n \in Nat
    BY ONLY <1>1, <1>2, <1>9
  <2>3. Kind /\ a = lo /\ b = lo + ((end - hi) - 1) + n
    BY ONLY <1>3, <2>1, <2>2
  <2>4. Bounds
    BY ONLY <1>1, <1>2, <1>9, <2>3
  <2>5. \E j \in lo..hi : start <= j /\ j <= end
    BY ONLY <1>1, <1>2, <1>9
  <2>6. Same
    BY ONLY <1>1, <1>2, <1>9, <2>3, <2>5 DEF Followed
  <2>7. Outside => b <= grown
    BY ONLY <1>1, <1>2, <1>9, <2>3
  <2> QED
    BY <2>3, <2>4, <2>6, <2>7
<1>10. CASE start <= lo /\ lo <= end /\ end < hi
  <2>1. y = spans(start, end + n - (end - lo + 1))
    BY <1>1, <1>2, <1>10 DEF Realigned, spans, start, end
  <2>2. start \in Nat /\ end + n - (end - lo + 1) \in Nat
    BY ONLY <1>1, <1>2, <1>10
  <2>3. Kind /\ a = start /\ b = end + n - (end - lo + 1)
    BY ONLY <1>3, <2>1, <2>2
  <2>4. Bounds
    BY ONLY <1>1, <1>2, <1>10, <2>3
  <2>5. \E j \in lo..hi : start <= j /\ j <= end
    BY ONLY <1>1, <1>2, <1>10
  <2>6. Same
    BY ONLY <1>1, <1>2, <1>10, <2>3, <2>5 DEF Followed
  <2>7. Outside => b <= grown
    BY ONLY <1>1, <1>2, <1>10, <2>3
  <2> QED
    BY <2>3, <2>4, <2>6, <2>7
<1>11. \/ end < lo \/ hi < start \/ (start <= lo /\ hi <= end) \/ (lo < start /\ end < hi)
       \/ (lo < start /\ start <= hi /\ hi <= end) \/ (start <= lo /\ lo <= end /\ end < hi)
  BY ONLY <1>1, <1>2
<1> HIDE DEF Done
<1> QED
  BY <1>5, <1>6, <1>7, <1>8, <1>9, <1>10, <1>11

\* What becomes of the lines of the zone.
Spread(marked, grown, lo, hi, n) ==
    /\ marked \in [1..grown -> BOOLEAN]
    /\ \A k \in 1..grown : marked[k] =
          IF k < lo THEN inside[k]
          ELSE IF k < lo + n THEN \E j \in lo..hi : inside[j]
          ELSE inside[k - n + (hi + 1 - lo)]

\* The marks after a change are those.
LEMMA MarkedFacts ==
    ASSUME NEW len, NEW lo, NEW hi, NEW n, Change(len, lo, hi, n), inside \in [1..len -> BOOLEAN]
    PROVE  len - (hi + 1 - lo) + n \in Nat /\ Spread(Marked(lo, hi, n), len - (hi + 1 - lo) + n, lo, hi, n)
<1> DEFINE mid == [i \in 1..n |-> \E k \in lo..hi : inside[k]]
           marked == Marked(lo, hi, n)
           grown == len - (hi + 1 - lo) + n
<1> USE DEF Change
<1>1. inside \in Seq(BOOLEAN) /\ Len(inside) = len
  BY MadeSeq
<1>2. mid \in Seq(BOOLEAN) /\ Len(mid) = n
  <2>1. mid \in [1..n -> BOOLEAN]
    OBVIOUS
  <2> HIDE DEF mid
  <2> QED
    BY <2>1, MadeSeq
<1>3. Smaller(lo, Len(inside)) = lo /\ Smaller(hi, Len(inside)) = hi
  BY <1>1 DEF Smaller
<1>4. marked = Replaced(inside, lo, hi, mid)
  BY <1>3 DEF Marked, Replaced
<1>5. \A i \in 1..n : mid[i] = \E k \in lo..hi : inside[k]
  OBVIOUS
<1> HIDE DEF mid, marked
<1>6. lo \in Nat /\ hi \in Nat /\ 1 <= lo /\ lo <= hi + 1 /\ hi <= Len(inside) /\ inside \in Seq(BOOLEAN) /\ mid \in Seq(BOOLEAN)
  BY <1>1, <1>2
<1>7. marked \in Seq(BOOLEAN)
  BY ONLY <1>4, <1>6, ReplacedFacts
<1>8. Len(Replaced(inside, lo, hi, mid)) = Len(inside) - (hi + 1 - lo) + Len(mid)
  BY ONLY <1>6, ReplacedFacts
<1>9. \A k \in 1..(Len(inside) - (hi + 1 - lo) + Len(mid)) : Replaced(inside, lo, hi, mid)[k] =
          IF k < lo THEN inside[k]
          ELSE IF k < lo + Len(mid) THEN mid[k - lo + 1] ELSE inside[k - Len(mid) + (hi + 1 - lo)]
  BY ONLY <1>6, ReplacedFacts
<1>10. grown \in Nat /\ Len(inside) - (hi + 1 - lo) + Len(mid) = grown
  BY <1>1, <1>2
<1>11. marked \in [1..grown -> BOOLEAN]
  <2>1. Len(marked) = grown
    BY <1>4, <1>8, <1>10
  <2> HIDE DEF grown
  <2> QED
    BY <1>7, <2>1, LenProperties
<1>12. \A k \in 1..grown : marked[k] =
          IF k < lo THEN inside[k]
          ELSE IF k < lo + n THEN mid[k - lo + 1] ELSE inside[k - n + (hi + 1 - lo)]
  BY <1>2, <1>4, <1>9, <1>10
<1>13. \A k \in 1..grown : ~(k < lo) /\ k < lo + n => k - lo + 1 \in 1..n
  OBVIOUS
<1> HIDE DEF grown
<1>14. \A k \in 1..grown : marked[k] =
          IF k < lo THEN inside[k]
          ELSE IF k < lo + n THEN \E j \in lo..hi : inside[j] ELSE inside[k - n + (hi + 1 - lo)]
  BY <1>5, <1>12, <1>13
<1> QED
  BY <1>10, <1>11, <1>14 DEF Spread, marked, grown

-----------------------------------------------------------------------------
\* The state.

StateOK == Fits(zone, lines) /\ inside \in [1..Len(lines) -> BOOLEAN] /\ astray \in BOOLEAN

\* The zone is live as long as it has diffs.
Booked == diffs \in Computed(lines, zone) /\ (zone.live <=> diffs # {})

\* The zone holds its lines, and no others.
Held ==
    /\ zone.endLine <= Len(lines)
    /\ \A i \in 1..Len(lines) : inside[i] <=> zone.startLine <= i /\ i <= zone.endLine

IInv == StateOK /\ Booked /\ (astray \/ Held)

\* The numbers of the state.
LEMMA StateFacts ==
    ASSUME StateOK
    PROVE  /\ zone \in Zones /\ zone.startLine \in Nat /\ zone.endLine \in Nat
           /\ 1 <= zone.startLine /\ zone.startLine <= zone.endLine /\ zone.startLine <= Len(lines)
           /\ lines \in Seq(Seq(Chars)) /\ Len(lines) \in Nat
           /\ inside \in [1..Len(lines) -> BOOLEAN]
<1>1. lines \in Seq(Seq(Chars))
  BY DEF StateOK, Fits, Text
<1>2. Len(lines) \in Nat
  BY <1>1, LenProperties
<1> QED
  BY <1>1, <1>2 DEF StateOK, Fits, Zones

\* The texts that are typed are texts, and not empty.
LEMMA TextsFacts ==
    ASSUME NEW n \in Nat, NEW text \in Texts(n)
    PROVE  text \in Seq(Seq(Chars)) /\ Len(text) \in Nat /\ 1 <= Len(text)
<1>1. \A line \in Lines : line \in Seq(Chars)
  <2>1. << >> \in Seq(Chars) /\ \A c \in Chars : <<c>> \in Seq(Chars)
    BY EmptySeq, OneLine
  <2> QED
    BY <2>1 DEF Lines
<1>2. PICK k \in 1..n : text \in [1..k -> Lines]
  BY DEF Texts
<1>3. text \in [1..k -> Seq(Chars)] /\ k \in Nat /\ 1 <= k
  BY <1>1, <1>2
<1> QED
  BY <1>3, MadeSeq

\* Only whether the zone is there depends on its diffs.
LEMMA SettledFacts ==
    ASSUME NEW z \in Zones, NEW left, NEW text
    PROVE  /\ Settled(z, left) \in Zones
           /\ Settled(z, left).startLine = z.startLine /\ Settled(z, left).endLine = z.endLine
           /\ Settled(z, left).original = z.original /\ (Settled(z, left).live <=> left # {})
           /\ Code(text, Settled(z, left)) = Code(text, z)
           /\ Computed(text, Settled(z, left)) = Computed(text, z)
           /\ Fits(z, text) => Fits(Settled(z, left), text)
<1> DEFINE y == Settled(z, left)
<1>1. /\ y \in Zones /\ y.startLine = z.startLine /\ y.endLine = z.endLine
      /\ y.original = z.original /\ (y.live <=> left # {})
  BY DEF Settled, Zones
<1> HIDE DEF y
<1>2. Code(text, y) = Code(text, z)
  BY <1>1 DEF Code
<1>3. \A d : Shifted(d, y) = Shifted(d, z)
  BY <1>1 DEF Shifted
<1>4. Computed(text, y) = Computed(text, z)
  BY <1>1, <1>2, <1>3 DEF Computed
<1>5. Fits(z, text) => Fits(y, text)
  BY <1>1 DEF Fits
<1> QED
  BY <1>1, <1>2, <1>4, <1>5 DEF y

\* A change of lines lo..hi, and the zone after it.
LEMMA ChangeFacts ==
    ASSUME StateOK, NEW lo \in Nat, NEW hi \in Nat, 1 <= lo, lo <= hi, hi <= Len(lines),
           NEW from \in {Start(lo), End(lo)}, NEW to \in {Start(hi), End(hi)},
           NEW new \in Seq(Seq(Chars)), 1 <= Len(new),
           NEW y, y = Realigned(zone, lo, hi, Len(new)),
           NEW text, text = ApplyEdit(lines, [from |-> from, to |-> to, text |-> new])
    PROVE  /\ Fits(y, text)
           /\ Marked(lo, hi, Len(new)) \in [1..Len(text) -> BOOLEAN]
           /\ zone.startLine <= lo /\ hi <= zone.endLine => y.startLine = zone.startLine
           /\ Held /\ ~(lo < zone.startLine /\ zone.endLine < hi) =>
                /\ y.endLine <= Len(text)
                /\ \A i \in 1..Len(text) : Marked(lo, hi, Len(new))[i] <=> y.startLine <= i /\ i <= y.endLine
<1> DEFINE len == Len(lines)
           n == Len(new)
           grown == len - (hi + 1 - lo) + n
           start == zone.startLine
           end == zone.endLine
           marked == Marked(lo, hi, n)
           outside == ~(lo < start /\ end < hi)
<1>1. /\ zone \in Zones /\ start \in Nat /\ end \in Nat /\ 1 <= start /\ start <= end /\ start <= len
      /\ lines \in Seq(Seq(Chars)) /\ len \in Nat /\ inside \in [1..len -> BOOLEAN]
  BY StateFacts
<1>2. n \in Nat /\ 1 <= n /\ lo \in 1..len /\ hi \in 1..len
  BY <1>1, LenProperties
<1>3. text \in Seq(Seq(Chars)) /\ Len(text) = grown /\ Len(text) \in Nat
  <2> DEFINE r == ApplyEdit(lines, [from |-> from, to |-> to, text |-> new])
  <2>1. /\ lines \in Seq(Seq(Chars)) /\ lo \in 1..Len(lines) /\ hi \in 1..Len(lines) /\ lo <= hi
        /\ from \in {Start(lo), End(lo)} /\ to \in {Start(hi), End(hi)} /\ new \in Seq(Seq(Chars))
    BY <1>1, <1>2
  <2>2. r \in Text
    BY ONLY <2>1, EditSize
  <2>3. Len(r) = Len(lines) - (hi + 1 - lo) + Len(new)
    BY ONLY <2>1, EditSize, ZenonT(30)
  <2>4. Len(r) \in Nat
    BY ONLY <2>1, EditSize
  <2> HIDE DEF r
  <2>5. text = r
    BY DEF r
  <2> QED
    BY <2>2, <2>3, <2>4, <2>5 DEF Text
<1> HIDE DEF marked, outside, start, end
<1>4. /\ y \in Zones /\ y.original = zone.original
      /\ 1 <= y.startLine /\ y.startLine <= grown /\ y.startLine <= y.endLine
      /\ start <= lo /\ hi <= end => y.startLine = start
      /\ end <= len /\ outside =>
           /\ y.endLine <= grown
           /\ \A k \in 1..grown : y.startLine <= k /\ k <= y.endLine <=> Followed(start, end, lo, hi, n, k)
  <2> DEFINE a == y.startLine
             b == y.endLine
             Same == \A k \in 1..(len - (hi + 1 - lo) + n) :
                        a <= k /\ k <= b <=> Followed(zone.startLine, zone.endLine, lo, hi, n, k)
  <2>1. Begins(zone, len) /\ Change(len, lo, hi, n) /\ y = Realigned(zone, lo, hi, n)
    BY <1>1, <1>2 DEF Begins, Change, start, end
  <2> HIDE DEF len, n
  <2>2. y \in Zones /\ y.original = zone.original
    BY ONLY <2>1, RealignFacts
  <2>3. 1 <= a /\ a <= len - (hi + 1 - lo) + n /\ a <= b
    BY ONLY <2>1, RealignFacts
  <2>4. zone.startLine <= lo /\ hi <= zone.endLine => a = zone.startLine
    BY ONLY <2>1, RealignFacts
  <2>5. ASSUME zone.endLine <= len, ~(lo < zone.startLine /\ zone.endLine < hi)
        PROVE  b <= len - (hi + 1 - lo) + n
    BY ONLY <2>1, <2>5, RealignFacts
  <2>6. ASSUME zone.endLine <= len, ~(lo < zone.startLine /\ zone.endLine < hi)
        PROVE  Same
    BY ONLY <2>1, <2>6, RealignFacts
  <2> QED
    BY <2>2, <2>3, <2>4, <2>5, <2>6 DEF start, end, outside
<1>5. /\ marked \in [1..grown -> BOOLEAN]
      /\ \A k \in 1..grown : marked[k] =
           IF k < lo THEN inside[k]
           ELSE IF k < lo + n THEN \E j \in lo..hi : inside[j]
           ELSE inside[k - n + (hi + 1 - lo)]
  <2>1. Change(len, lo, hi, n) /\ inside \in [1..len -> BOOLEAN]
    BY <1>1, <1>2 DEF Change
  <2> HIDE DEF len, n
  <2>2. Spread(Marked(lo, hi, n), grown, lo, hi, n)
    BY ONLY <2>1, MarkedFacts
  <2> QED
    BY <2>2 DEF Spread, marked
<1>6. Fits(y, text)
  BY <1>3, <1>4 DEF Fits, Text, StateOK
<1>7. ASSUME Held, outside
      PROVE  /\ y.endLine <= Len(text)
             /\ \A i \in 1..Len(text) : marked[i] <=> y.startLine <= i /\ i <= y.endLine
  <2>1. end <= len /\ \A i \in 1..len : inside[i] <=> start <= i /\ i <= end
    BY <1>7 DEF Held, start, end
  <2>2. \A k \in 1..grown : marked[k] <=> Followed(start, end, lo, hi, n, k)
    <3> SUFFICES ASSUME NEW k \in 1..grown PROVE marked[k] <=> Followed(start, end, lo, hi, n, k)
      OBVIOUS
    <3>1. CASE k < lo
      <4>1. k \in 1..len
        BY <1>1, <1>2, <3>1
      <4> QED
        BY <1>5, <2>1, <3>1, <4>1 DEF Followed
    <3>2. CASE ~(k < lo) /\ k < lo + n
      <4>1. \A j \in lo..hi : j \in 1..len
        BY <1>1, <1>2
      <4> QED
        BY <1>5, <2>1, <3>2, <4>1 DEF Followed
    <3>3. CASE ~(k < lo) /\ ~(k < lo + n)
      <4>1. k - n + (hi + 1 - lo) \in 1..len
        BY <1>1, <1>2, <3>3
      <4> QED
        BY <1>5, <2>1, <3>3, <4>1 DEF Followed
    <3> QED
      BY <3>1, <3>2, <3>3
  <2> HIDE DEF grown, len
  <2> QED
    BY <1>3, <1>4, <1>7, <2>1, <2>2
<1> HIDE DEF grown
<1> QED
  BY <1>3, <1>4, <1>5, <1>6, <1>7 DEF marked, outside, start, end

-----------------------------------------------------------------------------
\* The invariant.

\* Texts with the same lines are the same.
LEMMA SameText ==
    ASSUME NEW s \in Seq(Seq(Chars)), NEW t \in Seq(Seq(Chars)), Len(s) = Len(t), \A i \in 1..Len(s) : s[i] = t[i]
    PROVE  s = t
BY SeqEqual

\* Three texts one behind the other.
LEMMA Joined ==
    ASSUME NEW a \in Seq(Seq(Chars)), NEW b \in Seq(Seq(Chars)), NEW c \in Seq(Seq(Chars))
    PROVE  /\ a \o b \o c \in Seq(Seq(Chars)) /\ Len(a \o b \o c) = Len(a) + Len(b) + Len(c)
           /\ \A k \in 1..Len(b) : (a \o b \o c)[Len(a) + k] = b[k]
<1> DEFINE l == a \o b
<1>1. Len(a) \in Nat /\ Len(b) \in Nat /\ Len(c) \in Nat
  BY LenProperties
<1>2. /\ l \in Seq(Seq(Chars)) /\ Len(l) = Len(a) + Len(b)
      /\ \A i \in 1..(Len(a) + Len(b)) : l[i] = IF i <= Len(a) THEN a[i] ELSE b[i - Len(a)]
  BY ConcatProperties
<1> HIDE DEF l
<1>3. /\ l \o c \in Seq(Seq(Chars)) /\ Len(l \o c) = Len(l) + Len(c)
      /\ \A i \in 1..(Len(l) + Len(c)) : (l \o c)[i] = IF i <= Len(l) THEN l[i] ELSE c[i - Len(l)]
  <2>1. l \in Seq(Seq(Chars)) /\ c \in Seq(Seq(Chars))
    BY <1>2
  <2>2. l \o c \in Seq(Seq(Chars))
    BY ONLY <2>1, ConcatProperties
  <2>3. Len(l \o c) = Len(l) + Len(c)
    BY ONLY <2>1, ConcatProperties
  <2>4. \A i \in 1..(Len(l) + Len(c)) : (l \o c)[i] = IF i <= Len(l) THEN l[i] ELSE c[i - Len(l)]
    BY ONLY <2>1, ConcatProperties
  <2> QED
    BY <2>2, <2>3, <2>4
<1>4. ASSUME NEW k \in 1..Len(b) PROVE (l \o c)[Len(a) + k] = b[k]
  <2>1. Len(a) + k \in 1..(Len(a) + Len(b)) /\ Len(a) + k \in 1..(Len(l) + Len(c)) /\ Len(a) + k <= Len(l)
        /\ ~(Len(a) + k <= Len(a)) /\ (Len(a) + k) - Len(a) = k
    BY <1>1, <1>2
  <2> QED
    BY <1>2, <1>3, <2>1
<1> QED
  BY <1>1, <1>2, <1>3, <1>4 DEF l

\* At first the code is not the original code, and so there are diffs.
LEMMA InvInit ==
    ASSUME Init
    PROVE  IInv
<1>1. PICK above, below \in {<< >>} \cup Texts(1), code, original \in Texts(MaxCode) :
          /\ code # original
          /\ lines = above \o code \o below
          /\ zone = [startLine |-> Len(above) + 1, endLine |-> Len(above) + Len(code),
                     original |-> original, live |-> TRUE]
  BY DEF Init
<1>2. /\ above \in Seq(Seq(Chars)) /\ below \in Seq(Seq(Chars)) /\ code \in Seq(Seq(Chars)) /\ original \in Seq(Seq(Chars))
      /\ Len(above) \in Nat /\ Len(below) \in Nat /\ Len(code) \in Nat /\ 1 <= Len(code) /\ 1 <= Len(original)
  <2>1. /\ code \in Seq(Seq(Chars)) /\ Len(code) \in Nat /\ 1 <= Len(code)
        /\ original \in Seq(Seq(Chars)) /\ 1 <= Len(original)
    BY TextsFacts, LinesAssumption
  <2>2. \A t \in {<< >>} \cup Texts(1) : t \in Seq(Seq(Chars)) /\ Len(t) \in Nat
    BY TextsFacts, EmptySeq, LenProperties
  <2> QED
    BY <2>1, <2>2
<1>3. /\ lines \in Seq(Seq(Chars)) /\ Len(lines) = Len(above) + Len(code) + Len(below)
      /\ \A k \in 1..Len(code) : lines[Len(above) + k] = code[k]
  BY <1>1, <1>2, Joined
<1>4. /\ zone \in Zones /\ zone.startLine = Len(above) + 1 /\ zone.endLine = Len(above) + Len(code)
      /\ zone.original = original /\ zone.live = TRUE
  <2> DEFINE s == Len(above) + 1
             e == Len(above) + Len(code)
  <2>1. s \in Nat /\ e \in Nat /\ original \in Text
    BY <1>2, SMTT(30) DEF Text
  <2>2. zone = [startLine |-> s, endLine |-> e, original |-> original, live |-> TRUE]
    BY <1>1
  <2> HIDE DEF s, e
  <2>3. zone.startLine = s /\ zone.endLine = e /\ zone.original = original /\ zone.live = TRUE
    BY <2>2
  <2>4. zone \in Zones
    BY <2>1, <2>2 DEF Zones
  <2> QED
    BY <2>3, <2>4 DEF s, e
<1>5. Fits(zone, lines) /\ zone.endLine <= Len(lines) /\ Len(lines) \in Nat
  <2>1. Len(lines) \in Nat /\ Len(above) + Len(code) <= Len(lines) /\ Len(above) + 1 <= Len(lines)
        /\ 1 <= Len(above) + 1 /\ Len(above) + 1 <= Len(above) + Len(code)
    <3> DEFINE a == Len(above)
               c == Len(code)
               b == Len(below)
               n == Len(lines)
    <3>1. n = a + c + b /\ a \in Nat /\ c \in Nat /\ b \in Nat /\ 1 <= c
      BY <1>2, <1>3
    <3> HIDE DEF a, b, c, n
    <3>2. n \in Nat /\ a + c <= n /\ a + 1 <= n /\ 1 <= a + 1 /\ a + 1 <= a + c
      BY ONLY <3>1
    <3> QED
      BY <3>2 DEF a, b, c, n
  <2> QED
    BY <1>2, <1>3, <1>4, <2>1 DEF Fits, Text
<1>6. Code(lines, zone) = code
  <2> DEFINE c == Code(lines, zone)
  <2>1. /\ c \in Seq(Seq(Chars)) /\ Len(c) = Smaller(zone.endLine, Len(lines)) + 1 - zone.startLine
        /\ \A k \in 1..Len(c) : c[k] = lines[zone.startLine + k - 1]
    BY <1>5, CodeFacts DEF Text
  <2> HIDE DEF c
  <2>2. Len(c) = Len(code)
    <3>1. Smaller(zone.endLine, Len(lines)) = zone.endLine
      <4>1. zone.endLine \in Nat
        BY <1>4 DEF Zones
      <4> QED
        BY <1>5, <4>1 DEF Smaller
    <3> QED
      BY <1>2, <1>4, <2>1, <3>1
  <2>3. ASSUME NEW k \in 1..Len(c) PROVE c[k] = code[k]
    <3>1. zone.startLine + k - 1 = Len(above) + k
      BY <1>2, <1>4, <2>2
    <3> QED
      BY <1>3, <2>1, <2>2, <3>1
  <2>4. c = code
    BY <1>2, <2>1, <2>2, <2>3, SameText
  <2> QED
    BY <2>4 DEF c
<1>7. diffs \in Computed(lines, zone)
  BY DEF Init
<1>8. Booked
  <2>1. diffs # {} <=> Code(lines, zone) # zone.original
    BY <1>5, <1>7, BookFacts
  <2> QED
    BY <1>1, <1>4, <1>6, <1>7, <2>1 DEF Booked
<1>9. inside = [i \in 1..Len(lines) |-> i \in zone.startLine..zone.endLine] /\ astray = FALSE
  <2>1. DOMAIN lines = 1..Len(lines)
    BY <1>3, LenProperties
  <2> QED
    BY <2>1, Zenon DEF Init
<1>10. inside \in [1..Len(lines) -> BOOLEAN] /\ \A i \in 1..Len(lines) : inside[i] <=> i \in zone.startLine..zone.endLine
  <2> DEFINE S == zone.startLine..zone.endLine
  <2>1. inside = [i \in 1..Len(lines) |-> i \in S]
    BY <1>9
  <2> HIDE DEF S
  <2>2. inside \in [1..Len(lines) -> BOOLEAN]
    BY <2>1
  <2>3. \A i \in 1..Len(lines) : inside[i] <=> i \in S
    BY <2>1
  <2> QED
    BY <2>2, <2>3 DEF S
<1>11. Held
  <2> DEFINE s == zone.startLine
             e == zone.endLine
  <2>1. s \in Nat /\ e \in Nat
    BY <1>4 DEF Zones
  <2>2. \A i \in 1..Len(lines) : i \in s..e <=> s <= i /\ i <= e
    <3> HIDE DEF s, e
    <3> QED
      BY <1>5, <2>1
  <2> QED
    BY <1>5, <1>10, <2>2 DEF Held
<1> QED
  BY <1>5, <1>8, <1>9, <1>10, <1>11 DEF IInv, StateOK

\* A typed change.
LEMMA TypeKeeps ==
    ASSUME IInv, ~astray, NEW lo \in DOMAIN lines, NEW hi \in lo..Len(lines), NEW new \in Texts(2), Type(lo, hi, new)
    PROVE  IInv'
<1> DEFINE y == Realigned(zone, lo, hi, Len(new))
           range == [from |-> Start(lo), to |-> End(hi), text |-> new]
<1>1. StateOK /\ Held
  BY DEF IInv
<1>2. lo \in Nat /\ hi \in Nat /\ 1 <= lo /\ lo <= hi /\ hi <= Len(lines)
  <2>1. Len(lines) \in Nat /\ lo \in 1..Len(lines)
    BY <1>1, StateFacts, LenProperties
  <2> QED
    BY <2>1
<1>3. new \in Seq(Seq(Chars)) /\ 1 <= Len(new)
  BY TextsFacts
<1>4. /\ lines' = ApplyEdit(lines, range) /\ diffs' \in Computed(lines', y) /\ zone' = Settled(y, diffs')
      /\ inside' = Marked(lo, hi, Len(new))
      /\ astray' = (astray \/ (lo < zone.startLine /\ zone.endLine < hi))
  BY DEF Type
<1>5. /\ Fits(y, lines')
      /\ Marked(lo, hi, Len(new)) \in [1..Len(lines') -> BOOLEAN]
      /\ ~(lo < zone.startLine /\ zone.endLine < hi) =>
            /\ y.endLine <= Len(lines')
            /\ \A i \in 1..Len(lines') : Marked(lo, hi, Len(new))[i] <=> y.startLine <= i /\ i <= y.endLine
  <2>1. Start(lo) \in {Start(lo), End(lo)} /\ End(hi) \in {Start(hi), End(hi)}
    OBVIOUS
  <2> QED
    BY <1>1, <1>2, <1>3, <1>4, <2>1, ChangeFacts
<1> HIDE DEF y
<1>6. /\ zone'.startLine = y.startLine /\ zone'.endLine = y.endLine
      /\ (zone'.live <=> diffs' # {}) /\ Computed(lines', zone') = Computed(lines', y) /\ Fits(zone', lines')
  BY <1>4, <1>5, SettledFacts DEF Fits
<1>7. StateOK'
  BY <1>1, <1>4, <1>5, <1>6 DEF StateOK
<1>8. Booked'
  BY <1>4, <1>6 DEF Booked
<1>9. astray' \/ Held'
  BY <1>4, <1>5, <1>6 DEF Held
<1> QED
  BY <1>7, <1>8, <1>9 DEF IInv

\* Accepting.  The books of the zone say whether its code is the original one now.
LEMMA AcceptKeeps ==
    ASSUME IInv, ~astray, NEW d \in diffs, acceptDiff(d)
    PROVE  IInv' /\ Distance(zone', lines') + Size(d) = Distance(zone, lines)
<1> DEFINE y == [zone EXCEPT !.original = Accepted(d)]
<1>1. StateOK /\ Held /\ diffs \in Computed(lines, zone) /\ Fits(zone, lines)
  BY DEF IInv, Booked, StateOK
<1>2. /\ zone' = Settled(y, Others(d)) /\ diffs' \in Computed(lines, zone')
      /\ lines' = lines /\ inside' = inside /\ astray' = astray
  BY DEF acceptDiff
<1>3. /\ Accepted(d) \in Text /\ 1 <= Len(Accepted(d))
      /\ Others(d) # {} <=> Code(lines, zone) # Accepted(d)
  BY ONLY <1>1, d \in diffs, AcceptedFacts
<1>4. Len(Accepted(d)) + Len(Code(lines, zone)) - 2 * Most(Scripts(Accepted(d), Code(lines, zone))) + Size(d)
        = Len(zone.original) + Len(Code(lines, zone)) - 2 * Most(Scripts(zone.original, Code(lines, zone)))
  BY ONLY <1>1, d \in diffs, AcceptedFacts
<1>5. /\ y \in Zones /\ y.startLine = zone.startLine /\ y.endLine = zone.endLine /\ y.original = Accepted(d)
  BY <1>1, <1>3 DEF Fits, Zones
<1> HIDE DEF y
<1>6. Fits(y, lines) /\ Code(lines, y) = Code(lines, zone)
  BY <1>1, <1>3, <1>5 DEF Fits, Code
<1>7. /\ zone'.startLine = zone.startLine /\ zone'.endLine = zone.endLine /\ zone'.original = Accepted(d)
      /\ (zone'.live <=> Others(d) # {}) /\ Code(lines', zone') = Code(lines, zone) /\ Fits(zone', lines')
  BY <1>2, <1>5, <1>6, SettledFacts
<1>8. StateOK'
  BY <1>1, <1>2, <1>7 DEF StateOK
<1>9. diffs' # {} <=> Code(lines', zone') # zone'.original
  BY <1>2, <1>7, BookFacts
<1>10. Booked'
  BY <1>2, <1>3, <1>7, <1>9 DEF Booked
<1>11. Held'
  BY <1>1, <1>2, <1>7 DEF Held
<1>12. Distance(zone', lines') + Size(d) = Distance(zone, lines)
  BY <1>4, <1>7 DEF Distance
<1> QED
  BY <1>8, <1>10, <1>11, <1>12 DEF IInv

\* Rejecting.  The edit lies in the zone; a text that is not written leaves the file as it is.
LEMMA RejectKeeps ==
    ASSUME IInv, ~astray, NEW d \in diffs, rejectDiff(d)
    PROVE  /\ IInv'
           /\ ~astray' => lines' = Replaced(lines, d.startLine, d.endLine, OriginalLines(d, zone))
<1> DEFINE e == RejectEdit(d)
           y == Realigned(zone, e.from.line, e.to.line, Len(e.text))
<1>1. StateOK /\ Held /\ diffs \in Computed(lines, zone) /\ Fits(zone, lines) /\ zone.endLine <= Len(lines)
  BY DEF IInv, Booked, StateOK, Held
<1>2. PICK lo, hi \in Nat : \E from \in {Start(lo), End(lo)}, to \in {Start(hi), End(hi)}, new \in Seq(Seq(Chars)) :
          /\ RejectEdit(d) = [from |-> from, to |-> to, text |-> new]
          /\ zone.startLine <= lo /\ lo <= hi /\ hi <= zone.endLine /\ 1 <= Len(new)
          /\ from.line = lo /\ to.line = hi
          /\ ~JoinsLines(d) => ApplyEdit(lines, RejectEdit(d))
                                 = Replaced(lines, d.startLine, d.endLine, OriginalLines(d, zone))
  BY ONLY <1>1, d \in diffs, RejectFacts
<1>3. PICK from \in {Start(lo), End(lo)}, to \in {Start(hi), End(hi)}, new \in Seq(Seq(Chars)) :
          /\ RejectEdit(d) = [from |-> from, to |-> to, text |-> new]
          /\ zone.startLine <= lo /\ lo <= hi /\ hi <= zone.endLine /\ 1 <= Len(new)
          /\ from.line = lo /\ to.line = hi
          /\ ~JoinsLines(d) => ApplyEdit(lines, RejectEdit(d))
                                 = Replaced(lines, d.startLine, d.endLine, OriginalLines(d, zone))
  BY <1>2
<1>4. e = [from |-> from, to |-> to, text |-> new] /\ e.from.line = lo /\ e.to.line = hi /\ e.text = new
  BY <1>3
<1> HIDE DEF e
<1>5. y = Realigned(zone, lo, hi, Len(new))
  BY <1>4
<1>6. /\ IsWritten(e) => lines' = ApplyEdit(lines, e) /\ inside' = Marked(lo, hi, Len(new))
      /\ ~IsWritten(e) => lines' = lines /\ inside' = inside
      /\ diffs' \in Computed(lines', y) /\ zone' = Settled(y, diffs')
      /\ astray' = (astray \/ ~IsWritten(e) \/ JoinsLines(d))
  BY <1>4 DEF rejectDiff, e
<1> HIDE DEF y
<1>7. lo \in Nat /\ hi \in Nat /\ 1 <= lo /\ lo <= hi /\ hi <= Len(lines) /\ new \in Seq(Seq(Chars)) /\ 1 <= Len(new)
      /\ ~(lo < zone.startLine /\ zone.endLine < hi) /\ zone.startLine <= lo /\ hi <= zone.endLine
  BY <1>1, <1>3, StateFacts
<1>8. DEFINE text == ApplyEdit(lines, e)
<1>9. /\ Fits(y, text)
      /\ Marked(lo, hi, Len(new)) \in [1..Len(text) -> BOOLEAN]
      /\ y.startLine = zone.startLine
      /\ y.endLine <= Len(text)
      /\ \A i \in 1..Len(text) : Marked(lo, hi, Len(new))[i] <=> y.startLine <= i /\ i <= y.endLine
  <2>1. text = ApplyEdit(lines, [from |-> from, to |-> to, text |-> new])
    BY <1>4
  <2> HIDE DEF text
  <2> QED
    BY <1>1, <1>3, <1>5, <1>7, <2>1, ChangeFacts, SMTT(30)
<1> HIDE DEF text
<1>10. Fits(y, lines')
  <2>1. CASE IsWritten(e)
    BY <1>6, <1>9, <2>1 DEF text
  <2>2. CASE ~IsWritten(e)
    BY <1>1, <1>6, <1>9, <2>2 DEF Fits
  <2> QED
    BY <2>1, <2>2
<1>11. /\ zone'.startLine = y.startLine /\ zone'.endLine = y.endLine
       /\ (zone'.live <=> diffs' # {}) /\ Computed(lines', zone') = Computed(lines', y) /\ Fits(zone', lines')
  BY <1>6, <1>10, SettledFacts DEF Fits
<1>12. inside' \in [1..Len(lines') -> BOOLEAN] /\ astray' \in BOOLEAN
  BY <1>1, <1>6, <1>9 DEF StateOK, text
<1>13. StateOK'
  BY <1>11, <1>12 DEF StateOK
<1>14. Booked'
  BY <1>6, <1>11 DEF Booked
<1>15. ASSUME ~astray' PROVE Held'
  <2>1. IsWritten(e)
    BY <1>6, <1>15
  <2> QED
    BY <1>6, <1>9, <1>11, <2>1 DEF Held, text
<1>16. ASSUME ~astray' PROVE lines' = Replaced(lines, d.startLine, d.endLine, OriginalLines(d, zone))
  <2>1. IsWritten(e) /\ ~JoinsLines(d)
    BY <1>6, <1>16
  <2> QED
    BY <1>3, <1>6, <2>1 DEF e
<1> QED
  BY <1>13, <1>14, <1>15, <1>16 DEF IInv

\* Every step keeps the invariant,
LEMMA InvNext ==
    ASSUME IInv, [Next]_vars
    PROVE  IInv'
<1>1. CASE ~astray /\ \E lo \in DOMAIN lines, new \in Texts(2) : \E hi \in lo..Len(lines) : Type(lo, hi, new)
  BY <1>1, TypeKeeps
<1>2. CASE ~astray /\ Decide
  BY <1>2, AcceptKeeps, RejectKeeps DEF Decide
<1>3. CASE UNCHANGED vars
  BY <1>3 DEF vars, IInv, StateOK, Booked, Held
<1> QED
  BY <1>1, <1>2, <1>3 DEF Next, Finish

\* which says more than ZoneTracks
LEMMA InvTracks ==
    ASSUME IInv
    PROVE  ZoneTracks
<1>1. /\ zone \in Zones /\ zone.startLine \in Nat /\ zone.endLine \in Nat
      /\ 1 <= zone.startLine /\ zone.startLine <= zone.endLine /\ zone.startLine <= Len(lines)
      /\ lines \in Seq(Seq(Chars)) /\ Len(lines) \in Nat /\ inside \in [1..Len(lines) -> BOOLEAN]
  BY StateFacts DEF IInv
<1>2. Fits(zone, lines) /\ diffs \in Computed(lines, zone)
  BY DEF IInv, StateOK, Booked
<1>3. \A d \in diffs : zone.startLine <= d.startLine /\ d.startLine \in Nat /\ d.endLine <= zone.endLine
  BY <1>2, DiffInZone
<1>4. DOMAIN inside = DOMAIN lines /\ DOMAIN inside = 1..Len(lines)
  BY <1>1, LenProperties
<1>5. lines # << >>
  BY <1>1
<1>6. TypeOK
  BY <1>1, <1>3, <1>4, <1>5 DEF TypeOK
<1>7. ASSUME Held PROVE Covers
  <2>1. \A i \in 1..Len(lines) : inside[i] <=> i \in zone.startLine..zone.endLine
    BY <1>1, <1>7 DEF Held
  <2>2. \A i \in zone.startLine..zone.endLine : i \in 1..Len(lines)
    BY <1>1, <1>7 DEF Held
  <2> QED
    BY <1>4, <2>1, <2>2 DEF Covers
<1> QED
  BY <1>6, <1>7 DEF ZoneTracks, IInv

\* and, with the books, LiveWhileDifferent.
LEMMA InvLive ==
    ASSUME IInv
    PROVE  LiveWhileDifferent
BY BookFacts DEF IInv, StateOK, Booked, LiveWhileDifferent

\* It holds of every state.
LEMMA SpecInv == Spec => []IInv
<1>1. Init => IInv
  BY InvInit
<1>2. IInv /\ [Next]_vars => IInv'
  BY InvNext
<1> QED
  BY <1>1, <1>2, PTL DEF Spec

\* A zone covers the lines it was made for and what replaced them, whatever is typed and
\* decided (_realignAllDiffAreasLines), and its diffs lie in it (_computeDiffsAndAddStylesToURI).
\* Excepted are the three ways in which the code leads a zone astray: a change that contains
\* it (912), a rejection that is not written (648) and one that joins lines (2232).
THEOREM ZonesKeepTheirLines == Spec => []ZoneTracks
BY SpecInv, InvTracks, PTL

\* A zone is live exactly as long as its code is not the original code: what acceptDiff counts
\* agrees with the diffs computed anew, whichever shortest script they come from.
THEOREM ZonesLiveWhileDifferent == Spec => []LiveWhileDifferent
BY SpecInv, InvLive, PTL

\* Rejecting a diff (rejectDiff) puts its original lines in the place of the new ones and
\* touches no other line, except that insertions at the end of the zone are removed with
\* the wrong line break (2232-2236) and that a rejection may not be written (648).
THEOREM RejectingRestores == Spec => RejectRestores
<1> DEFINE A == \A d \in diffs : rejectDiff(d) /\ ~astray'
                    => lines' = Replaced(lines, d.startLine, d.endLine, OriginalLines(d, zone))
<1>1. IInv /\ [Next]_vars => [A]_vars
  <2> SUFFICES ASSUME IInv, NEW d \in diffs, rejectDiff(d), ~astray'
               PROVE  lines' = Replaced(lines, d.startLine, d.endLine, OriginalLines(d, zone))
    OBVIOUS
  <2>1. ~astray
    BY DEF rejectDiff, IInv, StateOK
  <2> QED
    BY <2>1, RejectKeeps
<1> QED
  BY SpecInv, <1>1, PTL DEF Spec, RejectRestores

\* Accepting a diff (acceptDiff) makes the original code closer to the code of the zone by
\* exactly the size of that diff: it settles that diff, and none of the others.
THEOREM AcceptingSettlesOne == Spec => AcceptSettlesOne
<1> DEFINE A == \A d \in diffs : acceptDiff(d) => Distance(zone', lines') + Size(d) = Distance(zone, lines)
<1>1. IInv /\ [Next]_vars => [A]_vars
  <2>1. CASE ~astray
    BY <2>1, AcceptKeeps
  <2>2. ASSUME astray, [Next]_vars PROVE UNCHANGED vars
    BY <2>2 DEF Next, Finish
  <2> QED
    BY <2>1, <2>2
<1> QED
  BY SpecInv, <1>1, PTL DEF Spec, AcceptSettlesOne
=============================================================================
