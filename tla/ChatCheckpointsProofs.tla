------------------------ MODULE ChatCheckpointsProofs ------------------------
(***************************************************************************)
(* What the jumps between the checkpoints of a thread give back, for every *)
(* set of files, every number of changes and every length of the thread.   *)
(*                                                                         *)
(* A jump gives a file what the newest snapshot up to its target holds, or *)
(* else the oldest one after it: Gives.  The invariant says so of the      *)
(* files on disk (Stands, EndHolds), and of what the checkpoints are sure  *)
(* of (Consistent).                                                        *)
(***************************************************************************)
EXTENDS ChatCheckpoints, TLAPS, SequenceTheorems, FiniteSetTheorems

Roles == {"user", "tool", "checkpoint"}
Messages ==
    [role : Roles, snap : Snapshots, mods : Snapshots, was : Snapshots, sure : SUBSET Files]

\* A snapshot is of a file that has a model, as it was; only checkpoints have any.
MessageOK(m, mo) ==
    IF IsCheckpoint(m)
    THEN /\ m.was \in [Files -> Versions] /\ Snapped(m.snap) \subseteq mo
         /\ \A f \in Snapped(m.snap) : m.snap[f] = m.was[f]
    ELSE m.snap = Nothing /\ m.sure = {}

History(ms, mo) ==
    /\ ms \in Seq(Messages)
    /\ ms # << >> => IsCheckpoint(ms[1])
    /\ \A i \in DOMAIN ms : MessageOK(ms[i], mo)

Types ==
    /\ History(messages, models)
    /\ content \in [Files -> Versions] /\ changes \in Versions
    /\ Opened \subseteq models /\ models \subseteq Files
    /\ turn \in {"idle", "llm", "asking", "tool", "aborting"}
    /\ loose \subseteq Files /\ missed \subseteq Files /\ end \in [Files -> Versions] \cup {None}
    /\ cp = None \/ (cp \in DOMAIN messages /\ IsCheckpoint(messages[cp]))

Recorded(ms, f) == \E k \in DOMAIN ms : ms[k].snap[f] # None

\* Message k holds what a jump to message i gives file f: the newest snapshot up to i, or
\* the oldest of all.
Gives(ms, i, k, f) ==
    /\ ms[k].snap[f] # None
    /\ \/ k <= i /\ \A j \in DOMAIN ms : k < j /\ j <= i => ms[j].snap[f] = None
       \/ k > i /\ \A j \in DOMAIN ms : j < k => ms[j].snap[f] = None

\* A jump to a checkpoint gives what it is sure of,
SureIsGiven(ms) ==
    \A i, k \in DOMAIN ms : \A f \in ms[i].sure :
        Gives(ms, i, k, f) => ms[i].was[f] = ms[k].snap[f]

\* and a file that no snapshot holds has not changed,
SureIsThere(ms, co) ==
    \A i \in DOMAIN ms : \A f \in ms[i].sure : ~Recorded(ms, f) => co[f] = ms[i].was[f]

\* nor will its first snapshot hold a change.
LooseIsUnsure(ms, lo) ==
    \A f \in lo : ~Recorded(ms, f) => \A i \in DOMAIN ms : f \notin ms[i].sure

\* What a checkpoint is not sure of and no snapshot up to it holds, no older one is sure of:
\* a thread that is cut there forgets the snapshots it stood by.
UnsureBefore(ms) ==
    \A k \in DOMAIN ms : \A f \in Files \ ms[k].sure :
        (IsCheckpoint(ms[k]) /\ \A j \in DOMAIN ms : j <= k => ms[j].snap[f] = None)
            => \A i \in DOMAIN ms : i < k => f \notin ms[i].sure

Consistent(ms, co, lo) ==
    SureIsGiven(ms) /\ SureIsThere(ms, co) /\ LooseIsUnsure(ms, lo) /\ UnsureBefore(ms)

\* At the end of the thread a file is as its newest snapshot, unless it changed since.
EndHolds(ms, co, lo) ==
    \A f \in Files \ lo : \A k \in DOMAIN ms : Gives(ms, Len(ms), k, f) => co[f] = ms[k].snap[f]

\* A checkpoint at the end is new, and a snapshot of all that is recorded.
Closes(ms, lo) == ms # << >> /\ IsCheckpoint(ms[Len(ms)]) =>
    lo \cap ms[Len(ms)].sure = {} /\ ms[Len(ms)].mods = Nothing
HoldsAll(ms) == ms # << >> /\ IsCheckpoint(ms[Len(ms)]) =>
    \A f \in Files : Recorded(ms, f) => ms[Len(ms)].snap[f] # None

Turns ==
    /\ cp # None => turn = "idle" /\ IsCheckpoint(messages[Len(messages)])
    /\ cp = None =>
        end = None /\ missed = {} /\ EndHolds(messages, content, loose) /\ Closes(messages, loose)
    /\ messages = << >> => turn = "idle"
    /\ turn \in {"asking", "tool"} => ~IsCheckpoint(messages[Len(messages)])
    /\ turn \in {"asking", "tool", "aborting"} => target \in Files /\ (noted => Recorded(messages, target))
    /\ turn \in {"idle", "aborting"} => HoldsAll(messages)

Sure(f) == \E i \in DOMAIN messages : f \in messages[i].sure

\* The files are as the checkpoint gives them; at the last one, they may be as its
\* modifications.
Stands ==
    cp # None =>
        IF cp = Len(messages)
        THEN \A f \in messages[cp].sure \ missed : content[f] = messages[cp].was[f]
        ELSE \A f \in Files \ missed, k \in DOMAIN messages :
                Sure(f) /\ Gives(messages, cp, k, f) => content[f] = messages[k].snap[f]

\* The last checkpoint keeps no modification of what it is sure of.
LastMods ==
    cp # None => LET m == messages[Len(messages)] IN
        \A f \in m.sure \ missed : m.mods[f] # None => m.mods[f] = m.was[f]

\* The last checkpoint keeps what was there when the user jumped away from it.
EndKept ==
    end # None => IF cp = Len(messages) THEN content = end ELSE
        \A f \in Files :
            end[f] = IF Recorded(messages, f) THEN Info(messages[Len(messages)], f, TRUE) ELSE content[f]

IInv == Types /\ Consistent(messages, content, loose) /\ Turns /\ Stands /\ LastMods /\ EndKept

-----------------------------------------------------------------------------
\* Least and greatest elements.

\* A set of natural numbers that is not empty has a least element: of the intervals
\* up to its elements one is minimal.
LEMMA LeastNat ==
    ASSUME NEW T \in SUBSET Nat, T # {}
    PROVE  \E x \in T : \A y \in T : x <= y
<1> DEFINE U == {1..n : n \in T}
<1>1. IsWellFoundedOn(StrictSubsetOrdering(Nat), FiniteSubsetsOf(Nat))
  BY FS_StrictSubsetOrderingWellFounded
<1>2. U \subseteq FiniteSubsetsOf(Nat) /\ U # {}
  <2>1. \A n \in Nat : IsFiniteSet(1..n)
    BY FS_Interval
  <2>2. \A n \in T : 1..n \in SUBSET Nat /\ IsFiniteSet(1..n)
    BY <2>1, SMT
  <2> QED
    BY <2>2 DEF FiniteSubsetsOf
<1>3. PICK u \in U : \A v \in U : ~ (<<v, u>> \in StrictSubsetOrdering(Nat))
  <2> HIDE DEF U
  <2> QED
    BY <1>1, <1>2, WFMin
<1>4. PICK x \in T : u = 1..x
  BY <1>3
<1>5. ASSUME NEW y \in T PROVE x <= y
  <2> SUFFICES ASSUME y < x PROVE FALSE
    BY SMT
  <2>1. 1..y \in U /\ 1..y \subseteq Nat /\ 1..x \subseteq Nat
    BY SMT
  <2>2. x \in 1..x /\ x \notin 1..y /\ 1..y \subseteq 1..x
    BY SMT
  <2>3. <<1..y, 1..x>> \in StrictSubsetOrdering(Nat)
    BY <2>1, <2>2 DEF StrictSubsetOrdering
  <2> QED
    BY <2>1, <2>3, <1>3, <1>4
<1> QED
  BY <1>5

LEMMA GreatestNat ==
    ASSUME NEW n \in Nat, NEW T \in SUBSET (1..n), T # {}
    PROVE  \E x \in T : \A y \in T : y <= x
<1> DEFINE U == {n - y : y \in T}
<1>1. U \in SUBSET Nat /\ U # {}
  <2>1. \A y \in T : n - y \in Nat
    OBVIOUS
  <2> QED
    BY <2>1
<1>2. PICK u \in U : \A v \in U : u <= v
  <2> HIDE DEF U
  <2> QED
    BY <1>1, LeastNat
<1>3. PICK x \in T : u = n - x
  BY <1>2
<1>4. ASSUME NEW y \in T PROVE y <= x
  <2>1. n - x <= n - y
    BY <1>2, <1>3
  <2> QED
    BY <2>1
<1> QED
  BY <1>4

LEMMA MinIsLeast ==
    ASSUME NEW T \in SUBSET Nat, T # {}
    PROVE  Min(T) \in T /\ \A y \in T : Min(T) <= y
BY LeastNat DEF Min

LEMMA MaxIsGreatest ==
    ASSUME NEW n \in Nat, NEW T \in SUBSET (1..n), T # {}
    PROVE  Max(T) \in T /\ \A y \in T : y <= Max(T)
<1>1. \E x \in T : \A y \in T : x >= y
  BY GreatestNat
<1> QED
  BY <1>1 DEF Max

-----------------------------------------------------------------------------
\* What an undo gives.

LEMMA GivenByOne ==
    ASSUME NEW ms \in Seq(Messages), NEW i \in Nat, NEW f \in Files, Recorded(ms, f)
    PROVE  \E k \in DOMAIN ms : Gives(ms, i, k, f)
<1> DEFINE n == Len(ms)
           Older == {k \in 1..n : k <= i /\ ms[k].snap[f] # None}
           All == {k \in 1..n : ms[k].snap[f] # None}
<1>1. n \in Nat /\ DOMAIN ms = 1..n
  OBVIOUS
<1> HIDE DEF n
<1>2. CASE Older # {}
  <2>1. PICK k \in Older : \A j \in Older : j <= k
    <3>1. Older \in SUBSET (1..n)
      OBVIOUS
    <3> HIDE DEF Older
    <3> QED
      BY <1>1, <1>2, <3>1, GreatestNat
  <2> QED
    BY <1>1, <2>1 DEF Gives
<1>3. CASE Older = {}
  <2>1. PICK k \in All : \A j \in All : k <= j
    <3>1. All \in SUBSET Nat /\ All # {}
      BY <1>1 DEF Recorded
    <3> HIDE DEF All
    <3> QED
      BY <3>1, LeastNat
  <2> QED
    BY <1>1, <1>3, <2>1 DEF Gives
<1> QED
  BY <1>2, <1>3

\* _getCheckpointInfo of the first checkpoint of an order that holds the file.
LEMMA FirstInfoIs ==
    ASSUME NEW ms, NEW n \in Nat, NEW order \in [1..n -> Nat], NEW f, NEW um,
           NEW q \in 1..n, Info(ms[order[q]], f, um) # None,
           \A p \in 1..n : p < q => Info(ms[order[p]], f, um) = None
    PROVE  FirstInfo(ms, order, f, um) = Info(ms[order[q]], f, um)
<1> DEFINE found == {p \in DOMAIN order : Info(ms[order[p]], f, um) # None}
<1>1. FirstInfo(ms, order, f, um) = IF found = {} THEN content[f] ELSE Info(ms[order[Min(found)]], f, um)
  BY DEF FirstInfo
<1>2. DOMAIN order = 1..n /\ found \in SUBSET Nat /\ q \in found
  OBVIOUS
<1>3. Min(found) \in found /\ \A y \in found : Min(found) <= y
  <2> HIDE DEF found
  <2> QED
    BY <1>2, MinIsLeast
<1>4. Min(found) \in Nat /\ Min(found) <= q /\ Min(found) \in 1..n /\ ~(Min(found) < q)
  BY <1>2, <1>3
<1>5. Min(found) = q
  BY <1>4
<1> QED
  BY <1>1, <1>2, <1>5

LEMMA BetweenFacts ==
    ASSUME NEW ms, NEW mo, History(ms, mo), mo \subseteq models,
           NEW lo \in Nat \ {0}, NEW hi \in 0..Len(ms), NEW f \in Files
    PROVE  f \in FilesBetween(ms, lo, hi) \cap models <=> \E k \in lo..hi : ms[k].snap[f] # None
<1>1. ms \in Seq(Messages) /\ \A k \in lo..hi : k \in DOMAIN ms
  BY DEF History
<1>2. \A k \in lo..hi : MessageOK(ms[k], mo)
  BY <1>1 DEF History
<1>3. \A k \in lo..hi : ms[k].snap[f] # None => IsCheckpoint(ms[k]) /\ f \in mo /\ f \in Snapped(ms[k].snap)
  BY <1>2 DEF MessageOK, Nothing, Snapped
<1>4. f \in FilesBetween(ms, lo, hi) <=> \E k \in lo..hi : IsCheckpoint(ms[k]) /\ f \in Snapped(ms[k].snap)
  BY DEF FilesBetween
<1> QED
  BY <1>3, <1>4 DEF Snapped

LEMMA PlainInfo == ASSUME NEW um \in BOOLEAN, ~um PROVE \A m, f : Info(m, f, um) = m.snap[f]
BY DEF Info

LEMMA UndoOrderFacts ==
    ASSUME NEW ms \in Seq(Messages), NEW to \in 1..Len(ms)
    PROVE  /\ UndoOrder(ms, to) \in [1..Len(ms) -> Nat]
           /\ \A p \in 1..Len(ms) : UndoOrder(ms, to)[p] = IF p <= to THEN to + 1 - p ELSE p
<1> DEFINE n == Len(ms)
           up == Upwards(1, to)
           down == Downwards(to + 1, n)
<1>1. n \in Nat /\ to \in Nat /\ to <= n /\ n - to \in Nat
  OBVIOUS
<1>2. up = [k \in 1..to |-> to + 1 - k]
  BY <1>1 DEF Upwards
<1>3. down = [k \in 1..(n - to) |-> to + k]
  <2>1. n + 1 - (to + 1) = n - to
    BY <1>1
  <2>2. \A k \in 1..(n - to) : (to + 1) + k - 1 = to + k
    BY <1>1
  <2> QED
    BY <2>1, <2>2 DEF Downwards
<1>4. UndoOrder(ms, to) = up \o down
  BY DEF UndoOrder
<1> HIDE DEF n, up, down
<1>5. up \in Seq(Nat) /\ Len(up) = to
  BY <1>1, <1>2
<1>6. down \in Seq(Nat) /\ Len(down) = n - to
  BY <1>1, <1>3
<1>7. /\ up \o down \in Seq(Nat) /\ Len(up \o down) = Len(up) + Len(down)
      /\ \A p \in 1..(Len(up) + Len(down)) : (up \o down)[p] = IF p <= Len(up) THEN up[p] ELSE down[p - Len(up)]
  BY <1>5, <1>6, ConcatProperties
<1>8. Len(up) + Len(down) = n
  BY <1>1, <1>5, <1>6
<1>9. up \o down \in [1..n -> Nat]
  BY <1>7, <1>8, LenProperties
<1>10. ASSUME NEW p \in 1..n PROVE (up \o down)[p] = IF p <= to THEN to + 1 - p ELSE p
  <2>1. CASE p <= to
    <3>1. p \in 1..to
      BY <1>1, <2>1
    <3> QED
      BY <1>2, <1>5, <1>7, <1>8, <2>1, <3>1
  <2>2. CASE ~(p <= to)
    <3>1. p - to \in 1..(n - to) /\ to + (p - to) = p
      BY <1>1, <2>2
    <3> QED
      BY <1>3, <1>5, <1>7, <1>8, <2>2, <3>1
  <2> QED
    BY <2>1, <2>2
<1> QED
  BY <1>4, <1>9, <1>10 DEF n

\* An undo gives the files that were snapped after the checkpoint back as it gives them,
\* and leaves the others.
LEMMA JumpedBack ==
    ASSUME NEW ms, NEW mo, History(ms, mo), mo \subseteq models,
           NEW to \in DOMAIN ms, NEW from \in DOMAIN ms, to < from, NEW f \in Files, NEW um \in BOOLEAN, ~um
    PROVE  LET got == Jumped(ms, from, to, um)[f]
               touched == \E k \in to + 1..from : ms[k].snap[f] # None
           IN /\ touched => \A k \in DOMAIN ms : Gives(ms, to, k, f) => got = ms[k].snap[f]
              /\ ~touched => got = content[f]
<1> DEFINE n == Len(ms)
           order == UndoOrder(ms, to)
           lo == to + 1
           touched == \E k \in lo..from : ms[k].snap[f] # None
           got == Jumped(ms, from, to, um)[f]
<1>1. ms \in Seq(Messages) /\ DOMAIN ms = 1..n /\ n \in Nat /\ to \in 1..n /\ from \in 1..n
  BY DEF History
<1>2. lo \in Nat \ {0} /\ from \in 0..Len(ms)
  BY <1>1
<1>3. got = IF f \in FilesBetween(ms, lo, from) \cap models THEN FirstInfo(ms, order, f, um) ELSE content[f]
  BY DEF Jumped
<1>4. order \in [1..n -> Nat] /\ \A p \in 1..n : order[p] = IF p <= to THEN to + 1 - p ELSE p
  BY <1>1, UndoOrderFacts
<1> HIDE DEF n, order, got
<1>5. got = IF touched THEN FirstInfo(ms, order, f, um) ELSE content[f]
  <2> HIDE DEF lo
  <2> QED
    BY <1>2, <1>3, BetweenFacts
<1>6. ASSUME touched, NEW k \in DOMAIN ms, Gives(ms, to, k, f) PROVE got = ms[k].snap[f]
  <2> DEFINE q == IF k <= to THEN to + 1 - k ELSE k
  <2>1. q \in 1..n /\ (q <= to => to + 1 - q = k) /\ (q > to => q = k) /\ k \in 1..n
    BY <1>1
  <2>2. order[q] = k
    BY <1>1, <1>4, <2>1
  <2>3. \A p \in 1..n : p < q => ms[order[p]].snap[f] = None
    <3> SUFFICES ASSUME NEW p \in 1..n, p < q PROVE ms[order[p]].snap[f] = None
      OBVIOUS
    <3> DEFINE j == IF p <= to THEN to + 1 - p ELSE p
    <3>1. order[p] = j
      BY <1>4
    <3>2. /\ j \in 1..n
          /\ k <= to => k < j /\ j <= to
          /\ k > to => j < k
      BY <1>1, <2>1
    <3> HIDE DEF j, q
    <3>3. j \in DOMAIN ms
      BY <1>1, <3>2
    <3> QED
      BY <1>6, <3>1, <3>2, <3>3 DEF Gives
  <2>4. ms[order[q]].snap[f] # None
    BY <1>6, <2>2 DEF Gives
  <2> HIDE DEF q
  <2>5. FirstInfo(ms, order, f, um) = Info(ms[order[q]], f, um)
    <3>1. \A p \in 1..n : Info(ms[order[p]], f, um) = ms[order[p]].snap[f]
      BY PlainInfo
    <3>2. /\ n \in Nat /\ order \in [1..n -> Nat] /\ q \in 1..n
          /\ Info(ms[order[q]], f, um) # None
          /\ \A p \in 1..n : p < q => Info(ms[order[p]], f, um) = None
      BY <1>1, <1>4, <2>1, <2>3, <2>4, <3>1
    <3> QED
      BY <3>2, FirstInfoIs
  <2> QED
    BY <1>5, <1>6, <2>2, <2>5, PlainInfo
<1> QED
  BY <1>5, <1>6 DEF got

\* A redo takes the newest snapshot on the way.
LEMMA JumpedForward ==
    ASSUME NEW ms, NEW mo, History(ms, mo), mo \subseteq models,
           NEW to \in DOMAIN ms, NEW from \in DOMAIN ms, from < to, NEW f \in Files, NEW um \in BOOLEAN
    PROVE  LET got == Jumped(ms, from, to, um)[f]
               touched == \E k \in from + 1..to : ms[k].snap[f] # None
           IN /\ touched /\ ~um => \A k \in DOMAIN ms : Gives(ms, to, k, f) => got = ms[k].snap[f]
              /\ touched /\ Info(ms[to], f, um) # None => got = Info(ms[to], f, um)
              /\ ~touched => got = content[f]
<1> DEFINE n == to - from
           order == Upwards(from + 1, to)
           lo == from + 1
           touched == \E k \in lo..to : ms[k].snap[f] # None
           got == Jumped(ms, from, to, um)[f]
<1>1. /\ ms \in Seq(Messages) /\ DOMAIN ms = 1..Len(ms) /\ n \in Nat /\ Len(ms) \in Nat
      /\ to \in 1..Len(ms) /\ from \in 1..Len(ms) /\ 1 \in 1..n
  BY DEF History
<1>2. lo \in Nat \ {0} /\ to \in 0..Len(ms)
  BY <1>1
<1>3. got = IF f \in FilesBetween(ms, lo, to) \cap models THEN FirstInfo(ms, order, f, um) ELSE content[f]
  <2>1. ~(to < from)
    BY <1>1
  <2> QED
    BY <2>1 DEF Jumped
<1>4. order \in [1..n -> Nat] /\ \A p \in 1..n : order[p] = to + 1 - p
  <2>1. to + 1 - (from + 1) = n
    BY <1>1
  <2>2. order = [k \in 1..n |-> to + 1 - k]
    BY <2>1 DEF Upwards
  <2>3. \A k \in 1..n : to + 1 - k \in Nat
    BY <1>1
  <2> HIDE DEF order, n
  <2> QED
    BY <2>2, <2>3
<1> HIDE DEF order, got
<1>5. got = IF touched THEN FirstInfo(ms, order, f, um) ELSE content[f]
  <2> HIDE DEF lo, n
  <2> QED
    BY <1>2, <1>3, BetweenFacts
<1>6. ASSUME touched, ~um, NEW k \in DOMAIN ms, Gives(ms, to, k, f) PROVE got = ms[k].snap[f]
  <2>1. PICK t \in lo..to : ms[t].snap[f] # None
    BY <1>6
  <2>2. t \in DOMAIN ms /\ t <= to
    BY <1>1, <2>1
  <2>3. k <= to /\ ~(k < t)
    BY <1>1, <1>6, <2>1, <2>2 DEF Gives
  <2>4. k \in lo..to
    BY <1>1, <2>1, <2>3
  <2> DEFINE q == to + 1 - k
  <2>5. q \in 1..n /\ to + 1 - q = k
    BY <1>1, <2>4
  <2>6. order[q] = k
    BY <1>4, <2>5
  <2>7. \A p \in 1..n : p < q => ms[order[p]].snap[f] = None
    <3> SUFFICES ASSUME NEW p \in 1..n, p < q PROVE ms[order[p]].snap[f] = None
      OBVIOUS
    <3> DEFINE j == to + 1 - p
    <3>1. order[p] = j /\ j \in DOMAIN ms /\ k < j /\ j <= to
      BY <1>1, <1>4, <2>4
    <3> HIDE DEF j, q
    <3> QED
      BY <1>1, <1>6, <2>3, <3>1 DEF Gives
  <2>8. ms[order[q]].snap[f] # None
    BY <1>6, <2>6 DEF Gives
  <2> HIDE DEF q, n
  <2>9. FirstInfo(ms, order, f, um) = Info(ms[order[q]], f, um)
    <3>1. \A p \in 1..n : Info(ms[order[p]], f, um) = ms[order[p]].snap[f]
      BY <1>6, PlainInfo
    <3>2. /\ n \in Nat /\ order \in [1..n -> Nat] /\ q \in 1..n
          /\ Info(ms[order[q]], f, um) # None
          /\ \A p \in 1..n : p < q => Info(ms[order[p]], f, um) = None
      BY <1>1, <1>4, <2>5, <2>7, <2>8, <3>1
    <3> QED
      BY <3>2, FirstInfoIs
  <2> QED
    BY <1>5, <1>6, <2>6, <2>9, PlainInfo
<1>7. ASSUME touched, Info(ms[to], f, um) # None PROVE got = Info(ms[to], f, um)
  <2>1. order[1] = to
    BY <1>1, <1>4
  <2>2. \A p \in 1..n : ~(p < 1)
    OBVIOUS
  <2> HIDE DEF n
  <2>3. FirstInfo(ms, order, f, um) = Info(ms[order[1]], f, um)
    <3>1. /\ n \in Nat /\ order \in [1..n -> Nat] /\ 1 \in 1..n
          /\ Info(ms[order[1]], f, um) # None
          /\ \A p \in 1..n : p < 1 => Info(ms[order[p]], f, um) = None
      BY <1>1, <1>4, <1>7, <2>1, <2>2
    <3> QED
      BY <3>1, FirstInfoIs
  <2> QED
    BY <1>5, <1>7, <2>1, <2>3
<1> QED
  BY <1>5, <1>6, <1>7 DEF got

-----------------------------------------------------------------------------
\* Messages are added.

LEMMA NothingFacts == Nothing \in Snapshots /\ \A f \in Files : Nothing[f] = None
BY DEF Nothing, Snapshots

LEMMA QuietMessages ==
    /\ UserMessage \in Messages /\ ~IsCheckpoint(UserMessage) /\ UserMessage.snap = Nothing /\ UserMessage.sure = {}
    /\ ToolMessage \in Messages /\ ~IsCheckpoint(ToolMessage) /\ ToolMessage.snap = Nothing /\ ToolMessage.sure = {}
    /\ UserMessage.role = "user"
BY NothingFacts DEF UserMessage, ToolMessage, Message, Messages, Roles, IsCheckpoint

LEMMA CheckpointFacts ==
    ASSUME NEW snap \in Snapshots, content \in [Files -> Versions]
    PROVE  /\ Checkpoint(snap) \in Messages /\ IsCheckpoint(Checkpoint(snap))
           /\ Checkpoint(snap).snap = snap /\ Checkpoint(snap).mods = Nothing /\ Checkpoint(snap).was = content
           /\ Checkpoint(snap).sure = Files \ (loose \ Snapped(snap))
<1>1. content \in Snapshots
  BY DEF Snapshots
<1> QED
  BY <1>1, NothingFacts DEF Checkpoint, Message, Messages, Roles, IsCheckpoint

LEMMA MessageTypes ==
    ASSUME NEW ms \in Seq(Messages), NEW i \in DOMAIN ms
    PROVE  /\ ms[i] \in Messages /\ ms[i].sure \subseteq Files
           /\ ms[i].snap \in Snapshots /\ ms[i].mods \in Snapshots /\ ms[i].was \in Snapshots
<1>1. ms[i] \in Messages
  OBVIOUS
<1> QED
  BY <1>1 DEF Messages

LEMMA Appended ==
    ASSUME NEW ms \in Seq(Messages), NEW m \in Messages
    PROVE  LET new == Append(ms, m) n == Len(ms) IN
           /\ new \in Seq(Messages) /\ Len(new) = n + 1 /\ n \in Nat /\ new # << >>
           /\ DOMAIN ms = 1..n /\ DOMAIN new = 1..(n + 1)
           /\ new[n + 1] = m /\ \A i \in 1..n : new[i] = ms[i]
BY AppendProperties

LEMMA AppendedGives ==
    ASSUME NEW ms \in Seq(Messages), NEW m \in Messages, NEW f \in Files
    PROVE  LET new == Append(ms, m) n == Len(ms) IN
           /\ \A i, k \in DOMAIN ms : Gives(new, i, k, f) <=> Gives(ms, i, k, f)
           /\ \A k \in DOMAIN ms : Gives(new, n + 1, k, f) <=> m.snap[f] = None /\ Gives(ms, n, k, f)
           /\ Gives(new, n + 1, n + 1, f) <=> m.snap[f] # None
           /\ \A i \in DOMAIN ms : Gives(new, i, n + 1, f) <=> m.snap[f] # None /\ ~Recorded(ms, f)
           /\ Recorded(new, f) <=> Recorded(ms, f) \/ m.snap[f] # None
<1> DEFINE new == Append(ms, m)
           n == Len(ms)
<1>1. /\ new \in Seq(Messages) /\ Len(new) = n + 1 /\ n \in Nat /\ DOMAIN ms = 1..n /\ DOMAIN new = 1..(n + 1)
      /\ new[n + 1] = m /\ \A i \in 1..n : new[i] = ms[i]
  BY Appended
<1> HIDE DEF new, n
<1>2. \A i, k \in DOMAIN ms : Gives(new, i, k, f) <=> Gives(ms, i, k, f)
  BY <1>1 DEF Gives
<1>3. \A k \in DOMAIN ms : Gives(new, n + 1, k, f) <=> m.snap[f] = None /\ Gives(ms, n, k, f)
  BY <1>1 DEF Gives
<1>4. Gives(new, n + 1, n + 1, f) <=> m.snap[f] # None
  BY <1>1 DEF Gives
<1>5. \A i \in DOMAIN ms : Gives(new, i, n + 1, f) <=> m.snap[f] # None /\ ~Recorded(ms, f)
  BY <1>1 DEF Gives, Recorded
<1>6. Recorded(new, f) <=> Recorded(ms, f) \/ m.snap[f] # None
  BY <1>1 DEF Recorded
<1> QED
  BY <1>2, <1>3, <1>4, <1>5, <1>6 DEF new, n

\* A message of the user or a request.
LEMMA QuietAdded ==
    ASSUME NEW ms, NEW mo, NEW co, NEW lo \in SUBSET Files, History(ms, mo), ms # << >>, Consistent(ms, co, lo),
           NEW m \in Messages, ~IsCheckpoint(m), m.snap = Nothing, m.sure = {}
    PROVE  LET new == Append(ms, m) IN
           /\ History(new, mo) /\ Consistent(new, co, lo)
           /\ EndHolds(ms, co, lo) => EndHolds(new, co, lo)
           /\ Closes(new, lo) /\ HoldsAll(new) /\ ~IsCheckpoint(new[Len(new)])
           /\ \A f \in Files : Recorded(new, f) <=> Recorded(ms, f)
<1> DEFINE new == Append(ms, m)
           n == Len(ms)
<1>1. ms \in Seq(Messages)
  BY DEF History
<1>2. /\ new \in Seq(Messages) /\ Len(new) = n + 1 /\ n \in Nat /\ DOMAIN ms = 1..n /\ DOMAIN new = 1..(n + 1)
      /\ new[n + 1] = m /\ \A i \in 1..n : new[i] = ms[i]
  BY <1>1, Appended
<1>3. \A f \in Files : m.snap[f] = None
  BY NothingFacts
<1>4. \A f \in Files :
      /\ \A i, k \in DOMAIN ms : Gives(new, i, k, f) <=> Gives(ms, i, k, f)
      /\ \A k \in DOMAIN ms : Gives(new, n + 1, k, f) <=> Gives(ms, n, k, f)
      /\ \A i \in DOMAIN new : ~Gives(new, i, n + 1, f)
      /\ Recorded(new, f) <=> Recorded(ms, f)
  <2> SUFFICES ASSUME NEW f \in Files
               PROVE  /\ \A i, k \in DOMAIN ms : Gives(new, i, k, f) <=> Gives(ms, i, k, f)
                      /\ \A k \in DOMAIN ms : Gives(new, n + 1, k, f) <=> Gives(ms, n, k, f)
                      /\ \A i \in DOMAIN new : ~Gives(new, i, n + 1, f)
                      /\ Recorded(new, f) <=> Recorded(ms, f)
    OBVIOUS
  <2>1. new[n + 1].snap[f] = None
    BY <1>2, <1>3
  <2>2. \A i \in DOMAIN new : ~Gives(new, i, n + 1, f)
    BY <2>1 DEF Gives
  <2> QED
    BY <1>1, <1>3, <2>2, AppendedGives
<1>5. n \in DOMAIN ms /\ 1 \in DOMAIN ms
  BY <1>1, <1>2
<1> HIDE DEF new, n
<1>6. \A i \in DOMAIN new : i \in DOMAIN ms \/ i = n + 1
  BY <1>2
<1>7. \A f : f \notin new[n + 1].sure
  BY <1>2
<1>8. \A i \in DOMAIN ms : ms[i].sure \subseteq Files
  BY <1>1, MessageTypes
<1>9. History(new, mo)
  BY <1>2, <1>5, <1>6 DEF History, MessageOK
<1>10. SureIsGiven(new)
  <2> SUFFICES ASSUME NEW i \in DOMAIN new, NEW k \in DOMAIN new, NEW f \in new[i].sure, Gives(new, i, k, f)
               PROVE  new[i].was[f] = new[k].snap[f]
    BY DEF SureIsGiven
  <2>1. i \in DOMAIN ms /\ new[i] = ms[i] /\ f \in Files
    BY <1>2, <1>6, <1>7, <1>8
  <2>2. k \in DOMAIN ms /\ new[k] = ms[k]
    BY <1>2, <1>4, <1>6, <2>1
  <2> QED
    BY <1>4, <2>1, <2>2 DEF Consistent, SureIsGiven
<1>11. SureIsThere(new, co)
  BY <1>2, <1>4, <1>6, <1>7, <1>8 DEF Consistent, SureIsThere
<1>12. LooseIsUnsure(new, lo)
  BY <1>2, <1>4, <1>6, <1>7 DEF Consistent, LooseIsUnsure
<1>13. UnsureBefore(new)
  <2> SUFFICES ASSUME NEW k \in DOMAIN new, NEW f \in Files \ new[k].sure, IsCheckpoint(new[k]),
                      \A j \in DOMAIN new : j <= k => new[j].snap[f] = None,
                      NEW i \in DOMAIN new, i < k
               PROVE  f \notin new[i].sure
    BY DEF UnsureBefore
  <2>1. k \in DOMAIN ms /\ new[k] = ms[k]
    BY <1>2, <1>6
  <2>2. i \in DOMAIN ms /\ new[i] = ms[i]
    BY <1>2, <2>1
  <2>3. \A j \in DOMAIN ms : j <= k => ms[j].snap[f] = None
    BY <1>2
  <2> QED
    BY <2>1, <2>2, <2>3 DEF Consistent, UnsureBefore
<1>14. EndHolds(ms, co, lo) => EndHolds(new, co, lo)
  <2> SUFFICES ASSUME EndHolds(ms, co, lo), NEW f \in Files \ lo, NEW k \in DOMAIN new, Gives(new, n + 1, k, f)
               PROVE  co[f] = new[k].snap[f]
    BY <1>2 DEF EndHolds
  <2>1. k \in DOMAIN ms /\ new[k] = ms[k] /\ Gives(ms, n, k, f)
    <3>1. n + 1 \in DOMAIN new
      BY <1>2
    <3>2. k # n + 1
      BY <1>4, <3>1
    <3>3. k \in DOMAIN ms
      BY <1>6, <3>2
    <3> QED
      BY <1>2, <1>4, <3>3
  <2> QED
    BY <2>1 DEF EndHolds, n
<1>15. Closes(new, lo) /\ HoldsAll(new) /\ ~IsCheckpoint(new[Len(new)])
  BY <1>2 DEF Closes, HoldsAll
<1> QED
  BY <1>4, <1>9, <1>10, <1>11, <1>12, <1>13, <1>14, <1>15 DEF Consistent, new

\* A checkpoint is added: it is sure of the files that it snaps, and of those that did not
\* change since their last snapshot.
IsNote(m, mo, co, lo) ==
    /\ m \in Messages /\ IsCheckpoint(m) /\ MessageOK(m, mo)
    /\ m.was = co /\ m.mods = Nothing /\ m.sure = Files \ (lo \ Snapped(m.snap))

LEMMA NoteAdded ==
    ASSUME NEW ms, NEW mo, NEW co, NEW lo \in SUBSET Files, History(ms, mo), Consistent(ms, co, lo), EndHolds(ms, co, lo),
           NEW m, IsNote(m, mo, co, lo)
    PROVE  LET new == Append(ms, m)
               left == lo \ Snapped(m.snap)
           IN
           /\ History(new, mo) /\ Consistent(new, co, left) /\ EndHolds(new, co, left) /\ Closes(new, left)
           /\ \A f \in Files : Recorded(new, f) <=> Recorded(ms, f) \/ m.snap[f] # None
<1> DEFINE new == Append(ms, m)
           n == Len(ms)
           left == lo \ Snapped(m.snap)
<1>0. m \in Messages /\ IsCheckpoint(m) /\ MessageOK(m, mo) /\ m.was = co /\ m.mods = Nothing /\ m.sure = Files \ (lo \ Snapped(m.snap))
  BY DEF IsNote
<1>1. ms \in Seq(Messages)
  BY DEF History
<1>2. /\ new \in Seq(Messages) /\ Len(new) = n + 1 /\ n \in Nat /\ DOMAIN ms = 1..n /\ DOMAIN new = 1..(n + 1)
      /\ new[n + 1] = m /\ \A i \in 1..n : new[i] = ms[i]
  BY <1>0, <1>1, Appended
<1>3. \A f \in Files :
      /\ \A i, k \in DOMAIN ms : Gives(new, i, k, f) <=> Gives(ms, i, k, f)
      /\ \A k \in DOMAIN ms : Gives(new, n + 1, k, f) <=> m.snap[f] = None /\ Gives(ms, n, k, f)
      /\ Gives(new, n + 1, n + 1, f) <=> m.snap[f] # None
      /\ \A i \in DOMAIN ms : Gives(new, i, n + 1, f) <=> m.snap[f] # None /\ ~Recorded(ms, f)
      /\ Recorded(new, f) <=> Recorded(ms, f) \/ m.snap[f] # None
  BY <1>0, <1>1, AppendedGives
<1>4. \A f \in Files : m.snap[f] # None => m.snap[f] = co[f]
  BY <1>0 DEF MessageOK, Snapped
<1>5. \A f \in Files : f \in left <=> f \in lo /\ m.snap[f] = None
  BY DEF Snapped
<1>6. \A f \in Files : f \in m.sure <=> f \notin left
  BY <1>0
<1>7. \A i \in DOMAIN ms : ms[i].sure \subseteq Files
  BY <1>1, MessageTypes
<1> HIDE DEF new, n
<1>8. \A i \in DOMAIN new : i \in DOMAIN ms \/ i = n + 1
  BY <1>2
<1>9. History(new, mo)
  BY <1>0, <1>2, <1>8 DEF History
<1>10. \A f \in Files \ left : m.snap[f] = None => \A k \in DOMAIN ms : Gives(ms, n, k, f) => co[f] = ms[k].snap[f]
  BY <1>5 DEF EndHolds, n
<1> HIDE DEF left
<1>11. m.sure \subseteq Files
  BY <1>0 DEF Messages
<1>12. SureIsGiven(new)
  <2> SUFFICES ASSUME NEW i \in DOMAIN new, NEW k \in DOMAIN new, NEW f \in new[i].sure, Gives(new, i, k, f)
               PROVE  new[i].was[f] = new[k].snap[f]
    BY DEF SureIsGiven
  <2>1. f \in Files
    BY <1>0, <1>2, <1>7, <1>8, <1>11
  <2>2. CASE i \in DOMAIN ms /\ k \in DOMAIN ms
    BY <1>0, <1>2, <1>3, <2>1, <2>2 DEF Consistent, SureIsGiven
  <2>3. CASE i \in DOMAIN ms /\ k = n + 1
    <3>1. m.snap[f] # None /\ ~Recorded(ms, f)
      BY <1>3, <2>1, <2>3
    <3>2. co[f] = ms[i].was[f]
      BY <1>0, <1>2, <2>3, <3>1 DEF Consistent, SureIsThere
    <3> QED
      BY <1>0, <1>2, <1>4, <2>1, <2>3, <3>1, <3>2
  <2>4. CASE i = n + 1 /\ k \in DOMAIN ms
    <3>1. m.snap[f] = None /\ Gives(ms, n, k, f)
      BY <1>3, <2>1, <2>4
    <3>2. f \notin left /\ new[i].was[f] = co[f] /\ new[k] = ms[k]
      BY <1>0, <1>2, <1>6, <2>1, <2>4
    <3> QED
      BY <1>10, <2>1, <2>4, <3>1, <3>2
  <2>5. CASE i = n + 1 /\ k = n + 1
    BY <1>0, <1>2, <1>3, <1>4, <2>1, <2>5
  <2> QED
    BY <1>8, <2>2, <2>3, <2>4, <2>5
<1>13. SureIsThere(new, co)
  <2> SUFFICES ASSUME NEW i \in DOMAIN new, NEW f \in new[i].sure, ~Recorded(new, f) PROVE co[f] = new[i].was[f]
    BY DEF SureIsThere
  <2>1. f \in Files
    BY <1>0, <1>2, <1>7, <1>8, <1>11
  <2> QED
    BY <1>0, <1>2, <1>3, <1>8, <2>1 DEF Consistent, SureIsThere
<1>14. LooseIsUnsure(new, left)
  <2> SUFFICES ASSUME NEW f \in left, ~Recorded(new, f), NEW i \in DOMAIN new PROVE f \notin new[i].sure
    BY DEF LooseIsUnsure
  <2>1. f \in lo /\ f \in Files
    BY DEF left
  <2> QED
    BY <1>0, <1>2, <1>3, <1>6, <1>8, <2>1 DEF Consistent, LooseIsUnsure
<1>15. UnsureBefore(new)
  <2> SUFFICES ASSUME NEW k \in DOMAIN new, NEW f \in Files \ new[k].sure, IsCheckpoint(new[k]),
                      \A j \in DOMAIN new : j <= k => new[j].snap[f] = None,
                      NEW i \in DOMAIN new, i < k
               PROVE  f \notin new[i].sure
    BY DEF UnsureBefore
  <2>1. CASE k \in DOMAIN ms
    <3>1. i \in DOMAIN ms /\ new[i] = ms[i] /\ new[k] = ms[k]
      BY <1>0, <1>2, <2>1
    <3>2. \A j \in DOMAIN ms : j <= k => ms[j].snap[f] = None
      BY <1>2
    <3> QED
      BY <2>1, <3>1, <3>2 DEF Consistent, UnsureBefore
  <2>2. CASE k = n + 1
    <3>1. f \in left
      BY <1>0, <1>2, <1>6, <2>2
    <3>2. ~Recorded(new, f)
      BY <1>0, <1>2, <2>2 DEF Recorded
    <3> QED
      BY <1>14, <3>1, <3>2 DEF LooseIsUnsure
  <2> QED
    BY <1>8, <2>1, <2>2
<1>16. EndHolds(new, co, left)
  <2> SUFFICES ASSUME NEW f \in Files \ left, NEW k \in DOMAIN new, Gives(new, n + 1, k, f)
               PROVE  co[f] = new[k].snap[f]
    BY <1>2 DEF EndHolds
  <2>1. CASE k = n + 1
    BY <1>0, <1>2, <1>3, <1>4, <2>1
  <2>2. CASE k \in DOMAIN ms
    BY <1>0, <1>2, <1>3, <1>10, <2>2
  <2> QED
    BY <1>8, <2>1, <2>2
<1>17. Closes(new, left)
  BY <1>0, <1>2, <1>6 DEF Closes, left
<1> QED
  BY <1>3, <1>9, <1>12, <1>13, <1>14, <1>15, <1>16, <1>17 DEF Consistent, new, left

-----------------------------------------------------------------------------
\* Messages become unsure of files.

Unsured(ms, new, at, changed) ==
    /\ new \in Seq(Messages) /\ Len(new) = Len(ms) /\ DOMAIN new = DOMAIN ms
    /\ \A i \in DOMAIN ms :
        /\ IsCheckpoint(new[i]) <=> IsCheckpoint(ms[i])
        /\ new[i].snap = ms[i].snap /\ new[i].mods = ms[i].mods /\ new[i].was = ms[i].was
        /\ new[i].sure = IF i \in at THEN ms[i].sure \ changed ELSE ms[i].sure

LEMMA UnsureMessage ==
    ASSUME NEW m \in Messages, NEW changed, NEW new, new = [m EXCEPT !.sure = @ \ changed]
    PROVE  /\ new \in Messages /\ new.role = m.role /\ new.snap = m.snap /\ new.mods = m.mods /\ new.was = m.was
           /\ new.sure = m.sure \ changed
BY DEF Messages

LEMMA UnsureFacts ==
    ASSUME NEW ms \in Seq(Messages), NEW at, NEW changed, NEW new, new = Unsure(ms, at, changed)
    PROVE  Unsured(ms, new, at, changed)
<1>1. new = [i \in DOMAIN ms |-> IF i \in at THEN [ms[i] EXCEPT !.sure = @ \ changed] ELSE ms[i]]
  BY DEF Unsure
<1>2. DOMAIN ms = 1..Len(ms) /\ Len(ms) \in Nat /\ \A i \in DOMAIN ms : ms[i] \in Messages
  OBVIOUS
<1>3. \A i \in DOMAIN ms : new[i] = IF i \in at THEN [ms[i] EXCEPT !.sure = @ \ changed] ELSE ms[i]
  BY <1>1
<1>4. ASSUME NEW i \in DOMAIN ms
      PROVE  /\ new[i] \in Messages
             /\ IsCheckpoint(new[i]) <=> IsCheckpoint(ms[i])
             /\ new[i].snap = ms[i].snap /\ new[i].mods = ms[i].mods /\ new[i].was = ms[i].was
             /\ new[i].sure = IF i \in at THEN ms[i].sure \ changed ELSE ms[i].sure
  <2>1. CASE i \in at
    <3>1. new[i] = [ms[i] EXCEPT !.sure = @ \ changed] /\ ms[i] \in Messages
      BY <1>2, <1>3, <2>1
    <3> QED
      BY <2>1, <3>1, UnsureMessage DEF IsCheckpoint
  <2>2. CASE i \notin at
    BY <1>2, <1>3, <2>2
  <2> QED
    BY <2>1, <2>2
<1>5. new \in [1..Len(ms) -> Messages]
  BY <1>1, <1>2, <1>4, Zenon
<1>6. new \in Seq(Messages) /\ Len(new) = Len(ms) /\ DOMAIN new = DOMAIN ms
  BY <1>2, <1>5
<1> QED
  BY <1>4, <1>6 DEF Unsured

LEMMA UnsuredGives ==
    ASSUME NEW ms, NEW new, NEW at, NEW changed, Unsured(ms, new, at, changed)
    PROVE  /\ \A f, i, k : k \in DOMAIN ms => (Gives(new, i, k, f) <=> Gives(ms, i, k, f))
           /\ \A f : Recorded(new, f) <=> Recorded(ms, f)
<1>1. DOMAIN new = DOMAIN ms /\ \A i \in DOMAIN ms : new[i].snap = ms[i].snap
  BY DEF Unsured
<1>2. \A f, i, k : k \in DOMAIN ms => (Gives(new, i, k, f) <=> Gives(ms, i, k, f))
  BY <1>1 DEF Gives
<1>3. \A f : Recorded(new, f) <=> Recorded(ms, f)
  BY <1>1 DEF Recorded
<1> QED
  BY <1>2, <1>3

LEMMA UnsuredHistory ==
    ASSUME NEW ms, NEW mo, History(ms, mo), NEW at, NEW changed, NEW new, Unsured(ms, new, at, changed)
    PROVE  /\ History(new, mo)
           /\ HoldsAll(ms) => HoldsAll(new)
           /\ ms = << >> <=> new = << >>
<1>1. ms \in Seq(Messages) /\ new \in Seq(Messages) /\ Len(new) = Len(ms) /\ DOMAIN new = DOMAIN ms
  BY DEF History, Unsured
<1>2. \A i \in DOMAIN ms :
           /\ IsCheckpoint(new[i]) <=> IsCheckpoint(ms[i])
           /\ new[i].snap = ms[i].snap /\ new[i].was = ms[i].was
           /\ new[i].sure \subseteq ms[i].sure
  BY DEF Unsured
<1>3. \A f : Recorded(new, f) <=> Recorded(ms, f)
  BY UnsuredGives
<1>4. ms # << >> => 1 \in DOMAIN ms /\ Len(ms) \in DOMAIN ms /\ new # << >>
  BY <1>1
<1>5. ms = << >> => new = << >>
  BY <1>1
<1>6. History(new, mo)
  <2>1. \A i \in DOMAIN ms : MessageOK(new[i], mo)
    BY <1>2 DEF History, MessageOK
  <2> QED
    BY <1>1, <1>2, <1>4, <1>5, <2>1 DEF History
<1>7. HoldsAll(ms) => HoldsAll(new)
  BY <1>1, <1>2, <1>3, <1>4, <1>5 DEF HoldsAll
<1> QED
  BY <1>4, <1>5, <1>6, <1>7

\* File f changes: no message is sure of it any more, or it has a snapshot and at most the
\* last one is not.
LEMMA FileChanged ==
    ASSUME NEW ms, NEW mo, NEW co, NEW lo, History(ms, mo), Consistent(ms, co, lo),
           NEW f \in Files, NEW at, at = DOMAIN ms \/ (Recorded(ms, f) /\ at \subseteq {Len(ms)}),
           NEW new, Unsured(ms, new, at, {f}),
           NEW co2, \A g \in Files \ {f} : co2[g] = co[g]
    PROVE  /\ Consistent(new, co2, lo \cup {f})
           /\ EndHolds(ms, co, lo) => EndHolds(new, co2, lo \cup {f})
           /\ Closes(ms, lo) /\ (ms # << >> /\ IsCheckpoint(ms[Len(ms)]) => Len(ms) \in at) => Closes(new, lo \cup {f})
<1>1. ms \in Seq(Messages) /\ DOMAIN ms = 1..Len(ms) /\ Len(ms) \in Nat
  BY DEF History
<1>2. Len(new) = Len(ms) /\ DOMAIN new = DOMAIN ms
  BY DEF Unsured
<1>3. \A i \in DOMAIN ms :
           /\ IsCheckpoint(new[i]) <=> IsCheckpoint(ms[i])
           /\ new[i].snap = ms[i].snap /\ new[i].was = ms[i].was /\ new[i].mods = ms[i].mods
           /\ new[i].sure = IF i \in at THEN ms[i].sure \ {f} ELSE ms[i].sure
  BY DEF Unsured
<1>4. /\ \A g : Recorded(new, g) <=> Recorded(ms, g)
      /\ \A g, i, k : k \in DOMAIN ms => (Gives(new, i, k, g) <=> Gives(ms, i, k, g))
  BY UnsuredGives
<1>5. \A i \in DOMAIN ms : new[i].sure \subseteq ms[i].sure /\ ms[i].sure \subseteq Files
  BY <1>1, <1>3, MessageTypes
<1>6. ~Recorded(ms, f) => \A i \in DOMAIN ms : f \notin new[i].sure
  BY <1>3
<1>7. SureIsGiven(new)
  <2> SUFFICES ASSUME NEW i \in DOMAIN new, NEW k \in DOMAIN new, NEW g \in new[i].sure, Gives(new, i, k, g)
               PROVE  new[i].was[g] = new[k].snap[g]
    BY DEF SureIsGiven
  <2>1. i \in DOMAIN ms /\ k \in DOMAIN ms /\ g \in ms[i].sure /\ Gives(ms, i, k, g)
    BY <1>2, <1>4, <1>5
  <2>2. ms[i].was[g] = ms[k].snap[g]
    BY <2>1 DEF Consistent, SureIsGiven
  <2> QED
    BY <1>3, <2>1, <2>2
<1>8. SureIsThere(new, co2)
  <2> SUFFICES ASSUME NEW i \in DOMAIN new, NEW g \in new[i].sure, ~Recorded(new, g) PROVE co2[g] = new[i].was[g]
    BY DEF SureIsThere
  <2>1. i \in DOMAIN ms /\ ~Recorded(ms, g)
    BY <1>2, <1>4
  <2>2. g # f /\ g \in ms[i].sure /\ g \in Files
    BY <1>5, <1>6, <2>1
  <2>3. co[g] = ms[i].was[g]
    BY <2>1, <2>2 DEF Consistent, SureIsThere
  <2> QED
    BY <1>3, <2>1, <2>2, <2>3
<1>9. LooseIsUnsure(new, lo \cup {f})
  <2> SUFFICES ASSUME NEW g \in lo \cup {f}, ~Recorded(new, g), NEW i \in DOMAIN new PROVE g \notin new[i].sure
    BY DEF LooseIsUnsure
  <2>1. i \in DOMAIN ms /\ ~Recorded(ms, g)
    BY <1>2, <1>4
  <2>2. CASE g = f
    BY <1>6, <2>1, <2>2
  <2>3. CASE g \in lo
    BY <1>5, <2>1, <2>3 DEF Consistent, LooseIsUnsure
  <2> QED
    BY <2>2, <2>3
<1>10. UnsureBefore(new)
  <2> SUFFICES ASSUME NEW k \in DOMAIN new, NEW g \in Files \ new[k].sure, IsCheckpoint(new[k]),
                      \A j \in DOMAIN new : j <= k => new[j].snap[g] = None,
                      NEW i \in DOMAIN new, i < k
               PROVE  g \notin new[i].sure
    BY DEF UnsureBefore
  <2>1. k \in DOMAIN ms /\ i \in DOMAIN ms /\ IsCheckpoint(ms[k])
    BY <1>2, <1>3
  <2>2. \A j \in DOMAIN ms : j <= k => ms[j].snap[g] = None
    BY <1>2, <1>3
  <2>3. CASE g \notin ms[k].sure
    <3>1. g \notin ms[i].sure
      BY <2>1, <2>2, <2>3 DEF Consistent, UnsureBefore
    <3> QED
      BY <1>5, <2>1, <3>1
  <2>4. CASE g \in ms[k].sure
    <3>1. k \in at /\ g = f
      BY <1>3, <2>1, <2>4
    <3>2. CASE at = DOMAIN ms
      BY <1>3, <2>1, <3>1, <3>2
    <3>3. CASE Recorded(ms, f) /\ at \subseteq {Len(ms)}
      <4>1. k = Len(ms)
        BY <3>1, <3>3
      <4>2. \A j \in DOMAIN ms : j <= k
        BY <1>1, <4>1
      <4>3. ~Recorded(ms, f)
        BY <2>2, <3>1, <4>2 DEF Recorded
      <4> QED
        BY <3>3, <4>3
    <3> QED
      BY <3>2, <3>3
  <2> QED
    BY <2>3, <2>4
<1>11. EndHolds(ms, co, lo) => EndHolds(new, co2, lo \cup {f})
  <2> SUFFICES ASSUME EndHolds(ms, co, lo), NEW g \in Files \ (lo \cup {f}), NEW k \in DOMAIN new, Gives(new, Len(new), k, g)
               PROVE  co2[g] = new[k].snap[g]
    BY DEF EndHolds
  <2>1. k \in DOMAIN ms /\ Gives(ms, Len(ms), k, g)
    BY <1>2, <1>4
  <2>2. co[g] = ms[k].snap[g]
    BY <2>1 DEF EndHolds
  <2> QED
    BY <1>3, <2>1, <2>2
<1>12. ASSUME Closes(ms, lo), ms # << >> /\ IsCheckpoint(ms[Len(ms)]) => Len(ms) \in at
       PROVE  Closes(new, lo \cup {f})
  <2> SUFFICES ASSUME new # << >>, IsCheckpoint(new[Len(new)]) PROVE (lo \cup {f}) \cap new[Len(new)].sure = {} /\ new[Len(new)].mods = Nothing
    BY DEF Closes
  <2>1. Len(ms) \in DOMAIN ms /\ ms # << >>
    <3>1. new \in Seq(Messages)
      BY DEF Unsured
    <3> QED
      BY <1>1, <1>2, <3>1
  <2>2. IsCheckpoint(ms[Len(ms)]) /\ Len(ms) \in at
    BY <1>2, <1>3, <1>12, <2>1
  <2>3. new[Len(new)].sure = ms[Len(ms)].sure \ {f} /\ new[Len(new)].mods = ms[Len(ms)].mods
    BY <1>2, <1>3, <2>1, <2>2
  <2>4. lo \cap ms[Len(ms)].sure = {} /\ ms[Len(ms)].mods = Nothing
    BY <1>12, <2>1, <2>2 DEF Closes
  <2> QED
    BY <2>3, <2>4
<1> QED
  BY <1>7, <1>8, <1>9, <1>10, <1>11, <1>12 DEF Consistent

-----------------------------------------------------------------------------
\* The thread is cut.

LEMMA KeptFacts ==
    ASSUME NEW ms \in Seq(Messages), NEW n \in 1..Len(ms), NEW kept, kept = SubSeq(ms, 1, n)
    PROVE  /\ kept \in Seq(Messages) /\ Len(kept) = n /\ DOMAIN kept = 1..n
           /\ \A i \in 1..n : kept[i] = ms[i]
<1>1. n \in Nat /\ 1 <= n /\ n <= Len(ms) /\ Len(ms) \in Nat /\ DOMAIN ms = 1..Len(ms)
  OBVIOUS
<1>2. kept \in Seq(Messages) /\ Len(kept) = n /\ \A i \in 1..n : kept[i] = ms[1 + i - 1]
  BY <1>1, SubSeqProperties
<1>3. \A i \in 1..n : 1 + i - 1 = i
  BY <1>1
<1> QED
  BY <1>2, <1>3

\* The last checkpoint that is kept
LEMMA LastKept ==
    ASSUME NEW ms, NEW mo, History(ms, mo), ms # << >>
    PROVE  LET k == Max({i \in 1..Len(ms) : IsCheckpoint(ms[i])}) IN
           /\ k \in DOMAIN ms /\ IsCheckpoint(ms[k])
           /\ \A i \in DOMAIN ms : k < i => ~IsCheckpoint(ms[i])
<1> DEFINE T == {i \in 1..Len(ms) : IsCheckpoint(ms[i])}
<1>1. Len(ms) \in Nat /\ DOMAIN ms = 1..Len(ms) /\ 1 \in 1..Len(ms)
  BY DEF History
<1>2. T \in SUBSET (1..Len(ms)) /\ 1 \in T
  BY <1>1 DEF History
<1>3. Max(T) \in T /\ \A y \in T : y <= Max(T)
  <2> HIDE DEF T
  <2> QED
    BY <1>1, <1>2, MaxIsGreatest
<1>4. ASSUME NEW i \in DOMAIN ms, Max(T) < i PROVE ~IsCheckpoint(ms[i])
  <2> SUFFICES ASSUME i \in T PROVE FALSE
    BY <1>1
  <2>1. i <= Max(T) /\ Max(T) \in Nat /\ i \in Nat
    BY <1>1, <1>3
  <2> QED
    BY <1>4, <2>1
<1> QED
  BY <1>1, <1>3, <1>4

LEMMA CutGives ==
    ASSUME NEW ms \in Seq(Messages), NEW n \in 1..Len(ms), NEW kept, kept \in Seq(Messages),
           Len(kept) = n, \A i \in 1..n : kept[i] = ms[i]
    PROVE  \A f : \A i, k \in 1..n : Gives(kept, i, k, f) <=> Gives(ms, i, k, f)
<1>1. DOMAIN kept = 1..n /\ DOMAIN ms = 1..Len(ms) /\ Len(ms) \in Nat /\ n \in Nat /\ n <= Len(ms)
  OBVIOUS
<1> QED
  BY <1>1 DEF Gives

\* After its first n messages, where k is the last checkpoint.
CutAfter(ms, n, k, kept) ==
    /\ n \in 1..Len(ms) /\ kept = SubSeq(ms, 1, n)
    /\ k \in 1..n /\ IsCheckpoint(ms[k]) /\ \A i \in 1..n : k < i => ~IsCheckpoint(ms[i])

\* From the last checkpoint on, the files that the cut thread is sure of hold what they held
\* at it.
LEMMA ThreadCut ==
    ASSUME NEW ms, NEW mo, NEW co, NEW lo, History(ms, mo), Consistent(ms, co, lo),
           NEW n, NEW k, NEW kept, CutAfter(ms, n, k, kept),
           NEW moved, moved = {f \in Files : co[f] # ms[k].was[f]},
           NEW new, Unsured(kept, new, 1..n, moved),
           NEW left, left = moved \cup (Files \ ms[k].sure)
    PROVE  History(new, mo) /\ new # << >> /\ Consistent(new, co, left) /\ EndHolds(new, co, left)
<1>0. /\ n \in 1..Len(ms) /\ kept = SubSeq(ms, 1, n)
      /\ k \in 1..n /\ IsCheckpoint(ms[k]) /\ \A i \in 1..n : k < i => ~IsCheckpoint(ms[i])
  BY DEF CutAfter
<1>1. /\ ms \in Seq(Messages) /\ DOMAIN ms = 1..Len(ms) /\ Len(ms) \in Nat /\ n \in Nat /\ n <= Len(ms) /\ k \in Nat /\ k <= n
      /\ k \in 1..n /\ n \in 1..Len(ms) /\ n \in 1..n
  BY <1>0 DEF History
<1>2. kept \in Seq(Messages) /\ Len(kept) = n /\ DOMAIN kept = 1..n /\ \A i \in 1..n : kept[i] = ms[i]
  BY <1>0, <1>1, KeptFacts
<1>3. \A i \in 1..n : i \in DOMAIN ms
  BY <1>1
<1>4. kept # << >> /\ History(kept, mo)
  BY <1>1, <1>2, <1>3 DEF History
<1>5. History(new, mo) /\ new # << >>
  BY <1>4, UnsuredHistory
<1>6. Len(new) = n /\ DOMAIN new = 1..n
  BY <1>2 DEF Unsured
<1>7. \A i \in 1..n :
           /\ IsCheckpoint(new[i]) <=> IsCheckpoint(ms[i])
           /\ new[i].snap = ms[i].snap /\ new[i].was = ms[i].was
           /\ new[i].sure = ms[i].sure \ moved
  <2>1. \A i \in 1..n :
           /\ IsCheckpoint(new[i]) <=> IsCheckpoint(kept[i])
           /\ new[i].snap = kept[i].snap /\ new[i].was = kept[i].was
           /\ new[i].sure = kept[i].sure \ moved
    BY <1>2 DEF Unsured
  <2> QED
    BY <1>2, <2>1, Zenon
<1>8. \A f : \A i, j \in 1..n : Gives(new, i, j, f) <=> Gives(ms, i, j, f)
  <2>1. \A f : \A i, j \in 1..n : Gives(new, i, j, f) <=> Gives(kept, i, j, f)
    BY <1>2, UnsuredGives
  <2>2. \A f : \A i, j \in 1..n : Gives(kept, i, j, f) <=> Gives(ms, i, j, f)
    BY <1>0, <1>1, <1>2, CutGives
  <2> QED
    BY <2>1, <2>2
<1>9. \A i \in 1..n : ms[i].sure \subseteq Files
  BY <1>1, <1>3, MessageTypes
<1>10. \A i \in 1..n : k < i => ms[i].sure = {} /\ ms[i].snap = Nothing
  BY <1>0, <1>3 DEF History, MessageOK
<1>11. ASSUME NEW f \in Files, f \notin ms[k].sure, \A j \in 1..n : ms[j].snap[f] = None, NEW i \in 1..n
       PROVE  f \notin ms[i].sure
  <2>1. CASE i < k
    <3>1. k \in DOMAIN ms /\ i \in DOMAIN ms /\ \A j \in DOMAIN ms : j <= k => ms[j].snap[f] = None
      BY <1>1, <1>11
    <3> QED
      BY <1>0, <1>11, <2>1, <3>1 DEF Consistent, UnsureBefore
  <2>2. CASE i = k
    BY <1>11, <2>2
  <2>3. CASE k < i
    BY <1>10, <2>3
  <2> QED
    BY <1>1, <2>1, <2>2, <2>3
<1>12. \A f : Recorded(new, f) <=> \E j \in 1..n : ms[j].snap[f] # None
  BY <1>6, <1>7 DEF Recorded
<1>13. SureIsGiven(new)
  <2> SUFFICES ASSUME NEW i \in DOMAIN new, NEW j \in DOMAIN new, NEW f \in new[i].sure, Gives(new, i, j, f)
               PROVE  new[i].was[f] = new[j].snap[f]
    BY DEF SureIsGiven
  <2>1. i \in 1..n /\ j \in 1..n /\ f \in ms[i].sure
    BY <1>6, <1>7
  <2>2. i \in DOMAIN ms /\ j \in DOMAIN ms /\ Gives(ms, i, j, f)
    BY <1>3, <1>8, <2>1
  <2>3. ms[i].was[f] = ms[j].snap[f]
    BY <2>1, <2>2 DEF Consistent, SureIsGiven
  <2> QED
    BY <1>7, <2>1, <2>3
<1>14. SureIsThere(new, co)
  <2> SUFFICES ASSUME NEW i \in DOMAIN new, NEW f \in new[i].sure, ~Recorded(new, f) PROVE co[f] = new[i].was[f]
    BY DEF SureIsThere
  <2>1. i \in 1..n /\ f \in ms[i].sure /\ f \in Files /\ f \notin moved /\ new[i].was = ms[i].was
    BY <1>6, <1>7, <1>9
  <2>2. \A j \in 1..n : ms[j].snap[f] = None
    BY <1>12
  <2>3. f \in ms[k].sure
    BY <1>11, <2>1, <2>2
  <2>4. co[f] = ms[k].was[f]
    BY <2>1
  <2>5. CASE ~Recorded(ms, f)
    BY <1>3, <2>1, <2>5 DEF Consistent, SureIsThere
  <2>6. CASE Recorded(ms, f)
    <3>1. PICK j \in DOMAIN ms : Gives(ms, k, j, f)
      BY <1>1, <2>1, <2>6, GivenByOne
    <3>2. j > n
      BY <1>1, <2>2, <3>1 DEF Gives
    <3>3. Gives(ms, i, j, f)
      BY <1>1, <2>1, <3>1, <3>2 DEF Gives
    <3>4. ms[k].was[f] = ms[j].snap[f]
      BY <1>1, <1>3, <2>3, <3>1 DEF Consistent, SureIsGiven
    <3>5. ms[i].was[f] = ms[j].snap[f]
      BY <1>3, <2>1, <3>3 DEF Consistent, SureIsGiven
    <3> QED
      BY <2>1, <2>4, <3>4, <3>5
  <2> QED
    BY <2>5, <2>6
<1>15. LooseIsUnsure(new, left)
  <2> SUFFICES ASSUME NEW f \in left, ~Recorded(new, f), NEW i \in DOMAIN new PROVE f \notin new[i].sure
    BY DEF LooseIsUnsure
  <2>1. i \in 1..n /\ new[i].sure = ms[i].sure \ moved /\ \A j \in 1..n : ms[j].snap[f] = None
    BY <1>6, <1>7, <1>12
  <2>2. CASE f \in moved
    BY <2>1, <2>2
  <2>3. CASE f \in Files /\ f \notin ms[k].sure
    BY <1>11, <2>1, <2>3
  <2> QED
    BY <2>2, <2>3
<1>16. UnsureBefore(new)
  <2> SUFFICES ASSUME NEW q \in DOMAIN new, NEW f \in Files \ new[q].sure, IsCheckpoint(new[q]),
                      \A j \in DOMAIN new : j <= q => new[j].snap[f] = None,
                      NEW i \in DOMAIN new, i < q
               PROVE  f \notin new[i].sure
    BY DEF UnsureBefore
  <2>1. q \in 1..n /\ i \in 1..n /\ q \in DOMAIN ms /\ i \in DOMAIN ms
    BY <1>3, <1>6
  <2>2. \A j \in DOMAIN ms : j <= q => ms[j].snap[f] = None
    BY <1>1, <1>6, <1>7, <2>1
  <2>3. IsCheckpoint(ms[q]) /\ new[i].sure = ms[i].sure \ moved /\ new[q].sure = ms[q].sure \ moved
    BY <1>7, <2>1
  <2>4. CASE f \notin ms[q].sure
    <3>1. f \notin ms[i].sure
      BY <2>1, <2>2, <2>3, <2>4 DEF Consistent, UnsureBefore
    <3> QED
      BY <2>3, <3>1
  <2>5. CASE f \in moved
    BY <2>3, <2>5
  <2> QED
    BY <2>3, <2>4, <2>5
<1>17. EndHolds(new, co, left)
  <2> SUFFICES ASSUME NEW f \in Files \ left, NEW j \in DOMAIN new, Gives(new, n, j, f) PROVE co[f] = new[j].snap[f]
    BY <1>6 DEF EndHolds
  <2>1. f \in ms[k].sure /\ co[f] = ms[k].was[f]
    OBVIOUS
  <2>2. j \in 1..n /\ j \in DOMAIN ms /\ k \in DOMAIN ms /\ n \in 1..n /\ new[j].snap = ms[j].snap
    BY <1>1, <1>3, <1>6, <1>7
  <2>3. Gives(ms, n, j, f)
    BY <1>8, <2>2
  <2>4. \A i \in 1..n : k < i => ms[i].snap[f] = None
    BY <1>10, NothingFacts
  <2>5. Gives(ms, k, j, f)
    BY <1>1, <2>2, <2>3, <2>4 DEF Gives
  <2>6. ms[k].was[f] = ms[j].snap[f]
    BY <2>1, <2>2, <2>5 DEF Consistent, SureIsGiven
  <2> QED
    BY <2>1, <2>2, <2>6
<1> QED
  BY <1>5, <1>13, <1>14, <1>15, <1>16, <1>17 DEF Consistent

-----------------------------------------------------------------------------
\* Steps.

LEMMA TypesFacts ==
    ASSUME Types
    PROVE  /\ messages \in Seq(Messages) /\ Len(messages) \in Nat /\ DOMAIN messages = 1..Len(messages)
           /\ messages # << >> => 1 \in DOMAIN messages /\ Len(messages) \in DOMAIN messages
           /\ cp # None => cp \in 1..Len(messages) /\ messages # << >>
           /\ \A i \in DOMAIN messages : messages[i] \in Messages /\ MessageOK(messages[i], models)
BY DEF Types, History

\* A turn has started.
LEMMA Started ==
    ASSUME Types, Starts, History(messages', models), messages' # << >>, loose' \in SUBSET Files,
           Consistent(messages', content, loose'), EndHolds(messages', content, loose'), Closes(messages', loose')
    PROVE  IInv'
<1>1. /\ turn' = "llm" /\ cp' = None /\ end' = None /\ missed' = {}
      /\ content' = content /\ models' = models /\ target' = target /\ noted' = noted /\ changes' = changes
  BY DEF Starts
<1>2. Types'
  BY <1>1 DEF Types
<1>3. Turns'
  BY <1>1 DEF Turns
<1>4. Consistent(messages, content, loose)' /\ Stands' /\ LastMods' /\ EndKept'
  BY <1>1 DEF Stands, LastMods, EndKept
<1> QED
  BY <1>2, <1>3, <1>4 DEF IInv

LEMMA CutStep ==
    ASSUME IInv, Starts, NEW n \in 1..Len(messages), CutTo(n)
    PROVE  IInv'
<1> DEFINE kept == SubSeq(messages, 1, n)
           k == Max({i \in 1..n : IsCheckpoint(kept[i])})
           moved == {f \in Files : content[f] # kept[k].was[f]}
           new == Unsure(kept, 1..n, moved)
           left == moved \cup (Files \ kept[k].sure)
<1>1. Types /\ History(messages, models) /\ Consistent(messages, content, loose)
  BY DEF IInv, Types
<1>2. messages \in Seq(Messages) /\ Len(messages) \in Nat /\ DOMAIN messages = 1..Len(messages)
  BY <1>1, TypesFacts
<1>3. messages' = Append(new, UserMessage) /\ loose' = left
  BY DEF CutTo
<1>4. kept \in Seq(Messages) /\ Len(kept) = n /\ DOMAIN kept = 1..n /\ \A i \in 1..n : kept[i] = messages[i]
  <2> HIDE DEF kept
  <2> QED
    BY <1>2, KeptFacts DEF kept
<1>5. \A i \in 1..n : i \in DOMAIN messages
  BY <1>2
<1>6. History(kept, models) /\ kept # << >>
  <2>1. kept # << >> /\ 1 \in 1..n /\ messages # << >>
    BY <1>2, <1>4
  <2> HIDE DEF kept
  <2> QED
    BY <1>1, <1>4, <1>5, <2>1 DEF History
<1>7. k \in 1..n /\ IsCheckpoint(kept[k]) /\ \A i \in 1..n : k < i => ~IsCheckpoint(kept[i])
  <2>1. k = Max({i \in 1..Len(kept) : IsCheckpoint(kept[i])})
    BY <1>4
  <2> HIDE DEF kept, k
  <2> QED
    BY <1>4, <1>6, <2>1, LastKept
<1> HIDE DEF k
<1>8. Unsured(kept, new, 1..n, moved)
  <2> HIDE DEF kept, moved, new
  <2> QED
    BY <1>4, UnsureFacts DEF new
<1>9. /\ kept[k] = messages[k]
      /\ IsCheckpoint(messages[k]) /\ \A i \in 1..n : k < i => ~IsCheckpoint(messages[i])
      /\ moved = {f \in Files : content[f] # messages[k].was[f]}
      /\ left = moved \cup (Files \ messages[k].sure)
  <2>1. kept[k] = messages[k]
    BY <1>4, <1>7
  <2> HIDE DEF kept
  <2> QED
    BY <1>4, <1>7, <2>1
<1>10. kept = SubSeq(messages, 1, n)
  OBVIOUS
<1> HIDE DEF kept, moved, new, left
<1>11. History(new, models) /\ new # << >> /\ Consistent(new, content, left) /\ EndHolds(new, content, left)
  <2>1. /\ History(messages, models) /\ Consistent(messages, content, loose)
        /\ CutAfter(messages, n, k, kept)
        /\ moved = {f \in Files : content[f] # messages[k].was[f]}
        /\ Unsured(kept, new, 1..n, moved)
        /\ left = moved \cup (Files \ messages[k].sure)
    BY <1>1, <1>7, <1>8, <1>9, <1>10 DEF CutAfter
  <2> QED
    BY <2>1, ThreadCut
<1>12. left \in SUBSET Files
  BY <1>9
<1>13. /\ History(messages', models) /\ Consistent(messages', content, loose')
       /\ EndHolds(messages', content, loose') /\ Closes(messages', loose')
  BY <1>3, <1>11, <1>12, QuietAdded, QuietMessages
<1>14. messages' # << >>
  <2>1. new \in Seq(Messages)
    BY <1>11 DEF History
  <2> QED
    BY <1>3, <2>1, QuietMessages, Appended
<1> QED
  BY <1>1, <1>3, <1>12, <1>13, <1>14, Started

LEMMA EditMessageStep ==
    ASSUME IInv, NEW i \in DOMAIN messages, EditMessage(i)
    PROVE  IInv'
<1>1. Types
  BY DEF IInv
<1>2. messages \in Seq(Messages) /\ Len(messages) \in Nat /\ DOMAIN messages = 1..Len(messages) /\ IsCheckpoint(messages[1])
  <2>1. messages \in Seq(Messages)
    BY <1>1, TypesFacts
  <2>2. messages # << >>
    BY <2>1
  <2> QED
    BY <1>1, <2>1, <2>2 DEF Types, History
<1>3. messages[i].role = "user" /\ Starts /\ CutTo(i - 1)
  BY DEF EditMessage
<1>4. i # 1
  BY <1>2, <1>3 DEF IsCheckpoint
<1>5. i - 1 \in 1..Len(messages)
  BY <1>2, <1>4
<1> DEFINE n == i - 1
<1> HIDE DEF n
<1>6. n \in 1..Len(messages) /\ CutTo(n)
  BY <1>3, <1>5 DEF n
<1> QED
  BY <1>3, <1>6, CutStep

LEMMA SendStep ==
    ASSUME IInv, Send
    PROVE  IInv'
<1>1. Types /\ History(messages, models) /\ Consistent(messages, content, loose) /\ content \in [Files -> Versions]
      /\ loose \in SUBSET Files
  BY DEF IInv, Types
<1>2. Starts
  BY DEF Send
<1>3. CASE cp # None
  <2>1. CutTo(cp) /\ cp \in 1..Len(messages)
    <3>1. cp \in 1..Len(messages) /\ messages # << >>
      BY <1>1, <1>3, TypesFacts
    <3> QED
      BY <1>3, <3>1 DEF Send
  <2> QED
    BY <1>2, <2>1, CutStep
<1>4. CASE cp = None
  <2>1. EndHolds(messages, content, loose) /\ Closes(messages, loose)
    BY <1>4 DEF IInv, Turns
  <2>2. CASE messages = << >>
    <3> DEFINE first == Append(messages, Checkpoint(Nothing))
    <3>1. messages' = <<Checkpoint(Nothing), UserMessage>> /\ loose' = loose
      BY <1>4, <2>2 DEF Send
    <3>2. /\ Checkpoint(Nothing) \in Messages /\ IsCheckpoint(Checkpoint(Nothing))
          /\ Checkpoint(Nothing).snap = Nothing /\ Checkpoint(Nothing).was = content /\ Checkpoint(Nothing).mods = Nothing
          /\ Checkpoint(Nothing).sure = Files \ (loose \ Snapped(Nothing))
      BY <1>1, NothingFacts, CheckpointFacts
    <3>3. Snapped(Nothing) = {}
      BY NothingFacts DEF Snapped
    <3>4. MessageOK(Checkpoint(Nothing), models)
      BY <1>1, <3>2, <3>3 DEF MessageOK
    <3>5. messages' = Append(first, UserMessage)
      BY <2>2, <3>1
    <3>6. loose \ Snapped(Checkpoint(Nothing).snap) = loose
      BY <3>2, <3>3
    <3>7. /\ History(first, models) /\ first # << >>
          /\ Consistent(first, content, loose) /\ EndHolds(first, content, loose)
      <4>1. /\ History(messages, models) /\ Consistent(messages, content, loose) /\ EndHolds(messages, content, loose)
            /\ Checkpoint(Nothing).sure = Files \ (loose \ Snapped(Checkpoint(Nothing).snap))
        BY <1>1, <2>1, <3>2
      <4>2. History(first, models) /\ Consistent(first, content, loose) /\ EndHolds(first, content, loose)
        <5> DEFINE m == Checkpoint(Nothing)
        <5>1. loose \in SUBSET Files /\ IsNote(m, models, content, loose) /\ loose \ Snapped(m.snap) = loose
          BY <1>1, <3>2, <3>4, <3>6, <4>1 DEF IsNote
        <5> HIDE DEF m
        <5> QED
          BY <4>1, <5>1, NoteAdded DEF first, m
      <4> QED
        BY <1>1, <3>2, <4>2, TypesFacts, Appended
    <3> HIDE DEF first
    <3>8. /\ History(messages', models) /\ Consistent(messages', content, loose')
          /\ EndHolds(messages', content, loose') /\ Closes(messages', loose')
      <4>1. loose' = loose
        BY <3>1
      <4> QED
        BY <1>1, <3>5, <3>7, <4>1, QuietAdded, QuietMessages
    <3> QED
      BY <1>1, <1>2, <3>1, <3>8, Started
  <2>3. CASE messages # << >>
    <3>1. messages' = Append(messages, UserMessage) /\ loose' = loose
      BY <1>4, <2>3 DEF Send
    <3>2. /\ History(messages', models) /\ Consistent(messages', content, loose')
          /\ EndHolds(messages', content, loose') /\ Closes(messages', loose')
      BY <1>1, <2>1, <2>3, <3>1, QuietAdded, QuietMessages
    <3>3. messages' # << >>
      BY <1>1, <3>1, TypesFacts, QuietMessages, Appended
    <3> QED
      BY <1>1, <1>2, <3>1, <3>2, <3>3, Started
  <2> QED
    BY <2>2, <2>3
<1> QED
  BY <1>3, <1>4

\* The thread stands on no checkpoint.
LEMMA OffCheckpoint ==
    ASSUME IInv, cp = None, cp' = cp, missed' = missed, end' = None \/ end' = end,
           History(messages', models'), messages' # << >>,
           content' \in [Files -> Versions], changes' \in Versions, Opened \subseteq models', models' \subseteq Files,
           loose' \in SUBSET Files, turn' \in {"idle", "llm", "asking", "tool", "aborting"},
           Consistent(messages', content', loose'), EndHolds(messages', content', loose'), Closes(messages', loose'),
           turn' \in {"asking", "tool"} => ~IsCheckpoint(messages'[Len(messages')]),
           turn' \in {"asking", "tool", "aborting"} => target' \in Files /\ (noted' => Recorded(messages', target')),
           turn' \in {"idle", "aborting"} => HoldsAll(messages')
    PROVE  IInv'
<1>1. Types /\ Turns
  BY DEF IInv
<1>2. cp' = None /\ end' = None /\ missed' = {}
  BY <1>1 DEF Turns
<1>3. Types'
  BY <1>2 DEF Types
<1>4. Turns'
  BY <1>2 DEF Turns
<1>5. Consistent(messages, content, loose)' /\ Stands' /\ LastMods' /\ EndKept'
  BY <1>2 DEF Stands, LastMods, EndKept
<1> QED
  BY <1>3, <1>4, <1>5 DEF IInv

\* What holds during a turn.
LEMMA InTurn ==
    ASSUME IInv, turn # "idle"
    PROVE  /\ Types /\ History(messages, models) /\ Consistent(messages, content, loose)
           /\ loose \in SUBSET Files /\ cp = None /\ messages # << >> /\ end = None /\ missed = {}
           /\ EndHolds(messages, content, loose) /\ Closes(messages, loose)
BY DEF IInv, Types, Turns

\* _computeNewCheckpointInfo: what is recorded, as it is.
LEMMA SnapshotFacts ==
    ASSUME Types
    PROVE  /\ CurrentSnapshots \in Snapshots
           /\ \A f \in Files : CurrentSnapshots[f] = IF Recorded(messages, f) THEN content[f] ELSE None
           /\ \A f \in Files : f \in Snapped(CurrentSnapshots) <=> Recorded(messages, f)
           /\ Snapped(CurrentSnapshots) \subseteq models
<1> DEFINE n == Len(messages)
           known == FilesBetween(messages, 1, n) \cap models
<1>1. n \in Nat /\ 1 \in Nat \ {0} /\ n \in 0..Len(messages) /\ DOMAIN messages = 1..n
  BY TypesFacts
<1>2. History(messages, models) /\ models \subseteq models
  BY DEF Types
<1>3. CurrentSnapshots = [f \in Files |-> IF f \in known THEN content[f] ELSE None]
  BY DEF CurrentSnapshots
<1> HIDE DEF n
<1>4. \A f \in Files : f \in known <=> \E k \in 1..n : messages[k].snap[f] # None
  BY <1>1, <1>2, BetweenFacts
<1>5. \A f \in Files : f \in known <=> Recorded(messages, f)
  BY <1>1, <1>4 DEF Recorded
<1>6. \A f \in Files : content[f] \in Versions /\ content[f] # None
  BY CheckpointsAssumption DEF Types, Versions
<1>7. known \subseteq models
  OBVIOUS
<1> HIDE DEF known
<1>8. CurrentSnapshots \in Snapshots
  BY <1>3, <1>6 DEF Snapshots
<1>9. \A f \in Files : CurrentSnapshots[f] = IF Recorded(messages, f) THEN content[f] ELSE None
  BY <1>3, <1>5
<1>10. \A f \in Files : f \in Snapped(CurrentSnapshots) <=> Recorded(messages, f)
  BY <1>6, <1>9 DEF Snapped
<1>11. Snapped(CurrentSnapshots) \subseteq models
  BY <1>5, <1>7, <1>10 DEF Snapped
<1> QED
  BY <1>8, <1>9, <1>10, <1>11

\* A checkpoint of all that is recorded closes the thread.
LEMMA ThreadClosed ==
    ASSUME Types, Consistent(messages, content, loose), EndHolds(messages, content, loose),
           NEW new, new = Append(messages, Checkpoint(CurrentSnapshots)),
           NEW left, left = loose \ Snapped(CurrentSnapshots)
    PROVE  /\ History(new, models) /\ Consistent(new, content, left)
           /\ EndHolds(new, content, left) /\ Closes(new, left) /\ HoldsAll(new)
           /\ \A f \in Files : Recorded(new, f) <=> Recorded(messages, f)
           /\ new \in Seq(Messages) /\ new # << >> /\ Len(new) = Len(messages) + 1
           /\ IsCheckpoint(new[Len(new)])
           /\ new[Len(new)] = Checkpoint(CurrentSnapshots) /\ \A i \in DOMAIN messages : new[i] = messages[i]
<1> DEFINE m == Checkpoint(CurrentSnapshots)
<1>1. /\ messages \in Seq(Messages) /\ Len(messages) \in Nat /\ DOMAIN messages = 1..Len(messages)
      /\ History(messages, models) /\ loose \in SUBSET Files /\ content \in [Files -> Versions]
  BY TypesFacts DEF Types
<1>2. /\ CurrentSnapshots \in Snapshots
      /\ \A f \in Files : CurrentSnapshots[f] = IF Recorded(messages, f) THEN content[f] ELSE None
      /\ \A f \in Files : f \in Snapped(CurrentSnapshots) <=> Recorded(messages, f)
      /\ Snapped(CurrentSnapshots) \subseteq models
  BY SnapshotFacts
<1>3. /\ m \in Messages /\ IsCheckpoint(m) /\ m.snap = CurrentSnapshots /\ m.was = content /\ m.mods = Nothing
      /\ m.sure = Files \ (loose \ Snapped(m.snap)) /\ left = loose \ Snapped(m.snap)
  BY <1>1, <1>2, CheckpointFacts
<1>4. MessageOK(m, models)
  <2>1. \A f \in Snapped(m.snap) : m.snap[f] = content[f]
    BY <1>2, <1>3 DEF Snapped
  <2> HIDE DEF m
  <2> QED
    BY <1>1, <1>2, <1>3, <2>1 DEF MessageOK
<1> HIDE DEF m
<1>5. new = Append(messages, m)
  BY DEF m
<1>6. /\ History(new, models) /\ Consistent(new, content, left)
      /\ EndHolds(new, content, left) /\ Closes(new, left)
      /\ \A f \in Files : Recorded(new, f) <=> Recorded(messages, f) \/ m.snap[f] # None
  <2>1. IsNote(m, models, content, loose)
    BY <1>1, <1>3, <1>4 DEF IsNote
  <2> DEFINE add == Append(messages, m)
             rest == loose \ Snapped(m.snap)
  <2>2. /\ History(add, models) /\ Consistent(add, content, rest)
        /\ EndHolds(add, content, rest) /\ Closes(add, rest)
        /\ \A f \in Files : Recorded(add, f) <=> Recorded(messages, f) \/ m.snap[f] # None
    BY <1>1, <2>1, NoteAdded
  <2> QED
    BY <1>3, <1>5, <2>2
<1>7. \A f \in Files : m.snap[f] # None <=> Recorded(messages, f)
  BY <1>2, <1>3 DEF Snapped
<1>8. /\ new \in Seq(Messages) /\ new # << >> /\ Len(new) = Len(messages) + 1
      /\ new[Len(messages) + 1] = m /\ \A i \in DOMAIN messages : new[i] = messages[i]
  BY <1>1, <1>3, <1>5, Appended
<1>9. HoldsAll(new)
  BY <1>6, <1>7, <1>8 DEF HoldsAll
<1> QED
  BY <1>3, <1>6, <1>7, <1>8, <1>9 DEF m

LEMMA EndTurnStep == ASSUME IInv, EndTurn PROVE IInv'
<1>1. turn \in {"llm", "asking"} /\ turn # "idle"
  BY DEF EndTurn
<1>2. /\ Types /\ Consistent(messages, content, loose) /\ loose \in SUBSET Files /\ cp = None
      /\ EndHolds(messages, content, loose)
  BY <1>1, InTurn
<1>3. /\ messages' = Append(messages, Checkpoint(CurrentSnapshots)) /\ loose' = loose \ Snapped(CurrentSnapshots)
      /\ turn' = "idle" /\ cp' = cp /\ missed' = missed /\ end' = end
      /\ content' = content /\ models' = models /\ changes' = changes
  BY DEF EndTurn, AddUserCheckpoint
<1>4. /\ History(messages', models) /\ Consistent(messages', content, loose') /\ messages' # << >>
      /\ EndHolds(messages', content, loose') /\ Closes(messages', loose') /\ HoldsAll(messages')
  BY <1>2, <1>3, ThreadClosed
<1>5. loose' \in SUBSET Files
  BY <1>2, <1>3
<1> QED
  BY <1>2, <1>3, <1>4, <1>5, OffCheckpoint DEF Types

LEMMA AbortToolStep == ASSUME IInv, AbortTool PROVE IInv'
<1>1. turn = "tool" /\ turn # "idle"
  BY DEF AbortTool
<1>2. /\ Types /\ Consistent(messages, content, loose) /\ loose \in SUBSET Files /\ cp = None
      /\ EndHolds(messages, content, loose)
  BY <1>1, InTurn
<1>3. /\ messages' = Append(messages, Checkpoint(CurrentSnapshots)) /\ loose' = loose \ Snapped(CurrentSnapshots)
      /\ turn' = "aborting" /\ cp' = cp /\ missed' = missed /\ end' = end
      /\ content' = content /\ models' = models /\ changes' = changes /\ target' = target /\ noted' = noted
  BY DEF AbortTool, AddUserCheckpoint
<1>4. /\ History(messages', models) /\ Consistent(messages', content, loose') /\ messages' # << >>
      /\ EndHolds(messages', content, loose') /\ Closes(messages', loose') /\ HoldsAll(messages')
      /\ \A f \in Files : Recorded(messages', f) <=> Recorded(messages, f)
  BY <1>2, <1>3, ThreadClosed
<1>5. loose' \in SUBSET Files
  BY <1>2, <1>3
<1>6. target \in Files /\ (noted => Recorded(messages, target))
  BY <1>1 DEF IInv, Turns
<1> QED
  BY <1>2, <1>3, <1>4, <1>5, <1>6, OffCheckpoint DEF Types

LEMMA AskStep == ASSUME IInv, NEW f \in Files, Ask(f) PROVE IInv'
<1>1. turn = "llm" /\ turn # "idle"
  BY DEF Ask
<1>2. /\ Types /\ History(messages, models) /\ Consistent(messages, content, loose) /\ loose \in SUBSET Files
      /\ cp = None /\ messages # << >> /\ EndHolds(messages, content, loose) /\ content \in [Files -> Versions]
      /\ messages \in Seq(Messages)
  BY <1>1, InTurn, TypesFacts DEF Types
<1>3. /\ turn' \in {"tool", "asking"} /\ cp' = cp /\ missed' = missed /\ end' = end
      /\ content' = content /\ models' = models /\ changes' = changes
      /\ target' = f /\ noted' = (f \in models)
  BY DEF Ask
<1>4. /\ History(messages', models) /\ Consistent(messages', content, loose') /\ messages' # << >>
      /\ EndHolds(messages', content, loose') /\ Closes(messages', loose') /\ loose' \in SUBSET Files
      /\ ~IsCheckpoint(messages'[Len(messages')])
      /\ f \in models => Recorded(messages', f)
  <2>1. CASE f \in models
    <3> DEFINE snap == [Nothing EXCEPT ![f] = content[f]]
               m == Checkpoint(snap)
               noting == Append(messages, m)
    <3>1. messages' = messages \o <<m, ToolMessage>> /\ loose' = loose \ {f}
      BY <2>1 DEF Ask
    <3>2. content[f] \in Versions /\ content[f] # None
      BY <1>2, CheckpointsAssumption DEF Versions
    <3>3. snap \in Snapshots /\ snap[f] = content[f] /\ \A g \in Files \ {f} : snap[g] = None
      BY <3>2, NothingFacts DEF Snapshots
    <3> HIDE DEF snap
    <3>4. Snapped(snap) = {f}
      BY <3>2, <3>3 DEF Snapped
    <3>5. m \in Messages /\ IsCheckpoint(m) /\ m.snap = snap /\ m.was = content /\ m.mods = Nothing /\ m.sure = Files \ (loose \ Snapped(snap))
      BY <1>2, <3>3, CheckpointFacts
    <3> HIDE DEF m
    <3>6. MessageOK(m, models)
      BY <1>2, <2>1, <3>3, <3>4, <3>5 DEF MessageOK
    <3>7. IsNote(m, models, content, loose)
      BY <3>5, <3>6 DEF IsNote
    <3>8. /\ History(noting, models) /\ Consistent(noting, content, loose \ Snapped(m.snap))
          /\ EndHolds(noting, content, loose \ Snapped(m.snap))
          /\ \A g \in Files : Recorded(noting, g) <=> Recorded(messages, g) \/ m.snap[g] # None
      BY <1>2, <3>7, NoteAdded
    <3>9. loose' = loose \ Snapped(m.snap) /\ loose' \in SUBSET Files
      BY <1>2, <3>1, <3>4, <3>5
    <3>10. noting # << >> /\ noting \in Seq(Messages)
      BY <1>2, <3>5, Appended
    <3>11. messages' = Append(noting, ToolMessage)
      <4>1. messages \o <<m, ToolMessage>> = Append(Append(messages, m), ToolMessage)
        BY <1>2, <3>5, QuietMessages
      <4> QED
        BY <3>1, <4>1
    <3>12. Recorded(noting, f)
      BY <3>2, <3>3, <3>5, <3>8
    <3> HIDE DEF noting
    <3>13. History(noting, models) /\ Consistent(noting, content, loose') /\ EndHolds(noting, content, loose')
      BY <3>8, <3>9
    <3> QED
      BY <3>9, <3>10, <3>11, <3>12, <3>13, QuietAdded, QuietMessages, Appended
  <2>2. CASE f \notin models
    <3>1. messages' = Append(messages, ToolMessage) /\ loose' = loose
      BY <2>2 DEF Ask
    <3> QED
      BY <1>2, <2>2, <3>1, QuietAdded, QuietMessages, Appended
  <2> QED
    BY <2>1, <2>2
<1> QED
  BY <1>2, <1>3, <1>4, OffCheckpoint DEF Types

\* The messages, the files and the thread stay as they are.
LEMMA OnlyTurns ==
    ASSUME IInv, turn # "idle", turn' \in {"idle", "llm", "asking", "tool", "aborting"},
           UNCHANGED <<messages, cp, content, changes, loose, missed, end>>,
           models \subseteq models', models' \subseteq Files,
           turn' \in {"asking", "tool", "aborting"} => turn \in {"asking", "tool"} /\ UNCHANGED <<target, noted>>,
           turn' \in {"asking", "tool"} => turn \in {"asking", "tool"},
           turn' \in {"idle", "aborting"} => turn \in {"asking", "tool", "aborting"}
    PROVE  IInv'
<1>1. /\ Types /\ History(messages, models) /\ Consistent(messages, content, loose) /\ loose \in SUBSET Files
      /\ cp = None /\ messages # << >> /\ EndHolds(messages, content, loose) /\ Closes(messages, loose)
  BY InTurn
<1>2. /\ messages' = messages /\ cp' = cp /\ content' = content /\ changes' = changes /\ loose' = loose
      /\ missed' = missed /\ end' = end
  OBVIOUS
<1>3. History(messages', models')
  BY <1>1, <1>2 DEF History, MessageOK
<1>4. turn' \in {"asking", "tool"} => ~IsCheckpoint(messages[Len(messages)])
  BY DEF IInv, Turns
<1>5. turn' \in {"idle", "aborting"} => HoldsAll(messages)
  BY DEF IInv, Turns, HoldsAll
<1>6. turn' \in {"asking", "tool", "aborting"} => target' \in Files /\ (noted' => Recorded(messages', target'))
  BY <1>2 DEF IInv, Turns
<1> QED
  BY <1>1, <1>2, <1>3, <1>4, <1>5, <1>6, OffCheckpoint DEF Types

LEMMA ApproveStep == ASSUME IInv, Approve PROVE IInv'
<1>1. /\ turn = "asking" /\ turn' = "tool" /\ models' = models
      /\ UNCHANGED <<messages, cp, content, changes, loose, missed, end>> /\ UNCHANGED <<target, noted>>
  BY DEF Approve
<1>2. models \subseteq Files
  BY DEF IInv, Types
<1> QED
  BY <1>1, <1>2, OnlyTurns

LEMMA RejectStep == ASSUME IInv, Reject PROVE IInv'
<1>1. /\ turn = "asking" /\ turn' = "idle" /\ models' = models
      /\ UNCHANGED <<messages, cp, content, changes, loose, missed, end>>
  BY DEF Reject
<1>2. models \subseteq Files
  BY DEF IInv, Types
<1> QED
  BY <1>1, <1>2, OnlyTurns

LEMMA ToolFailsStep == ASSUME IInv, ToolFails PROVE IInv'
<1>1. /\ turn \in {"tool", "aborting"} /\ turn' = (IF turn = "tool" THEN "llm" ELSE "idle")
      /\ models' = models \cup {target}
      /\ UNCHANGED <<messages, cp, content, changes, loose, missed, end>>
  BY DEF ToolFails, ToolDone
<1>2. models \subseteq Files /\ target \in Files
  BY <1>1 DEF IInv, Types, Turns
<1>3. models' \subseteq Files /\ models \subseteq models'
  BY <1>1, <1>2
<1> QED
  BY <1>1, <1>3, OnlyTurns

LEMMA Written ==
    ASSUME NEW f \in Files, Types, Write(f)
    PROVE  /\ content' \in [Files -> Versions] /\ changes' \in Versions
           /\ \A g \in Files \ {f} : content'[g] = content[g]
<1>1. changes \in 0..MaxChanges /\ MaxChanges \in Nat /\ changes < MaxChanges /\ changes' = changes + 1
  BY CheckpointsAssumption DEF Write, Types, Versions
<1>2. changes' \in Versions
  BY <1>1 DEF Versions
<1>3. content' = [content EXCEPT ![f] = changes'] /\ content \in [Files -> Versions]
  BY DEF Write, Types
<1> QED
  BY <1>2, <1>3

LEMMA ToolEditStep == ASSUME IInv, ToolEdit PROVE IInv'
<1>1. /\ turn \in {"tool", "aborting"} /\ turn # "idle" /\ turn' = (IF turn = "tool" THEN "llm" ELSE "idle")
      /\ models' = models \cup {target} /\ cp' = cp /\ missed' = missed /\ end' = end
      /\ Write(target) /\ loose' = loose \cup {target}
  BY DEF ToolEdit, ToolDone
<1>2. /\ Types /\ History(messages, models) /\ Consistent(messages, content, loose) /\ loose \in SUBSET Files
      /\ cp = None /\ messages # << >> /\ EndHolds(messages, content, loose) /\ Closes(messages, loose)
      /\ messages \in Seq(Messages) /\ models \subseteq Files /\ Opened \subseteq models
      /\ DOMAIN messages = 1..Len(messages)
  BY <1>1, InTurn, TypesFacts DEF Types
<1>3. target \in Files /\ (noted => Recorded(messages, target))
  BY <1>1 DEF IInv, Turns
<1>4. /\ content' \in [Files -> Versions] /\ changes' \in Versions
      /\ \A g \in Files \ {target} : content'[g] = content[g]
  BY <1>1, <1>2, <1>3, Written
<1> DEFINE n == Len(messages)
           at == IF ~noted THEN 1..n ELSE IF turn = "aborting" THEN {n} ELSE {}
<1>5. messages' = Unsure(messages, at, {target})
  BY DEF ToolEdit
<1>6. at = DOMAIN messages \/ (Recorded(messages, target) /\ at \subseteq {Len(messages)})
  BY <1>2, <1>3
<1>7. messages # << >> /\ IsCheckpoint(messages[Len(messages)]) => Len(messages) \in at
  <2>1. turn = "tool" => ~IsCheckpoint(messages[Len(messages)])
    BY DEF IInv, Turns
  <2>2. Len(messages) \in 1..n
    BY <1>2
  <2> QED
    BY <1>1, <2>1, <2>2
<1>8. turn = "aborting" => HoldsAll(messages)
  BY DEF IInv, Turns
<1> HIDE DEF at
<1>9. Unsured(messages, messages', at, {target})
  BY <1>2, <1>5, UnsureFacts
<1>10. /\ Consistent(messages', content', loose') /\ EndHolds(messages', content', loose') /\ Closes(messages', loose')
  BY <1>1, <1>2, <1>3, <1>4, <1>6, <1>7, <1>9, FileChanged
<1>11. History(messages', models) /\ messages' # << >> /\ (turn = "aborting" => HoldsAll(messages'))
  BY <1>2, <1>8, <1>9, UnsuredHistory
<1>12. History(messages', models') /\ models' \subseteq Files /\ Opened \subseteq models'
  BY <1>1, <1>2, <1>3, <1>11 DEF History, MessageOK
<1>13. loose' \in SUBSET Files
  BY <1>1, <1>2, <1>3
<1>14. turn' \in {"llm", "idle"} /\ (turn' = "idle" => HoldsAll(messages'))
  BY <1>1, <1>11
<1> QED
  BY <1>1, <1>2, <1>4, <1>10, <1>11, <1>12, <1>13, <1>14, OffCheckpoint

LEMMA TypeStep == ASSUME IInv, NEW f \in Files, Type(f) PROVE IInv'
<1>1. /\ Write(f) /\ loose' = loose \cup {f} /\ models' = models \cup {f} /\ end' = None
      /\ messages' = Unsure(messages, DOMAIN messages, {f})
      /\ cp' = cp /\ turn' = turn /\ target' = target /\ noted' = noted /\ missed' = missed
  BY DEF Type
<1>2. /\ Types /\ History(messages, models) /\ Consistent(messages, content, loose) /\ loose \in SUBSET Files
      /\ messages \in Seq(Messages) /\ models \subseteq Files /\ Opened \subseteq models
      /\ DOMAIN messages = 1..Len(messages) /\ Len(messages) \in Nat
  BY TypesFacts DEF IInv, Types
<1>3. /\ content' \in [Files -> Versions] /\ changes' \in Versions
      /\ \A g \in Files \ {f} : content'[g] = content[g]
  BY <1>1, <1>2, Written
<1>4. Unsured(messages, messages', DOMAIN messages, {f})
  BY <1>1, <1>2, UnsureFacts
<1>5. messages # << >> /\ IsCheckpoint(messages[Len(messages)]) => Len(messages) \in DOMAIN messages
  BY <1>2
<1>6. DOMAIN messages = DOMAIN messages \/ (Recorded(messages, f) /\ DOMAIN messages \subseteq {Len(messages)})
  OBVIOUS
<1>7. /\ Consistent(messages', content', loose')
      /\ EndHolds(messages, content, loose) => EndHolds(messages', content', loose')
      /\ Closes(messages, loose) => Closes(messages', loose')
  <2> DEFINE at == DOMAIN messages
  <2>1. at = DOMAIN messages \/ (Recorded(messages, f) /\ at \subseteq {Len(messages)})
    OBVIOUS
  <2>2. Unsured(messages, messages', at, {f}) /\ (messages # << >> /\ IsCheckpoint(messages[Len(messages)]) => Len(messages) \in at)
    BY <1>4, <1>5
  <2> HIDE DEF at
  <2> QED
    BY <1>1, <1>2, <1>3, <2>1, <2>2, FileChanged
<1>8. History(messages', models) /\ (messages = << >> <=> messages' = << >>) /\ (HoldsAll(messages) => HoldsAll(messages'))
  BY <1>2, <1>4, UnsuredHistory
<1>9. History(messages', models') /\ models' \subseteq Files /\ Opened \subseteq models'
  BY <1>1, <1>2, <1>8 DEF History, MessageOK
<1>10. loose' \in SUBSET Files
  BY <1>1, <1>2
<1>11. CASE cp = None
  <2>1. /\ end' = None /\ EndHolds(messages, content, loose) /\ Closes(messages, loose)
        /\ messages = << >> => turn = "idle"
        /\ turn \in {"asking", "tool"} => ~IsCheckpoint(messages[Len(messages)])
        /\ turn \in {"asking", "tool", "aborting"} => target \in Files /\ (noted => Recorded(messages, target))
        /\ turn \in {"idle", "aborting"} => HoldsAll(messages)
        /\ missed = {}
    BY <1>1, <1>11 DEF IInv, Turns
  <2>2. Types'
    BY <1>1, <1>2, <1>3, <1>9, <1>10, <1>11 DEF Types
  <2>3. \A g : Recorded(messages', g) <=> Recorded(messages, g)
    BY <1>4, UnsuredGives
  <2>4. messages # << >> => (IsCheckpoint(messages'[Len(messages')]) <=> IsCheckpoint(messages[Len(messages)]))
    BY <1>2, <1>4 DEF Unsured
  <2>5. Turns'
    BY <1>1, <1>7, <1>8, <1>11, <2>1, <2>3, <2>4 DEF Turns
  <2> QED
    BY <1>1, <1>7, <1>11, <2>2, <2>5 DEF IInv, Stands, LastMods, EndKept
<1>12. CASE cp # None
  <2>1. cp \in DOMAIN messages /\ IsCheckpoint(messages[cp]) /\ turn = "idle" /\ IsCheckpoint(messages[Len(messages)]) /\ HoldsAll(messages)
    BY <1>2, <1>12 DEF IInv, Turns, Types
  <2>2. messages # << >> /\ Len(messages) \in DOMAIN messages
    BY <1>2, <2>1
  <2>3. /\ Len(messages') = Len(messages) /\ DOMAIN messages' = DOMAIN messages
        /\ \A i \in DOMAIN messages :
             /\ IsCheckpoint(messages'[i]) <=> IsCheckpoint(messages[i])
             /\ messages'[i].snap = messages[i].snap /\ messages'[i].mods = messages[i].mods
             /\ messages'[i].was = messages[i].was
             /\ messages'[i].sure = messages[i].sure \ {f}
    BY <1>4 DEF Unsured
  <2>4. Types'
    <3>1. cp' \in DOMAIN messages' /\ IsCheckpoint(messages'[cp'])
      BY <1>1, <2>1, <2>3
    <3>2. turn' \in {"idle", "llm", "asking", "tool", "aborting"} /\ missed' \subseteq Files
      BY <1>1, <1>2 DEF Types
    <3> QED
      BY <1>1, <1>3, <1>9, <1>10, <3>1, <3>2 DEF Types
  <2>5. Turns'
    BY <1>1, <1>8, <1>12, <2>1, <2>2, <2>3 DEF Turns
  <2>6. \A i \in DOMAIN messages : messages[i].sure \subseteq Files
    BY <1>2, MessageTypes
  <2>7. \A i, k, g : k \in DOMAIN messages => (Gives(messages', i, k, g) <=> Gives(messages, i, k, g))
    BY <1>4, UnsuredGives
  <2>8. ASSUME cp = Len(messages) PROVE Stands'
    <3>1. \A g \in messages[cp].sure \ missed : content[g] = messages[cp].was[g]
      BY <1>12, <2>8 DEF IInv, Stands
    <3>2. \A g \in messages'[cp].sure \ missed : content'[g] = messages'[cp].was[g]
      BY <1>3, <2>1, <2>3, <2>6, <3>1
    <3> QED
      BY <1>1, <2>3, <2>8, <3>2 DEF Stands
  <2>9. ASSUME cp # Len(messages) PROVE Stands'
    <3>1. \A g \in Files \ missed, k \in DOMAIN messages :
            Sure(g) /\ Gives(messages, cp, k, g) => content[g] = messages[k].snap[g]
      BY <1>12, <2>9 DEF IInv, Stands
    <3>2. \A g \in Files : Sure(g)' => Sure(g) /\ g # f
      BY <2>3 DEF Sure
    <3>3. \A g \in Files \ missed, k \in DOMAIN messages' :
            Sure(g)' /\ Gives(messages', cp, k, g) => content'[g] = messages'[k].snap[g]
      BY <1>3, <2>3, <2>7, <3>1, <3>2
    <3> QED
      BY <1>1, <2>3, <2>9, <3>3 DEF Stands
  <2>10. LastMods'
    <3>1. \A g \in messages[Len(messages)].sure \ missed :
            messages[Len(messages)].mods[g] # None => messages[Len(messages)].mods[g] = messages[Len(messages)].was[g]
      BY <1>12 DEF IInv, LastMods
    <3>2. \A g \in messages'[Len(messages')].sure \ missed' :
            messages'[Len(messages')].mods[g] # None => messages'[Len(messages')].mods[g] = messages'[Len(messages')].was[g]
      <4> DEFINE l == Len(messages)
      <4>1. /\ messages'[l].mods = messages[l].mods /\ messages'[l].was = messages[l].was
            /\ messages'[l].sure = messages[l].sure \ {f} /\ Len(messages') = l
        BY <2>2, <2>3
      <4>2. \A g \in messages[l].sure \ missed : messages[l].mods[g] # None => messages[l].mods[g] = messages[l].was[g]
        BY <3>1
      <4> HIDE DEF l
      <4> QED
        BY <1>1, <4>1, <4>2, Zenon
    <3> QED
      BY <3>2 DEF LastMods
  <2>11. Stands'
    BY <2>8, <2>9
  <2> QED
    BY <1>1, <1>7, <2>4, <2>5, <2>10, <2>11 DEF IInv, EndKept
<1> QED
  BY <1>11, <1>12

-----------------------------------------------------------------------------
\* Jumps.

\* What the user changed is kept with message at, if it is a checkpoint.
Modified(ms, new, at) ==
    /\ new \in Seq(Messages) /\ Len(new) = Len(ms) /\ DOMAIN new = DOMAIN ms
    /\ \A i \in DOMAIN ms :
        /\ IsCheckpoint(new[i]) <=> IsCheckpoint(ms[i])
        /\ new[i].snap = ms[i].snap /\ new[i].was = ms[i].was /\ new[i].sure = ms[i].sure
        /\ new[i].mods = IF i = at /\ IsCheckpoint(ms[i]) THEN CurrentSnapshots ELSE ms[i].mods

LEMMA ModifiedMessage ==
    ASSUME NEW m \in Messages, NEW mods \in Snapshots, NEW new, new = [m EXCEPT !.mods = mods]
    PROVE  /\ new \in Messages /\ new.role = m.role /\ new.snap = m.snap /\ new.mods = mods /\ new.was = m.was
           /\ new.sure = m.sure
BY DEF Messages

LEMMA ModifiedFacts ==
    ASSUME Types, NEW ms \in Seq(Messages), NEW at \in DOMAIN ms, NEW new, new = WithModifications(ms, at)
    PROVE  Modified(ms, new, at)
<1>1. DOMAIN ms = 1..Len(ms) /\ Len(ms) \in Nat /\ \A i \in DOMAIN ms : ms[i] \in Messages
  OBVIOUS
<1>2. CurrentSnapshots \in Snapshots
  BY SnapshotFacts
<1>3. CASE ~IsCheckpoint(ms[at])
  BY <1>3 DEF WithModifications, Modified
<1>4. CASE IsCheckpoint(ms[at])
  <2> DEFINE m == [ms[at] EXCEPT !.mods = CurrentSnapshots]
  <2>1. /\ m \in Messages /\ m.role = ms[at].role /\ m.snap = ms[at].snap /\ m.mods = CurrentSnapshots
        /\ m.was = ms[at].was /\ m.sure = ms[at].sure
    <3>1. ms[at] \in Messages
      BY <1>1
    <3> HIDE DEF m
    <3> QED
      BY <1>2, <3>1, ModifiedMessage DEF m
  <2>2. new = [ms EXCEPT ![at] = m]
    BY <1>4 DEF WithModifications
  <2> HIDE DEF m
  <2>3. new \in [1..Len(ms) -> Messages] /\ new[at] = m /\ \A i \in DOMAIN ms : i # at => new[i] = ms[i]
    BY <1>1, <2>1, <2>2
  <2>4. new \in Seq(Messages) /\ Len(new) = Len(ms) /\ DOMAIN new = DOMAIN ms
    BY <1>1, <2>3
  <2>5. IsCheckpoint(m)
    BY <1>4, <2>1 DEF IsCheckpoint
  <2> QED
    BY <1>4, <2>1, <2>3, <2>4, <2>5 DEF Modified
<1> QED
  BY <1>3, <1>4

LEMMA ModifiedGives ==
    ASSUME NEW ms, NEW new, NEW at, Modified(ms, new, at)
    PROVE  /\ \A f, i, k : k \in DOMAIN ms => (Gives(new, i, k, f) <=> Gives(ms, i, k, f))
           /\ \A f : Recorded(new, f) <=> Recorded(ms, f)
<1>1. DOMAIN new = DOMAIN ms /\ \A i \in DOMAIN ms : new[i].snap = ms[i].snap
  BY DEF Modified
<1>2. \A f, i, k : k \in DOMAIN ms => (Gives(new, i, k, f) <=> Gives(ms, i, k, f))
  BY <1>1 DEF Gives
<1>3. \A f : Recorded(new, f) <=> Recorded(ms, f)
  BY <1>1 DEF Recorded
<1> QED
  BY <1>2, <1>3

\* Two messages with no snapshot of the file between them give it the same.
LEMMA UntouchedGives ==
    ASSUME NEW ms \in Seq(Messages), NEW lo \in DOMAIN ms, NEW hi \in DOMAIN ms, lo <= hi, NEW f,
           ~ \E k \in lo + 1..hi : ms[k].snap[f] # None, NEW k \in DOMAIN ms
    PROVE  Gives(ms, lo, k, f) <=> Gives(ms, hi, k, f)
<1>1. DOMAIN ms = 1..Len(ms) /\ Len(ms) \in Nat
  OBVIOUS
<1>2. \A j \in DOMAIN ms : lo < j /\ j <= hi => ms[j].snap[f] = None
  BY <1>1
<1>3. lo \in Nat /\ hi \in Nat /\ k \in Nat
  BY <1>1
<1>4. CASE k <= lo
  BY <1>1, <1>2, <1>3, <1>4 DEF Gives
<1>5. CASE lo < k /\ k <= hi
  BY <1>1, <1>2, <1>3, <1>5 DEF Gives
<1>6. CASE hi < k
  BY <1>1, <1>2, <1>3, <1>6 DEF Gives
<1> QED
  BY <1>3, <1>4, <1>5, <1>6

\* Where a jump leaves a file: what the target gives, or, where no snapshot lies on the way,
\* what it held, and both ends of the way give the same.
LEMMA JumpGives ==
    ASSUME NEW ms, NEW mo, History(ms, mo), mo \subseteq models,
           NEW to \in DOMAIN ms, NEW from \in DOMAIN ms, from # to, NEW f \in Files, NEW um \in BOOLEAN, ~um,
           NEW k \in DOMAIN ms, Gives(ms, to, k, f),
           NEW got, got = Jumped(ms, from, to, um)[f]
    PROVE  \/ got = ms[k].snap[f]
           \/ /\ got = content[f] /\ Gives(ms, from, k, f)
              /\ to < from => \A i \in to + 1..from : ms[i].snap[f] = None
<1>1. ms \in Seq(Messages) /\ DOMAIN ms = 1..Len(ms) /\ Len(ms) \in Nat /\ to \in Nat /\ from \in Nat
  BY DEF History
<1>2. CASE to < from
  <2> DEFINE touched == \E i \in to + 1..from : ms[i].snap[f] # None
  <2>1. (touched => got = ms[k].snap[f]) /\ (~touched => got = content[f])
    BY <1>2, JumpedBack
  <2>2. CASE touched
    BY <2>1, <2>2
  <2>3. CASE ~touched
    <3>1. Gives(ms, from, k, f)
      BY <1>1, <1>2, <2>3, UntouchedGives
    <3> QED
      BY <2>1, <2>3, <3>1
  <2> QED
    BY <2>2, <2>3
<1>3. CASE from < to
  <2> DEFINE touched == \E i \in from + 1..to : ms[i].snap[f] # None
  <2>1. (touched => got = ms[k].snap[f]) /\ (~touched => got = content[f])
    BY <1>3, JumpedForward
  <2>2. CASE touched
    BY <2>1, <2>2
  <2>3. CASE ~touched
    <3>1. Gives(ms, from, k, f)
      <4>1. from <= to /\ ~ \E i \in from + 1..to : ms[i].snap[f] # None
        BY <1>1, <1>3, <2>3
      <4> HIDE DEF touched
      <4> QED
        BY <1>1, <4>1, UntouchedGives
    <3>2. ~(to < from)
      BY <1>1, <1>3
    <3> QED
      BY <2>1, <2>3, <3>1, <3>2
  <2> QED
    BY <2>2, <2>3
<1> QED
  BY <1>1, <1>2, <1>3

LEMMA JumpLeaves ==
    ASSUME NEW ms, NEW mo, History(ms, mo), mo \subseteq models,
           NEW to \in DOMAIN ms, NEW from \in DOMAIN ms, from # to, NEW f \in Files, NEW um \in BOOLEAN, um => from < to,
           ~Recorded(ms, f)
    PROVE  Jumped(ms, from, to, um)[f] = content[f]
<1>1. ms \in Seq(Messages) /\ DOMAIN ms = 1..Len(ms) /\ Len(ms) \in Nat /\ to \in Nat /\ from \in Nat
  BY DEF History
<1>2. CASE to < from
  <2>1. ~ \E i \in to + 1..from : ms[i].snap[f] # None
    BY <1>1 DEF Recorded
  <2>2. ~um
    BY <1>1, <1>2
  <2> QED
    BY <1>2, <2>1, <2>2, JumpedBack
<1>3. CASE from < to
  <2>1. ~ \E i \in from + 1..to : ms[i].snap[f] # None
    BY <1>1 DEF Recorded
  <2> QED
    BY <1>3, <2>1, JumpedForward
<1> QED
  BY <1>1, <1>2, <1>3

\* A jump to a last checkpoint that holds all gives its modifications, or else its snapshots.
LEMMA JumpToLast ==
    ASSUME NEW ms, NEW mo, History(ms, mo), mo \subseteq models, NEW l, l = Len(ms), IsCheckpoint(ms[l]), HoldsAll(ms),
           NEW from \in DOMAIN ms, from < l, NEW f \in Files, NEW um \in BOOLEAN, Recorded(ms, f)
    PROVE  /\ ms[l].snap[f] # None
           /\ Info(ms[l], f, um) # None
           /\ Jumped(ms, from, l, um)[f] = Info(ms[l], f, um)
<1>1. ms \in Seq(Messages) /\ DOMAIN ms = 1..Len(ms) /\ Len(ms) \in Nat /\ l \in DOMAIN ms /\ from \in Nat /\ ms # << >>
  BY DEF History
<1>2. ms[l].snap[f] # None
  BY <1>1 DEF HoldsAll
<1>3. Info(ms[l], f, um) # None
  BY <1>2 DEF Info
<1>4. l \in from + 1..l
  BY <1>1
<1>5. \E i \in from + 1..l : ms[i].snap[f] # None
  BY <1>2, <1>4
<1> QED
  BY <1>1, <1>2, <1>3, <1>5, JumpedForward

\* A jump along the messages ms, which end in a checkpoint of all that is recorded.
Lands(ms, from, to) ==
    /\ History(ms, models) /\ ms # << >> /\ IsCheckpoint(ms[Len(ms)]) /\ HoldsAll(ms)
    /\ to \in DOMAIN ms /\ IsCheckpoint(ms[to]) /\ from \in DOMAIN ms /\ from # to
    /\ Consistent(ms, content, loose')
    /\ messages' = WithModifications(ms, from) /\ content' = Jumped(ms, from, to, to = Len(ms))
    /\ cp' = to /\ turn' = "idle" /\ models' = models /\ changes' = changes
    /\ loose' \in SUBSET Files /\ missed' \in SUBSET Files

LEMMA LandsLast ==
    ASSUME NEW ms, NEW from, NEW to, Lands(ms, from, to), to = Len(ms), NEW f \in Files, Recorded(ms, f)
    PROVE  ms[to].snap[f] # None /\ Info(ms[to], f, TRUE) # None /\ content'[f] = Info(ms[to], f, TRUE)
<1> DEFINE um == to = Len(ms)
<1>1. /\ History(ms, models) /\ models \subseteq models /\ from \in DOMAIN ms /\ from # to
      /\ content' = Jumped(ms, from, to, um) /\ HoldsAll(ms) /\ IsCheckpoint(ms[to]) /\ ms \in Seq(Messages)
  BY DEF Lands, History
<1>2. um = TRUE /\ from < to
  BY <1>1
<1> HIDE DEF um
<1>3. ms[to].snap[f] # None /\ Info(ms[to], f, um) # None /\ Jumped(ms, from, to, um)[f] = Info(ms[to], f, um)
  BY <1>1, <1>2, JumpToLast
<1> QED
  BY <1>1, <1>2, <1>3

LEMMA LandsFacts ==
    ASSUME Types, NEW ms, NEW from, NEW to, Lands(ms, from, to)
    PROVE  /\ ms \in Seq(Messages) /\ DOMAIN ms = 1..Len(ms) /\ Len(ms) \in DOMAIN ms
           /\ Len(ms) \in Nat /\ to \in Nat /\ from \in Nat
           /\ Modified(ms, messages', from)
           /\ \A f \in Files : ~Recorded(ms, f) => content'[f] = content[f]
           /\ to # Len(ms) => \A f \in Files, k \in DOMAIN ms : Gives(ms, to, k, f) =>
                \/ content'[f] = ms[k].snap[f]
                \/ /\ content'[f] = content[f] /\ Gives(ms, from, k, f)
                   /\ to < from => \A i \in to + 1..from : ms[i].snap[f] = None
           /\ to = Len(ms) => \A f \in Files : Recorded(ms, f) =>
                ms[to].snap[f] # None /\ Info(ms[to], f, TRUE) # None /\ content'[f] = Info(ms[to], f, TRUE)
           /\ content' \in [Files -> Versions]
<1> DEFINE um == to = Len(ms)
<1>1. ms \in Seq(Messages) /\ DOMAIN ms = 1..Len(ms) /\ Len(ms) \in DOMAIN ms /\ Len(ms) \in Nat /\ to \in Nat /\ from \in Nat
  BY DEF Lands, History
<1>2. /\ History(ms, models) /\ models \subseteq models /\ to \in DOMAIN ms /\ from \in DOMAIN ms /\ from # to
      /\ um \in BOOLEAN /\ content' = Jumped(ms, from, to, um) /\ (um => from < to) /\ HoldsAll(ms) /\ IsCheckpoint(ms[Len(ms)])
  BY <1>1 DEF Lands
<1> HIDE DEF um
<1>3. Modified(ms, messages', from)
  BY <1>1, <1>2, ModifiedFacts DEF Lands
<1>4. \A f \in Files : ~Recorded(ms, f) => content'[f] = content[f]
  BY <1>2, JumpLeaves
<1>5. ASSUME to # Len(ms), NEW f \in Files, NEW k \in DOMAIN ms, Gives(ms, to, k, f)
      PROVE  \/ content'[f] = ms[k].snap[f]
             \/ /\ content'[f] = content[f] /\ Gives(ms, from, k, f)
                /\ to < from => \A i \in to + 1..from : ms[i].snap[f] = None
  <2>1. ~um
    BY <1>5 DEF um
  <2> DEFINE got == content'[f]
  <2>2. got = Jumped(ms, from, to, um)[f]
    BY <1>2
  <2> HIDE DEF got
  <2> QED
    BY <1>2, <1>5, <2>1, <2>2, JumpGives DEF got
<1>6. ASSUME to = Len(ms), NEW f \in Files, Recorded(ms, f)
      PROVE  ms[to].snap[f] # None /\ Info(ms[to], f, TRUE) # None /\ content'[f] = Info(ms[to], f, TRUE)
  BY <1>6, LandsLast
<1>7. content' \in [Files -> Versions]
  <2>1. content' = [f \in Files |-> content'[f]]
    BY <1>2 DEF Jumped
  <2>2. content \in [Files -> Versions]
    BY DEF Types
  <2>3. \A i \in DOMAIN ms : ms[i].snap \in Snapshots /\ ms[i].mods \in Snapshots
    BY <1>1, MessageTypes
  <2>4. ASSUME NEW f \in Files PROVE content'[f] \in Versions
    <3>1. CASE ~Recorded(ms, f)
      BY <1>4, <2>2, <3>1
    <3>2. CASE Recorded(ms, f) /\ to = Len(ms)
      BY <1>2, <1>6, <2>3, <3>2 DEF Info, Snapshots
    <3>3. CASE Recorded(ms, f) /\ to # Len(ms)
      <4>1. PICK k \in DOMAIN ms : Gives(ms, to, k, f)
        BY <1>1, <3>3, GivenByOne
      <4>2. ms[k].snap[f] # None
        BY <4>1 DEF Gives
      <4>3. ms[k].snap[f] \in Versions
        BY <2>3, <4>2 DEF Snapshots
      <4> QED
        BY <1>5, <2>2, <3>3, <4>1, <4>3
    <3> QED
      BY <3>1, <3>2, <3>3
  <2> QED
    BY <2>1, <2>4
<1> QED
  BY <1>1, <1>3, <1>4, <1>5, <1>6, <1>7

StartGives(ms, from, to) ==
    \A f \in Files \ missed', k \in DOMAIN ms :
        (\E i \in DOMAIN ms : f \in ms[i].sure) /\ Gives(ms, from, k, f)
            /\ (to < from => \A i \in to + 1..from : ms[i].snap[f] = None)
        => content[f] = ms[k].snap[f]

\* What is left to show of a jump: where no snapshot lies on the way, the file holds what the
\* start gives; what the last checkpoint keeps of a file that it is sure of is what it was.
LEMMA Landed ==
    ASSUME Types, NEW ms, NEW from, NEW to, Lands(ms, from, to), end' \in [Files -> Versions] \cup {None},
           StartGives(ms, from, to), LastMods', EndKept'
    PROVE  IInv'
<1>1. /\ ms \in Seq(Messages) /\ DOMAIN ms = 1..Len(ms) /\ Len(ms) \in DOMAIN ms
      /\ Len(ms) \in Nat /\ to \in Nat /\ from \in Nat
      /\ Modified(ms, messages', from)
      /\ \A f \in Files : ~Recorded(ms, f) => content'[f] = content[f]
      /\ to # Len(ms) => \A f \in Files, k \in DOMAIN ms : Gives(ms, to, k, f) =>
           \/ content'[f] = ms[k].snap[f]
           \/ /\ content'[f] = content[f] /\ Gives(ms, from, k, f)
              /\ to < from => \A i \in to + 1..from : ms[i].snap[f] = None
      /\ to = Len(ms) => \A f \in Files : Recorded(ms, f) =>
           ms[to].snap[f] # None /\ Info(ms[to], f, TRUE) # None /\ content'[f] = Info(ms[to], f, TRUE)
      /\ content' \in [Files -> Versions]
  BY LandsFacts
<1>2. /\ messages' \in Seq(Messages) /\ Len(messages') = Len(ms) /\ DOMAIN messages' = DOMAIN ms
      /\ \A i \in DOMAIN ms :
          /\ IsCheckpoint(messages'[i]) <=> IsCheckpoint(ms[i])
          /\ messages'[i].snap = ms[i].snap /\ messages'[i].was = ms[i].was /\ messages'[i].sure = ms[i].sure
  BY <1>1 DEF Modified
<1>3. \A i \in DOMAIN ms : i # from => messages'[i].mods = ms[i].mods
  BY <1>1 DEF Modified
<1>4. /\ \A f, i, k : k \in DOMAIN ms => (Gives(messages', i, k, f) <=> Gives(ms, i, k, f))
      /\ \A f : Recorded(messages', f) <=> Recorded(ms, f)
  BY <1>1, ModifiedGives
<1>5. /\ History(ms, models) /\ ms # << >> /\ IsCheckpoint(ms[Len(ms)]) /\ HoldsAll(ms)
      /\ to \in DOMAIN ms /\ IsCheckpoint(ms[to]) /\ from \in DOMAIN ms /\ from # to
      /\ Consistent(ms, content, loose')
      /\ cp' = to /\ turn' = "idle" /\ models' = models /\ changes' = changes
      /\ loose' \in SUBSET Files /\ missed' \in SUBSET Files
  BY DEF Lands
<1>6. \A i \in DOMAIN ms : ms[i].sure \subseteq Files /\ ms[i].mods \in Snapshots
  BY <1>1, MessageTypes
<1>7. 1 \in DOMAIN ms /\ messages' # << >> /\ cp' # None
  <2>1. Len(ms) \in 1..Len(ms) /\ Len(ms) \in Nat /\ to \in Nat /\ DOMAIN ms = 1..Len(ms)
    BY <1>1
  <2>2. 1 \in DOMAIN ms
    BY <2>1
  <2>3. messages' # << >>
    BY <1>2, <2>2
  <2>4. cp' = to
    BY <1>5
  <2> QED
    BY <2>1, <2>2, <2>3, <2>4, CheckpointsAssumption
<1>8. History(messages', models')
  <2>1. \A i \in DOMAIN ms : MessageOK(messages'[i], models)
    BY <1>2, <1>5 DEF History, MessageOK
  <2>2. messages' \in Seq(Messages) /\ IsCheckpoint(messages'[1])
    BY <1>2, <1>5, <1>7 DEF History
  <2> QED
    BY <1>2, <1>5, <2>1, <2>2 DEF History
<1>9. Types'
  <2>1. content' \in [Files -> Versions] /\ changes' \in Versions /\ Opened \subseteq models' /\ models' \subseteq Files
    BY <1>1, <1>5 DEF Types
  <2>2. cp' \in DOMAIN messages' /\ IsCheckpoint(messages'[cp'])
    BY <1>2, <1>5
  <2> QED
    BY <1>5, <1>8, <2>1, <2>2 DEF Types
<1>10. Consistent(messages', content', loose')
  <2>1. SureIsGiven(messages')
    <3> SUFFICES ASSUME NEW i \in DOMAIN messages', NEW k \in DOMAIN messages', NEW f \in messages'[i].sure, Gives(messages', i, k, f)
                 PROVE  messages'[i].was[f] = messages'[k].snap[f]
      BY DEF SureIsGiven
    <3>1. i \in DOMAIN ms /\ k \in DOMAIN ms /\ f \in ms[i].sure /\ Gives(ms, i, k, f)
      BY <1>2, <1>4
    <3>2. ms[i].was[f] = ms[k].snap[f]
      BY <1>5, <3>1 DEF Consistent, SureIsGiven
    <3> QED
      BY <1>2, <3>1, <3>2
  <2>2. SureIsThere(messages', content')
    <3> SUFFICES ASSUME NEW i \in DOMAIN messages', NEW f \in messages'[i].sure, ~Recorded(messages', f)
                 PROVE  content'[f] = messages'[i].was[f]
      BY DEF SureIsThere
    <3>1. i \in DOMAIN ms /\ f \in ms[i].sure /\ ~Recorded(ms, f) /\ f \in Files
      BY <1>2, <1>4, <1>6
    <3>2. content[f] = ms[i].was[f]
      BY <1>5, <3>1 DEF Consistent, SureIsThere
    <3> QED
      BY <1>1, <1>2, <3>1, <3>2
  <2>3. LooseIsUnsure(messages', loose')
    BY <1>2, <1>4, <1>5 DEF Consistent, LooseIsUnsure
  <2>4. UnsureBefore(messages')
    <3> SUFFICES ASSUME NEW k \in DOMAIN messages', NEW f \in Files \ messages'[k].sure, IsCheckpoint(messages'[k]),
                        \A j \in DOMAIN messages' : j <= k => messages'[j].snap[f] = None,
                        NEW i \in DOMAIN messages', i < k
                 PROVE  f \notin messages'[i].sure
      BY DEF UnsureBefore
    <3>1. k \in DOMAIN ms /\ i \in DOMAIN ms /\ IsCheckpoint(ms[k]) /\ f \notin ms[k].sure
      BY <1>2
    <3>2. \A j \in DOMAIN ms : j <= k => ms[j].snap[f] = None
      BY <1>2
    <3>3. f \notin ms[i].sure
      BY <1>5, <3>1, <3>2 DEF Consistent, UnsureBefore
    <3> QED
      BY <1>2, <3>1, <3>3
  <2> QED
    BY <2>1, <2>2, <2>3, <2>4 DEF Consistent
<1>11. Turns'
  <2>1. IsCheckpoint(messages'[Len(messages')])
    BY <1>1, <1>2, <1>5
  <2>2. HoldsAll(messages')
    BY <1>1, <1>2, <1>4, <1>5 DEF HoldsAll
  <2> QED
    BY <1>5, <1>7, <2>1, <2>2 DEF Turns
<1>12. ASSUME to = Len(ms) PROVE Stands'
  <2>1. from # Len(ms) /\ messages'[to].mods = ms[to].mods /\ messages'[to].was = ms[to].was
        /\ messages'[to].sure = ms[to].sure
    BY <1>1, <1>2, <1>3, <1>5, <1>12
  <2>2. \A f \in messages'[to].sure \ missed' : messages'[to].mods[f] # None => messages'[to].mods[f] = messages'[to].was[f]
    BY <1>2, <1>7, <1>12 DEF LastMods
  <2>3. ASSUME NEW f \in ms[to].sure, f \notin missed' PROVE content'[f] = ms[to].was[f]
    <3>1. f \in Files
      BY <1>5, <1>6
    <3>2. CASE ~Recorded(ms, f)
      BY <1>1, <1>5, <2>3, <3>1, <3>2 DEF Consistent, SureIsThere
    <3>3. CASE Recorded(ms, f)
      <4>1. ms[to].snap[f] # None /\ content'[f] = Info(ms[to], f, TRUE)
        BY <1>1, <1>12, <3>1, <3>3
      <4>2. ms[to].snap[f] = ms[to].was[f]
        BY <1>5, <3>1, <4>1 DEF History, MessageOK, Snapped
      <4>3. ms[to].mods[f] # None => ms[to].mods[f] = ms[to].was[f]
        BY <2>1, <2>2, <2>3
      <4> QED
        BY <4>1, <4>2, <4>3 DEF Info
    <3> QED
      BY <3>2, <3>3
  <2>4. \A f \in messages'[cp'].sure \ missed' : content'[f] = messages'[cp'].was[f]
    BY <1>5, <2>1, <2>3
  <2>5. cp' = Len(messages')
    BY <1>2, <1>5, <1>12
  <2> QED
    BY <2>4, <2>5 DEF Stands
<1>13. ASSUME to # Len(ms) PROVE Stands'
  <2>1. ASSUME NEW f \in Files \ missed', NEW k \in DOMAIN messages', Sure(f)', Gives(messages', to, k, f)
        PROVE  content'[f] = messages'[k].snap[f]
    <3>1. k \in DOMAIN ms /\ Gives(ms, to, k, f) /\ messages'[k].snap = ms[k].snap /\ \E i \in DOMAIN ms : f \in ms[i].sure
      BY <1>2, <1>4, <2>1 DEF Sure
    <3>2. CASE content'[f] = ms[k].snap[f]
      BY <3>1, <3>2
    <3>3. CASE /\ content'[f] = content[f] /\ Gives(ms, from, k, f)
               /\ to < from => \A i \in to + 1..from : ms[i].snap[f] = None
      BY <3>1, <3>3 DEF StartGives
    <3> QED
      BY <1>1, <1>13, <3>1, <3>2, <3>3
  <2>2. cp' = to /\ cp' # Len(messages')
    BY <1>2, <1>5, <1>13
  <2> QED
    BY <2>1, <2>2 DEF Stands
<1> QED
  BY <1>9, <1>10, <1>11, <1>12, <1>13 DEF IInv

\* At the end of the thread, on its last checkpoint: what that is sure of is as it was.
LEMMA EndStands ==
    ASSUME IInv, messages # << >>, IsCheckpoint(messages[Len(messages)]), cp = None \/ cp = Len(messages),
           NEW f \in messages[Len(messages)].sure \ missed
    PROVE  content[f] = messages[Len(messages)].was[f]
<1> DEFINE l == Len(messages)
<1>1. /\ Types /\ Consistent(messages, content, loose) /\ messages \in Seq(Messages) /\ l \in DOMAIN messages
      /\ f \in messages[l].sure /\ f \in Files
  <2>1. Types /\ messages \in Seq(Messages) /\ l \in DOMAIN messages
    BY TypesFacts DEF IInv
  <2>2. messages[l].sure \subseteq Files
    BY <2>1, MessageTypes
  <2> QED
    BY <2>1, <2>2 DEF IInv
<1>2. CASE cp # None
  BY <1>2, CheckpointsAssumption DEF IInv, Stands
<1>3. CASE cp = None
  <2>1. EndHolds(messages, content, loose) /\ loose \cap messages[l].sure = {}
    BY <1>3 DEF IInv, Turns, Closes
  <2>2. CASE ~Recorded(messages, f)
    BY <1>1, <2>2 DEF Consistent, SureIsThere
  <2>3. CASE Recorded(messages, f)
    <3>1. PICK k \in DOMAIN messages : Gives(messages, l, k, f)
      <4>1. l \in Nat
        BY <1>1
      <4> HIDE DEF l
      <4> QED
        BY <1>1, <2>3, <4>1, GivenByOne
    <3>2. content[f] = messages[k].snap[f]
      BY <1>1, <2>1, <3>1 DEF EndHolds
    <3>3. messages[l].was[f] = messages[k].snap[f]
      BY <1>1, <3>1 DEF Consistent, SureIsGiven
    <3> QED
      BY <3>2, <3>3
  <2> QED
    BY <2>2, <2>3
<1> QED
  BY <1>2, <1>3

\* A jump away from the end, from its last checkpoint.
LEMMA JumpFromEnd ==
    ASSUME IInv, messages # << >>, IsCheckpoint(messages[Len(messages)]), cp = None \/ cp = Len(messages),
           NEW to, Lands(messages, Len(messages), to), missed' = missed, end' = content
    PROVE  IInv'
<1> DEFINE l == Len(messages)
<1>1. Types /\ content \in [Files -> Versions] /\ HoldsAll(messages)
  BY DEF IInv, Types, Lands
<1>2. /\ messages \in Seq(Messages) /\ DOMAIN messages = 1..l /\ l \in DOMAIN messages /\ l \in Nat /\ to \in Nat
      /\ Modified(messages, messages', l)
      /\ \A f \in Files : ~Recorded(messages, f) => content'[f] = content[f]
  BY <1>1, LandsFacts
<1>3. /\ Len(messages') = l /\ DOMAIN messages' = DOMAIN messages
      /\ messages'[l].snap = messages[l].snap /\ messages'[l].was = messages[l].was /\ messages'[l].sure = messages[l].sure
      /\ messages'[l].mods = CurrentSnapshots
  BY <1>2 DEF Modified
<1>4. \A f : Recorded(messages', f) <=> Recorded(messages, f)
  BY <1>2, ModifiedGives
<1>5. cp' = to /\ to \in 1..l /\ to # l
  BY <1>2 DEF Lands
<1>6. /\ \A f \in Files : CurrentSnapshots[f] = IF Recorded(messages, f) THEN content[f] ELSE None
      /\ \A f \in Files : content[f] # None
  BY <1>1, SnapshotFacts, CheckpointsAssumption DEF Versions
<1>7. ASSUME NEW f \in Files, NEW k \in DOMAIN messages, Gives(messages, l, k, f),
             to < l => \A i \in to + 1..l : messages[i].snap[f] = None
      PROVE  FALSE
  <2>1. messages[l].snap[f] # None
    BY <1>1, <1>7 DEF HoldsAll, Gives, Recorded
  <2>2. l \in to + 1..l /\ to < l
    BY <1>2, <1>5
  <2> QED
    BY <1>7, <2>1, <2>2
<1>8. LastMods'
  <2> SUFFICES ASSUME NEW f \in messages'[l].sure \ missed', messages'[l].mods[f] # None
               PROVE  messages'[l].mods[f] = messages'[l].was[f]
    BY <1>3 DEF LastMods
  <2>1. f \in messages[l].sure \ missed /\ f \in Files
    BY <1>2, <1>3, MessageTypes
  <2>2. messages'[l].mods[f] = content[f]
    BY <1>3, <1>6, <2>1
  <2>3. content[f] = messages[l].was[f]
    BY <2>1, EndStands
  <2> QED
    BY <1>3, <2>2, <2>3
<1>9. EndKept'
  <2>1. ASSUME NEW f \in Files
        PROVE  content[f] = IF Recorded(messages', f) THEN Info(messages'[l], f, TRUE) ELSE content'[f]
    BY <1>2, <1>3, <1>4, <1>6 DEF Info
  <2> QED
    BY <1>3, <1>5, <2>1 DEF EndKept
<1> HIDE DEF l
<1>10. StartGives(messages, l, to)
  BY <1>7 DEF StartGives
<1> QED
  BY <1>1, <1>8, <1>9, <1>10, Landed DEF l

\* A jump on from a checkpoint the user jumped to.
LEMMA JumpOn ==
    ASSUME IInv, cp # None, cp # Len(messages), NEW to, Lands(messages, cp, to), missed' = missed, end' = end
    PROVE  IInv'
<1> DEFINE l == Len(messages)
<1>1. Types /\ content \in [Files -> Versions] /\ end' \in [Files -> Versions] \cup {None}
  BY DEF IInv, Types
<1>2. /\ messages \in Seq(Messages) /\ DOMAIN messages = 1..l /\ l \in DOMAIN messages /\ l \in Nat /\ to \in Nat
      /\ Modified(messages, messages', cp)
      /\ \A f \in Files : ~Recorded(messages, f) => content'[f] = content[f]
      /\ to = l => \A f \in Files : Recorded(messages, f) => content'[f] = Info(messages[to], f, TRUE)
      /\ content' \in [Files -> Versions]
  <2> DEFINE from == cp
  <2>1. Lands(messages, from, to)
    OBVIOUS
  <2> HIDE DEF from, l
  <2>2. /\ messages \in Seq(Messages) /\ DOMAIN messages = 1..Len(messages) /\ Len(messages) \in DOMAIN messages
        /\ Len(messages) \in Nat /\ to \in Nat
        /\ Modified(messages, messages', from)
        /\ \A f \in Files : ~Recorded(messages, f) => content'[f] = content[f]
        /\ content' \in [Files -> Versions]
    BY <1>1, <2>1, LandsFacts
  <2>3. ASSUME to = l, NEW f \in Files, Recorded(messages, f) PROVE content'[f] = Info(messages[to], f, TRUE)
    BY <1>1, <2>1, <2>3, LandsLast DEF l
  <2> QED
    BY <2>2, <2>3 DEF from, l
<1>3. Len(messages') = l /\ DOMAIN messages' = DOMAIN messages
      /\ messages'[l].snap = messages[l].snap /\ messages'[l].was = messages[l].was /\ messages'[l].sure = messages[l].sure
      /\ messages'[l].mods = messages[l].mods
  BY <1>2 DEF Modified
<1>4. \A f : Recorded(messages', f) <=> Recorded(messages, f)
  BY <1>2, ModifiedGives
<1>5. cp' = to
  BY DEF Lands
<1>6. LastMods'
  BY <1>3 DEF IInv, LastMods
<1>7. EndKept'
  <2> SUFFICES ASSUME end # None
               PROVE  IF to = l THEN content' = end ELSE
                      \A f \in Files : end[f] = IF Recorded(messages', f) THEN Info(messages'[l], f, TRUE) ELSE content'[f]
    BY <1>3, <1>5 DEF EndKept
  <2>1. \A f \in Files : end[f] = IF Recorded(messages, f) THEN Info(messages[l], f, TRUE) ELSE content[f]
    BY DEF IInv, EndKept
  <2>2. CASE to = l
    <3>1. \A f \in Files : content'[f] = end[f]
      BY <1>2, <2>1, <2>2
    <3>2. end \in [Files -> Versions]
      BY <1>1
    <3> QED
      BY <1>2, <2>2, <3>1, <3>2
  <2>3. CASE to # l
    <3>1. \A f : Info(messages'[l], f, TRUE) = Info(messages[l], f, TRUE)
      BY <1>3 DEF Info
    <3> QED
      BY <1>2, <1>4, <2>1, <2>3, <3>1
  <2> QED
    BY <2>2, <2>3
<1>8. StartGives(messages, cp, to)
  BY DEF IInv, Stands, Sure, StartGives
<1> QED
  BY <1>1, <1>6, <1>7, <1>8, Landed

\* A jump from a thread that ends in no checkpoint adds one first: "add a temp checkpoint".
LEMMA JumpFromTemporary ==
    ASSUME IInv, messages # << >>, cp = None, ~IsCheckpoint(messages[Len(messages)]),
           NEW ms, ms = Append(messages, Checkpoint(CurrentSnapshots)),
           NEW to, Lands(ms, Len(messages), to), to \in DOMAIN messages,
           loose' = loose \ Snapped(CurrentSnapshots), missed' = missed \cup loose, end' = content
    PROVE  IInv'
<1> DEFINE n == Len(messages)
           l == Len(ms)
<1>1. /\ Types /\ content \in [Files -> Versions] /\ Consistent(messages, content, loose) /\ EndHolds(messages, content, loose)
      /\ messages \in Seq(Messages) /\ n \in Nat /\ DOMAIN messages = 1..n
  BY TypesFacts DEF IInv, Types, Turns
<1>2. /\ \A f \in Files : Recorded(ms, f) <=> Recorded(messages, f)
      /\ l = n + 1 /\ ms[l] = Checkpoint(CurrentSnapshots) /\ \A i \in DOMAIN messages : ms[i] = messages[i]
  BY <1>1, ThreadClosed
<1>3. /\ ms \in Seq(Messages) /\ DOMAIN ms = 1..l /\ l \in DOMAIN ms /\ l \in Nat /\ to \in Nat
      /\ \A f \in Files : ~Recorded(ms, f) => content'[f] = content[f]
  BY <1>1, LandsFacts
<1>4. /\ CurrentSnapshots \in Snapshots
      /\ \A f \in Files : CurrentSnapshots[f] = IF Recorded(messages, f) THEN content[f] ELSE None
      /\ \A f \in Files : content[f] # None
  BY <1>1, SnapshotFacts, CheckpointsAssumption DEF Versions
<1>5. ms[l].snap = CurrentSnapshots /\ ms[l].mods = Nothing /\ Checkpoint(CurrentSnapshots) \in Messages
  BY <1>1, <1>2, <1>4, CheckpointFacts
<1>6. n \in DOMAIN messages /\ n # l /\ messages' = ms /\ to # l /\ cp' = to
  <2>1. n \in DOMAIN messages
    BY <1>1
  <2>2. ~IsCheckpoint(ms[n])
    BY <1>2, <2>1
  <2>3. messages' = WithModifications(ms, n) /\ cp' = to
    BY DEF Lands
  <2>4. messages' = ms
    BY <2>2, <2>3 DEF WithModifications
  <2>5. n # l /\ to # l
    <3>1. n \in Nat /\ l = n + 1 /\ to \in 1..n
      BY <1>1, <1>2
    <3> HIDE DEF n, l
    <3> QED
      BY <3>1
  <2> QED
    BY <2>1, <2>3, <2>4, <2>5
<1>7. LastMods'
  BY <1>5, <1>6, NothingFacts, <1>3, MessageTypes DEF LastMods
<1>8. EndKept'
  <2>1. ASSUME NEW f \in Files
        PROVE  content[f] = IF Recorded(ms, f) THEN Info(ms[l], f, TRUE) ELSE content'[f]
    BY <1>2, <1>3, <1>4, <1>5, NothingFacts DEF Info
  <2> QED
    BY <1>6, <2>1 DEF EndKept
<1>9. ASSUME NEW f \in Files \ missed', NEW k \in DOMAIN ms, Gives(ms, n, k, f)
      PROVE  content[f] = ms[k].snap[f]
  <2>1. f \in Files \ loose
    OBVIOUS
  <2>2. /\ \A j \in DOMAIN messages : Gives(ms, n, j, f) <=> Gives(messages, n, j, f)
        /\ Gives(ms, n, n + 1, f) <=> CurrentSnapshots[f] # None /\ ~Recorded(messages, f)
    <3> DEFINE m == Checkpoint(CurrentSnapshots)
    <3>1. m \in Messages /\ m.snap = CurrentSnapshots /\ ms = Append(messages, m)
      BY <1>2, <1>5
    <3> HIDE DEF m, n
    <3>2. \A g \in Files :
            /\ \A i, j \in DOMAIN messages : Gives(Append(messages, m), i, j, g) <=> Gives(messages, i, j, g)
            /\ \A i \in DOMAIN messages :
                 Gives(Append(messages, m), i, Len(messages) + 1, g) <=> m.snap[g] # None /\ ~Recorded(messages, g)
      BY <1>1, <3>1, AppendedGives
    <3> QED
      BY <1>6, <3>1, <3>2 DEF n
  <2>3. k # n + 1
    BY <1>4, <1>9, <2>2
  <2>4. k \in DOMAIN messages
    BY <1>1, <1>2, <1>3, <2>3
  <2>5. content[f] = messages[k].snap[f]
    BY <1>1, <1>9, <2>1, <2>2, <2>4 DEF EndHolds
  <2> QED
    BY <1>2, <2>4, <2>5
<1> HIDE DEF n
<1>10. StartGives(ms, n, to)
  BY <1>9 DEF StartGives
<1>11. Lands(ms, n, to) /\ end' \in [Files -> Versions] \cup {None}
  BY <1>1 DEF n
<1> QED
  BY <1>1, <1>7, <1>8, <1>10, <1>11, Landed

\* A jump to the last checkpoint from the end of the thread only makes the thread stand on it.
LEMMA JumpToEnd ==
    ASSUME IInv, messages # << >>, IsCheckpoint(messages[Len(messages)]), cp = None, turn = "idle",
           cp' = Len(messages), UNCHANGED <<messages, content, end, loose, missed, models, turn, target, noted, changes>>
    PROVE  IInv'
<1> DEFINE l == Len(messages)
<1>1. Types /\ l \in DOMAIN messages /\ l \in Nat /\ end = None /\ missed = {} /\ HoldsAll(messages)
  BY TypesFacts DEF IInv, Turns
<1>2. cp' # None /\ cp' = Len(messages')
  BY <1>1, CheckpointsAssumption
<1>3. Types'
  BY <1>1, <1>2 DEF Types
<1>4. Consistent(messages, content, loose)'
  BY DEF IInv
<1>5. Turns'
  BY <1>1, <1>2 DEF Turns
<1>6. Stands'
  <2>1. \A f \in messages[l].sure \ missed : content[f] = messages[l].was[f]
    BY EndStands
  <2> QED
    BY <1>2, <2>1 DEF Stands
<1>7. LastMods'
  <2>1. messages[l].mods = Nothing
    BY DEF IInv, Turns, Closes
  <2>2. messages[l].sure \subseteq Files
    BY <1>1, TypesFacts, MessageTypes
  <2> QED
    BY <2>1, <2>2, NothingFacts DEF LastMods
<1>8. EndKept'
  BY <1>1 DEF EndKept
<1> QED
  BY <1>3, <1>4, <1>5, <1>6, <1>7, <1>8 DEF IInv

LEMMA JumpStep == ASSUME IInv, NEW to \in DOMAIN messages, Jump(to) PROVE IInv'
<1> DEFINE n == Len(messages)
<1>1. /\ turn = "idle" /\ IsCheckpoint(messages[to]) /\ Last(messages) = messages[n]
      /\ models' = models /\ turn' = turn /\ target' = target /\ noted' = noted /\ changes' = changes
  BY DEF Jump, Last
<1>2. /\ Types /\ messages \in Seq(Messages) /\ n \in Nat /\ DOMAIN messages = 1..n /\ n \in DOMAIN messages
      /\ messages # << >> /\ History(messages, models) /\ Consistent(messages, content, loose) /\ HoldsAll(messages)
      /\ loose \in SUBSET Files /\ missed \in SUBSET Files
  <2>1. Types /\ messages \in Seq(Messages) /\ n \in Nat /\ DOMAIN messages = 1..n
    BY TypesFacts DEF IInv
  <2>2. n \in DOMAIN messages /\ messages # << >>
    BY <2>1
  <2> QED
    BY <1>1, <2>1, <2>2 DEF IInv, Types, Turns
<1>3. CASE cp = None /\ ~IsCheckpoint(messages[n])
  <2> DEFINE ms == Append(messages, Checkpoint(CurrentSnapshots))
  <2>1. /\ loose' = loose \ Snapped(CurrentSnapshots) /\ missed' = missed \cup loose
        /\ IF to = n
           THEN messages' = ms /\ cp' = n /\ UNCHANGED <<content, end>>
           ELSE /\ messages' = WithModifications(ms, n) /\ content' = Jumped(ms, n, to, to = n)
                /\ cp' = to /\ end' = content
    BY <1>1, <1>3, Zenon DEF Jump, Standing
  <2>2. to # n
    BY <1>1, <1>3
  <2>3. EndHolds(messages, content, loose)
    BY <1>3 DEF IInv, Turns
  <2> HIDE DEF ms
  <2>4. /\ History(ms, models) /\ Consistent(ms, content, loose') /\ HoldsAll(ms) /\ ms \in Seq(Messages) /\ ms # << >>
        /\ Len(ms) = n + 1 /\ IsCheckpoint(ms[Len(ms)]) /\ \A i \in DOMAIN messages : ms[i] = messages[i]
    <3> DEFINE left == loose \ Snapped(CurrentSnapshots)
    <3>1. left = loose' /\ ms = Append(messages, Checkpoint(CurrentSnapshots))
      BY <2>1 DEF ms
    <3> HIDE DEF left
    <3> QED
      BY <1>2, <2>3, <3>1, ThreadClosed DEF left
  <2>5. /\ to \in DOMAIN ms /\ n \in DOMAIN ms /\ to # Len(ms) /\ IsCheckpoint(ms[to])
    <3>1. DOMAIN ms = 1..(n + 1) /\ to \in 1..n /\ to # n + 1
      BY <1>2, <2>4
    <3> QED
      BY <1>1, <1>2, <2>4, <3>1
  <2>6. (to = n) = (to = Len(ms))
    BY <2>2, <2>5
  <2>7. loose' \in SUBSET Files /\ missed' \in SUBSET Files
    BY <1>2, <2>1
  <2>8. /\ messages' = WithModifications(ms, n) /\ content' = Jumped(ms, n, to, to = Len(ms))
        /\ cp' = to /\ end' = content
    BY <2>1, <2>2, <2>6
  <2>9. Lands(ms, n, to)
    BY <1>1, <2>2, <2>4, <2>5, <2>7, <2>8 DEF Lands
  <2> QED
    BY <1>2, <1>3, <2>1, <2>8, <2>9, JumpFromTemporary DEF ms
<1>4. CASE ~(cp = None /\ ~IsCheckpoint(messages[n]))
  <2> DEFINE from == IF cp = None THEN n ELSE cp
  <2>1. /\ loose' = loose /\ missed' = missed
        /\ IF to = from
           THEN messages' = messages /\ cp' = from /\ UNCHANGED <<content, end>>
           ELSE /\ messages' = WithModifications(messages, from) /\ content' = Jumped(messages, from, to, to = n)
                /\ cp' = to /\ end' = IF cp = None \/ cp = n THEN content ELSE end
    BY <1>1, <1>4, Zenon DEF Jump, Standing
  <2>2. IsCheckpoint(messages[n])
    BY <1>4 DEF IInv, Turns
  <2>3. from \in DOMAIN messages
    BY <1>2 DEF Types
  <2>4. CASE to = from
    <3>1. CASE cp = None
      BY <1>1, <1>2, <2>1, <2>2, <2>4, <3>1, JumpToEnd
    <3>2. CASE cp # None
      <4>1. UNCHANGED vars
        BY <1>1, <2>1, <2>4, <3>2 DEF vars
      <4> QED
        BY <4>1 DEF vars, IInv, Types, Turns, Stands, LastMods, EndKept, Sure
    <3> QED
      BY <3>1, <3>2
  <2>5. CASE to # from
    <3> HIDE DEF from
    <3>1. Lands(messages, from, to)
      BY <1>1, <1>2, <2>1, <2>2, <2>3, <2>5 DEF Lands
    <3>2. CASE cp = None \/ cp = n
      <4>1. from = Len(messages) /\ end' = content
        BY <2>1, <2>5, <3>2 DEF from
      <4>2. Lands(messages, Len(messages), to)
        BY <3>1, <4>1
      <4> QED
        BY <1>2, <2>1, <2>2, <3>2, <4>1, <4>2, JumpFromEnd
    <3>3. CASE cp # None /\ cp # n
      <4>1. from = cp /\ end' = end
        BY <2>1, <2>5, <3>3 DEF from
      <4>2. Lands(messages, cp, to)
        BY <3>1, <4>1
      <4> QED
        BY <2>1, <3>3, <4>1, <4>2, JumpOn
    <3> QED
      BY <3>2, <3>3
  <2> QED
    BY <2>4, <2>5
<1> QED
  BY <1>3, <1>4

-----------------------------------------------------------------------------
\* The invariant holds, and what it says of the thread.

LEMMA InitEstablishesIInv == ASSUME Init PROVE IInv
<1>1. /\ messages = << >> /\ cp = None /\ content = [f \in Files |-> 0] /\ models = Opened
      /\ turn = "idle" /\ changes = 0 /\ loose = {} /\ missed = {} /\ end = None
  BY DEF Init
<1>2. \A i : i \notin DOMAIN messages
  BY <1>1
<1>3. messages \in Seq(Messages)
  BY <1>1
<1>4. 0 \in Versions /\ Opened \subseteq Files
  BY CheckpointsAssumption DEF Versions
<1>5. Types
  BY <1>1, <1>2, <1>3, <1>4 DEF Types, History
<1>6. Consistent(messages, content, loose)
  BY <1>1, <1>2 DEF Consistent, SureIsGiven, SureIsThere, LooseIsUnsure, UnsureBefore
<1>7. Turns
  BY <1>1, <1>2 DEF Turns, EndHolds, Closes, HoldsAll
<1> QED
  BY <1>1, <1>5, <1>6, <1>7 DEF IInv, Stands, LastMods, EndKept

LEMMA NextKeepsIInv == ASSUME IInv, [Next]_vars PROVE IInv'
<1>1. CASE Next
  BY <1>1, SendStep, EndTurnStep, AbortToolStep, ApproveStep, RejectStep, ToolEditStep, ToolFailsStep, AskStep, TypeStep,
     EditMessageStep, JumpStep DEF Next
<1>2. CASE UNCHANGED vars
  BY <1>2 DEF vars, IInv, Types, Turns, Stands, LastMods, EndKept, Sure
<1> QED
  BY <1>1, <1>2

LEMMA IInvImplies == ASSUME IInv PROVE StandsExactly /\ RoundTrip
<1>1. Types /\ Consistent(messages, content, loose)
  BY DEF IInv
<1>2. /\ messages \in Seq(Messages) /\ Len(messages) \in Nat /\ DOMAIN messages = 1..Len(messages)
      /\ \A i \in DOMAIN messages : messages[i] \in Messages /\ MessageOK(messages[i], models)
  BY <1>1, TypesFacts
<1>3. TypeOK
  <2>1. ASSUME NEW i \in DOMAIN messages
        PROVE  /\ messages[i].snap \in Snapshots /\ messages[i].mods \in Snapshots
               /\ \A f \in Snapped(messages[i].snap) : messages[i].snap[f] = messages[i].was[f]
    <3>1. messages[i].snap \in Snapshots /\ messages[i].mods \in Snapshots /\ MessageOK(messages[i], models)
      BY <1>2, MessageTypes
    <3>2. \A f \in Snapped(messages[i].snap) : messages[i].snap[f] = messages[i].was[f]
      BY <3>1, NothingFacts DEF MessageOK, Snapped
    <3> QED
      BY <3>1, <3>2
  <2> QED
    BY <1>1, <2>1 DEF Types, History, TypeOK
<1>4. ASSUME cp # None, NEW f \in messages[cp].sure \ missed PROVE content[f] = messages[cp].was[f]
  <2>1. cp \in DOMAIN messages /\ messages[cp].sure \subseteq Files /\ cp \in Nat
    BY <1>2, <1>4, <1>1, MessageTypes DEF Types
  <2>2. CASE cp = Len(messages)
    BY <1>4, <2>2 DEF IInv, Stands
  <2>3. CASE cp # Len(messages) /\ Recorded(messages, f)
    <3>1. PICK k \in DOMAIN messages : Gives(messages, cp, k, f)
      BY <1>2, <1>4, <2>1, <2>3, GivenByOne
    <3>2. Sure(f)
      BY <1>4, <2>1 DEF Sure
    <3>3. content[f] = messages[k].snap[f]
      BY <1>4, <2>1, <2>3, <3>1, <3>2 DEF IInv, Stands
    <3>4. messages[cp].was[f] = messages[k].snap[f]
      BY <1>1, <1>4, <2>1, <3>1 DEF Consistent, SureIsGiven
    <3> QED
      BY <3>3, <3>4
  <2>4. CASE ~Recorded(messages, f)
    BY <1>1, <1>4, <2>1, <2>4 DEF Consistent, SureIsThere
  <2> QED
    BY <2>2, <2>3, <2>4
<1>5. RoundTrip
  <2>1. end # None => cp # None
    BY DEF IInv, Turns
  <2> QED
    BY <2>1 DEF IInv, EndKept, RoundTrip
<1> QED
  BY <1>3, <1>4, <1>5 DEF StandsExactly

LEMMA AlwaysIInv == Spec => []IInv
<1>1. Init => IInv
  BY InitEstablishesIInv
<1>2. IInv /\ [Next]_vars => IInv'
  BY NextKeepsIInv
<1> QED
  BY <1>1, <1>2, PTL DEF Spec

\* Standing on a checkpoint, every file holds what it held when the checkpoint was added,
\* whatever jumps led there and however the thread was cut, unless something beside the
\* recorded edits changed it (jumpToCheckpointBeforeMessageIdx).
THEOREM JumpsGiveBack == Spec => []StandsExactly
<1>1. IInv => StandsExactly
  BY IInvImplies
<1> QED
  BY <1>1, AlwaysIInv, PTL

\* Back at the end of the thread after any jumps, all is as the user left it.
THEOREM JumpsComeBack == Spec => []RoundTrip
<1>1. IInv => RoundTrip
  BY IInvImplies
<1> QED
  BY <1>1, AlwaysIInv, PTL
=============================================================================
