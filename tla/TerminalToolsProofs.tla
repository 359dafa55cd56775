------------------------ MODULE TerminalToolsProofs -------------------------
(***************************************************************************)
(* What the agent's terminals promise, for every set of tool calls: the    *)
(* types, that the first persistent terminal is listed only until its exit *)
(* is handled under its own title, and that no hidden terminal is left     *)
(* behind.                                                                 *)
(***************************************************************************)
EXTENDS TerminalTools, TLAPS, FiniteSetTheorems, SequenceTheorems

Kinds == {None, "open", "kill", "temporary", "persistent"}
Stages == {"idle", "creating", "capability", "sending", "waiting", "answered", "failed"}
Running == {"capability", "sending", "waiting"}

CallRecords ==
    [at : Stages, kind : Kinds, id : Ids \cup {0}, terminal : Calls \cup {None}, listens : BOOLEAN,
     reason : {None, "done", "timeout"}, interrupted : BOOLEAN,
     fresh : BOOLEAN]

Types ==
    /\ persistent \in [Ids -> Calls \cup {None}]
    /\ temporary \subseteq Calls /\ open \subseteq Calls /\ ready \subseteq Calls
    /\ watched \subseteq Calls /\ misnamed \subseteq Calls
    /\ titleId \in [Calls -> Ids \cup {0}]
    /\ typed \in [Calls -> Seq(Calls)]
    /\ call \in [Calls -> CallRecords]

\* A call that creates a persistent terminal has an id for it.
CreatesWithId ==
    \A c \in Calls : call[c].at = "creating" /\ call[c].kind = "open" => call[c].id \in Ids

\* A command that runs has a terminal: that of a temporary one is its own, and known
\* as long as it is open.
RunsSomewhere ==
    \A c \in Calls : call[c].at \in Running =>
        /\ call[c].kind \in {"temporary", "persistent"} /\ call[c].terminal \in Calls
        /\ call[c].kind = "temporary" => call[c].terminal = c /\ (c \in open => c \in temporary)

\* Only a live shell has commands.
TypedIsOpen == \A t \in Calls : typed[t] # << >> => t \in open

\* A listed terminal was opened by a call that is over, under the id it took.
ListedById ==
    \A i \in Ids : persistent[i] # None =>
        call[persistent[i]].at = "answered" /\ call[persistent[i]].id = i

\* A terminal is not there before its call created it, and only a running command is
\* interrupted.
NotBefore ==
    \A c \in Calls : call[c].at \in {"idle", "creating"} => c \notin open /\ ~call[c].interrupted

IInv ==
    /\ Types /\ CreatesWithId /\ RunsSomewhere /\ TypedIsOpen
    /\ ListedById /\ NotBefore /\ FirstUntilExit /\ NoHiddenLeft

-----------------------------------------------------------------------------
\* A free id.

LEMMA IdsAreNaturals ==
    /\ Cardinality(Calls) \in Nat /\ Ids \subseteq Nat \ {0}
    /\ IsFiniteSet(Ids) /\ Cardinality(Ids) = Cardinality(Calls)
<1>1. Cardinality(Calls) \in Nat
  BY CallsAssumption, FS_CardinalityType
<1>2. IsFiniteSet(1..Cardinality(Calls))
      /\ Cardinality(1..Cardinality(Calls)) =
            IF 1 > Cardinality(Calls) THEN 0 ELSE Cardinality(Calls) - 1 + 1
  BY <1>1, FS_Interval
<1> QED
  BY <1>1, <1>2 DEF Ids

\* A set of natural numbers that is not empty has a least element: of the intervals
\* up to its elements one is minimal.
LEMMA LeastNat ==
    ASSUME NEW T \in SUBSET Nat, T # {}
    PROVE  \E x \in T : \A y \in T : x <= y
<1> DEFINE U == {1..n : n \in T}
<1>1. IsWellFoundedOn(StrictSubsetOrdering(Nat), FiniteSubsetsOf(Nat))
  BY FS_StrictSubsetOrderingWellFounded
<1>2. U \subseteq FiniteSubsetsOf(Nat) /\ U # {}
  <2>1. \A n \in Nat : IsFiniteSet(1..n)
    BY FS_Interval
  <2>2. \A n \in T : 1..n \in SUBSET Nat /\ IsFiniteSet(1..n)
    BY <2>1, SMT
  <2> QED
    BY <2>2 DEF FiniteSubsetsOf
<1>3. PICK u \in U : \A v \in U : ~ (<<v, u>> \in StrictSubsetOrdering(Nat))
  <2> HIDE DEF U
  <2> QED
    BY <1>1, <1>2, WFMin
<1>4. PICK x \in T : u = 1..x
  BY <1>3
<1>5. ASSUME NEW y \in T PROVE x <= y
  <2> SUFFICES ASSUME y < x PROVE FALSE
    BY SMT
  <2>1. 1..y \in U /\ 1..y \subseteq Nat /\ 1..x \subseteq Nat
    BY SMT
  <2>2. x \in 1..x /\ x \notin 1..y /\ 1..y \subseteq 1..x
    BY SMT
  <2>3. <<1..y, 1..x>> \in StrictSubsetOrdering(Nat)
    BY <2>1, <2>2 DEF StrictSubsetOrdering
  <2> QED
    BY <2>1, <2>3, <1>3, <1>4
<1> QED
  BY <1>5

\* While a call has not opened its terminal, fewer terminals than calls are listed.
LEMMA NewIdIsFree ==
    ASSUME Types, ListedById, NEW c \in Calls, call[c].at = "idle"
    PROVE  NewId \in Ids /\ NewId \notin Listed
<1>1. \E i \in Ids : i \notin Listed
  <2> SUFFICES ASSUME \A i \in Ids : i \in Listed PROVE FALSE
    OBVIOUS
  <2>1. \A i \in Ids : persistent[i] \in Calls \ {c}
    BY DEF Types, Listed, ListedById
  <2>2. persistent \in [Ids -> Calls \ {c}]
    BY <2>1 DEF Types
  <2>3. IsFiniteSet(Calls \ {c}) /\ Cardinality(Calls \ {c}) = Cardinality(Calls) - 1
    BY CallsAssumption, FS_RemoveElement
  <2>4. Cardinality(Calls \ {c}) < Cardinality(Ids)
    BY <2>3, IdsAreNaturals
  <2>5. PICK i, j \in Ids : i # j /\ persistent[i] = persistent[j]
    <3> DEFINE S == Ids
               T == Calls \ {c}
    <3>1. IsFiniteSet(S) /\ IsFiniteSet(T) /\ Cardinality(T) < Cardinality(S) /\ persistent \in [S -> T]
      BY <2>2, <2>3, <2>4, IdsAreNaturals
    <3> HIDE DEF S, T
    <3>2. \E x, y \in S : x # y /\ persistent[x] = persistent[y]
      BY <3>1, FS_PigeonHole
    <3> QED
      BY <3>2 DEF S
  <2>6. call[persistent[i]].id = i /\ call[persistent[j]].id = j
    BY <2>5 DEF Listed, ListedById
  <2> QED
    BY <2>5, <2>6
<1> DEFINE Free == Ids \ Listed
<1>2. PICK i \in Free : \A j \in Free : i <= j
  <2>1. Free \in SUBSET Nat /\ Free # {}
    BY <1>1, IdsAreNaturals
  <2> HIDE DEF Free
  <2> QED
    BY <2>1, LeastNat
<1>3. \A j \in 1..(i - 1) : j \in Listed
  <2> SUFFICES ASSUME NEW j \in 1..(i - 1), j \notin Listed PROVE FALSE
    OBVIOUS
  <2>1. i \in 1..Cardinality(Calls)
    BY <1>2 DEF Ids
  <2>2. j \in Ids /\ j < i /\ i \in Nat /\ j \in Nat
    BY <2>1, IdsAreNaturals DEF Ids
  <2> QED
    BY <1>2, <2>2
<1>4. \E k \in Ids : k \notin Listed /\ \A j \in 1..(k - 1) : j \in Listed
  BY <1>2, <1>3
<1> QED
  BY <1>4 DEF NewId

-----------------------------------------------------------------------------
LEMMA InitInv == Init => IInv
<1> SUFFICES ASSUME Init PROVE IInv
  OBVIOUS
<1>1. Types
  BY DEF Init, Types, CallRecords, Idle, Stages, Kinds
<1>2. CreatesWithId /\ RunsSomewhere /\ TypedIsOpen /\ ListedById /\ NotBefore
  BY CallsAssumption DEF Init, CreatesWithId, RunsSomewhere, TypedIsOpen, ListedById, NotBefore, Idle, Running
<1>3. FirstUntilExit /\ NoHiddenLeft
  BY DEF Init, FirstUntilExit, NoHiddenLeft, Listed
<1> QED
  BY <1>1, <1>2, <1>3 DEF IInv

\* Whatever terminals end, no command is left in them.
LEMMA ClosedKeeps ==
    ASSUME IInv, NEW terminals, Closed(terminals)
    PROVE  /\ open' = open \ terminals /\ typed' \in [Calls -> Seq(Calls)] /\ TypedIsOpen'
           /\ UNCHANGED <<ready, watched, titleId, misnamed>>
  BY DEF Closed, exits, IInv, Types, TypedIsOpen

LEMMA DelistedKeeps ==
    ASSUME IInv, NEW ids, Delisted(ids)
    PROVE  /\ persistent' \in [Ids -> Calls \cup {None}]
           /\ \A i \in Ids : persistent'[i] # None => persistent'[i] = persistent[i] /\ i \notin ids
  BY DEF Delisted, IInv, Types

\* The handler of an exit leaves the first terminal listed only if it is another one,
\* or bears another title.
LEMMA HandleExitKeeps ==
    ASSUME IInv, NEW t \in Calls, HandleExit(t)
    PROVE  /\ watched' \subseteq Calls /\ misnamed' \subseteq Calls
           /\ UNCHANGED <<temporary, titleId>>
           /\ persistent' \in [Ids -> Calls \cup {None}]
           /\ \A i \in Ids : persistent'[i] # None => persistent'[i] = persistent[i]
           /\ FirstUntilExit'
<1>1. /\ watched' = watched \ {t} /\ misnamed' = IF titleId[t] = 1 THEN misnamed ELSE misnamed \cup {t}
      /\ UNCHANGED <<temporary, titleId>> /\ Delisted({IdOfTitle(t)})
  BY DEF HandleExit
<1>2. /\ persistent' \in [Ids -> Calls \cup {None}]
      /\ \A i \in Ids : persistent'[i] # None => persistent'[i] = persistent[i] /\ i # IdOfTitle(t)
  BY <1>1, DelistedKeeps
<1>3. FirstUntilExit'
  <2> SUFFICES ASSUME 1 \in Ids, persistent'[1] # None
               PROVE  persistent'[1] \in watched' \cup misnamed'
    BY DEF FirstUntilExit, Listed
  <2>1. persistent'[1] = persistent[1] /\ persistent[1] \in watched \cup misnamed /\ IdOfTitle(t) # 1
    BY <1>2 DEF IInv, FirstUntilExit, Listed
  <2> QED
    BY <1>1, <2>1 DEF IdOfTitle
<1> QED
  BY <1>1, <1>2, <1>3 DEF IInv, Types

\* A step that moves call c to record r and changes the terminals at most by ending
\* some of them and taking some from the list.
LEMMA CallMoves ==
    ASSUME IInv, NEW c \in Calls, NEW r \in CallRecords,
           call' = [call EXCEPT ![c] = r], call[c].at # "answered",
           UNCHANGED <<ready, watched, titleId, misnamed>>, temporary' \subseteq temporary,
           open' \subseteq open, typed' \in [Calls -> Seq(Calls)],
           persistent' \in [Ids -> Calls \cup {None}],
           \A i \in Ids : persistent'[i] # None => persistent'[i] = persistent[i],
           TypedIsOpen',
           \A d \in Calls \ {c} : d \in open' => (d \in temporary => d \in temporary'),
           r.at = "creating" /\ r.kind = "open" => r.id \in Ids,
           r.at \in Running =>
                /\ r.kind \in {"temporary", "persistent"} /\ r.terminal \in Calls
                /\ r.kind = "temporary" => r.terminal = c /\ (c \in open' => c \in temporary'),
           r.at \in {"idle", "creating"} => c \notin open' /\ ~r.interrupted,
           r.kind = "temporary" /\ (r.interrupted \/ r.at \in Settled) => c \notin open'
    PROVE  IInv'
<1>1. /\ call \in [Calls -> CallRecords] /\ call' \in [Calls -> CallRecords]
      /\ call'[c] = r /\ \A d \in Calls \ {c} : call'[d] = call[d]
  BY DEF IInv, Types
<1>2. Types'
  BY <1>1 DEF IInv, Types
<1>3. CreatesWithId'
  BY <1>1 DEF IInv, CreatesWithId
<1>4. RunsSomewhere'
  <2> SUFFICES ASSUME NEW d \in Calls, call'[d].at \in Running
               PROVE  /\ call'[d].kind \in {"temporary", "persistent"} /\ call'[d].terminal \in Calls
                      /\ call'[d].kind = "temporary" =>
                            call'[d].terminal = d /\ (d \in open' => d \in temporary')
    BY DEF RunsSomewhere
  <2>1. CASE d = c
    BY <1>1, <2>1
  <2>2. CASE d # c
    BY <1>1, <2>2 DEF IInv, RunsSomewhere
  <2> QED
    BY <2>1, <2>2
<1>5. ListedById'
  <2> SUFFICES ASSUME NEW i \in Ids, persistent'[i] # None
               PROVE  call'[persistent'[i]].at = "answered" /\ call'[persistent'[i]].id = i
    BY DEF ListedById
  <2>1. persistent'[i] = persistent[i] /\ persistent[i] \in Calls
    BY DEF IInv, Types
  <2>2. call[persistent[i]].at = "answered" /\ call[persistent[i]].id = i
    BY <2>1 DEF IInv, ListedById
  <2> QED
    BY <1>1, <2>1, <2>2
<1>6. NotBefore'
  BY <1>1 DEF IInv, NotBefore
<1>7. NoHiddenLeft'
  BY <1>1 DEF IInv, NoHiddenLeft
<1>8. FirstUntilExit'
  BY DEF IInv, FirstUntilExit, Listed
<1> QED
  BY <1>2, <1>3, <1>4, <1>5, <1>6, <1>7, <1>8 DEF IInv

\* A step of a terminal, which may close it, give it a title or take it off the list.
LEMMA TerminalMoves ==
    ASSUME IInv, UNCHANGED <<temporary, call>>, open' \subseteq open, ready' \subseteq Calls,
           watched' \subseteq Calls, misnamed' \subseteq Calls,
           titleId' \in [Calls -> Ids \cup {0}], typed' \in [Calls -> Seq(Calls)],
           persistent' \in [Ids -> Calls \cup {None}],
           \A i \in Ids : persistent'[i] # None => persistent'[i] = persistent[i],
           TypedIsOpen', FirstUntilExit'
    PROVE  IInv'
<1>1. Types' /\ CreatesWithId' /\ NotBefore' /\ NoHiddenLeft' /\ RunsSomewhere'
  BY DEF IInv, Types, CreatesWithId, NotBefore, NoHiddenLeft, RunsSomewhere
<1>2. ListedById'
  BY DEF IInv, ListedById
<1> QED
  BY <1>1, <1>2 DEF IInv

-----------------------------------------------------------------------------
\* The steps, one lemma each.

LEMMA SameTerminals ==
    ASSUME IInv, UNCHANGED <<tables, shells, exits>>
    PROVE  TypedIsOpen'
  BY DEF IInv, TypedIsOpen, shells

LEMMA OpenPersistentInv == ASSUME IInv, NEW c \in Calls, OpenPersistent(c) PROVE IInv'
<1> DEFINE r == [Idle EXCEPT !.at = "creating", !.kind = "open", !.id = NewId]
<1>1. NewId \in Ids
  BY NewIdIsFree DEF IInv, OpenPersistent
<1>2. r \in CallRecords /\ r.at = "creating" /\ r.kind = "open" /\ r.id = NewId /\ ~r.interrupted
  BY <1>1 DEF Idle, CallRecords, Stages, Kinds
<1>3. call' = [call EXCEPT ![c] = r] /\ UNCHANGED <<tables, shells, exits>> /\ call[c].at = "idle"
  BY DEF OpenPersistent
<1>4. c \notin open
  BY <1>3 DEF IInv, NotBefore
<1> HIDE DEF r
<1>5. TypedIsOpen'
  BY <1>3, SameTerminals
<1> QED
  BY <1>1, <1>2, <1>3, <1>4, <1>5, CallMoves DEF IInv, Types, Running, Settled, tables, shells, exits

\* What a call is when only its stage changes.
LEMMA MovedRecord ==
    ASSUME Types, NEW c \in Calls, NEW at \in Stages
    PROVE  LET r == [call[c] EXCEPT !.at = at] IN
           /\ r \in CallRecords /\ r.at = at /\ r.kind = call[c].kind /\ r.id = call[c].id
           /\ r.terminal = call[c].terminal /\ r.interrupted = call[c].interrupted
<1>1. call[c] \in CallRecords
  BY DEF Types
<1> QED
  BY <1>1 DEF CallRecords

\* What a command is when it is over.
LEMMA ReturnedRecord ==
    ASSUME Types, NEW c \in Calls, NEW at \in Settled, Returns(c, at)
    PROVE  \E r \in CallRecords :
               /\ call' = [call EXCEPT ![c] = r] /\ r.at = at
               /\ r.kind = call[c].kind /\ r.interrupted = call[c].interrupted
<1> DEFINE r == [Idle EXCEPT !.at = at, !.kind = call[c].kind, !.interrupted = call[c].interrupted]
<1>1. call[c] \in CallRecords
  BY DEF Types
<1>2. /\ r \in CallRecords /\ r.at = at /\ r.kind = call[c].kind
      /\ r.interrupted = call[c].interrupted
  BY <1>1 DEF CallRecords, Idle, Settled, Stages
<1>3. call' = [call EXCEPT ![c] = r]
  BY DEF Returns
<1> HIDE DEF r
<1> QED
  BY <1>2, <1>3

\* The creation of a terminal by call c, which moves to record r.
LEMMA CreatedInv ==
    ASSUME IInv, NEW c \in Calls, call[c].at = "creating", NEW r \in CallRecords,
           call' = [call EXCEPT ![c] = r], r.kind = call[c].kind, r.id = call[c].id, ~r.interrupted,
           Created(c),
           \/ /\ call[c].kind = "open" /\ r.at = "answered"
              /\ persistent' = [persistent EXCEPT ![call[c].id] = c] /\ UNCHANGED temporary
           \/ /\ call[c].kind = "temporary" /\ r.at = "capability" /\ r.terminal = c
              /\ UNCHANGED persistent /\ temporary' = temporary \cup {c}
    PROVE  IInv'
<1>1. /\ call \in [Calls -> CallRecords] /\ call' \in [Calls -> CallRecords]
      /\ call'[c] = r /\ \A d \in Calls \ {c} : call'[d] = call[d]
  BY DEF IInv, Types
<1>2. /\ open' = open \cup {c} /\ watched' = watched \cup {c}
      /\ UNCHANGED <<ready, typed, titleId, misnamed>>
  BY DEF Created
<1>3. call[c].kind = "open" => call[c].id \in Ids
  BY DEF IInv, CreatesWithId
<1>4. /\ persistent' \in [Ids -> Calls \cup {None}]
      /\ \A i \in Ids : \/ persistent'[i] = persistent[i]
                        \/ persistent'[i] = c /\ i = call[c].id /\ r.at = "answered"
  BY <1>3 DEF IInv, Types
<1>5. Types'
  BY <1>1, <1>2, <1>4 DEF IInv, Types
<1>6. CreatesWithId' /\ NotBefore' /\ TypedIsOpen'
  BY <1>1, <1>2 DEF IInv, CreatesWithId, NotBefore, TypedIsOpen
<1>7. RunsSomewhere'
  BY <1>1, <1>2 DEF IInv, RunsSomewhere, Running
<1>8. ListedById'
  <2> SUFFICES ASSUME NEW i \in Ids, persistent'[i] # None
               PROVE  call'[persistent'[i]].at = "answered" /\ call'[persistent'[i]].id = i
    BY DEF ListedById
  <2>1. CASE persistent'[i] = persistent[i]
    <3>1. /\ persistent[i] \in Calls /\ call[persistent[i]].at = "answered"
          /\ call[persistent[i]].id = i
      BY <2>1 DEF IInv, Types, ListedById
    <3> QED
      BY <1>1, <2>1, <3>1
  <2>2. CASE persistent'[i] = c /\ i = call[c].id /\ r.at = "answered"
    BY <1>1, <2>2
  <2> QED
    BY <1>4, <2>1, <2>2
<1>9. FirstUntilExit'
  BY <1>2, <1>4 DEF IInv, FirstUntilExit, Listed
<1>10. NoHiddenLeft'
  BY <1>1, <1>2 DEF IInv, NoHiddenLeft, Settled
<1> QED
  BY <1>5, <1>6, <1>7, <1>8, <1>9, <1>10 DEF IInv

LEMMA PersistentOpenedInv == ASSUME IInv, NEW c \in Calls, PersistentOpened(c) PROVE IInv'
<1> DEFINE r == [call[c] EXCEPT !.at = "answered"]
<1>1. /\ r \in CallRecords /\ r.at = "answered" /\ r.kind = call[c].kind /\ r.id = call[c].id
      /\ r.interrupted = call[c].interrupted
  BY MovedRecord DEF IInv, Stages
<1>2. call' = [call EXCEPT ![c] = r]
  BY DEF PersistentOpened, Moves, IInv, Types
<1>3. call[c].at = "creating" /\ ~call[c].interrupted
  BY DEF PersistentOpened, IInv, NotBefore
<1> HIDE DEF r
<1> QED
  BY <1>1, <1>2, <1>3, CreatedInv DEF PersistentOpened

LEMMA TemporaryCreatedInv == ASSUME IInv, NEW c \in Calls, TemporaryCreated(c) PROVE IInv'
<1> DEFINE r == [call[c] EXCEPT !.at = "capability", !.terminal = c]
<1>1. call \in [Calls -> CallRecords] /\ call[c] \in CallRecords
  BY DEF IInv, Types
<1>2. /\ r \in CallRecords /\ r.at = "capability" /\ r.kind = call[c].kind /\ r.id = call[c].id
      /\ r.terminal = c /\ r.interrupted = call[c].interrupted
  BY <1>1 DEF CallRecords, Stages
<1>3. call' = [call EXCEPT ![c] = r]
  BY <1>1 DEF TemporaryCreated
<1>4. call[c].at = "creating" /\ ~call[c].interrupted
  BY DEF TemporaryCreated, IInv, NotBefore
<1> HIDE DEF r
<1> QED
  BY <1>2, <1>3, <1>4, CreatedInv DEF TemporaryCreated

LEMMA CreateFailsInv == ASSUME IInv, NEW c \in Calls, CreateFails(c) PROVE IInv'
<1> DEFINE r == [call[c] EXCEPT !.at = "failed"]
<1>1. r \in CallRecords /\ r.at = "failed" /\ r.interrupted = call[c].interrupted
  BY MovedRecord DEF IInv, Stages
<1>2. c \notin open /\ call[c].at = "creating" /\ UNCHANGED <<tables, shells, exits>>
  BY DEF IInv, NotBefore, CreateFails
<1>3. call' = [call EXCEPT ![c] = r]
  BY DEF CreateFails, Moves, IInv, Types
<1>4. TypedIsOpen'
  BY <1>2, SameTerminals
<1> HIDE DEF r
<1> QED
  BY <1>1, <1>2, <1>3, <1>4, CallMoves DEF IInv, Types, Running, tables, shells, exits

LEMMA KillInv == ASSUME IInv, NEW c \in Calls, NEW id \in Ids, killPersistentTerminal(c, id) PROVE IInv'
<1>1. c \notin open /\ call[c].at = "idle"
  BY DEF IInv, NotBefore, killPersistentTerminal
<1>2. CASE id \in Listed
  <2> DEFINE r == [Idle EXCEPT !.at = "answered", !.kind = "kill"]
  <2>1. r \in CallRecords /\ r.at = "answered" /\ r.kind = "kill"
    BY DEF Idle, CallRecords, Stages, Kinds
  <2>2. /\ Closed({persistent[id]}) /\ Delisted({id})
        /\ call' = [call EXCEPT ![c] = r] /\ UNCHANGED temporary
    BY <1>2 DEF killPersistentTerminal
  <2> HIDE DEF r
  <2>3. /\ open' \subseteq open /\ typed' \in [Calls -> Seq(Calls)] /\ TypedIsOpen'
        /\ UNCHANGED <<ready, watched, titleId, misnamed>>
        /\ persistent' \in [Ids -> Calls \cup {None}]
        /\ \A i \in Ids : persistent'[i] # None => persistent'[i] = persistent[i]
    BY <2>2, ClosedKeeps, DelistedKeeps
  <2> QED
    BY <1>1, <2>1, <2>2, <2>3, CallMoves DEF Running
<1>3. CASE id \notin Listed
  <2> DEFINE r == [Idle EXCEPT !.at = "failed", !.kind = "kill"]
  <2>1. r \in CallRecords /\ r.at = "failed" /\ r.kind = "kill"
    BY DEF Idle, CallRecords, Stages, Kinds
  <2>2. call' = [call EXCEPT ![c] = r] /\ UNCHANGED <<tables, shells, exits>>
    BY <1>3 DEF killPersistentTerminal, tables
  <2>3. TypedIsOpen'
    BY <2>2, SameTerminals
  <2> HIDE DEF r
  <2> QED
    BY <1>1, <2>1, <2>2, <2>3, CallMoves DEF IInv, Types, Running, tables, shells, exits
<1> QED
  BY <1>2, <1>3

LEMMA RunTemporaryInv == ASSUME IInv, NEW c \in Calls, RunTemporary(c) PROVE IInv'
<1> DEFINE r == [Idle EXCEPT !.at = "creating", !.kind = "temporary"]
<1>1. r \in CallRecords /\ r.at = "creating" /\ r.kind = "temporary" /\ ~r.interrupted
  BY DEF Idle, CallRecords, Stages, Kinds
<1>2. c \notin open /\ call[c].at = "idle"
  BY DEF IInv, NotBefore, RunTemporary
<1>3. call' = [call EXCEPT ![c] = r] /\ UNCHANGED <<tables, shells, exits>>
  BY DEF RunTemporary
<1>4. TypedIsOpen'
  BY <1>3, SameTerminals
<1> HIDE DEF r
<1> QED
  BY <1>1, <1>2, <1>3, <1>4, CallMoves DEF IInv, Types, Running, Settled, tables, shells, exits

LEMMA RunPersistentInv == ASSUME IInv, NEW c \in Calls, NEW id \in Ids, RunPersistent(c, id) PROVE IInv'
<1> DEFINE found == [Idle EXCEPT !.at = "capability", !.kind = "persistent", !.id = id, !.terminal = persistent[id]]
           missing == [Idle EXCEPT !.at = "failed", !.kind = "persistent", !.id = id]
           r == IF id \in Listed THEN found ELSE missing
<1>1. id \in Listed => persistent[id] \in Calls
  BY DEF IInv, Types, Listed
<1>2. /\ r \in CallRecords /\ r.kind = "persistent" /\ r.at \in {"capability", "failed"}
      /\ r.at = "capability" => r.terminal \in Calls
  BY <1>1 DEF Idle, CallRecords, Stages, Kinds
<1>3. c \notin open /\ call[c].at = "idle"
  BY DEF IInv, NotBefore, RunPersistent
<1>4. call' = [call EXCEPT ![c] = r] /\ UNCHANGED <<tables, shells, exits>>
  BY DEF RunPersistent
<1>5. TypedIsOpen'
  BY <1>4, SameTerminals
<1> HIDE DEF r
<1> QED
  BY <1>2, <1>3, <1>4, <1>5, CallMoves DEF IInv, Types, Running, Settled, tables, shells, exits

\* What is known of a command that runs.
LEMMA RunningCall ==
    ASSUME IInv, NEW c \in Calls, call[c].at \in Running
    PROVE  /\ call[c].kind \in {"temporary", "persistent"} /\ call[c].terminal \in Calls
           /\ call[c].kind = "temporary" => call[c].terminal = c /\ (c \in open => c \in temporary)
           /\ call[c].kind = "temporary" /\ call[c].interrupted => c \notin open
  BY DEF IInv, RunsSomewhere, NoHiddenLeft

LEMMA ListenForInv == ASSUME IInv, NEW c \in Calls, NEW found \in BOOLEAN, ListenFor(c, found) PROVE IInv'
<1> DEFINE r == [call[c] EXCEPT !.at = "sending", !.listens = found]
<1>1. call[c] \in CallRecords /\ call[c].at = "capability"
  BY DEF IInv, Types, ListenFor
<1>2. /\ r \in CallRecords /\ r.at = "sending" /\ r.kind = call[c].kind
      /\ r.terminal = call[c].terminal /\ r.interrupted = call[c].interrupted
  BY <1>1 DEF CallRecords, Stages
<1>3. call' = [call EXCEPT ![c] = r] /\ UNCHANGED <<tables, shells, exits>>
  BY DEF ListenFor, IInv, Types
<1>4. TypedIsOpen'
  BY <1>3, SameTerminals
<1> HIDE DEF r
<1> QED
  BY <1>1, <1>2, <1>3, <1>4, RunningCall, CallMoves DEF IInv, Types, Running, Settled, tables, shells, exits

LEMMA SendInv == ASSUME IInv, NEW c \in Calls, Send(c) PROVE IInv'
<1> DEFINE r == [call[c] EXCEPT !.at = "waiting", !.fresh = call[c].kind = "temporary"]
<1>1. /\ r \in CallRecords /\ r.at = "waiting" /\ r.kind = call[c].kind
      /\ r.terminal = call[c].terminal /\ r.interrupted = call[c].interrupted
  <2>1. call[c] \in CallRecords /\ (call[c].kind = "temporary") \in BOOLEAN
    BY DEF IInv, Types
  <2> QED
    BY <2>1 DEF CallRecords, Stages
<1>2. /\ call[c].at = "sending" /\ call' = [call EXCEPT ![c] = r]
      /\ UNCHANGED <<persistent, temporary, open, ready, watched, titleId, misnamed>>
  BY DEF Send, IInv, Types, tables, exits
<1>3. /\ call[c].kind \in {"temporary", "persistent"} /\ call[c].terminal \in Calls
      /\ call[c].kind = "temporary" => call[c].terminal = c /\ (c \in open => c \in temporary)
      /\ call[c].kind = "temporary" /\ call[c].interrupted => c \notin open
  BY <1>2, RunningCall DEF Running
<1>4. typed' \in [Calls -> Seq(Calls)] /\ TypedIsOpen'
  <2>1. CASE IsTyped(c)
    <3> DEFINE q == Append(typed[call[c].terminal], c)
    <3>1. typed \in [Calls -> Seq(Calls)] /\ q \in Seq(Calls)
      BY <1>3, AppendProperties DEF IInv, Types
    <3>2. typed' = [typed EXCEPT ![call[c].terminal] = q]
      BY <2>1 DEF Send
    <3> HIDE DEF q
    <3> QED
      BY <1>2, <1>3, <2>1, <3>1, <3>2 DEF IInv, TypedIsOpen, IsTyped
  <2>2. CASE ~IsTyped(c)
    BY <1>2, <2>2 DEF Send, IInv, Types, TypedIsOpen
  <2> QED
    BY <2>1, <2>2
<1> HIDE DEF r
<1> QED
  BY <1>1, <1>2, <1>3, <1>4, CallMoves DEF IInv, Types, Running, Settled

LEMMA CommandFinishedInv == ASSUME IInv, NEW t \in Calls, CommandFinished(t) PROVE IInv'
<1>1. typed \in [Calls -> Seq(Calls)] /\ typed[t] \in Seq(Calls) /\ typed[t] # << >>
  BY DEF IInv, Types, CommandFinished
<1>2. Tail(typed[t]) \in Seq(Calls)
  BY <1>1, HeadTailProperties
<1>3. /\ typed' = [typed EXCEPT ![t] = Tail(typed[t])]
      /\ UNCHANGED <<persistent, temporary, open, ready, watched, titleId, misnamed>>
  BY DEF CommandFinished, tables, exits
<1>4. \A c \in Calls :
        /\ call'[c] \in CallRecords /\ call'[c].at = call[c].at /\ call'[c].kind = call[c].kind
        /\ call'[c].id = call[c].id /\ call'[c].terminal = call[c].terminal
        /\ call'[c].interrupted = call[c].interrupted
  <2> TAKE c \in Calls
  <2>1. call[c] \in CallRecords
    BY DEF IInv, Types
  <2>2. call'[c] = call[c] \/ call'[c] = [call[c] EXCEPT !.reason = "done"]
    BY DEF CommandFinished
  <2> QED
    BY <2>1, <2>2 DEF CallRecords
<1>5. Types'
  <2>1. call' \in [Calls -> CallRecords]
    BY <1>4 DEF CommandFinished
  <2>2. typed' \in [Calls -> Seq(Calls)]
    BY <1>1, <1>2, <1>3
  <2> QED
    BY <1>3, <2>1, <2>2 DEF IInv, Types
<1>6. TypedIsOpen'
  BY <1>1, <1>3 DEF IInv, TypedIsOpen
<1>7. FirstUntilExit' /\ CreatesWithId' /\ NotBefore' /\ NoHiddenLeft'
  BY <1>3, <1>4 DEF IInv, FirstUntilExit, Listed, CreatesWithId, NotBefore, NoHiddenLeft
<1>8. RunsSomewhere'
  BY <1>3, <1>4 DEF IInv, RunsSomewhere
<1>9. ListedById'
  <2> SUFFICES ASSUME NEW i \in Ids, persistent'[i] # None
               PROVE  call'[persistent'[i]].at = "answered" /\ call'[persistent'[i]].id = i
    BY DEF ListedById
  <2>1. persistent' = persistent /\ persistent[i] \in Calls
    BY <1>3 DEF IInv, Types
  <2> QED
    BY <1>4, <2>1 DEF IInv, ListedById
<1> QED
  BY <1>5, <1>6, <1>7, <1>8, <1>9 DEF IInv

\* The timer of a command runs, is set anew or goes off.
LEMMA TimerInv == ASSUME IInv, NEW c \in Calls, Prints(c) \/ TimePasses(c) \/ Timeout(c) PROVE IInv'
<1>1. /\ call[c] \in CallRecords /\ call[c].at = "waiting" /\ call \in [Calls -> CallRecords]
      /\ UNCHANGED <<tables, shells, exits>>
  BY DEF IInv, Types, Prints, TimePasses, Timeout, HasTimer, Waiting
<1>2. PICK r \in CallRecords :
        /\ call' = [call EXCEPT ![c] = r] /\ r.at = "waiting" /\ r.kind = call[c].kind
        /\ r.terminal = call[c].terminal /\ r.interrupted = call[c].interrupted
  <2>1. CASE Prints(c)
    <3> DEFINE r == [call[c] EXCEPT !.fresh = TRUE]
    <3>1. /\ r \in CallRecords /\ r.at = "waiting" /\ r.kind = call[c].kind
          /\ r.terminal = call[c].terminal /\ r.interrupted = call[c].interrupted
      BY <1>1 DEF CallRecords
    <3>2. call' = [call EXCEPT ![c] = r]
      BY <1>1, <2>1 DEF Prints
    <3> HIDE DEF r
    <3> QED
      BY <3>1, <3>2
  <2>2. CASE TimePasses(c)
    <3> DEFINE r == [call[c] EXCEPT !.fresh = FALSE]
    <3>1. /\ r \in CallRecords /\ r.at = "waiting" /\ r.kind = call[c].kind
          /\ r.terminal = call[c].terminal /\ r.interrupted = call[c].interrupted
      BY <1>1 DEF CallRecords
    <3>2. call' = [call EXCEPT ![c] = r]
      BY <1>1, <2>2 DEF TimePasses
    <3> HIDE DEF r
    <3> QED
      BY <3>1, <3>2
  <2>3. CASE Timeout(c)
    <3> DEFINE r == [call[c] EXCEPT !.reason = "timeout"]
    <3>1. /\ r \in CallRecords /\ r.at = "waiting" /\ r.kind = call[c].kind
          /\ r.terminal = call[c].terminal /\ r.interrupted = call[c].interrupted
      BY <1>1 DEF CallRecords
    <3>2. call' = [call EXCEPT ![c] = r]
      BY <1>1, <2>3 DEF Timeout
    <3> HIDE DEF r
    <3> QED
      BY <3>1, <3>2
  <2> QED
    BY <2>1, <2>2, <2>3
<1>3. TypedIsOpen'
  BY <1>1, SameTerminals
<1> QED
  BY <1>1, <1>2, <1>3, RunningCall, CallMoves DEF IInv, Types, Running, Settled, tables, shells, exits

LEMMA ReturnInv == ASSUME IInv, NEW c \in Calls, Return(c) PROVE IInv'
<1>1. /\ call[c].at = "waiting" /\ Closed(ClosedAtEnd(c)) /\ temporary' = temporary \ ClosedAtEnd(c)
      /\ UNCHANGED persistent
  BY DEF Return
<1>2. PICK r \in CallRecords :
        /\ call' = [call EXCEPT ![c] = r] /\ r.at = "answered"
        /\ r.kind = call[c].kind /\ r.interrupted = call[c].interrupted
  BY ReturnedRecord DEF Return, Settled, IInv
<1>3. ClosedAtEnd(c) = IF call[c].kind = "temporary" THEN {c} ELSE {}
  BY DEF ClosedAtEnd
<1>4. /\ open' = open \ ClosedAtEnd(c) /\ typed' \in [Calls -> Seq(Calls)] /\ TypedIsOpen'
      /\ UNCHANGED <<ready, watched, titleId, misnamed>>
  BY <1>1, ClosedKeeps
<1> QED
  BY <1>1, <1>2, <1>3, <1>4, CallMoves DEF IInv, Types, Running, Settled

LEMMA ReadThrowsInv == ASSUME IInv, NEW c \in Calls, ReadThrows(c) PROVE IInv'
<1>1. call[c].at = "waiting" /\ UNCHANGED <<tables, shells, exits>>
  BY DEF ReadThrows
<1>2. PICK r \in CallRecords :
        /\ call' = [call EXCEPT ![c] = r] /\ r.at = "failed"
        /\ r.kind = call[c].kind /\ r.interrupted = call[c].interrupted
  BY ReturnedRecord DEF ReadThrows, Settled, IInv
<1>3. call[c].kind = "temporary" => c \notin open
  BY DEF IInv, RunsSomewhere, Running, ReadThrows, CanRead
<1>4. TypedIsOpen'
  BY <1>1, SameTerminals
<1> QED
  BY <1>1, <1>2, <1>3, <1>4, CallMoves DEF IInv, Types, Running, Settled, tables, shells, exits

LEMMA InterruptInv == ASSUME IInv, NEW c \in Calls, Interrupt(c) PROVE IInv'
<1> DEFINE r == [call[c] EXCEPT !.interrupted = TRUE]
           gone == IF call[c].kind = "persistent" THEN {call[c].id} ELSE {}
<1>1. call[c] \in CallRecords /\ call[c].at \in Running
  BY DEF IInv, Types, Interrupt, Running
<1>2. /\ r \in CallRecords /\ r.at = call[c].at /\ r.kind = call[c].kind
      /\ r.terminal = call[c].terminal
  BY <1>1 DEF CallRecords
<1>3. /\ call' = [call EXCEPT ![c] = r] /\ Closed({call[c].terminal}) /\ Delisted(gone)
      /\ temporary' = temporary \ {c}
  BY DEF Interrupt, IInv, Types
<1>4. /\ call[c].kind \in {"temporary", "persistent"} /\ call[c].terminal \in Calls
      /\ call[c].kind = "temporary" => call[c].terminal = c
  BY <1>1, RunningCall
<1> HIDE DEF r, gone
<1>5. /\ open' = open \ {call[c].terminal} /\ typed' \in [Calls -> Seq(Calls)] /\ TypedIsOpen'
      /\ UNCHANGED <<ready, watched, titleId, misnamed>>
      /\ persistent' \in [Ids -> Calls \cup {None}]
      /\ \A i \in Ids : persistent'[i] # None => persistent'[i] = persistent[i]
  BY <1>3, ClosedKeeps, DelistedKeeps
<1> QED
  BY <1>1, <1>2, <1>3, <1>4, <1>5, CallMoves DEF IInv, Types, Running, Settled

-----------------------------------------------------------------------------
\* The steps of terminals.

LEMMA ReadyInv == ASSUME IInv, NEW t \in Calls, Ready(t) PROVE IInv'
<1>1. call[t].id \in Ids \cup {0}
  BY DEF IInv, Types, CallRecords
<1>2. ready' \subseteq Calls /\ titleId' \in [Calls -> Ids \cup {0}]
  BY <1>1 DEF Ready, IInv, Types
<1>3. UNCHANGED <<persistent, temporary, open, typed, watched, misnamed, call>>
  BY DEF Ready, tables
<1>4. TypedIsOpen' /\ FirstUntilExit'
  BY <1>3 DEF IInv, TypedIsOpen, FirstUntilExit, Listed
<1> QED
  BY <1>2, <1>3, <1>4, TerminalMoves DEF IInv, Types

LEMMA RenameInv == ASSUME IInv, NEW t \in Calls, Rename(t) PROVE IInv'
<1>1. 1 \in Ids
  <2>1. Cardinality(Calls) \in Nat /\ Cardinality(Calls) # 0
    <3>1. Calls # {} /\ IsFiniteSet(Calls)
      BY CallsAssumption
    <3>2. Cardinality(Calls) = 0 <=> Calls = {}
      BY <3>1, FS_EmptySet, Zenon
    <3>3. Cardinality(Calls) \in Nat
      BY <3>1, FS_CardinalityType
    <3> QED
      BY <3>1, <3>2, <3>3
  <2> QED
    BY <2>1 DEF Ids
<1>2. titleId' \in [Calls -> Ids \cup {0}]
  BY <1>1 DEF Rename, IInv, Types
<1>3. UNCHANGED <<persistent, temporary, open, ready, typed, watched, misnamed, call>>
  BY DEF Rename, tables, shells
<1>4. TypedIsOpen' /\ FirstUntilExit'
  BY <1>3 DEF IInv, TypedIsOpen, FirstUntilExit, Listed
<1> QED
  BY <1>2, <1>3, <1>4, TerminalMoves DEF IInv, Types

LEMMA ExitInv == ASSUME IInv, NEW t \in Calls, Exit(t) PROVE IInv'
<1>1. /\ open' \subseteq open /\ typed' \in [Calls -> Seq(Calls)] /\ TypedIsOpen'
      /\ UNCHANGED <<ready, watched, titleId, misnamed>>
  BY ClosedKeeps DEF Exit
<1>2. UNCHANGED <<persistent, temporary, call>>
  BY DEF Exit, tables
<1>3. FirstUntilExit'
  BY <1>1, <1>2 DEF IInv, FirstUntilExit, Listed
<1> QED
  BY <1>1, <1>2, <1>3, TerminalMoves DEF IInv, Types

LEMMA OnExitInv == ASSUME IInv, NEW t \in Calls, OnExit(t) PROVE IInv'
<1>1. HandleExit(t) /\ UNCHANGED <<open, ready, typed, call>>
  BY DEF OnExit, shells
<1>2. TypedIsOpen'
  BY <1>1 DEF IInv, TypedIsOpen
<1> QED
  BY <1>1, <1>2, HandleExitKeeps, TerminalMoves DEF IInv, Types

LEMMA RelaunchInv == ASSUME IInv, NEW t \in Calls, Relaunch(t) PROVE IInv'
<1>1. /\ HandleExit(t) /\ UNCHANGED <<open, call>> /\ ready' \subseteq Calls
      /\ typed' = [typed EXCEPT ![t] = << >>]
  BY DEF Relaunch, IInv, Types
<1>2. typed' \in [Calls -> Seq(Calls)] /\ TypedIsOpen'
  BY <1>1 DEF IInv, Types, TypedIsOpen
<1> QED
  BY <1>1, <1>2, HandleExitKeeps, TerminalMoves DEF IInv, Types

-----------------------------------------------------------------------------
LEMMA NextInv == IInv /\ [Next]_vars => IInv'
<1> SUFFICES ASSUME IInv, [Next]_vars PROVE IInv'
  OBVIOUS
<1>1. ASSUME NEW c \in Calls, OpenPersistent(c) \/ RunTemporary(c) PROVE IInv'
  BY <1>1, OpenPersistentInv, RunTemporaryInv
<1>2. ASSUME NEW c \in Calls, NEW id \in Ids, killPersistentTerminal(c, id) \/ RunPersistent(c, id) PROVE IInv'
  BY <1>2, KillInv, RunPersistentInv
<1>3. ASSUME NEW c \in Calls, Step(c) PROVE IInv'
  BY <1>3, PersistentOpenedInv, CreateFailsInv, TemporaryCreatedInv, ListenForInv, SendInv, TimerInv,
     ReturnInv, ReadThrowsInv DEF Step
<1>4. ASSUME NEW c \in Calls, Interrupt(c) \/ Terminal(c) PROVE IInv'
  BY <1>4, CommandFinishedInv, TimerInv, InterruptInv, ReadyInv, RenameInv, ExitInv, OnExitInv, RelaunchInv
  DEF Terminal
<1>5. CASE UNCHANGED vars
  BY <1>5 DEF vars, IInv, Types, CreatesWithId, RunsSomewhere, TypedIsOpen, ListedById, NotBefore,
     FirstUntilExit, NoHiddenLeft, Listed
<1> QED
  BY <1>1, <1>2, <1>3, <1>4, <1>5 DEF Next

LEMMA Invariance == Spec => []IInv
<1> QED
  BY InitInv, NextInv, PTL DEF Spec

\* The types of the terminals and calls hold in every reachable state: a free id for
\* a new terminal is found among the ids of the calls (getValidNewTerminalId), and a
\* shell that is gone has no commands left.
THEOREM TerminalTypeCorrect == Spec => []TypeOK
<1>1. IInv => TypeOK
  BY DEF IInv, Types, TypedIsOpen, TypeOK, CallRecords, Stages, Settled
<1> QED
  BY <1>1, Invariance, PTL

\* The first persistent terminal is listed for the LLM only until its exit is handled,
\* unless that happened under another title (terminalToolService.ts, the onExit
\* handler): for every set of tool calls, whoever closes terminals, launches them again
\* or renames them.
THEOREM FirstTerminalUntilExit == Spec => []FirstUntilExit
<1>1. IInv => FirstUntilExit
  BY DEF IInv
<1> QED
  BY <1>1, Invariance, PTL

\* No temporary command leaves its hidden terminal behind: not when it is answered,
\* times out, throws or is interrupted (runCommand and its interrupt).
THEOREM NoHiddenTerminalIsLeft == Spec => []NoHiddenLeft
<1>1. IInv => NoHiddenLeft
  BY DEF IInv
<1> QED
  BY <1>1, Invariance, PTL
=============================================================================
