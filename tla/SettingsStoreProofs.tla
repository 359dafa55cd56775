------------------------ MODULE SettingsStoreProofs -------------------------
(***************************************************************************)
(* What the settings of a window promise, for every set of models and      *)
(* every number of changes: selections are offered, what was stored is     *)
(* what is shown and what a reload shows again, but for an emptied key,    *)
(* and synced features have the model of Chat.                             *)
(***************************************************************************)
EXTENDS SettingsStore, TLAPS, SequenceTheorems, FiniteSetTheorems

Thens == {"nothing", "all", "ifSynced"}
Writes == [state : States, then : Thens]

\* No feature has a model that is not offered to it, or none though one is.
Valid(s) ==
    \A f \in Features :
        IF OfferedTo(s, f) = {} THEN s.selection[f] = None ELSE s.selection[f] \in OfferedTo(s, f)

IsSynced(s, f) == s.sync[f] => s.selection[f] = s.selection["Chat"]

Types ==
    /\ state \in States /\ DefaultModels \subseteq state.listed
    /\ phase \in {"reading", "ready"}
    /\ read \in States \cup {None} /\ stored \in States \cup {None}
    /\ writes \in Seq(Writes)

\* What is stored, or about to be, is valid: only the default state was never
\* validated, and it is never stored.
ValidStates ==
    /\ phase = "ready" => Valid(state)
    /\ \A i \in 1..Len(writes) : Valid(writes[i].state)
    /\ stored # None => Valid(stored)
    /\ read # None => Valid(read)

\* The newest write holds the state of the window, if nothing went wrong; when it is
\* stored they are the same, until the state is read back.
NewestWrite ==
    broken \subseteq {"cut"} =>
        /\ phase = "reading" => writes = << >> /\ read = stored
        /\ phase = "ready" /\ writes # << >> => writes[Len(writes)].state = state
        /\ phase = "ready" /\ writes = << >> /\ stored # None =>
                stored = state \/ state = Validated(Restored(stored))

\* A synced feature that differs from Chat has a hook ahead of it, and none is stored
\* for a reload to find.
HooksAhead ==
    broken = {} =>
        /\ writes = << >> /\ stored # None => \A f \in SyncedFeatures : IsSynced(stored, f)
        /\ phase = "ready" =>
            \/ \A f \in SyncedFeatures : IsSynced(state, f)
            \/ \E i \in 1..Len(writes) : writes[i].then \in {"all", "ifSynced"}

IInv == Types /\ ValidStates /\ NewestWrite /\ HooksAhead

-----------------------------------------------------------------------------
\* Selections.

LEMMA OfferedTypes ==
    ASSUME NEW s \in States, NEW f \in Features
    PROVE  OfferedTo(s, f) \subseteq Models
BY DEF States, Offered, OfferedTo

\* A set of natural numbers that is not empty has a least element: of the intervals
\* up to its elements one is minimal.
LEMMA LeastNat ==
    ASSUME NEW T \in SUBSET Nat, T # {}
    PROVE  \E x \in T : \A y \in T : x <= y
<1> DEFINE U == {1..n : n \in T}
<1>1. IsWellFoundedOn(StrictSubsetOrdering(Nat), FiniteSubsetsOf(Nat))
  BY FS_StrictSubsetOrderingWellFounded
<1>2. U \subseteq FiniteSubsetsOf(Nat) /\ U # {}
  <2>1. \A n \in Nat : IsFiniteSet(1..n)
    BY FS_Interval
  <2>2. \A n \in T : 1..n \in SUBSET Nat /\ IsFiniteSet(1..n)
    BY <2>1, SMT
  <2> QED
    BY <2>2 DEF FiniteSubsetsOf
<1>3. PICK u \in U : \A v \in U : ~ (<<v, u>> \in StrictSubsetOrdering(Nat))
  <2> HIDE DEF U
  <2> QED
    BY <1>1, <1>2, WFMin
<1>4. PICK x \in T : u = 1..x
  BY <1>3
<1>5. ASSUME NEW y \in T PROVE x <= y
  <2> SUFFICES ASSUME y < x PROVE FALSE
    BY SMT
  <2>1. 1..y \in U /\ 1..y \subseteq Nat /\ 1..x \subseteq Nat
    BY SMT
  <2>2. x \in 1..x /\ x \notin 1..y /\ 1..y \subseteq 1..x
    BY SMT
  <2>3. <<1..y, 1..x>> \in StrictSubsetOrdering(Nat)
    BY <2>1, <2>2 DEF StrictSubsetOrdering
  <2> QED
    BY <2>1, <2>3, <1>3, <1>4
<1> QED
  BY <1>5

LEMMA FirstIsOffered ==
    ASSUME NEW models \in SUBSET Models, models # {}
    PROVE  First(models) \in models
<1>1. models \in SUBSET Nat
  BY ModelsAssumption
<1>2. \E m \in models : \A n \in models : m <= n
  BY <1>1, LeastNat
<1> QED
  BY <1>2 DEF First

LEMMA SelectionIsValid ==
    ASSUME NEW s \in States, NEW f \in Features
    PROVE  /\ ValidSelection(s, f) \in Models \cup {None}
           /\ IF OfferedTo(s, f) = {} THEN ValidSelection(s, f) = None
              ELSE ValidSelection(s, f) \in OfferedTo(s, f)
<1>1. OfferedTo(s, f) \in SUBSET Models
  BY OfferedTypes
<1> QED
  BY <1>1, FirstIsOffered DEF ValidSelection

\* _validatedModelState
LEMMA ValidatedFacts ==
    ASSUME NEW s \in States
    PROVE  /\ Validated(s) \in States /\ Valid(Validated(s))
           /\ Validated(s).listed = s.listed /\ Validated(s).hidden = s.hidden
           /\ Validated(s).keyed = s.keyed /\ Validated(s).sync = s.sync
           /\ \A f \in Features : Validated(s).selection[f] = ValidSelection(s, f)
<1> DEFINE sel == [f \in Features |-> ValidSelection(s, f)]
<1>1. sel \in [Features -> Models \cup {None}]
  BY SelectionIsValid
<1>2. Validated(s) = [s EXCEPT !.selection = sel]
  BY DEF Validated
<1>3. \A f \in Features : sel[f] = ValidSelection(s, f)
  OBVIOUS
<1> HIDE DEF sel
<1>4. /\ Validated(s) \in States /\ Validated(s).selection = sel
      /\ Validated(s).listed = s.listed /\ Validated(s).hidden = s.hidden
      /\ Validated(s).keyed = s.keyed /\ Validated(s).sync = s.sync
  BY <1>1, <1>2 DEF States
<1>5. \A f \in Features : OfferedTo(Validated(s), f) = OfferedTo(s, f)
  BY <1>4 DEF Offered, OfferedTo
<1>6. Valid(Validated(s))
  BY <1>3, <1>4, <1>5, SelectionIsValid DEF Valid
<1> QED
  BY <1>3, <1>4, <1>6

LEMMA StateIsState ==
    ASSUME NEW s \in States, NEW t \in States,
           s.listed = t.listed, s.hidden = t.hidden, s.keyed = t.keyed, s.sync = t.sync,
           \A f \in Features : s.selection[f] = t.selection[f]
    PROVE  s = t
<1>1. s.selection \in [Features -> Models \cup {None}] /\ t.selection \in [Features -> Models \cup {None}]
  BY DEF States
<1>2. s.selection = t.selection
  BY <1>1
<1> QED
  BY <1>2 DEF States

LEMMA ValidatedKeeps == ASSUME NEW s \in States, Valid(s) PROVE Validated(s) = s
<1>1. \A f \in Features : ValidSelection(s, f) = s.selection[f]
  BY DEF Valid, ValidSelection
<1> QED
  BY <1>1, ValidatedFacts, StateIsState

\* What the read completes: the selections that were null, the default models, the key.
LEMMA RestoredFacts ==
    ASSUME NEW s \in States
    PROVE  /\ Restored(s) \in States /\ Restored(s).listed = s.listed \cup DefaultModels
           /\ Restored(s).hidden = s.hidden /\ Restored(s).keyed = TRUE /\ Restored(s).sync = s.sync
           /\ \A f \in Features :
                IF s.selection[f] # None THEN Restored(s).selection[f] = s.selection[f]
                ELSE Restored(s).selection[f] \in {s.selection["Chat"], DefaultModel}
           /\ \A f \in Features : s.selection[f] = None /\ s.selection["Chat"] = None =>
                    Restored(s).selection[f] = DefaultModel
<1> DEFINE Filled(m, other) == IF m = None THEN other ELSE m
           sel == [f \in Features |->
                      Filled(IF f = "SCM" THEN Filled(s.selection["SCM"], s.selection["Chat"])
                             ELSE s.selection[f], DefaultModel)]
<1>1. s.selection \in [Features -> Models \cup {None}] /\ "Chat" \in Features /\ DefaultModel \in Models
  BY ModelsAssumption DEF States, Features
<1>2. \A f \in Features :
        /\ sel[f] = IF s.selection[f] # None THEN s.selection[f]
                    ELSE IF f = "SCM" /\ s.selection["Chat"] # None THEN s.selection["Chat"]
                    ELSE DefaultModel
  OBVIOUS
<1>3. sel \in [Features -> Models \cup {None}]
  <2>1. \A f \in Features : sel[f] \in Models \cup {None}
    BY <1>1, <1>2
  <2> QED
    BY <2>1
<1>4. Restored(s) = [s EXCEPT !.listed = s.listed \cup DefaultModels, !.keyed = TRUE, !.selection = sel]
  BY DEF Restored, States
<1> HIDE DEF sel
<1>5. /\ Restored(s) \in States /\ Restored(s).listed = s.listed \cup DefaultModels
      /\ Restored(s).hidden = s.hidden /\ Restored(s).keyed = TRUE /\ Restored(s).sync = s.sync
      /\ Restored(s).selection = sel
  BY <1>3, <1>4, ModelsAssumption DEF States
<1> QED
  BY <1>2, <1>5

\* With a key, what is read back is what was stored.
LEMMA RestoredKeeps ==
    ASSUME NEW s \in States, Valid(s), s.keyed, DefaultModels \subseteq s.listed
    PROVE  Validated(Restored(s)) = s
<1> DEFINE r == Restored(s)
<1>1. /\ r \in States /\ r.listed = s.listed /\ r.hidden = s.hidden /\ r.keyed = s.keyed /\ r.sync = s.sync
      /\ \A f \in Features : s.selection[f] # None => r.selection[f] = s.selection[f]
      /\ \A f \in Features : r.selection[f] \in Models \cup {None}
  <2>1. s.keyed = TRUE /\ s.listed \cup DefaultModels = s.listed
    BY DEF States
  <2>2. /\ r \in States /\ r.listed = s.listed /\ r.hidden = s.hidden /\ r.keyed = s.keyed /\ r.sync = s.sync
        /\ \A f \in Features : s.selection[f] # None => r.selection[f] = s.selection[f]
    BY <2>1, RestoredFacts
  <2> HIDE DEF r
  <2>3. \A f \in Features : r.selection[f] \in Models \cup {None}
    BY <2>2 DEF States
  <2> QED
    BY <2>2, <2>3
<1> HIDE DEF r
<1>2. ASSUME NEW f \in Features PROVE ValidSelection(r, f) = s.selection[f]
  <2>1. OfferedTo(r, f) = OfferedTo(s, f) /\ OfferedTo(s, f) \subseteq Models
    BY <1>1, OfferedTypes DEF Offered, OfferedTo
  <2>2. CASE OfferedTo(s, f) = {}
    BY <2>1, <2>2 DEF Valid, ValidSelection
  <2>3. CASE OfferedTo(s, f) # {}
    <3>1. s.selection[f] \in OfferedTo(s, f) /\ s.selection[f] # None
      BY <2>1, <2>3, ModelsAssumption DEF Valid
    <3> QED
      BY <1>1, <2>1, <3>1 DEF ValidSelection
  <2> QED
    BY <2>2, <2>3
<1>3. Validated(r) = s
  <2>1. /\ Validated(r) \in States /\ Validated(r).listed = r.listed /\ Validated(r).hidden = r.hidden
        /\ Validated(r).keyed = r.keyed /\ Validated(r).sync = r.sync
        /\ \A f \in Features : Validated(r).selection[f] = ValidSelection(r, f)
    BY <1>1, ValidatedFacts
  <2> DEFINE v == Validated(r)
  <2>2. /\ v \in States /\ v.listed = s.listed /\ v.hidden = s.hidden /\ v.keyed = s.keyed /\ v.sync = s.sync
        /\ \A f \in Features : v.selection[f] = s.selection[f]
    BY <1>1, <1>2, <2>1
  <2> HIDE DEF v
  <2>3. v = s
    BY <2>2, StateIsState
  <2> QED
    BY <2>3 DEF v
<1> QED
  BY <1>3 DEF r

-----------------------------------------------------------------------------
LEMMA defaultStateType == defaultState \in States /\ DefaultModels \subseteq defaultState.listed
BY ModelsAssumption DEF defaultState, States

LEMMA InitInv == Init => IInv
<1> SUFFICES ASSUME Init PROVE IInv
  OBVIOUS
<1>1. Types /\ writes = << >> /\ Len(writes) = 0
  <2>1. << >> \in Seq(Writes) /\ Len(<< >>) = 0
    BY EmptySeq
  <2> QED
    BY <2>1, defaultStateType DEF Init, Types
<1>2. ValidStates /\ NewestWrite /\ HooksAhead
  BY <1>1 DEF Init, ValidStates, NewestWrite, HooksAhead
<1> QED
  BY <1>1, <1>2 DEF IInv

\* A setter: the new state is validated and waits to be stored.  If a synced feature
\* may differ from Chat, hooks follow.
LEMMA ChangeInv ==
    ASSUME IInv, NEW s \in States, DefaultModels \subseteq s.listed, NEW then \in Thens, Change(s, then),
           phase = "ready" /\ then = "nothing" =>
                \A f \in SyncedFeatures : IsSynced(state, f) => IsSynced(Validated(s), f)
    PROVE  IInv'
<1> DEFINE v == Validated(s)
           new == Write(v, then)
<1>1. v \in States /\ Valid(v) /\ DefaultModels \subseteq v.listed
  BY ValidatedFacts
<1>2. state' = v /\ writes' = Append(writes, new) /\ UNCHANGED <<phase, read, stored>>
      /\ broken' = broken \cup IF phase = "reading" THEN {"early"} ELSE {}
  BY DEF Change
<1>3. new \in Writes /\ new.state = v /\ new.then = then
  BY <1>1 DEF Write, Writes
<1> HIDE DEF v, new
<1>4. /\ writes' \in Seq(Writes) /\ Len(writes') = Len(writes) + 1 /\ writes' # << >>
      /\ writes'[Len(writes')] = new /\ \A i \in 1..Len(writes) : writes'[i] = writes[i]
      /\ Len(writes) \in Nat
  BY <1>2, <1>3, AppendProperties, LenProperties DEF IInv, Types
<1>5. Types'
  BY <1>1, <1>2, <1>4 DEF IInv, Types
<1>6. ValidStates'
  <2>1. \A i \in 1..Len(writes') : Valid(writes'[i].state)
    BY <1>1, <1>3, <1>4 DEF IInv, ValidStates
  <2>2. Valid(state')
    BY <1>1, <1>2
  <2>3. (stored # None => Valid(stored))' /\ (read # None => Valid(read))'
    BY <1>2 DEF IInv, ValidStates
  <2> QED
    BY <2>1, <2>2, <2>3 DEF ValidStates
<1>7. NewestWrite'
  BY <1>2, <1>3, <1>4 DEF IInv, Types, NewestWrite
<1>8. HooksAhead'
  <2> SUFFICES ASSUME broken' = {}
               PROVE  phase' = "ready" /\
                        (\/ \A f \in SyncedFeatures : IsSynced(state', f)
                         \/ \E i \in 1..Len(writes') : writes'[i].then \in {"all", "ifSynced"})
    BY <1>4 DEF HooksAhead, IsSynced
  <2>1. broken = {} /\ phase = "ready" /\ phase' = "ready"
    BY <1>2 DEF IInv, Types
  <2>2. CASE then # "nothing"
    BY <1>3, <1>4, <2>1, <2>2 DEF Thens
  <2>3. CASE then = "nothing" /\ \A f \in SyncedFeatures : IsSynced(state, f)
    BY <1>2, <2>1, <2>3 DEF v
  <2>4. CASE \E i \in 1..Len(writes) : writes[i].then \in {"all", "ifSynced"}
    BY <1>4, <2>1, <2>4
  <2> QED
    BY <2>1, <2>2, <2>3, <2>4 DEF IInv, HooksAhead
<1> QED
  BY <1>5, <1>6, <1>7, <1>8 DEF IInv

\* Apply and SCM choose among the models that Chat chooses from.
LEMMA SameOffer ==
    ASSUME NEW s \in States, NEW f \in SyncedFeatures
    PROVE  OfferedTo(s, f) = OfferedTo(s, "Chat") /\ f \in Features /\ "Chat" \in Features
BY DEF SyncedFeatures, Features, OfferedTo

LEMMA SyncSurvives ==
    ASSUME NEW s \in States, NEW f \in SyncedFeatures, IsSynced(s, f)
    PROVE  IsSynced(Validated(s), f)
BY SameOffer, ValidatedFacts DEF IsSynced, ValidSelection

\* A change of what is offered leaves synced features synced.
LEMMA OfferChangeInv ==
    ASSUME IInv, NEW s \in States, s.sync = state.sync, s.selection = state.selection,
           DefaultModels \subseteq s.listed, Change(s, "nothing")
    PROVE  IInv'
<1>1. \A f \in SyncedFeatures : IsSynced(state, f) => IsSynced(s, f)
  BY DEF IsSynced
<1>2. \A f \in SyncedFeatures : IsSynced(state, f) => IsSynced(Validated(s), f)
  BY <1>1, SyncSurvives
<1> QED
  BY <1>2, ChangeInv DEF Thens

\* The default models stay in the list: those of another type come and go.
LEMMA ListingInv ==
    ASSUME IInv, NEW models \in SUBSET Models, DefaultModels \subseteq models,
           Change(Listing(state, models), "nothing")
    PROVE  IInv'
<1> DEFINE s == Listing(state, models)
<1>1. /\ s \in States /\ s.sync = state.sync /\ s.selection = state.selection
      /\ DefaultModels \subseteq s.listed
  BY DEF IInv, Types, States, Listing
<1> HIDE DEF s
<1> QED
  BY <1>1, OfferChangeInv DEF s

LEMMA SettingOfProviderInv ==
    ASSUME IInv, NEW filled \in BOOLEAN, setSettingOfProvider(filled)
    PROVE  IInv'
<1> DEFINE s == [state EXCEPT !.keyed = filled]
<1>1. /\ s \in States /\ s.sync = state.sync /\ s.selection = state.selection
      /\ DefaultModels \subseteq s.listed
  BY DEF IInv, Types, States
<1>2. Change(s, "nothing")
  BY DEF setSettingOfProvider
<1> HIDE DEF s
<1> QED
  BY <1>1, <1>2, OfferChangeInv

LEMMA ModelsInv ==
    ASSUME IInv,
           \/ \E m \in Models : addModel(m) \/ deleteModel(m)
           \/ \E models \in SUBSET Autodetected : setAutodetectedModels(models)
    PROVE  IInv'
<1>1. /\ state.listed \in SUBSET Models /\ DefaultModels \subseteq state.listed
      /\ Autodetected \subseteq Models \ DefaultModels
  BY ModelsAssumption DEF IInv, Types, States
<1>2. ASSUME NEW m \in Models, addModel(m) PROVE IInv'
  <2>1. state.listed \cup {m} \in SUBSET Models /\ DefaultModels \subseteq state.listed \cup {m}
    BY <1>1
  <2> QED
    BY <1>2, <2>1, ListingInv DEF addModel
<1>3. ASSUME NEW m \in Models, deleteModel(m) PROVE IInv'
  <2>1. state.listed \ {m} \in SUBSET Models /\ DefaultModels \subseteq state.listed \ {m}
    BY <1>1, <1>3 DEF deleteModel
  <2> QED
    BY <1>3, <2>1, ListingInv DEF deleteModel
<1>4. ASSUME NEW models \in SUBSET Autodetected, setAutodetectedModels(models) PROVE IInv'
  <2> DEFINE new == (state.listed \ Autodetected) \cup models
  <2>1. new \in SUBSET Models /\ DefaultModels \subseteq new
    BY <1>1
  <2> QED
    BY <1>4, <2>1, ListingInv DEF setAutodetectedModels
<1> QED
  BY <1>2, <1>3, <1>4

LEMMA HiddenInv == ASSUME IInv, NEW m \in Models, toggleModelHidden(m) PROVE IInv'
<1> DEFINE s == [state EXCEPT !.hidden = IF m \in @ THEN @ \ {m} ELSE @ \cup {m}]
<1>1. /\ s \in States /\ s.sync = state.sync /\ s.selection = state.selection
      /\ DefaultModels \subseteq s.listed
  BY DEF IInv, Types, States
<1>2. Change(s, "nothing")
  BY DEF toggleModelHidden
<1> HIDE DEF s
<1> QED
  BY <1>1, <1>2, OfferChangeInv

LEMMA GlobalSettingInv ==
    ASSUME IInv, NEW f \in SyncedFeatures, NEW on \in BOOLEAN, setGlobalSetting(f, on)
    PROVE  IInv'
<1> DEFINE s == [state EXCEPT !.sync[f] = on]
<1>1. s \in States /\ DefaultModels \subseteq s.listed
  BY DEF IInv, Types, States
<1>2. Change(s, "ifSynced")
  BY DEF setGlobalSetting
<1> HIDE DEF s
<1> QED
  BY <1>1, <1>2, ChangeInv DEF Thens

LEMMA ModelSelectionInv ==
    ASSUME IInv, NEW f \in Features, NEW m \in Models, setModelSelectionOfFeature(f, m)
    PROVE  IInv'
<1> DEFINE s == [state EXCEPT !.selection[f] = m]
<1>1. /\ s \in States /\ s.sync = state.sync /\ DefaultModels \subseteq s.listed
      /\ \A g \in Features : g # f => s.selection[g] = state.selection[g]
  BY DEF IInv, Types, States
<1>2. Change(s, ThenAfter(f)) /\ (f \in SyncedFeatures => ~state.sync[f])
  BY DEF setModelSelectionOfFeature
<1> HIDE DEF s
<1>3. ThenAfter(f) \in Thens /\ (ThenAfter(f) = "nothing" => f # "Chat")
  BY DEF ThenAfter, Thens
<1>4. ASSUME f # "Chat", NEW g \in SyncedFeatures, IsSynced(state, g)
      PROVE  IsSynced(Validated(s), g)
  <2>1. IsSynced(s, g)
    BY <1>1, <1>2, <1>4, SameOffer DEF IsSynced, SyncedFeatures, Features
  <2> QED
    BY <1>1, <2>1, SyncSurvives
<1> QED
  BY <1>1, <1>2, <1>3, <1>4, ChangeInv

LEMMA ResetInv == ASSUME IInv, resetState PROVE IInv'
BY defaultStateType, ChangeInv DEF resetState, Thens

-----------------------------------------------------------------------------
\* Stored: the first write leaves, hooks join the queue.

LEMMA WithoutFirst ==
    ASSUME writes \in Seq(Writes), writes # << >>,
           NEW rest, rest = SubSeq(writes, 1, 1 - 1) \o SubSeq(writes, 1 + 1, Len(writes))
    PROVE  /\ rest \in Seq(Writes) /\ Len(rest) = Len(writes) - 1 /\ Len(writes) \in Nat \ {0}
           /\ \A i \in 1..Len(rest) : rest[i] = writes[i + 1]
<1>1. Len(writes) \in Nat \ {0}
  BY EmptySeq
<1>2. SubSeq(writes, 1, 1 - 1) = << >>
  <2>1. 1 - 1 \in Int /\ 1 \in Int /\ 1 - 1 < 1
    OBVIOUS
  <2> QED
    BY <2>1, SubSeqEmpty
<1> DEFINE q == SubSeq(writes, 1 + 1, Len(writes))
<1>3. q \in Seq(Writes) /\ Len(q) = Len(writes) - 1 /\ \A i \in 1..Len(q) : q[i] = writes[i + 1]
  <2>1. \A i \in 2..Len(writes) : writes[i] \in Writes
    BY <1>1, ElementOfSeq
  <2>2. q = SubSeq(writes, 2, Len(writes))
    OBVIOUS
  <2>3. /\ SubSeq(writes, 2, Len(writes)) \in Seq(Writes)
        /\ Len(SubSeq(writes, 2, Len(writes))) = Len(writes) - 1
        /\ \A i \in 1..(Len(writes) - 2 + 1) : SubSeq(writes, 2, Len(writes))[i] = writes[2 + i - 1]
    <3>1. /\ SubSeq(writes, 2, Len(writes)) \in Seq(Writes)
          /\ Len(SubSeq(writes, 2, Len(writes))) = IF 2 <= Len(writes) THEN Len(writes) - 2 + 1 ELSE 0
          /\ \A i \in 1..(Len(writes) - 2 + 1) : SubSeq(writes, 2, Len(writes))[i] = writes[2 + i - 1]
      BY <1>1, <2>1, SubSeqProperties
    <3>2. CASE 2 <= Len(writes)
      <4>1. Len(writes) - 2 + 1 = Len(writes) - 1
        BY <1>1
      <4> QED
        BY <3>1, <3>2, <4>1
    <3>3. CASE ~(2 <= Len(writes))
      <4>1. \A n \in Nat \ {0} : 2 <= n \/ n = 1
        OBVIOUS
      <4>2. Len(writes) = 1
        BY <1>1, <3>3, <4>1
      <4> QED
        BY <3>1, <3>3, <4>2
    <3> QED
      BY <3>2, <3>3
  <2> HIDE DEF q
  <2>4. q \in Seq(Writes) /\ Len(q) = Len(writes) - 1
    BY <1>1, <2>2, <2>3
  <2>5. ASSUME NEW i \in 1..Len(q) PROVE q[i] = writes[i + 1]
    <3>1. i \in 1..(Len(writes) - 2 + 1) /\ 2 + i - 1 = i + 1
      BY <1>1, <2>4
    <3> QED
      BY <2>2, <2>3, <3>1
  <2> QED
    BY <2>4, <2>5
<1> HIDE DEF q
<1>4. rest = << >> \o q
  BY <1>2 DEF q
<1>5. rest = q
  BY <1>3, <1>4, ConcatEmptySeq
<1> QED
  BY <1>1, <1>3, <1>5

\* At most one write joins at the end.
LEMMA Joined ==
    ASSUME NEW q \in Seq(Writes), NEW w \in Writes, NEW on \in BOOLEAN,
           NEW p, p = q \o (IF on THEN <<w>> ELSE << >>)
    PROVE  /\ p \in Seq(Writes) /\ Len(q) \in Nat
           /\ Len(p) = IF on THEN Len(q) + 1 ELSE Len(q)
           /\ \A i \in 1..Len(q) : p[i] = q[i]
           /\ on => p[Len(p)] = w
<1>1. CASE on
  <2>1. p = q \o <<w>> /\ <<w>> \in Seq(Writes) /\ Len(<<w>>) = 1 /\ <<w>>[1] = w
    BY <1>1
  <2> QED
    BY <1>1, <2>1, ConcatProperties, LenProperties
<1>2. CASE ~on
  <2>1. p = q
    BY <1>2, ConcatEmptySeq
  <2> QED
    BY <1>2, <2>1, LenProperties
<1> QED
  BY <1>1, <1>2

LEMMA JoinedValid ==
    ASSUME NEW q \in Seq(Writes), \A i \in 1..Len(q) : Valid(q[i].state),
           NEW w \in Writes, NEW on \in BOOLEAN, on => Valid(w.state),
           NEW p, Len(p) = IF on THEN Len(q) + 1 ELSE Len(q),
           \A i \in 1..Len(q) : p[i] = q[i],
           on => p[Len(p)] = w
    PROVE  \A i \in 1..Len(p) : Valid(p[i].state)
<1> SUFFICES ASSUME NEW i \in 1..Len(p) PROVE Valid(p[i].state)
  OBVIOUS
<1>1. Len(q) \in Nat
  BY LenProperties
<1>2. CASE on
  <2>1. \A n \in Nat : \A k \in 1..(n + 1) : k \in 1..n \/ k = n + 1
    OBVIOUS
  <2>2. Len(p) = Len(q) + 1
    BY <1>2
  <2>3. i \in 1..Len(q) \/ i = Len(p)
    BY <1>1, <2>1, <2>2
  <2> QED
    BY <1>2, <2>3
<1>3. CASE ~on
  <2>1. i \in 1..Len(q)
    BY <1>3
  <2> QED
    BY <2>1
<1> QED
  BY <1>2, <1>3

LEMMA SyncedFacts ==
    ASSUME NEW s \in States, NEW fs \in SUBSET SyncedFeatures
    PROVE  /\ Synced(s, fs) \in States /\ Valid(Synced(s, fs))
           /\ \A f \in fs : IsSynced(Synced(s, fs), f)
           /\ \A f \in SyncedFeatures : IsSynced(s, f) => IsSynced(Synced(s, fs), f)
           /\ Synced(s, fs).sync = s.sync /\ Synced(s, fs).listed = s.listed
           /\ fs = {} /\ Valid(s) => Synced(s, fs) = s
<1> DEFINE sel == [f \in Features |-> IF f \in fs THEN s.selection["Chat"] ELSE s.selection[f]]
           r == [s EXCEPT !.selection = sel]
<1>1. sel \in [Features -> Models \cup {None}]
  BY DEF States, Features
<1>2. \A f \in Features : sel[f] = IF f \in fs THEN s.selection["Chat"] ELSE s.selection[f]
  OBVIOUS
<1>3. Synced(s, fs) = Validated(r)
  BY DEF Synced
<1> HIDE DEF sel
<1>4. /\ r \in States /\ r.sync = s.sync /\ r.selection = sel
      /\ r.listed = s.listed /\ r.hidden = s.hidden /\ r.keyed = s.keyed
  BY <1>1 DEF States
<1> HIDE DEF r
<1>5. "Chat" \in Features /\ "Chat" \notin fs /\ SyncedFeatures \subseteq Features
  BY DEF Features, SyncedFeatures
<1>6. \A f \in fs : IsSynced(r, f)
  BY <1>2, <1>4, <1>5 DEF IsSynced
<1>7. \A f \in SyncedFeatures : IsSynced(s, f) => IsSynced(r, f)
  BY <1>2, <1>4, <1>5 DEF IsSynced
<1>8. ASSUME fs = {}, Valid(s) PROVE Synced(s, fs) = s
  <2>1. r = s
    BY <1>2, <1>4, <1>8, StateIsState
  <2> QED
    BY <1>3, <1>8, <2>1, ValidatedKeeps
<1> QED
  BY <1>3, <1>4, <1>6, <1>7, <1>8, ValidatedFacts, SyncSurvives

LEMMA StoredInv == ASSUME IInv, Stored PROVE IInv'
<1> DEFINE w == writes[NextWrite]
           fs == Follow(w.then)
           rest == SubSeq(writes, 1, 1 - 1) \o SubSeq(writes, 1 + 1, Len(writes))
           apply == Write(Synced(state, {"Apply"}), ThenAfter("Apply"))
           scm == Write(Synced(state, fs), ThenAfter("SCM"))
           some == rest \o (IF "Apply" \in fs THEN <<apply>> ELSE << >>)
           all == some \o (IF "SCM" \in fs THEN <<scm>> ELSE << >>)
<1>1. /\ writes # << >> /\ stored' = w.state /\ state' = Synced(state, fs) /\ writes' = all
      /\ UNCHANGED <<phase, read, broken>>
  BY DEF Stored, NextWrite
<1>2. /\ rest \in Seq(Writes) /\ Len(rest) = Len(writes) - 1 /\ Len(writes) \in Nat \ {0}
      /\ \A i \in 1..Len(rest) : rest[i] = writes[i + 1]
  <2>1. writes \in Seq(Writes) /\ writes # << >>
    BY <1>1 DEF IInv, Types
  <2> QED
    BY <2>1, WithoutFirst
<1>3. w \in Writes /\ w = writes[1]
  BY <1>2, ElementOfSeq DEF NextWrite, IInv, Types
<1>4. fs \in SUBSET SyncedFeatures
  BY <1>3 DEF Follow, Writes, Thens
<1>5. /\ Synced(state, fs) \in States /\ Valid(Synced(state, fs))
      /\ \A f \in fs : IsSynced(Synced(state, fs), f)
      /\ \A f \in SyncedFeatures : IsSynced(state, f) => IsSynced(Synced(state, fs), f)
      /\ Synced(state, fs).sync = state.sync /\ Synced(state, fs).listed = state.listed
      /\ fs = {} /\ Valid(state) => Synced(state, fs) = state
  <2> HIDE DEF fs
  <2> QED
    BY <1>4, SyncedFacts DEF IInv, Types
<1>6. Synced(state, {"Apply"}) \in States /\ Valid(Synced(state, {"Apply"}))
  BY SyncedFacts DEF IInv, Types, SyncedFeatures
<1>7. /\ apply \in Writes /\ apply.state = Synced(state, {"Apply"}) /\ apply.then = "nothing"
      /\ scm \in Writes /\ scm.state = Synced(state, fs) /\ scm.then = "nothing"
  <2> HIDE DEF fs
  <2> QED
    BY <1>5, <1>6 DEF Write, Writes, ThenAfter, Thens
<1> HIDE DEF w, fs, rest, apply, scm
<1>8. /\ some \in Seq(Writes) /\ Len(rest) \in Nat
      /\ Len(some) = IF "Apply" \in fs THEN Len(rest) + 1 ELSE Len(rest)
      /\ \A i \in 1..Len(rest) : some[i] = rest[i]
      /\ "Apply" \in fs => some[Len(some)] = apply
  BY <1>2, <1>7, Joined
<1> HIDE DEF some
<1>9. /\ all \in Seq(Writes) /\ Len(some) \in Nat
      /\ Len(all) = IF "SCM" \in fs THEN Len(some) + 1 ELSE Len(some)
      /\ \A i \in 1..Len(some) : all[i] = some[i]
      /\ "SCM" \in fs => all[Len(all)] = scm
  BY <1>7, <1>8, Joined
<1> HIDE DEF all
<1>10. \A i \in 1..Len(all) : Valid(all[i].state)
  <2>1. ASSUME NEW i \in 1..Len(rest) PROVE Valid(rest[i].state)
    <3>1. i + 1 \in 1..Len(writes)
      BY <1>2
    <3> QED
      BY <1>2, <3>1 DEF IInv, ValidStates
  <2>2. \A i \in 1..Len(some) : Valid(some[i].state)
    BY <1>6, <1>7, <1>8, <2>1, JoinedValid
  <2> QED
    BY <1>5, <1>7, <1>8, <1>9, <2>2, JoinedValid
<1>11. \A i \in 1..Len(rest) : all[i] = writes[i + 1] /\ i \in 1..Len(all)
  BY <1>2, <1>8, <1>9
<1>12. Types'
  BY <1>1, <1>3, <1>5, <1>9 DEF IInv, Types, Writes
<1>13. ValidStates'
  <2>1. Valid(w.state)
    BY <1>2, <1>3 DEF IInv, ValidStates
  <2> QED
    BY <1>1, <1>5, <1>10, <2>1 DEF IInv, ValidStates
<1>14. ASSUME broken' \subseteq {"cut"}
       PROVE  /\ phase' = "ready"
              /\ writes' # << >> => writes'[Len(writes')].state = state'
              /\ writes' = << >> => stored' = state'
  <2>1. phase = "ready" /\ phase' = "ready" /\ writes[Len(writes)].state = state /\ Valid(state)
    BY <1>1, <1>14 DEF IInv, Types, NewestWrite, ValidStates
  <2>2. writes' # << >> => Len(all) \in Nat \ {0}
    BY <1>1, <1>9, EmptySeq
  <2>3. CASE "SCM" \in fs
    <3>1. all # << >> /\ all[Len(all)].state = state'
      BY <1>1, <1>7, <1>9, <2>3, EmptySeq
    <3> QED
      BY <1>1, <2>1, <3>1
  <2>4. CASE "SCM" \notin fs /\ "Apply" \in fs
    <3>1. fs = {"Apply"}
      BY <1>4, <2>4 DEF SyncedFeatures
    <3>2. Len(all) = Len(some) /\ Len(some) = Len(rest) + 1 /\ all[Len(all)] = apply /\ all # << >>
      BY <1>8, <1>9, <2>4, EmptySeq
    <3> QED
      BY <1>1, <1>7, <2>1, <3>1, <3>2
  <2>5. CASE fs = {}
    <3>1. state' = state /\ Len(all) = Len(rest)
      BY <1>1, <1>5, <1>8, <1>9, <2>1, <2>5
    <3>2. ASSUME writes' # << >> PROVE all[Len(all)] = writes[Len(writes)]
      <4>1. Len(all) \in 1..Len(rest) /\ Len(all) + 1 = Len(writes)
        BY <1>2, <2>2, <3>1, <3>2
      <4> QED
        BY <1>11, <4>1
    <3>3. ASSUME writes' = << >> PROVE w = writes[Len(writes)]
      <4>1. Len(all) = 0
        BY <1>1, <3>3, EmptySeq
      <4>2. Len(rest) = 0
        BY <3>1, <4>1
      <4>3. Len(writes) = 1
        BY <1>2, <4>2
      <4> QED
        BY <1>3, <4>3
    <3> QED
      BY <1>1, <2>1, <3>1, <3>2, <3>3
  <2>6. fs = {} \/ "SCM" \in fs \/ "Apply" \in fs
    BY <1>4 DEF SyncedFeatures
  <2> QED
    BY <2>3, <2>4, <2>5, <2>6
<1>15. NewestWrite'
  BY <1>14 DEF NewestWrite
<1>16. HooksAhead'
  <2> SUFFICES ASSUME broken' = {}
               PROVE  /\ writes' = << >> => \A f \in SyncedFeatures : IsSynced(stored', f)
                      /\ phase' = "ready" =>
                            \/ \A f \in SyncedFeatures : IsSynced(state', f)
                            \/ \E i \in 1..Len(writes') : writes'[i].then \in {"all", "ifSynced"}
    BY <1>1 DEF HooksAhead, IsSynced
  <2>1. phase = "ready" /\ UNCHANGED <<phase, read, broken>> /\ broken = {}
    BY <1>1 DEF IInv, Types, NewestWrite
  <2>2. ASSUME \A f \in SyncedFeatures : IsSynced(state, f)
        PROVE  \A f \in SyncedFeatures : IsSynced(state', f)
    BY <1>1, <1>5, <2>2
  <2>3. ASSUME NEW j \in 1..Len(writes), writes[j].then \in {"all", "ifSynced"}
        PROVE  \/ \A f \in SyncedFeatures : IsSynced(state', f)
               \/ \E i \in 1..Len(writes') : writes'[i].then \in {"all", "ifSynced"}
    <3>1. CASE j = 1
      <4>1. ASSUME NEW f \in SyncedFeatures PROVE IsSynced(state', f)
        <5>1. f \in fs \/ ~state.sync[f]
          BY <1>3, <2>3, <3>1 DEF fs, Follow
        <5> QED
          BY <1>1, <1>5, <5>1 DEF IsSynced
      <4> QED
        BY <4>1
    <3>2. CASE j # 1
      <4>1. j - 1 \in 1..Len(rest) /\ (j - 1) + 1 = j
        BY <1>2, <3>2
      <4>2. all[j - 1] = writes[j] /\ j - 1 \in 1..Len(all)
        BY <1>11, <4>1
      <4> QED
        BY <1>1, <2>3, <4>2
    <3> QED
      BY <3>1, <3>2
  <2>4. \/ \A f \in SyncedFeatures : IsSynced(state', f)
        \/ \E i \in 1..Len(writes') : writes'[i].then \in {"all", "ifSynced"}
    BY <2>1, <2>2, <2>3 DEF IInv, HooksAhead
  <2>5. ASSUME writes' = << >> PROVE \A f \in SyncedFeatures : IsSynced(stored', f)
    <3>1. Len(writes') = 0 /\ stored' = state'
      BY <1>14, <2>5, EmptySeq
    <3> QED
      BY <2>4, <3>1
  <2> QED
    BY <2>4, <2>5
<1> QED
  BY <1>12, <1>13, <1>15, <1>16 DEF IInv

LEMMA EncryptionFailsInv == ASSUME IInv, EncryptionFails PROVE IInv'
<1>1. writes \in Seq(Writes) /\ writes # << >>
  BY DEF IInv, Types, EncryptionFails
<1>2. /\ Tail(writes) \in Seq(Writes) /\ Len(Tail(writes)) = Len(writes) - 1
      /\ \A i \in 1..Len(Tail(writes)) : Tail(writes)[i] = writes[i + 1]
  BY <1>1, HeadTailProperties
<1>3. writes' = Tail(writes) /\ "failed" \in broken' /\ UNCHANGED <<state, phase, read, stored>>
  BY DEF EncryptionFails
<1>4. Types'
  BY <1>2, <1>3 DEF IInv, Types
<1>5. ValidStates'
  <2>1. Len(writes) \in Nat
    BY <1>1, LenProperties
  <2>2. \A i \in 1..Len(Tail(writes)) : i + 1 \in 1..Len(writes)
    BY <1>2, <2>1
  <2> QED
    BY <1>2, <1>3, <2>2 DEF IInv, ValidStates
<1>6. NewestWrite' /\ HooksAhead'
  BY <1>3 DEF NewestWrite, HooksAhead
<1> QED
  BY <1>4, <1>5, <1>6 DEF IInv

LEMMA ReloadInv == ASSUME IInv, Reload PROVE IInv'
<1>1. /\ phase = "ready" /\ phase' = "reading" /\ state' = defaultState /\ read' = stored
      /\ writes' = << >> /\ stored' = stored
      /\ broken' = broken \cup IF writes # << >> THEN {"cut"} ELSE {}
  BY DEF Reload
<1>2. Types'
  <2>1. << >> \in Seq(Writes)
    BY EmptySeq
  <2> QED
    BY <1>1, <2>1, defaultStateType DEF IInv, Types
<1>3. Len(writes') = 0
  BY <1>1, EmptySeq
<1>4. ValidStates'
  BY <1>1, <1>3 DEF IInv, ValidStates
<1>5. NewestWrite'
  BY <1>1 DEF NewestWrite
<1>6. HooksAhead'
  BY <1>1 DEF IInv, HooksAhead, IsSynced
<1> QED
  BY <1>2, <1>4, <1>5, <1>6 DEF IInv

LEMMA defaultStateSynced == \A f \in SyncedFeatures : IsSynced(Validated(defaultState), f)
<1>1. \A f \in SyncedFeatures : IsSynced(defaultState, f)
  BY DEF defaultState, IsSynced, SyncedFeatures, Features
<1> QED
  BY <1>1, defaultStateType, SyncSurvives

LEMMA SyncIsRestored ==
    ASSUME NEW s \in States, NEW f \in SyncedFeatures, IsSynced(s, f)
    PROVE  IsSynced(Validated(Restored(s)), f)
<1>1. f \in Features /\ "Chat" \in Features
  BY SameOffer
<1>2. IsSynced(Restored(s), f)
  <2> SUFFICES ASSUME s.sync[f]
               PROVE  Restored(s).selection[f] = Restored(s).selection["Chat"]
    BY RestoredFacts DEF IsSynced
  <2> DEFINE r == Restored(s)
  <2>1. /\ \A g \in Features :
             IF s.selection[g] # None THEN r.selection[g] = s.selection[g]
             ELSE r.selection[g] \in {s.selection["Chat"], DefaultModel}
        /\ \A g \in Features : s.selection[g] = None /\ s.selection["Chat"] = None =>
                 r.selection[g] = DefaultModel
    BY RestoredFacts
  <2> HIDE DEF r
  <2>2. s.selection[f] = s.selection["Chat"]
    BY DEF IsSynced
  <2>3. ASSUME s.selection["Chat"] = None PROVE r.selection[f] = r.selection["Chat"]
    BY <1>1, <2>1, <2>2, <2>3
  <2>4. ASSUME s.selection["Chat"] # None PROVE r.selection[f] = r.selection["Chat"]
    BY <1>1, <2>1, <2>2, <2>4
  <2>5. r.selection[f] = r.selection["Chat"]
    BY <2>3, <2>4
  <2> QED
    BY <2>5 DEF r
<1> QED
  BY <1>2, RestoredFacts, SyncSurvives

LEMMA ReadInv == ASSUME IInv, readAndInitializeState PROVE IInv'
<1>1. phase = "reading" /\ phase' = "ready" /\ UNCHANGED <<read, stored, writes>>
  BY DEF readAndInitializeState
<1>2. ASSUME read # None, state' = Validated(Restored(read)), UNCHANGED broken PROVE IInv'
  <2>1. read \in States /\ Restored(read) \in States /\ DefaultModels \subseteq Restored(read).listed
    BY <1>2, RestoredFacts DEF IInv, Types
  <2>2. state' \in States /\ Valid(state') /\ DefaultModels \subseteq state'.listed
    BY <1>2, <2>1, ValidatedFacts
  <2>3. Types' /\ ValidStates'
    BY <1>1, <2>2 DEF IInv, Types, ValidStates
  <2>4. NewestWrite'
    BY <1>1, <1>2 DEF IInv, NewestWrite
  <2>5. HooksAhead'
    <3> SUFFICES ASSUME broken' = {}
                 PROVE  /\ stored' # None => \A f \in SyncedFeatures : IsSynced(stored', f)
                        /\ \A f \in SyncedFeatures : IsSynced(state', f)
      BY DEF HooksAhead, IsSynced
    <3>1. broken = {} /\ writes = << >> /\ read = stored
      BY <1>1, <1>2 DEF IInv, NewestWrite
    <3>2. \A f \in SyncedFeatures : IsSynced(read, f)
      BY <1>2, <3>1 DEF IInv, HooksAhead
    <3> QED
      BY <1>1, <1>2, <2>1, <3>1, <3>2, SyncIsRestored
  <2> QED
    BY <2>3, <2>4, <2>5 DEF IInv
<1>3. ASSUME state' = Validated(defaultState), broken' = broken \cup IF read # None THEN {"failed"} ELSE {}
      PROVE  IInv'
  <2>1. state' \in States /\ Valid(state') /\ DefaultModels \subseteq state'.listed
    BY <1>3, defaultStateType, ValidatedFacts
  <2>2. Types' /\ ValidStates'
    BY <1>1, <2>1 DEF IInv, Types, ValidStates
  <2>3. NewestWrite'
    BY <1>1, <1>3 DEF IInv, NewestWrite
  <2>4. HooksAhead'
    <3>1. \A f \in SyncedFeatures : IsSynced(state', f)
      BY <1>3, defaultStateSynced
    <3>2. broken' = {} => stored' = None
      BY <1>1, <1>3 DEF IInv, NewestWrite
    <3> QED
      BY <3>1, <3>2 DEF HooksAhead, IsSynced
  <2> QED
    BY <2>2, <2>3, <2>4 DEF IInv
<1> QED
  BY <1>2, <1>3 DEF readAndInitializeState

-----------------------------------------------------------------------------
LEMMA NextInv == IInv /\ [Next]_vars => IInv'
<1> SUFFICES ASSUME IInv, [Next]_vars PROVE IInv'
  OBVIOUS
<1>1. ASSUME NEW filled \in BOOLEAN, setSettingOfProvider(filled) PROVE IInv'
  BY <1>1, SettingOfProviderInv
<1>2. ASSUME NEW m \in Models, addModel(m) \/ deleteModel(m) PROVE IInv'
  BY <1>2, ModelsInv
<1>3. ASSUME NEW m \in Models, toggleModelHidden(m) PROVE IInv'
  BY <1>3, HiddenInv
<1>4. ASSUME NEW models \in SUBSET Autodetected, setAutodetectedModels(models) PROVE IInv'
  BY <1>4, ModelsInv
<1>5. ASSUME NEW f \in SyncedFeatures, NEW on \in BOOLEAN, setGlobalSetting(f, on) PROVE IInv'
  BY <1>5, GlobalSettingInv
<1>6. ASSUME NEW f \in Features, NEW m \in Models, setModelSelectionOfFeature(f, m) PROVE IInv'
  BY <1>6, ModelSelectionInv
<1>7. CASE resetState \/ Stored \/ EncryptionFails \/ Reload \/ readAndInitializeState
  BY <1>7, ResetInv, StoredInv, EncryptionFailsInv, ReloadInv, ReadInv
<1>8. CASE UNCHANGED vars
  BY <1>8 DEF vars, IInv, Types, ValidStates, NewestWrite, HooksAhead, IsSynced
<1> QED
  BY <1>1, <1>2, <1>3, <1>4, <1>5, <1>6, <1>7, <1>8 DEF Next

LEMMA Invariance == Spec => []IInv
<1> QED
  BY InitInv, NextInv, PTL DEF Spec

\* Once the settings are read, every feature has a model that is offered to it, or
\* none if there is none, for every set of models (_validatedModelState).
THEOREM SelectionsAreOffered == Spec => []TypeOK
<1>1. IInv => TypeOK
  <2> SUFFICES ASSUME IInv PROVE TypeOK
    OBVIOUS
  <2>1. \A i \in DOMAIN writes : writes[i].state \in States /\ writes[i].then \in {"nothing", "all", "ifSynced"}
    <3>1. writes \in Seq(Writes) /\ DOMAIN writes = 1..Len(writes)
      BY LenProperties DEF IInv, Types
    <3>2. \A i \in DOMAIN writes : writes[i] \in Writes
      BY <3>1, ElementOfSeq
    <3> QED
      BY <3>2 DEF Writes, Thens
  <2> QED
    BY <2>1 DEF IInv, Types, ValidStates, Valid, TypeOK
<1> QED
  BY <1>1, Invariance, PTL

\* When nothing is on its way, a reload comes back with what is shown, after any number
\* of changes and reloads (_storeState, readAndInitializeState); if the key of genrtlSaaS
\* was emptied, what is shown is still what was stored, but the reload gives the key back.
THEOREM StoredStateIsShown == Spec => []StoredIsShown
<1>1. IInv => StoredIsShown
  <2> SUFFICES ASSUME IInv, Quiet, broken \subseteq {"cut"}, stored # None
               PROVE  state = IF state.keyed THEN Validated(Restored(stored)) ELSE stored
    BY DEF StoredIsShown
  <2>1. /\ stored = state \/ state = Validated(Restored(stored))
        /\ state \in States /\ stored \in States /\ Valid(state) /\ DefaultModels \subseteq state.listed
    BY DEF IInv, Types, ValidStates, NewestWrite, Quiet
  <2>2. CASE stored = state
    BY <2>1, <2>2, RestoredKeeps
  <2>3. CASE state = Validated(Restored(stored))
    <3>1. state.keyed = TRUE
      BY <2>1, <2>3, RestoredFacts, ValidatedFacts
    <3> QED
      BY <2>3, <3>1
  <2> QED
    BY <2>1, <2>2, <2>3
<1> QED
  BY <1>1, Invariance, PTL

\* A synced feature has the model of Chat once its hooks have run, however the changes
\* are mixed (_onUpdate_syncApplyToChat, _onUpdate_syncSCMToChat).
THEOREM SyncedFeaturesAreSame == Spec => []SyncedIsSame
<1>1. IInv => SyncedIsSame
  <2> SUFFICES ASSUME IInv, Quiet, broken = {}, NEW f \in SyncedFeatures, state.sync[f]
               PROVE  state.selection[f] = state.selection["Chat"]
    BY DEF SyncedIsSame
  <2>1. phase = "ready" /\ Len(writes) = 0
    BY EmptySeq DEF Quiet
  <2> QED
    BY <2>1 DEF IInv, HooksAhead, IsSynced
<1> QED
  BY <1>1, Invariance, PTL
=============================================================================
