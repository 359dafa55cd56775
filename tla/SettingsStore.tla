--------------------------- MODULE SettingsStore ----------------------------
(***************************************************************************)
(* The settings of a window (common/genrtlSettingsService.ts): which       *)
(* models are offered, which one each feature uses, and the storage that   *)
(* survives a reload.                                                      *)
(*                                                                         *)
(* Every setter changes the state at once and stores it once the main      *)
(* process has encrypted it; only then its listeners and hooks run.  The   *)
(* encryption (external) is a channel: answers come in the order of the    *)
(* calls, or an error.                                                     *)
(***************************************************************************)
EXTENDS Naturals, Sequences

CONSTANTS
    Models,        \* 1..n: in the order in which they are offered
    FIMModels,     \* those that supportsFIM
    Managed,       \* those of genrtlSaaS
    DefaultModels, \* those of type default
    Autodetected,  \* those of type autodetected; the others are custom
    DefaultModel,  \* of defaultState, for every feature
    None,
    MaxChanges     \* bound: changes by the user

ASSUME ModelsAssumption ==
    /\ Models \subseteq Nat /\ FIMModels \subseteq Models /\ Managed \subseteq Models
    /\ DefaultModels \subseteq Models /\ Autodetected \subseteq Models \ DefaultModels
    /\ DefaultModel \in DefaultModels /\ None \notin Models
    /\ MaxChanges \in Nat

VARIABLES
    state,     \* the fields of state that matter here
    phase,     \* "reading" until readAndInitializeState ends
    read,      \* what it found in the storage
    stored,    \* what the storage holds
    writes,    \* setters that wait for the encryption
    changes,   \* how often the user changed something
    broken     \* ghost: what went wrong of "early" (a change before the state was read),
               \* "failed" (an encryption) and "cut" (a reload before the hooks)

vars == <<state, phase, read, stored, writes, changes, broken>>

Features == {"Chat", "Apply", "SCM", "Autocomplete"}
SyncedFeatures == {"Apply", "SCM"}

-----------------------------------------------------------------------------
\* _modelOptions: the models that are listed and not hidden, of providers that are
\* filled in.
Offered(s) == {m \in s.listed \ s.hidden : m \in Managed => s.keyed}

\* modelFilterOfFeatureName
OfferedTo(s, f) == IF f = "Autocomplete" THEN Offered(s) \cap FIMModels ELSE Offered(s)

First(models) == CHOOSE m \in models : \A n \in models : m <= n

\* _validatedModelState: a selection that is not offered gives way to the first one.
ValidSelection(s, f) ==
    LET models == OfferedTo(s, f) IN
    IF s.selection[f] \in models THEN s.selection[f]
    ELSE IF models = {} THEN None ELSE First(models)

\* Mutant: a feature with a selection keeps it.
ValidIfNone(s) ==
    [s EXCEPT !.selection = [f \in Features |-> IF @[f] = None THEN ValidSelection(s, f) ELSE @[f]]]

Validated(s) == [s EXCEPT !.selection = [f \in Features |-> ValidSelection(s, f)]]

defaultState ==
    [listed |-> DefaultModels, hidden |-> {}, keyed |-> TRUE,
     selection |-> [f \in Features |-> DefaultModel], sync |-> [f \in SyncedFeatures |-> TRUE]]

Init ==
    /\ state = defaultState
    /\ phase = "reading"
    /\ read = None
    /\ stored = None
    /\ writes = << >>
    /\ changes = 0
    /\ broken = {}

\* A setter up to its await.  then: the hooks that follow when it is stored.
Write(s, then) == [state |-> s, then |-> then]

Change(s, then) ==
    /\ changes < MaxChanges
    /\ changes' = changes + 1
    /\ state' = Validated(s)
    /\ writes' = Append(writes, Write(state', then))
    /\ broken' = broken \cup IF phase = "reading" THEN {"early"} ELSE {}
    /\ UNCHANGED <<phase, read, stored>>

-----------------------------------------------------------------------------
\* genrtlSaaS gets or loses its key.  That of another provider offers and takes away its
\* models as toggleModelHidden does.
setSettingOfProvider(filled) == Change([state EXCEPT !.keyed = filled], "nothing")

\* A model that is listed anew is not hidden.
Listing(s, models) == [s EXCEPT !.listed = models, !.hidden = @ \cap models]

addModel(m) == m \notin state.listed /\ Change(Listing(state, state.listed \cup {m}), "nothing")

\* Only a custom model has the button (Settings.tsx:510).
deleteModel(m) ==
    /\ m \in state.listed \ (DefaultModels \cup Autodetected)
    /\ Change(Listing(state, state.listed \ {m}), "nothing")

toggleModelHidden(m) ==
    /\ m \in state.listed
    /\ Change([state EXCEPT !.hidden = IF m \in @ THEN @ \ {m} ELSE @ \cup {m}], "nothing")

setAutodetectedModels(models) ==
    Change(Listing(state, (state.listed \ Autodetected) \cup models), "nothing")

\* syncApplyToChat and syncSCMToChat
setGlobalSetting(f, on) == Change([state EXCEPT !.sync[f] = on], "ifSynced")

\* Mutant: every feature passes its model on.
ThenAll(f) == "all"

\* What follows the setter of one feature.
ThenAfter(f) == IF f = "Chat" THEN "all" ELSE "nothing"

\* From the dropdown of f, which is hidden while f is synced.
setModelSelectionOfFeature(f, m) ==
    /\ m \in OfferedTo(state, f)
    /\ f \in SyncedFeatures => ~state.sync[f]
    /\ Change([state EXCEPT !.selection[f] = m], ThenAfter(f))

resetState == Change(defaultState, "all")

\* Mutant: only the switch of a feature makes it follow.
FollowSwitch(then) == IF then = "ifSynced" THEN {f \in SyncedFeatures : state.sync[f]} ELSE {}

\* The features that a hook gives the selection of Chat.
Follow(then) ==
    CASE then = "nothing" -> {}
      [] then = "all" -> SyncedFeatures
      [] then = "ifSynced" -> {f \in SyncedFeatures : state.sync[f]}

\* _onUpdate_syncApplyToChat, _onUpdate_syncSCMToChat
Synced(s, fs) ==
    Validated([s EXCEPT !.selection = [f \in Features |-> IF f \in fs THEN @["Chat"] ELSE @[f]]])

\* Mutant: the setter that was called last is stored first.
LastWrite == Len(writes)

\* The order of the channel.
NextWrite == 1

\* The encryption answers: stored, and the hooks are setters again.
Stored ==
    /\ writes # << >>
    /\ LET w == writes[NextWrite]
           fs == Follow(w.then)
           Hook(f, s) == IF f \in fs THEN <<Write(s, ThenAfter(f))>> ELSE << >>
       IN
       /\ stored' = w.state
       /\ state' = Synced(state, fs)
       /\ writes' = SubSeq(writes, 1, NextWrite - 1) \o SubSeq(writes, NextWrite + 1, Len(writes))
                        \o Hook("Apply", Synced(state, {"Apply"})) \o Hook("SCM", state')
    /\ UNCHANGED <<phase, read, changes, broken>>

\* Or it throws, and the setter with it.
EncryptionFails ==
    /\ writes # << >>
    /\ writes' = Tail(writes)
    /\ broken' = broken \cup {"failed"}
    /\ UNCHANGED <<state, phase, read, stored, changes>>

-----------------------------------------------------------------------------
\* The window is reloaded, or opened for the first time: _readState finds what is
\* stored and has it decrypted.
Reload ==
    /\ phase = "ready"
    /\ state' = defaultState
    /\ phase' = "reading"
    /\ read' = stored
    /\ writes' = << >>
    /\ broken' = broken \cup IF writes # << >> THEN {"cut"} ELSE {}
    /\ UNCHANGED <<stored, changes>>

\* What is read is completed: SCM without a model gets that of Chat, and a feature that is
\* still without one its default; an empty key of genrtlSaaS becomes the default key, and
\* the default models are swapped in again (_stateWithMergedDefaultModels).
Restored(s) ==
    LET Filled(m, other) == IF m = None THEN other ELSE m IN
    [s EXCEPT
        !.listed = @ \cup DefaultModels,
        !.keyed = TRUE,
        !.selection = [f \in Features |->
            Filled(IF f = "SCM" THEN Filled(@["SCM"], @["Chat"]) ELSE @[f], DefaultModel)]]

\* readAndInitializeState: the state is set to what was read, or to the default if
\* there was nothing or decrypting threw.
readAndInitializeState ==
    /\ phase = "reading"
    /\ phase' = "ready"
    /\ \/ read # None /\ state' = Validated(Restored(read)) /\ UNCHANGED broken
       \/ state' = Validated(defaultState) /\ broken' = broken \cup IF read # None THEN {"failed"} ELSE {}
    /\ UNCHANGED <<read, stored, writes, changes>>

Next ==
    \/ \E filled \in BOOLEAN : setSettingOfProvider(filled)
    \/ \E m \in Models \ (DefaultModels \cup Autodetected) : addModel(m) \/ deleteModel(m)
    \/ \E m \in Models : toggleModelHidden(m)
    \/ \E models \in SUBSET Autodetected : setAutodetectedModels(models)
    \/ \E f \in SyncedFeatures, on \in BOOLEAN : setGlobalSetting(f, on)
    \/ \E f \in Features, m \in Models : setModelSelectionOfFeature(f, m)
    \/ resetState
    \/ Stored \/ EncryptionFails
    \/ Reload \/ readAndInitializeState

Fairness == WF_vars(Stored \/ EncryptionFails) /\ WF_vars(readAndInitializeState)

Spec == Init /\ [][Next]_vars /\ Fairness

-----------------------------------------------------------------------------
States ==
    [listed : SUBSET Models, hidden : SUBSET Models, keyed : BOOLEAN,
     selection : [Features -> Models \cup {None}], sync : [SyncedFeatures -> BOOLEAN]]

\* Types; and once it is read, the state never names a model that is not offered, nor
\* leaves a feature without one that has one (_validatedModelState on every path).
TypeOK ==
    /\ state \in States
    /\ phase \in {"reading", "ready"}
    /\ read \in States \cup {None} /\ stored \in States \cup {None}
    /\ \A i \in DOMAIN writes : writes[i].state \in States /\ writes[i].then \in {"nothing", "all", "ifSynced"}
    /\ phase = "ready" => \A f \in Features :
            IF OfferedTo(state, f) = {} THEN state.selection[f] = None
            ELSE state.selection[f] \in OfferedTo(state, f)

Quiet == phase = "ready" /\ writes = << >>

\* When nothing is on its way, what is shown is what was stored, the newest state last
\* (the await in _storeState), and a reload comes back with it: whatever the read fills in
\* changes nothing but the key of genrtlSaaS, which it gives back if it was emptied
\* (readAndInitializeState 374-376), and with it what it offers.
StoredIsShown ==
    Quiet /\ broken \subseteq {"cut"} /\ stored # None =>
        state = IF state.keyed THEN Validated(Restored(stored)) ELSE stored

\* A feature that is "Same as Chat model" (Settings.tsx:1276) is so once nothing is on
\* its way, however the changes of either were mixed.
SyncedIsSame ==
    Quiet /\ broken = {} => \A f \in SyncedFeatures : state.sync[f] => state.selection[f] = state.selection["Chat"]

\* Every change is stored or reported as failed, and its hooks come to an end.
ChangesSettle == []<>(writes = << >>)
=============================================================================
