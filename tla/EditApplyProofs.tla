-------------------------- MODULE EditApplyProofs ---------------------------
(***************************************************************************)
(* Theorems about EditApply, for every set of files and edits.             *)
(***************************************************************************)
EXTENDS EditApply, TLAPS

-----------------------------------------------------------------------------
\* What happens to one file leaves a file.

LEMMA SnapType ==
    ASSUME NEW F \in File
    PROVE  SnapOf(F) \in Snap
<1>1. F.text \in Text /\ F.zone \in Zone \cup {NoZone}
  BY DEF File
<1>2. CASE F.zone = NoZone
  BY <1>1, <1>2 DEF SnapOf, Snap
<1>3. CASE F.zone # NoZone
  <2>1. [F.zone EXCEPT !.own = FALSE] \in Zone
    BY <1>1, <1>3 DEF Zone
  <2> QED
    BY <1>1, <1>3, <2>1 DEF SnapOf, Snap
<1> QED
  BY <1>2, <1>3

LEMMA FileWith ==
    ASSUME NEW F \in File
    PROVE  /\ \A t \in Text : [F EXCEPT !.text = t] \in File
           /\ \A z \in Zone \cup {NoZone} : [F EXCEPT !.zone = z] \in File
           /\ \A p, q \in Seq(Element) : [F EXCEPT !.past = p, !.future = q] \in File
  BY DEF File

LEMMA PushType ==
    ASSUME NEW F \in File, NEW el \in Element
    PROVE  Push(F, el) \in File
<1>1. F.past \in Seq(Element)
  BY DEF File
<1>2. Append(F.past, el) \in Seq(Element) /\ << >> \in Seq(Element)
  BY <1>1
<1> DEFINE p == Append(F.past, el)
           q == << >>
           G == [F EXCEPT !.past = p, !.future = q]
<1>3. p \in Seq(Element) /\ q \in Seq(Element)
  BY <1>2
<1>4. G \in File
  <2> HIDE DEF p, q
  <2> QED
    BY <1>3, FileWith
<1> QED
  BY <1>4 DEF Push

LEMMA AgentType ==
    ASSUME NEW e \in Edits \cup {NoEdit}, NEW before \in Snap, NEW after \in Snap \cup {NoSnap}
    PROVE  Agent(e, before, after) \in Element
  BY DEF Agent, AgentElement, Element

LEMMA RecordType ==
    ASSUME NEW F \in File, NEW G \in File
    PROVE  Record(F, G) \in File
  BY SnapType, AgentType, PushType DEF Record

LEMMA WithoutZoneType ==
    ASSUME NEW F \in File
    PROVE  WithoutZone(F) \in File
  BY FileWith DEF WithoutZone

LEMMA RevertedType ==
    ASSUME NEW F \in File
    PROVE  Reverted(F) \in File /\ Baseline(F) \in Text
<1>1. CASE F.zone = NoZone
  BY <1>1 DEF Reverted, Baseline, File
<1>2. CASE F.zone # NoZone
  <2>1. F.zone.original \in Text
    BY <1>2 DEF File, Zone
  <2>2. [WithoutZone(F) EXCEPT !.text = F.zone.original] \in File
    BY <2>1, WithoutZoneType, FileWith
  <2> QED
    BY <1>2, <2>2 DEF Reverted, Baseline, File
<1> QED
  BY <1>1, <1>2

LEMMA DecidedType ==
    ASSUME NEW F \in File
    PROVE  /\ AcceptedAll(F) \in File
           /\ RejectedAll(F) \in File
           /\ UserChanged(F) \in File
  BY WithoutZoneType, RevertedType, RecordType DEF AcceptedAll, RejectedAll, UserChanged

LEMMA ToggleType ==
    ASSUME NEW t \in Text, NEW c \in Changes
    PROVE  Toggle(t, c) \in Text
  BY DEF Toggle, Text

LEMMA RestoredType ==
    ASSUME NEW F \in File, NEW snap \in Snap
    PROVE  Restored(F, snap) \in File
  BY DEF Restored, Snap, File

\* The end of a stack and what is before it.
LEMMA StackTypes ==
    ASSUME NEW s \in Seq(Element), s # << >>
    PROVE  Last(s) \in Element /\ Front(s) \in Seq(Element)
  BY DEF Last, Front

LEMMA ElementTypes ==
    ASSUME NEW el \in Element
    PROVE  /\ el.kind \in {"agent", "typed"}
           /\ el.kind = "typed" => el.change = Typing
           /\ el.kind = "agent" => /\ el.edit \in Edits \cup {NoEdit}
                                   /\ el.before \in Snap
                                   /\ el.after \in Snap \cup {NoSnap}
  BY DEF Element, AgentElement, TypedElement

LEMMA TypedType ==
    ASSUME NEW F \in File
    PROVE  UserChanged([F EXCEPT !.text = Toggle(@, Typing)]) \in File
<1>1. F.text \in Text /\ Typing \in Changes
  BY DEF File, Changes
<1>2. [F EXCEPT !.text = Toggle(@, Typing)] \in File
  BY <1>1, ToggleType, FileWith
<1> QED
  BY <1>2, DecidedType

LEMMA UndoneType ==
    ASSUME NEW F \in File
    PROVE  Undone(F) \in File
<1>1. CASE F.past = << >>
  BY <1>1 DEF Undone
<1>2. CASE F.past # << >>
  <2> DEFINE el == Last(F.past)
             G  == [F EXCEPT !.past = Front(@), !.future = Append(@, el)]
  <2>1. el \in Element /\ Front(F.past) \in Seq(Element) /\ F.future \in Seq(Element)
    BY <1>2, StackTypes DEF File
  <2> DEFINE p == Front(F.past)
             q == Append(F.future, el)
  <2>a. p \in Seq(Element) /\ q \in Seq(Element)
    BY <2>1
  <2>b. G = [F EXCEPT !.past = p, !.future = q]
    OBVIOUS
  <2>2. G \in File
    <3> HIDE DEF p, q, G
    <3> QED
      BY <2>a, <2>b, FileWith
  <2>3. CASE el.kind = "typed"
    <3>1. el.change = Typing
      BY <2>1, <2>3, ElementTypes
    <3>2. Undone(F) = UserChanged([G EXCEPT !.text = Toggle(@, Typing)])
      BY <1>2, <2>3, <3>1 DEF Undone
    <3> QED
      BY <2>2, <3>2, TypedType
  <2>4. CASE el.kind # "typed"
    <3>1. el.before \in Snap
      BY <2>1, <2>4, ElementTypes
    <3>2. Undone(F) = Restored(G, el.before)
      BY <1>2, <2>4 DEF Undone
    <3> QED
      BY <2>2, <3>1, <3>2, RestoredType
  <2> QED
    BY <2>3, <2>4
<1> QED
  BY <1>1, <1>2

LEMMA RedoneType ==
    ASSUME NEW F \in File, F.future # << >>
    PROVE  Redone(F) \in File
<1> DEFINE el == Last(F.future)
           G  == [F EXCEPT !.future = Front(@), !.past = Append(@, el)]
<1>1. el \in Element /\ Front(F.future) \in Seq(Element) /\ F.past \in Seq(Element)
  BY StackTypes DEF File
<1>2. G \in File
  <2> DEFINE p == Append(F.past, el)
             q == Front(F.future)
  <2>1. p \in Seq(Element) /\ q \in Seq(Element)
    BY <1>1
  <2>2. G = [F EXCEPT !.past = p, !.future = q]
    BY DEF File
  <2> HIDE DEF p, q, G
  <2> QED
    BY <2>1, <2>2, FileWith
<1>3. CASE el.kind = "typed"
  <2>1. el.change = Typing
    BY <1>1, <1>3, ElementTypes
  <2>2. Redone(F) = UserChanged([G EXCEPT !.text = Toggle(@, Typing)])
    BY <1>3, <2>1 DEF Redone
  <2> QED
    BY <1>2, <2>2, TypedType
<1>4. CASE el.kind = "agent" /\ el.after = NoSnap
  <2>1. Redone(F) = G
    BY <1>4 DEF Redone
  <2> QED
    BY <1>2, <2>1
<1>5. CASE el.kind = "agent" /\ el.after # NoSnap
  <2>1. el.after \in Snap
    BY <1>1, <1>5, ElementTypes
  <2>2. Redone(F) = Restored(G, el.after)
    BY <1>5 DEF Redone
  <2> QED
    BY <1>2, <2>1, <2>2, RestoredType
<1> QED
  BY <1>1, <1>3, <1>4, <1>5, ElementTypes

LEMMA FinishedType ==
    ASSUME NEW F \in File, NEW e
    PROVE  Finished(F, e) \in File
<1> DEFINE Mark(s) == [i \in DOMAIN s |->
             IF s[i].kind = "agent" /\ s[i].edit = e THEN [s[i] EXCEPT !.after = SnapOf(F)] ELSE s[i]]
<1>1. ASSUME NEW s \in Seq(Element)
      PROVE  Mark(s) \in Seq(Element)
  <2>1. ASSUME NEW i \in DOMAIN s, s[i].kind = "agent"
        PROVE  [s[i] EXCEPT !.after = SnapOf(F)] \in Element
    <3>1. s[i] \in AgentElement
      BY <2>1 DEF Element, TypedElement
    <3> QED
      BY <3>1, SnapType DEF AgentElement, Element
  <2>2. DOMAIN s = 1..Len(s) /\ Len(s) \in Nat
    OBVIOUS
  <2>3. \A i \in 1..Len(s) : s[i] \in Element
    OBVIOUS
  <2> HIDE DEF Element
  <2>4. Mark(s) \in [1..Len(s) -> Element]
    BY <2>1, <2>2, <2>3
  <2> QED
    BY <2>2, <2>4
<1>2. Mark(F.past) \in Seq(Element) /\ Mark(F.future) \in Seq(Element)
  BY <1>1 DEF File
<1>3. Finished(F, e) = [F EXCEPT !.past = Mark(@), !.future = Mark(@)]
  BY DEF Finished
<1> HIDE DEF Mark
<1> QED
  BY <1>2, <1>3, FileWith

LEMMA DoneWithType ==
    ASSUME NEW F \in File, NEW e, NEW auto
    PROVE  DoneWith(F, e, auto) \in File
  BY FinishedType, DecidedType DEF DoneWith

LEMMA StartedType ==
    ASSUME NEW F \in File, NEW e \in Edits
    PROVE  Started(F, e) \in File
<1> DEFINE P == Push(Reverted(F), Agent(e, SnapOf(F), NoSnap))
           z == [edit |-> e, original |-> F.text, own |-> TRUE]
<1>1. P \in File
  BY RevertedType, SnapType, AgentType, PushType
<1>2. z \in Zone
  BY DEF Zone, File
<1>3. [P EXCEPT !.zone = z] \in File
  <2> HIDE DEF P, z
  <2> QED
    BY <1>1, <1>2, FileWith
<1> QED
  BY <1>3 DEF Started

LEMMA ToolTypes ==
    ASSUME NEW F \in File, NEW e \in Edits
    PROVE  /\ [F EXCEPT !.zone = Kept(F, e)] \in File
           /\ [F EXCEPT !.zone = Kept(F, e), !.text = @ \cup {e}] \in File
<1>1. Kept(F, e) \in Zone
  BY RevertedType DEF Kept, Zone
<1>2. F.text \cup {e} \in Text
  BY DEF File, Text, Changes
<1>3. [F EXCEPT !.zone = Kept(F, e)] \in File
  BY <1>1, FileWith
<1>4. [[F EXCEPT !.zone = Kept(F, e)] EXCEPT !.text = F.text \cup {e}] \in File
  BY <1>2, <1>3, FileWith
<1>5. [F EXCEPT !.zone = Kept(F, e), !.text = @ \cup {e}]
        = [[F EXCEPT !.zone = Kept(F, e)] EXCEPT !.text = F.text \cup {e}]
  BY DEF File
<1> QED
  BY <1>3, <1>4, <1>5

LEMMA DiffTypes ==
    ASSUME NEW F \in File, F.zone # NoZone, NEW c \in DiffsOf(F)
    PROVE  /\ DropIfDone([F EXCEPT !.zone.original = Toggle(@, c)]) \in File
           /\ DropIfDone([F EXCEPT !.text = Toggle(@, c)]) \in File
<1>1. F.zone \in Zone /\ F.text \in Text
  BY DEF File
<1>2. c \in Changes
  BY <1>1 DEF DiffsOf, Zone, Text
<1>3. [F.zone EXCEPT !.original = Toggle(@, c)] \in Zone
  BY <1>1, <1>2, ToggleType DEF Zone
<1>4. [F EXCEPT !.zone.original = Toggle(@, c)] \in File
  BY <1>3 DEF File
<1>5. [F EXCEPT !.text = Toggle(@, c)] \in File
  BY <1>1, <1>2, ToggleType, FileWith
<1> QED
  BY <1>4, <1>5, WithoutZoneType DEF DropIfDone

-----------------------------------------------------------------------------
\* What stops and ends an edit.

Alive == {"saving", "stuck"} \cup Requested

LEMMA StopTypes ==
    ASSUME TypeOK, NEW f \in [Edits -> PCs], NEW S
    PROVE  /\ Stopped(f, S) \in [Edits -> PCs]
           /\ Hidden(S) \in [Edits -> BOOLEAN]
           /\ \A d \in Edits : Stopped(f, S)[d] \in {f[d], "done"}
           /\ \A d \in Edits : d \notin S => Stopped(f, S)[d] = f[d]
           /\ \A d \in Edits : Hidden(S)[d] => shown[d] /\ d \notin S
  BY DEF Stopped, Hidden, PCs, TypeOK

LEMMA JobOf ==
    ASSUME IInv, NEW e \in Edits, pc[e] \in Alive
    PROVE  /\ job[e] \in Job
           /\ job[e].file \in Files
           /\ job[e].prompt \in Text
           /\ job[e].sent \in 0..(N_RETRIES - 1)
           /\ files[job[e].file] \in File
  BY DEF IInv, TypeOK, HasJob, Alive, Job

\* The part of the invariant that is not about the files, after a step that starts
\* no edit and ends those that it stops.
LEMMA EditsKept ==
    ASSUME IInv, KeepJobs,
           pc' \in [Edits -> PCs], shown' \in [Edits -> BOOLEAN],
           \A d \in Edits : pc'[d] \in Alive => pc[d] \in Alive,
           \A d \in Edits : shown'[d] => pc'[d] \in Requested \cup {"stuck"},
           files' \in [Files -> File]
    PROVE  IInv'
<1>1. job' \in [Edits -> Job \cup {NoJob}]
  BY DEF KeepJobs, IInv, TypeOK
<1>2. HasJob'
  BY DEF HasJob, IInv, Alive, KeepJobs, Requested
<1> QED
  BY <1>1, <1>2 DEF IInv, TypeOK, ShownIsAlive

\* The same for a step that stops the edits S and nothing else.
LEMMA StopKept ==
    ASSUME IInv, KeepJobs, NEW S,
           pc' = Stopped(pc, S), shown' = Hidden(S), files' \in [Files -> File]
    PROVE  IInv'
<1>1. pc \in [Edits -> PCs]
  BY DEF IInv, TypeOK
<1>2. pc' \in [Edits -> PCs] /\ shown' \in [Edits -> BOOLEAN]
  BY <1>1, StopTypes DEF IInv
<1>3. \A d \in Edits : pc'[d] \in Alive => pc[d] \in Alive
  BY <1>1, StopTypes DEF IInv, Alive, Requested
<1>4. \A d \in Edits : shown'[d] => pc'[d] \in Requested \cup {"stuck"}
  BY <1>1, StopTypes DEF IInv, ShownIsAlive
<1> QED
  BY <1>2, <1>3, <1>4, EditsKept

\* And for a step that leaves every edit alone.
LEMMA FilesStep ==
    ASSUME IInv, UNCHANGED <<pc, job, shown>>, files' \in [Files -> File]
    PROVE  IInv'
  BY DEF IInv, TypeOK, HasJob, ShownIsAlive

LEMMA FailType ==
    ASSUME IInv, NEW e \in Edits, pc[e] \in Requested,
           NEW F \in File, NEW auto, NEW otherwise \in {"stuck", "done"},
           Fail(e, F, auto, otherwise), KeepJobs
    PROVE  IInv'
<1> DEFINE u == job[e].file
           G == DoneWith(F, e, auto)
           S == StoppedByUndo(G, Streaming([files EXCEPT ![u] = G], Hidden({e})))
           f == [pc EXCEPT ![e] = otherwise]
<1>1. /\ files' = [files EXCEPT ![u] = Undone(G)]
      /\ pc' = Stopped(f, S)
      /\ shown' = Hidden(S \cup {e})
  BY DEF Fail
<1>2. f \in [Edits -> PCs]
  BY DEF IInv, TypeOK, PCs
<1>3. u \in Files
  BY JobOf DEF Alive
<1>4. Undone(G) \in File
  BY DoneWithType, UndoneType
<1> HIDE DEF u, G, S
<1>5. files' \in [Files -> File]
  BY <1>1, <1>3, <1>4 DEF IInv, TypeOK
<1>6. pc' \in [Edits -> PCs] /\ shown' \in [Edits -> BOOLEAN]
  BY <1>1, <1>2, StopTypes DEF IInv
<1>7. \A d \in Edits : pc'[d] \in {f[d], "done"} /\ (d \notin S => pc'[d] = f[d])
  <2> HIDE DEF f
  <2> QED
    BY <1>1, <1>2, StopTypes DEF IInv
<1>8. \A d \in Edits : pc'[d] \in Alive => pc[d] \in Alive
  BY <1>7 DEF IInv, TypeOK, Alive, Requested
<1>9. \A d \in Edits : shown'[d] => pc'[d] \in Requested \cup {"stuck"}
  <2>1. TAKE d \in Edits
  <2>2. HAVE shown'[d]
  <2>3. shown[d] /\ d \notin S /\ d # e
    BY <1>1, <2>2 DEF Hidden
  <2> QED
    BY <1>7, <2>3 DEF IInv, TypeOK, ShownIsAlive
<1> QED
  BY <1>5, <1>6, <1>8, <1>9, EditsKept

-----------------------------------------------------------------------------
\* One lemma per group of actions.

LEMMA InitHolds == Init => IInv
<1> SUFFICES ASSUME Init PROVE IInv
  OBVIOUS
<1>1. [text |-> {}, zone |-> NoZone, past |-> << >>, future |-> << >>] \in File
  BY DEF File, Text
<1>2. TypeOK
  BY <1>1 DEF Init, TypeOK, PCs
<1> QED
  BY <1>2 DEF Init, IInv, HasJob, ShownIsAlive, Requested

LEMMA StartHolds ==
    ASSUME IInv, NEW e \in Edits, Start(e)
    PROVE  IInv'
<1>t. files \in [Files -> File]
  BY DEF IInv, TypeOK
<1>1. ASSUME NEW m \in Modes, NEW u \in Files, Ask(e, m, u)
      PROVE  IInv'
  <2>1. [mode |-> m, file |-> u, prompt |-> {}, sent |-> 0] \in Job
    BY NumberAssumption DEF Job, Text
  <2>2. job' \in [Edits -> Job \cup {NoJob}]
    BY <1>1, <2>1 DEF Ask, IInv, TypeOK
  <2>3. pc' \in [Edits -> PCs] /\ \A d \in Edits : d # e => pc'[d] = pc[d]
    BY <1>1 DEF Ask, IInv, TypeOK, PCs
  <2>4. TypeOK'
    BY <1>1, <2>2, <2>3 DEF Ask, IInv, TypeOK
  <2>5. HasJob'
    BY <1>1, <2>1, <2>3 DEF Ask, IInv, TypeOK, HasJob
  <2>6. ShownIsAlive'
    BY <1>1, <2>3 DEF Ask, IInv, ShownIsAlive, Requested
  <2> QED
    BY <2>4, <2>5, <2>6 DEF IInv
<1>2. ASSUME Apply(e)
      PROVE  IInv'
  <2> DEFINE u == job[e].file
  <2>1. /\ pc[e] = "saving" /\ pc[e] \in Alive
        /\ job[e] \in Job /\ u \in Files /\ files[u] \in File
    BY <1>2, JobOf DEF Apply, Alive
  <2>2. CASE StreamingIn(u)
    <3>1. /\ pc' = [pc EXCEPT ![e] = "done"]
          /\ job' = [job EXCEPT ![e] = NoJob]
          /\ UNCHANGED <<files, shown>>
      BY <1>2, <2>2 DEF Apply
    <3> QED
      BY <2>1, <3>1 DEF IInv, TypeOK, HasJob, ShownIsAlive, PCs, Requested
  <2>3. CASE ~StreamingIn(u)
    <3>1. /\ files' = [files EXCEPT ![u] = Started(@, e)]
          /\ pc' = [pc EXCEPT ![e] = "waiting"]
          /\ job' = [job EXCEPT ![e].prompt = files[u].text, ![e].sent = 1]
          /\ shown' = [shown EXCEPT ![e] = TRUE]
      BY <1>2, <2>3 DEF Apply
    <3>2. files' \in [Files -> File]
      BY <1>t, <2>1, <3>1, StartedType
    <3>3. job'[e] \in Job
      <4>1. files[u].text \in Text
        BY <2>1 DEF File
      <4>2. 1 \in 0..(N_RETRIES - 1)
        BY NumberAssumption
      <4>3. job'[e] = [job[e] EXCEPT !.prompt = files[u].text, !.sent = 1]
        BY <3>1 DEF IInv, TypeOK
      <4> QED
        BY <2>1, <4>1, <4>2, <4>3 DEF Job
    <3>4. /\ job' \in [Edits -> Job \cup {NoJob}]
          /\ \A d \in Edits : d # e => job'[d] = job[d]
      <4>1. \A d \in Edits : d # e => job'[d] = job[d]
        BY <3>1 DEF IInv, TypeOK
      <4>2. job' = [d \in Edits |-> job'[d]]
        BY <3>1 DEF IInv, TypeOK
      <4> QED
        BY <3>3, <4>1, <4>2 DEF IInv, TypeOK
    <3> QED
      BY <2>1, <3>1, <3>2, <3>3, <3>4 DEF IInv, TypeOK, HasJob, ShownIsAlive, PCs, Requested
  <2> QED
    BY <2>2, <2>3
<1>3. ASSUME NEW auto \in AutoAccept, ToolEdit(e, auto)
      PROVE  IInv'
  <2> DEFINE u == job[e].file
             F == files[u]
             G == Record(F, [F EXCEPT !.zone = Kept(F, e), !.text = @ \cup {e}])
  <2>1. pc[e] = "saving" /\ u \in Files /\ F \in File
    BY <1>3, JobOf DEF ToolEdit, Alive
  <2>2. G \in File /\ AcceptedAll(G) \in File
    BY <2>1, ToolTypes, RecordType, DecidedType
  <2>3. /\ files' = [files EXCEPT ![u] = IF auto THEN AcceptedAll(G) ELSE G]
        /\ pc' = [pc EXCEPT ![e] = "done"]
        /\ KeepJobs
        /\ shown' = shown
    BY <1>3 DEF ToolEdit
  <2> HIDE DEF u, F, G
  <2>4. files' \in [Files -> File]
    BY <1>t, <2>2, <2>3
  <2>5. /\ pc' \in [Edits -> PCs] /\ shown' \in [Edits -> BOOLEAN]
        /\ \A d \in Edits : pc'[d] \in Alive => pc[d] \in Alive
        /\ \A d \in Edits : shown'[d] => pc'[d] \in Requested \cup {"stuck"}
    BY <2>1, <2>3 DEF IInv, TypeOK, ShownIsAlive, PCs, Requested, Alive
  <2> QED
    BY <2>3, <2>4, <2>5, EditsKept
<1>4. ASSUME NEW auto \in AutoAccept, ToolEditFails(e, auto)
      PROVE  IInv'
  <2> DEFINE u == job[e].file
             F == files[u]
             G == Record(F, [F EXCEPT !.zone = Kept(F, e)])
             H == IF auto THEN AcceptedAll(G) ELSE G
             S == StoppedByUndo(H, Streaming([files EXCEPT ![u] = H], shown))
  <2>1. pc[e] = "saving" /\ u \in Files /\ F \in File
    BY <1>4, JobOf DEF ToolEditFails, Alive
  <2>2. G \in File
    BY <2>1, ToolTypes, RecordType
  <2>3. Undone(H) \in File
    BY <2>2, DecidedType, UndoneType
  <2>4. /\ files' = [files EXCEPT ![u] = Undone(H)]
        /\ pc' = [Stopped(pc, S) EXCEPT ![e] = "done"]
        /\ shown' = Hidden(S)
        /\ KeepJobs
    BY <1>4 DEF ToolEditFails
  <2> HIDE DEF u, F, G, H, S
  <2>5. files' \in [Files -> File]
    BY <1>t, <2>3, <2>4
  <2>6. pc \in [Edits -> PCs]
    BY DEF IInv, TypeOK
  <2>7. pc' \in [Edits -> PCs] /\ shown' \in [Edits -> BOOLEAN]
    BY <2>4, <2>6, StopTypes DEF IInv, PCs
  <2>8. \A d \in Edits : pc'[d] \in {pc[d], "done"} /\ (d \notin S \cup {e} => pc'[d] = pc[d])
    BY <2>4, <2>6, StopTypes DEF IInv
  <2>9. \A d \in Edits : shown'[d] => shown[d] /\ d \notin S
    BY <2>4, <2>6, StopTypes DEF IInv
  <2>10. \A d \in Edits : shown'[d] => pc'[d] \in Requested \cup {"stuck"}
    BY <2>1, <2>8, <2>9 DEF IInv, ShownIsAlive, Requested
  <2>11. \A d \in Edits : pc'[d] \in Alive => pc[d] \in Alive
    BY <2>8 DEF Alive, Requested
  <2> QED
    BY <2>4, <2>5, <2>7, <2>10, <2>11, EditsKept
<1> QED
  BY <1>1, <1>2, <1>3, <1>4 DEF Start

\* A step of the stream of e that leaves it where `at' says.
LEMMA StreamStep ==
    ASSUME IInv, NEW e \in Edits, pc[e] \in Requested, NEW F \in File,
           NEW at \in Requested \cup {"stuck"},
           files' = [files EXCEPT ![job[e].file] = F],
           pc' = [pc EXCEPT ![e] = at], KeepJobs, shown' = shown
    PROVE  IInv'
<1>1. job[e].file \in Files
  BY JobOf DEF Alive
<1>2. files' \in [Files -> File]
  BY <1>1 DEF IInv, TypeOK
<1>3. /\ pc' \in [Edits -> PCs] /\ shown' \in [Edits -> BOOLEAN]
      /\ \A d \in Edits : pc'[d] \in Alive => pc[d] \in Alive
      /\ \A d \in Edits : shown'[d] => pc'[d] \in Requested \cup {"stuck"}
  BY DEF IInv, TypeOK, ShownIsAlive, PCs, Requested, Alive
<1> QED
  BY <1>2, <1>3, EditsKept

\* A step that ends the stream of e.
LEMMA FinalStep ==
    ASSUME IInv, NEW e \in Edits, pc[e] \in Requested, NEW F \in File,
           files' = [files EXCEPT ![job[e].file] = F],
           pc' = [pc EXCEPT ![e] = "done"], KeepJobs, shown' = Hidden({e})
    PROVE  IInv'
<1>1. job[e].file \in Files
  BY JobOf DEF Alive
<1>2. files' \in [Files -> File]
  BY <1>1 DEF IInv, TypeOK
<1>3. /\ pc' \in [Edits -> PCs] /\ shown' \in [Edits -> BOOLEAN]
      /\ \A d \in Edits : pc'[d] \in Alive => pc[d] \in Alive
      /\ \A d \in Edits : shown'[d] => pc'[d] \in Requested \cup {"stuck"}
  BY DEF IInv, TypeOK, ShownIsAlive, PCs, Requested, Alive, Hidden
<1> QED
  BY <1>2, <1>3, EditsKept

\* The text of the file of e, with what an answer may make of it.
LEMMA TextOf ==
    ASSUME IInv, NEW e \in Edits, pc[e] \in Alive
    PROVE  LET F == files[job[e].file] IN
           /\ [F EXCEPT !.text = @ \cup {e}] \in File
           /\ [F EXCEPT !.text = job[e].prompt] \in File
           /\ [F EXCEPT !.text = job[e].prompt \cup {e}] \in File
           /\ \A left \in SUBSET F.text : [F EXCEPT !.text = job[e].prompt \cup {e} \cup left] \in File
<1> DEFINE F == files[job[e].file]
<1>1. F \in File /\ job[e].prompt \in Text
  BY JobOf
<1> HIDE DEF F
<1>2. F.text \in Text
  BY <1>1 DEF File
<1>3. /\ F.text \cup {e} \in Text
      /\ job[e].prompt \cup {e} \in Text
      /\ \A left \in SUBSET F.text : job[e].prompt \cup {e} \cup left \in Text
  BY <1>1, <1>2 DEF Text, Changes
<1>4. [F EXCEPT !.text = F.text \cup {e}] \in File
  BY <1>1, <1>3, FileWith
<1>5. [F EXCEPT !.text = job[e].prompt] \in File
  BY <1>1, FileWith
<1>6. [F EXCEPT !.text = job[e].prompt \cup {e}] \in File
  BY <1>1, <1>3, FileWith
<1>7. ASSUME NEW left \in SUBSET F.text
      PROVE  [F EXCEPT !.text = job[e].prompt \cup {e} \cup left] \in File
  <2> DEFINE t == job[e].prompt \cup {e} \cup left
  <2>1. t \in Text
    BY <1>3
  <2> HIDE DEF t
  <2>2. [F EXCEPT !.text = t] \in File
    BY <1>1, <2>1, FileWith
  <2> QED
    BY <2>2 DEF t
<1> QED
  BY <1>4, <1>5, <1>6, <1>7 DEF F

\* Stop, start over or fail when a block of a fast apply was not found.
LEMMA AgainHolds ==
    ASSUME IInv, NEW e \in Edits, pc[e] \in Requested, NEW F \in File, NEW auto, Again(e, F, auto)
    PROVE  IInv'
<1>1. CASE MoreTries(e)
  <2>1. /\ files' = [files EXCEPT ![job[e].file] = F]
        /\ job' = [job EXCEPT ![e].sent = @ + 1]
        /\ pc' = [pc EXCEPT ![e] = "waiting"]
        /\ shown' = shown
    BY <1>1 DEF Again
  <2>2. job[e] \in Job /\ job[e].file \in Files /\ job[e].sent \in 0..(N_RETRIES - 1)
    BY JobOf DEF Alive
  <2>3. job'[e] \in Job /\ \A d \in Edits : d # e => job'[d] = job[d]
    <3>1. job[e].sent + 1 \in 0..(N_RETRIES - 1)
      BY <1>1, <2>2, NumberAssumption DEF MoreTries
    <3>2. job'[e] = [job[e] EXCEPT !.sent = job[e].sent + 1]
      BY <2>1 DEF IInv, TypeOK
    <3>3. [job[e] EXCEPT !.sent = job[e].sent + 1] \in Job
      BY <2>2, <3>1 DEF Job
    <3>4. \A d \in Edits : d # e => job'[d] = job[d]
      BY <2>1 DEF IInv, TypeOK
    <3> QED
      BY <3>2, <3>3, <3>4
  <2>4. job' \in [Edits -> Job \cup {NoJob}]
    <3>1. job' = [d \in Edits |-> job'[d]]
      BY <2>1 DEF IInv, TypeOK
    <3> QED
      BY <2>3, <3>1 DEF IInv, TypeOK
  <2>5. files' \in [Files -> File]
    BY <2>1, <2>2 DEF IInv, TypeOK
  <2> QED
    BY <2>1, <2>3, <2>4, <2>5 DEF IInv, TypeOK, HasJob, ShownIsAlive, PCs, Requested
<1>2. CASE ~MoreTries(e)
  BY <1>2, FailType DEF Again
<1> QED
  BY <1>1, <1>2

LEMMA FinalNotFoundHolds ==
    ASSUME IInv, NEW e \in Edits, NEW auto, FastFinalNotFound(e, auto)
    PROVE  IInv'
<1> DEFINE u  == job[e].file
           G  == DoneWith([files[u] EXCEPT !.text = job[e].prompt], e, auto)
           S  == StoppedByUndo(G, Streaming([files EXCEPT ![u] = G], Hidden({e})))
           G2 == DoneWith(Undone(G), e, auto)
           S2 == StoppedByUndo(G2, Streaming([files EXCEPT ![u] = G2], Hidden({e} \cup S)))
           more == e \notin S /\ MoreTries(e)
           locked == UndoesAgent(G)
           Outcome(H, T) ==
             /\ files' = [files EXCEPT ![u] = H]
             /\ pc' = [Stopped(pc, T) EXCEPT ![e] = IF more THEN "waiting" ELSE "done"]
             /\ shown' = Hidden(T \cup {e})
<1>1. /\ pc[e] = "waiting"
      /\ CASE e \in S \/ more -> Outcome(Undone(G), S)
           [] e \notin S /\ ~more /\ locked -> Outcome(G2, S)
           [] OTHER -> Outcome(Undone(G2), S \cup S2)
      /\ job' = [d \in Edits |-> IF pc'[d] = "done" THEN NoJob
                                ELSE IF d = e /\ more THEN [job[d] EXCEPT !.sent = @ + 1]
                                ELSE job[d]]
  BY DEF FastFinalNotFound
<1>2. job[e] \in Job /\ u \in Files /\ job[e].sent \in 0..(N_RETRIES - 1)
  BY <1>1, JobOf DEF Alive, Requested
<1>3. Undone(G) \in File /\ G2 \in File /\ Undone(G2) \in File
  BY <1>1, TextOf, DoneWithType, UndoneType DEF Alive, Requested
<1>4. PICK H, T : H \in File /\ Outcome(H, T)
  <2> HIDE DEF Outcome, G, G2, S, S2, more, locked
  <2> QED
    BY <1>1, <1>3
<1>5. files' \in [Files -> File]
  BY <1>2, <1>4 DEF IInv, TypeOK
<1> HIDE DEF G, G2, S, S2, locked
<1>6. pc \in [Edits -> PCs]
  BY DEF IInv, TypeOK
<1>7. pc' \in [Edits -> PCs] /\ shown' \in [Edits -> BOOLEAN]
  BY <1>4, <1>6, StopTypes DEF IInv, PCs, Requested
<1>8. /\ pc'[e] = IF more THEN "waiting" ELSE "done"
      /\ \A d \in Edits : d # e => pc'[d] \in {pc[d], "done"} /\ (d \notin T => pc'[d] = pc[d])
  BY <1>4, <1>6, StopTypes DEF IInv
<1>9. \A d \in Edits : shown'[d] => shown[d] /\ d \notin T /\ d # e
  BY <1>4 DEF Hidden
<1>10. more => [job[e] EXCEPT !.sent = @ + 1] \in Job
  <2> SUFFICES ASSUME more PROVE [job[e] EXCEPT !.sent = @ + 1] \in Job
    OBVIOUS
  <2>1. job[e].sent + 1 \in 0..(N_RETRIES - 1)
    BY <1>2, NumberAssumption DEF MoreTries
  <2> QED
    BY <1>2, <2>1 DEF Job
<1>11. /\ job' \in [Edits -> Job \cup {NoJob}]
       /\ HasJob'
  <2>1. ASSUME NEW d \in Edits
        PROVE  /\ pc'[d] = "done" => job'[d] = NoJob
               /\ pc'[d] # "done" /\ d = e /\ more => job'[d] = [job[d] EXCEPT !.sent = @ + 1]
               /\ pc'[d] # "done" /\ ~(d = e /\ more) => job'[d] = job[d]
    BY <1>1
  <2> HIDE DEF more
  <2>2. ASSUME NEW d \in Edits
        PROVE  /\ job'[d] \in Job \cup {NoJob}
               /\ pc'[d] \in Alive => job'[d] \in Job
    <3>1. CASE pc'[d] = "done"
      BY <2>1, <3>1 DEF Alive, Requested
    <3>2. CASE pc'[d] # "done" /\ d = e
      BY <1>8, <1>10, <2>1, <3>2
    <3>3. CASE pc'[d] # "done" /\ d # e
      <4>1. job'[d] = job[d] /\ pc'[d] = pc[d]
        BY <1>8, <2>1, <3>3
      <4> QED
        BY <4>1 DEF IInv, TypeOK, HasJob, Alive
    <3> QED
      BY <3>1, <3>2, <3>3
  <2>3. job' = [d \in Edits |-> job'[d]]
    BY <1>1
  <2> QED
    BY <2>2, <2>3 DEF HasJob, Alive
<1>12. ShownIsAlive'
  BY <1>8, <1>9 DEF IInv, ShownIsAlive
<1> QED
  BY <1>5, <1>7, <1>11, <1>12 DEF IInv, TypeOK

LEMMA AnswerHolds ==
    ASSUME IInv, NEW e \in Edits, Answer(e)
    PROVE  IInv'
<1> DEFINE F == files[job[e].file]
<1>a. Requested \subseteq Alive /\ {"waiting", "writing", "broken"} = Requested
  BY DEF Alive, Requested
<1>b. F \in File
  <2>1. pc[e] \in Alive
    BY <1>a DEF Answer, WriteoverText, FastText, FastSecondBlock, FastFinalThrows, LLMError,
                WriteoverFinal, FastNotFound, FastFinal, FastFinalFails, FastFinalNotFound, Open
  <2> QED
    BY <2>1, JobOf
<1>1. CASE WriteoverText(e)
  <2>1. pc[e] \in Requested
    BY <1>1 DEF WriteoverText, Open
  <2> DEFINE G == [F EXCEPT !.text = @ \cup {e}]
  <2>2. G \in File
    BY <1>a, <2>1, TextOf
  <2>3. files' = [files EXCEPT ![job[e].file] = G]
    BY <1>1 DEF WriteoverText
  <2> HIDE DEF G
  <2> QED
    BY <1>1, <1>a, <2>1, <2>2, <2>3, StreamStep DEF WriteoverText
<1>2. ASSUME pc[e] \in Requested
      PROVE  \E G \in File : FirstBlock(e) = [files EXCEPT ![job[e].file] = G]
  <2>1. [F EXCEPT !.text = @ \cup {e}] \in File
    BY <1>a, <1>2, TextOf
  <2>2. CASE shown[e]
    <3>1. FirstBlock(e) = [files EXCEPT ![job[e].file] = [F EXCEPT !.text = @ \cup {e}]]
      BY <2>2 DEF FirstBlock
    <3> QED
      BY <2>1, <3>1
  <2>3. CASE ~shown[e]
    <3>1. FirstBlock(e) = [files EXCEPT ![job[e].file] = [F EXCEPT !.text = @]]
      BY <2>3 DEF FirstBlock
    <3>2. [F EXCEPT !.text = @] \in File
      BY <1>b DEF File
    <3> QED
      BY <3>1, <3>2
  <2> QED
    BY <2>2, <2>3
<1>3. CASE FastText(e)
  <2>1. pc[e] \in Requested /\ files' = FirstBlock(e) /\ pc' = [pc EXCEPT ![e] = "writing"]
    BY <1>3, <1>a DEF FastText
  <2>2. PICK G \in File : files' = [files EXCEPT ![job[e].file] = G]
    BY <1>2, <2>1
  <2> QED
    BY <1>3, <1>a, <2>1, <2>2, StreamStep DEF FastText
<1>4. CASE FastSecondBlock(e)
  <2>1. pc[e] \in Requested /\ files' = FirstBlock(e) /\ pc' = [pc EXCEPT ![e] = "broken"]
    BY <1>4, <1>a DEF FastSecondBlock
  <2>2. PICK G \in File : files' = [files EXCEPT ![job[e].file] = G]
    BY <1>2, <2>1
  <2> QED
    BY <1>4, <1>a, <2>1, <2>2, StreamStep DEF FastSecondBlock
<1>5. CASE FastFinalThrows(e)
  <2>1. pc[e] \in Requested /\ pc' = [pc EXCEPT ![e] = "stuck"]
    BY <1>5, <1>a DEF FastFinalThrows
  <2>2. PICK G \in File : files' = [files EXCEPT ![job[e].file] = G]
    <3>1. CASE pc[e] = "broken"
      <4>1. files' = [files EXCEPT ![job[e].file] = F]
        BY <1>5, <3>1 DEF FastFinalThrows, IInv, TypeOK
      <4> QED
        BY <1>b, <4>1
    <3>2. CASE pc[e] # "broken"
      BY <1>2, <1>5, <2>1, <3>2 DEF FastFinalThrows
    <3> QED
      BY <3>1, <3>2
  <2> QED
    BY <1>5, <2>1, <2>2, StreamStep DEF FastFinalThrows
<1>6. ASSUME NEW auto \in AutoAccept, LLMError(e, auto)
      PROVE  IInv'
  BY <1>6, <1>b, FailType DEF LLMError, Open
<1>7. ASSUME NEW auto \in AutoAccept, WriteoverFinal(e, auto)
      PROVE  IInv'
  <2>1. pc[e] \in Requested
    BY <1>7 DEF WriteoverFinal, Open
  <2>2. PICK left \in SUBSET F.text :
           files' = [files EXCEPT ![job[e].file] =
                        DoneWith([F EXCEPT !.text = job[e].prompt \cup {e} \cup left], e, auto)]
    BY <1>7 DEF WriteoverFinal
  <2> DEFINE G == DoneWith([F EXCEPT !.text = job[e].prompt \cup {e} \cup left], e, auto)
  <2>3. G \in File
    BY <1>a, <2>1, TextOf, DoneWithType
  <2> HIDE DEF G
  <2> QED
    BY <1>7, <2>1, <2>2, <2>3, FinalStep DEF WriteoverFinal, G
<1>8. ASSUME NEW auto \in AutoAccept, FastNotFound(e, auto)
      PROVE  IInv'
  <2>1. pc[e] \in Requested /\ Again(e, [F EXCEPT !.text = job[e].prompt], auto)
    BY <1>8, <1>a DEF FastNotFound
  <2> QED
    BY <1>a, <2>1, TextOf, AgainHolds
<1>9. ASSUME NEW auto \in AutoAccept, FastFinal(e, auto)
      PROVE  IInv'
  <2>1. pc[e] \in Requested
    BY <1>9, <1>a DEF FastFinal
  <2> DEFINE G == DoneWith([F EXCEPT !.text = job[e].prompt \cup {e}], e, auto)
  <2>2. files' = [files EXCEPT ![job[e].file] = G]
    BY <1>9 DEF FastFinal
  <2>3. G \in File
    BY <1>a, <2>1, TextOf, DoneWithType
  <2> HIDE DEF G
  <2> QED
    BY <1>9, <2>1, <2>2, <2>3, FinalStep DEF FastFinal
<1>10. ASSUME NEW auto \in AutoAccept, FastFinalFails(e, auto)
      PROVE  IInv'
  <2>1. pc[e] \in Requested
    BY <1>10, <1>a DEF FastFinalFails
  <2> QED
    BY <1>10, <1>a, <2>1, TextOf, FailType DEF FastFinalFails
<1>11. ASSUME NEW auto \in AutoAccept, FastFinalNotFound(e, auto)
      PROVE  IInv'
  BY <1>11, FinalNotFoundHolds
<1> QED
  BY <1>1, <1>3, <1>4, <1>5, <1>6, <1>7, <1>8, <1>9, <1>10, <1>11 DEF Answer

LEMMA UserHolds ==
    ASSUME IInv, NEW u \in Files, User(u)
    PROVE  IInv'
<1> DEFINE F == files[u]
<1>a. files \in [Files -> File] /\ F \in File
  BY DEF IInv, TypeOK
<1>1. CASE Type(u)
  <2> DEFINE el == [kind |-> "typed", change |-> Typing]
             G == Push([F EXCEPT !.text = Toggle(@, Typing)], el)
  <2>1. [F EXCEPT !.text = Toggle(@, Typing)] \in File
    BY <1>a, ToggleType, FileWith DEF File, Changes
  <2>2. el \in Element
    BY DEF Element, TypedElement
  <2>3. UserChanged(G) \in File
    BY <2>1, <2>2, PushType, DecidedType
  <2>4. UNCHANGED <<pc, job, shown>>
    BY <1>1 DEF Type
  <2>5. files' = [files EXCEPT ![u] = UserChanged(G)]
    BY <1>1 DEF Type
  <2> QED
    BY <1>a, <2>3, <2>4, <2>5, FilesStep
<1>2. CASE AcceptFile(u)
  BY <1>2, <1>a, DecidedType, FilesStep DEF AcceptFile
<1>3. CASE RejectFile(u)
  BY <1>3, <1>a, DecidedType, FilesStep DEF RejectFile
<1>4. CASE AcceptDiff(u)
  <2>1. PICK c \in DiffsOf(F) :
           files' = [files EXCEPT ![u] = Record(F, DropIfDone([F EXCEPT !.zone.original = Toggle(@, c)]))]
    BY <1>4 DEF AcceptDiff
  <2>2. F.zone # NoZone /\ UNCHANGED <<pc, job, shown>>
    BY <1>4 DEF AcceptDiff
  <2> DEFINE G == DropIfDone([F EXCEPT !.zone.original = Toggle(@, c)])
  <2>3. Record(F, G) \in File
    BY <1>a, <2>2, DiffTypes, RecordType
  <2> HIDE DEF G
  <2> QED
    BY <1>a, <2>1, <2>2, <2>3, FilesStep DEF G
<1>5. CASE RejectDiff(u)
  <2>1. PICK c \in DiffsOf(F) :
           files' = [files EXCEPT ![u] = Record(F, DropIfDone([F EXCEPT !.text = Toggle(@, c)]))]
    BY <1>5 DEF RejectDiff
  <2>2. F.zone # NoZone /\ UNCHANGED <<pc, job, shown>>
    BY <1>5 DEF RejectDiff
  <2> DEFINE G == DropIfDone([F EXCEPT !.text = Toggle(@, c)])
  <2>3. Record(F, G) \in File
    BY <1>a, <2>2, DiffTypes, RecordType
  <2> HIDE DEF G
  <2> QED
    BY <1>a, <2>1, <2>2, <2>3, FilesStep DEF G
<1>6. CASE Undo(u)
  BY <1>6, <1>a, UndoneType, StopKept DEF Undo
<1>7. CASE Redo(u)
  BY <1>7, <1>a, RedoneType, StopKept DEF Redo
<1>8. CASE Stop(u)
  BY <1>8, <1>a, UndoneType, StopKept DEF Stop
<1> QED
  BY <1>1, <1>2, <1>3, <1>4, <1>5, <1>6, <1>7, <1>8 DEF User

LEMMA StepHolds == IInv /\ [Next]_vars => IInv'
<1> SUFFICES ASSUME IInv, [Next]_vars PROVE IInv'
  OBVIOUS
<1>1. ASSUME NEW e \in Edits, Start(e) PROVE IInv'
  BY <1>1, StartHolds
<1>2. ASSUME NEW e \in Edits, Answer(e) PROVE IInv'
  BY <1>2, AnswerHolds
<1>3. ASSUME NEW u \in Opened, User(u) PROVE IInv'
  BY <1>3, UserHolds, FileAssumption
<1>4. CASE UNCHANGED vars
  BY <1>4, FilesStep DEF vars, IInv, TypeOK
<1> QED
  BY <1>1, <1>2, <1>3, <1>4 DEF Next

LEMMA IInvHolds == Spec => []IInv
<1>1. Init => IInv
  BY InitHolds
<1>2. IInv /\ [Next]_vars => IInv'
  BY StepHolds
<1> QED
  BY <1>1, <1>2, PTL DEF Spec

\* Every file, every edit and its stream keep their types, and no message of a fast
\* apply is sent beyond the allowed number of tries (nMessagesSent).
THEOREM EditTypes == Spec => []TypeOK
<1>1. IInv => TypeOK
  BY DEF IInv
<1> QED
  BY <1>1, IInvHolds, PTL

\* What a file shows as streaming (_uriIsStreaming) has an Apply that is not over.
THEOREM SweepIsAlive == Spec => []SpinnerIsLive
<1>1. IInv => SpinnerIsLive
  <2> SUFFICES ASSUME IInv, NEW u \in Files, StreamingIn(u)
               PROVE  pc[files[u].zone.edit] \in Requested \cup {"stuck"}
    BY DEF SpinnerIsLive
  <2>1. files[u].zone \in Zone
    BY DEF IInv, TypeOK, StreamingIn, File
  <2> QED
    BY <2>1 DEF IInv, ShownIsAlive, StreamingIn, Zone
<1> QED
  BY <1>1, IInvHolds, PTL

-----------------------------------------------------------------------------
\* The start of a stream stays on the undo stack until it is undone.

LEMMA ReachPush ==
    ASSUME NEW F \in File, NEW el \in Element, NEW d
    PROVE  /\ Reaches(F, d) => Reaches(Push(F, el), d)
           /\ el.kind = "agent" /\ el.edit = d => Reaches(Push(F, el), d)
<1> DEFINE p == Append(F.past, el)
<1>1. F.past \in Seq(Element)
  BY DEF File
<1>2. Push(F, el).past = p
  BY DEF Push, File
<1>3. /\ DOMAIN F.past \subseteq DOMAIN p
      /\ \A i \in DOMAIN F.past : p[i] = F.past[i]
      /\ Len(F.past) + 1 \in DOMAIN p /\ p[Len(F.past) + 1] = el
  BY <1>1
<1> HIDE DEF p
<1> QED
  BY <1>2, <1>3 DEF Reaches

LEMMA ReachRecord ==
    ASSUME NEW F \in File, NEW G \in File, NEW d, Reaches(G, d)
    PROVE  Reaches(Record(F, G), d)
  BY SnapType, AgentType, ReachPush DEF Record

\* What is done to the text and the zone leaves the stack alone.
LEMMA SamePast ==
    ASSUME NEW F \in File
    PROVE  /\ WithoutZone(F).past = F.past
           /\ Reverted(F).past = F.past
           /\ \A snap : Restored(F, snap).past = F.past
           /\ \A t : [F EXCEPT !.text = t].past = F.past
           /\ \A z : [F EXCEPT !.zone = z].past = F.past
  BY DEF WithoutZone, Reverted, Restored, File

LEMMA ReachSame ==
    ASSUME NEW F, NEW G, G.past = F.past, NEW d, Reaches(F, d)
    PROVE  Reaches(G, d)
  BY DEF Reaches

LEMMA ReachDecided ==
    ASSUME NEW F \in File, NEW d, Reaches(F, d)
    PROVE  /\ Reaches(AcceptedAll(F), d)
           /\ Reaches(RejectedAll(F), d)
           /\ Reaches(UserChanged(F), d)
<1>1. Reaches(WithoutZone(F), d) /\ Reaches(Reverted(F), d)
  BY SamePast, ReachSame
<1>2. Reaches(Record(F, WithoutZone(F)), d) /\ Reaches(Record(F, Reverted(F)), d)
  BY <1>1, WithoutZoneType, RevertedType, ReachRecord
<1> QED
  BY <1>2 DEF AcceptedAll, RejectedAll, UserChanged

LEMMA ReachFinished ==
    ASSUME NEW F \in File, NEW e, NEW auto, NEW d, Reaches(F, d)
    PROVE  Reaches(Finished(F, e), d) /\ Reaches(DoneWith(F, e, auto), d)
<1>1. PICK i \in DOMAIN F.past : F.past[i].kind = "agent" /\ F.past[i].edit = d
  BY DEF Reaches
<1>2. F.past[i] \in AgentElement
  <2>1. F.past \in Seq(Element)
    BY DEF File
  <2>2. F.past[i] \in Element
    BY <1>1, <2>1
  <2> QED
    BY <1>1, <2>2 DEF Element, TypedElement
<1> DEFINE p == [j \in DOMAIN F.past |->
             IF F.past[j].kind = "agent" /\ F.past[j].edit = e
             THEN [F.past[j] EXCEPT !.after = SnapOf(F)] ELSE F.past[j]]
<1>3. Finished(F, e).past = p
  BY DEF Finished, File
<1>4. i \in DOMAIN p /\ p[i].kind = "agent" /\ p[i].edit = d
  BY <1>1, <1>2 DEF AgentElement
<1> HIDE DEF p
<1>5. Reaches(Finished(F, e), d)
  BY <1>3, <1>4 DEF Reaches
<1> QED
  BY <1>5, FinishedType, ReachDecided DEF DoneWith

\* An undo takes the start of a stream off the stack only as it aborts the stream.
LEMMA ReachUndone ==
    ASSUME NEW F \in File, NEW d \in Edits, NEW streaming,
           Reaches(F, d), d \notin StoppedByUndo(F, streaming)
    PROVE  Reaches(Undone(F), d)
<1>1. PICK i \in DOMAIN F.past : F.past[i].kind = "agent" /\ F.past[i].edit = d
  BY DEF Reaches
<1>2. F.past \in Seq(Element) /\ F.future \in Seq(Element)
  BY DEF File
<1>3. F.past # << >>
  BY <1>1, <1>2
<1> DEFINE el == Last(F.past)
           p == Front(F.past)
           q == Append(F.future, el)
           G == [F EXCEPT !.past = p, !.future = q]
<1>4. ~(el.kind = "agent" /\ el.edit = d)
  BY <1>3, EditAssumption DEF StoppedByUndo, UndoesAgent
<1>5. i # Len(F.past)
  BY <1>1, <1>4 DEF Last
<1>6. i \in DOMAIN p /\ p[i] = F.past[i]
  BY <1>1, <1>2, <1>3, <1>5 DEF Front
<1>7. el \in Element /\ p \in Seq(Element) /\ q \in Seq(Element)
  BY <1>2, <1>3, StackTypes
<1>8. Undone(F) = IF el.kind = "typed" THEN UserChanged([G EXCEPT !.text = Toggle(@, el.change)])
                                       ELSE Restored(G, el.before)
  BY <1>3 DEF Undone
<1>9. G \in File /\ G.past = p
  <2> HIDE DEF p, q
  <2> QED
    BY <1>7, FileWith DEF File
<1> HIDE DEF el, p, q, G
<1>10. Reaches(G, d)
  BY <1>1, <1>6, <1>9 DEF Reaches
<1>11. CASE el.kind = "typed"
  <2>1. el.change \in Changes
    BY <1>7, <1>11, ElementTypes DEF Changes
  <2> DEFINE H == [G EXCEPT !.text = Toggle(@, el.change)]
  <2>2. H \in File
    BY <1>9, <2>1, ToggleType, FileWith DEF File
  <2>3. Reaches(H, d)
    <3>1. H.past = G.past
      BY <1>9 DEF File
    <3> HIDE DEF H
    <3> QED
      BY <1>10, <3>1, ReachSame
  <2> QED
    BY <1>8, <1>11, <2>2, <2>3, ReachDecided
<1>12. CASE el.kind # "typed"
  BY <1>8, <1>9, <1>10, <1>12, SamePast, ReachSame
<1> QED
  BY <1>11, <1>12

LEMMA ReachRedone ==
    ASSUME NEW F \in File, F.future # << >>, NEW d, Reaches(F, d)
    PROVE  Reaches(Redone(F), d)
<1>1. F.past \in Seq(Element) /\ F.future \in Seq(Element)
  BY DEF File
<1> DEFINE el == Last(F.future)
           p == Append(F.past, el)
           q == Front(F.future)
           G == [F EXCEPT !.past = p, !.future = q]
<1>2. el \in Element /\ p \in Seq(Element) /\ q \in Seq(Element)
  BY <1>1, StackTypes
<1>3. DOMAIN F.past \subseteq DOMAIN p /\ \A i \in DOMAIN F.past : p[i] = F.past[i]
  BY <1>1
<1>4. Redone(F) = CASE el.kind = "typed" -> UserChanged([G EXCEPT !.text = Toggle(@, el.change)])
                    [] el.kind = "agent" /\ el.after = NoSnap -> G
                    [] OTHER -> Restored(G, el.after)
  BY DEF Redone, File
<1>5. G \in File /\ G.past = p
  <2> HIDE DEF p, q
  <2> QED
    BY <1>2, FileWith DEF File
<1> HIDE DEF el, p, q, G
<1>6. Reaches(G, d)
  BY <1>3, <1>5 DEF Reaches
<1>7. CASE el.kind = "typed"
  <2>1. el.change \in Changes
    BY <1>2, <1>7, ElementTypes DEF Changes
  <2> DEFINE H == [G EXCEPT !.text = Toggle(@, el.change)]
  <2>2. H \in File
    BY <1>5, <2>1, ToggleType, FileWith DEF File
  <2>3. Reaches(H, d)
    <3>1. H.past = G.past
      BY <1>5 DEF File
    <3> HIDE DEF H
    <3> QED
      BY <1>6, <3>1, ReachSame
  <2>4. Redone(F) = UserChanged(H)
    BY <1>4, <1>7
  <2> HIDE DEF H
  <2> QED
    BY <2>2, <2>3, <2>4, ReachDecided
<1>8. CASE el.kind = "agent"
  <2>1. Redone(F) \in {G, Restored(G, el.after)}
    BY <1>4, <1>8
  <2> QED
    BY <1>5, <1>6, <2>1, SamePast, ReachSame
<1> QED
  BY <1>2, <1>7, <1>8, ElementTypes

\* A step that writes G to the file u and starts no stream keeps UndoReachesStream
\* when G still has the starts of the streams that are left.
LEMMA ReachKept ==
    ASSUME IInv, UndoReachesStream, NEW u \in Files, NEW G, files' = [files EXCEPT ![u] = G],
           \A d \in Edits : pc'[d] \in Requested => pc[d] \in Requested /\ job'[d].file = job[d].file,
           \A d \in Edits : pc'[d] \in Requested /\ Reaches(files[u], d) => Reaches(G, d)
    PROVE  UndoReachesStream'
<1> SUFFICES ASSUME NEW d \in Edits, pc'[d] \in Requested
             PROVE  Reaches(files'[job'[d].file], d)
  BY DEF UndoReachesStream, Open, Reaches
<1>1. Reaches(files[job[d].file], d) /\ job'[d].file = job[d].file
  BY DEF UndoReachesStream, Open
<1>2. job[d].file \in Files
  BY JobOf DEF Alive
<1>3. CASE job[d].file = u
  BY <1>1, <1>3 DEF IInv, TypeOK
<1>4. CASE job[d].file # u
  BY <1>1, <1>2, <1>4 DEF IInv, TypeOK
<1> QED
  BY <1>3, <1>4

LEMMA KeptJobs ==
    ASSUME IInv, KeepJobs, \A d \in Edits : pc'[d] \in Requested => pc[d] \in Requested
    PROVE  \A d \in Edits : pc'[d] \in Requested => pc[d] \in Requested /\ job'[d].file = job[d].file
  BY DEF KeepJobs, Requested

LEMMA FailReach ==
    ASSUME IInv, UndoReachesStream, NEW e \in Edits, pc[e] \in Requested,
           NEW F \in File, F.past = files[job[e].file].past,
           NEW auto, NEW otherwise \in {"stuck", "done"}, Fail(e, F, auto, otherwise), KeepJobs
    PROVE  UndoReachesStream'
<1> DEFINE u == job[e].file
           G == DoneWith(F, e, auto)
           X == Streaming([files EXCEPT ![u] = G], Hidden({e}))
           S == StoppedByUndo(G, X)
           f == [pc EXCEPT ![e] = otherwise]
<1>1. files' = [files EXCEPT ![u] = Undone(G)] /\ pc' = Stopped(f, S)
  BY DEF Fail
<1>2. u \in Files /\ G \in File
  BY JobOf, DoneWithType DEF Alive
<1>3. \A d \in Edits : Reaches(files[u], d) => Reaches(G, d)
  BY ReachSame, ReachFinished
<1> HIDE DEF u, G, X
<1>4. \A d \in Edits : d \notin S /\ Reaches(G, d) => Reaches(Undone(G), d)
  BY <1>2, ReachUndone
<1>5. \A d \in Edits : pc'[d] \in Requested => pc[d] \in Requested /\ d \notin S
  <2>1. TAKE d \in Edits
  <2>2. HAVE pc'[d] \in Requested
  <2>3. pc'[d] = IF d \in S /\ f[d] # "unborn" THEN "done" ELSE f[d]
    BY <1>1 DEF Stopped
  <2>4. f[d] = IF d = e THEN otherwise ELSE pc[d]
    BY DEF IInv, TypeOK
  <2> HIDE DEF S, f
  <2> QED
    BY <2>2, <2>3, <2>4 DEF Requested
<1> HIDE DEF S
<1> QED
  BY <1>1, <1>2, <1>3, <1>4, <1>5, ReachKept, KeptJobs

\* The same for a step that undoes nothing.
LEMMA WriteReach ==
    ASSUME IInv, UndoReachesStream, NEW u \in Files, NEW G, files' = [files EXCEPT ![u] = G], KeepJobs,
           \A d \in Edits : pc'[d] \in Requested => pc[d] \in Requested,
           \A d \in Edits : Reaches(files[u], d) => Reaches(G, d)
    PROVE  UndoReachesStream'
  BY ReachKept, KeptJobs

\* A step of the stream of e.
LEMMA StreamReach ==
    ASSUME IInv, UndoReachesStream, NEW e \in Edits, pc[e] \in Requested, NEW at,
           NEW F, F.past = files[job[e].file].past,
           files' = [files EXCEPT ![job[e].file] = F], pc' = [pc EXCEPT ![e] = at], KeepJobs
    PROVE  UndoReachesStream'
<1>1. job[e].file \in Files
  BY JobOf DEF Alive
<1>2. \A d \in Edits : pc'[d] \in Requested => pc[d] \in Requested
  BY DEF IInv, TypeOK
<1>3. \A d \in Edits : Reaches(files[job[e].file], d) => Reaches(F, d)
  BY ReachSame
<1> QED
  BY <1>1, <1>2, <1>3, WriteReach

LEMMA FinalReach ==
    ASSUME IInv, UndoReachesStream, NEW e \in Edits, pc[e] \in Requested, NEW at,
           NEW F \in File, F.past = files[job[e].file].past, NEW auto,
           files' = [files EXCEPT ![job[e].file] = DoneWith(F, e, auto)], pc' = [pc EXCEPT ![e] = at], KeepJobs
    PROVE  UndoReachesStream'
<1>1. job[e].file \in Files
  BY JobOf DEF Alive
<1>2. \A d \in Edits : pc'[d] \in Requested => pc[d] \in Requested
  BY DEF IInv, TypeOK
<1>3. \A d \in Edits : Reaches(files[job[e].file], d) => Reaches(DoneWith(F, e, auto), d)
  BY ReachSame, ReachFinished
<1> QED
  BY <1>1, <1>2, <1>3, WriteReach

\* A step that undoes or redoes in the file u, or stops its streams.
LEMMA UserReach ==
    ASSUME IInv, UndoReachesStream, NEW u \in Files, NEW G, NEW S,
           files' = [files EXCEPT ![u] = G], pc' = Stopped(pc, S), KeepJobs,
           \A d \in Edits : d \notin S /\ Reaches(files[u], d) => Reaches(G, d)
    PROVE  UndoReachesStream'
<1>1. \A d \in Edits : pc'[d] \in Requested => pc[d] \in Requested /\ d \notin S
  BY DEF Stopped, Requested
<1> QED
  BY <1>1, ReachKept, KeptJobs

LEMMA StartReach ==
    ASSUME IInv, UndoReachesStream, NEW e \in Edits, Start(e)
    PROVE  UndoReachesStream'
<1>1. ASSUME NEW m \in Modes, NEW u \in Files, Ask(e, m, u)
      PROVE  UndoReachesStream'
  <2>1. \A d \in Edits : pc'[d] \in Requested => pc[d] \in Requested /\ job'[d] = job[d]
    BY <1>1 DEF Ask, IInv, TypeOK, Requested
  <2>2. files' = files
    BY <1>1 DEF Ask
  <2> QED
    BY <2>1, <2>2 DEF UndoReachesStream, Open, Reaches
<1>2. ASSUME Apply(e)
      PROVE  UndoReachesStream'
  <2> DEFINE u == job[e].file
             F == files[u]
             el == Agent(e, SnapOf(F), NoSnap)
             P == Push(Reverted(F), el)
  <2>1. /\ pc[e] = "saving" /\ job[e] \in Job /\ u \in Files /\ F \in File
    BY <1>2, JobOf DEF Apply, Alive
  <2>2. CASE StreamingIn(u)
    <3>1. \A d \in Edits : pc'[d] \in Requested => pc[d] \in Requested /\ job'[d] = job[d]
      BY <1>2, <2>2 DEF Apply, IInv, TypeOK, Requested
    <3>2. files' = files
      BY <1>2, <2>2 DEF Apply
    <3> QED
      BY <3>1, <3>2 DEF UndoReachesStream, Open, Reaches
  <2>3. CASE ~StreamingIn(u)
    <3>1. /\ files' = [files EXCEPT ![u] = Started(F, e)]
          /\ pc' = [pc EXCEPT ![e] = "waiting"]
          /\ job' = [job EXCEPT ![e].prompt = F.text, ![e].sent = 1]
      BY <1>2, <2>3 DEF Apply
    <3>2. el \in Element /\ el.kind = "agent" /\ el.edit = e
      BY <2>1, SnapType, AgentType DEF Agent
    <3>3. Reverted(F) \in File /\ Reverted(F).past = F.past
      BY <2>1, RevertedType, SamePast
    <3>4. Started(F, e).past = P.past
      <4>1. P \in File
        BY <3>2, <3>3, PushType
      <4> HIDE DEF P
      <4>2. Started(F, e) = [P EXCEPT !.zone = [edit |-> e, original |-> F.text, own |-> TRUE]]
        BY DEF Started, P
      <4> QED
        BY <4>1, <4>2 DEF File
    <3>5. Reaches(P, e) /\ \A d \in Edits : Reaches(F, d) => Reaches(P, d)
      <4> HIDE DEF el, F
      <4> QED
        BY <3>2, <3>3, ReachSame, ReachPush
    <3>6. Reaches(Started(F, e), e) /\ \A d \in Edits : Reaches(F, d) => Reaches(Started(F, e), d)
      <4> HIDE DEF P, F
      <4> QED
        BY <3>4, <3>5, ReachSame
    <3>7. \A d \in Edits : d # e => pc'[d] = pc[d] /\ job'[d] = job[d]
      BY <3>1 DEF IInv, TypeOK
    <3>8. job'[e].file = u
      BY <2>1, <3>1 DEF IInv, TypeOK, Job
    <3> SUFFICES ASSUME NEW d \in Edits, pc'[d] \in Requested
                 PROVE  Reaches(files'[job'[d].file], d)
      BY DEF UndoReachesStream, Open, Reaches
    <3>9. CASE d = e
      BY <2>1, <3>1, <3>6, <3>8, <3>9 DEF IInv, TypeOK
    <3>10. CASE d # e
      <4>1. job'[d].file = job[d].file /\ job[d].file \in Files /\ Reaches(files[job[d].file], d)
        BY <3>7, <3>10, JobOf DEF UndoReachesStream, Open, Alive
      <4>2. CASE job[d].file = u
        BY <2>1, <3>1, <3>6, <4>1, <4>2 DEF IInv, TypeOK
      <4>3. CASE job[d].file # u
        BY <3>1, <4>1, <4>3 DEF IInv, TypeOK
      <4> QED
        BY <4>2, <4>3
    <3> QED
      BY <3>9, <3>10
  <2> QED
    BY <2>2, <2>3
<1>3. ASSUME NEW auto \in AutoAccept, ToolEdit(e, auto)
      PROVE  UndoReachesStream'
  <2> DEFINE u == job[e].file
             F == files[u]
             H == [F EXCEPT !.zone = Kept(F, e), !.text = @ \cup {e}]
             G == Record(F, H)
             R == IF auto THEN AcceptedAll(G) ELSE G
  <2>1. pc[e] = "saving" /\ u \in Files /\ F \in File
    BY <1>3, JobOf DEF ToolEdit, Alive
  <2>2. H \in File /\ H.past = F.past /\ G \in File
    BY <2>1, ToolTypes, RecordType DEF File
  <2>3. /\ files' = [files EXCEPT ![u] = R]
        /\ pc' = [pc EXCEPT ![e] = "done"]
        /\ KeepJobs
    BY <1>3 DEF ToolEdit
  <2>4. \A d \in Edits : pc'[d] \in Requested => pc[d] \in Requested
    BY <2>3 DEF IInv, TypeOK, Requested
  <2>5. \A d \in Edits : Reaches(F, d) => Reaches(G, d)
    <3> HIDE DEF F, H
    <3> QED
      BY <2>1, <2>2, ReachSame, ReachRecord
  <2>6. \A d \in Edits : Reaches(F, d) => Reaches(R, d)
    <3> HIDE DEF F, G
    <3> QED
      BY <2>2, <2>5, ReachDecided
  <2> HIDE DEF u, R
  <2> QED
    BY <2>1, <2>3, <2>4, <2>6, WriteReach DEF u
<1>4. ASSUME NEW auto \in AutoAccept, ToolEditFails(e, auto)
      PROVE  UndoReachesStream'
  <2> DEFINE u == job[e].file
             F == files[u]
             H0 == [F EXCEPT !.zone = Kept(F, e)]
             G == Record(F, H0)
             H == IF auto THEN AcceptedAll(G) ELSE G
             X == Streaming([files EXCEPT ![u] = H], shown)
             S == StoppedByUndo(H, X)
  <2>1. pc[e] = "saving" /\ u \in Files /\ F \in File
    BY <1>4, JobOf DEF ToolEditFails, Alive
  <2>2. H0 \in File /\ H0.past = F.past /\ G \in File
    BY <2>1, ToolTypes, RecordType DEF File
  <2>3. H \in File
    BY <2>2, DecidedType
  <2>4. /\ files' = [files EXCEPT ![u] = Undone(H)]
        /\ pc' = [Stopped(pc, S) EXCEPT ![e] = "done"]
        /\ KeepJobs
    BY <1>4 DEF ToolEditFails
  <2>5. \A d \in Edits : Reaches(F, d) => Reaches(G, d)
    <3> HIDE DEF F, H0
    <3> QED
      BY <2>1, <2>2, ReachSame, ReachRecord
  <2>6. \A d \in Edits : Reaches(F, d) => Reaches(H, d)
    <3> HIDE DEF F, G
    <3> QED
      BY <2>2, <2>5, ReachDecided
  <2> HIDE DEF H, X, F
  <2>7. \A d \in Edits : d \notin S /\ Reaches(F, d) => Reaches(Undone(H), d)
    BY <2>3, <2>6, ReachUndone
  <2> HIDE DEF S, u
  <2>8. \A d \in Edits : pc'[d] \in Requested => pc[d] \in Requested /\ d \notin S
    BY <2>4 DEF Stopped, Requested
  <2> QED
    BY <2>1, <2>4, <2>7, <2>8, ReachKept, KeptJobs DEF F
<1> QED
  BY <1>1, <1>2, <1>3, <1>4 DEF Start

LEMMA FinalNotFoundReach ==
    ASSUME IInv, UndoReachesStream, NEW e \in Edits, NEW auto, FastFinalNotFound(e, auto)
    PROVE  UndoReachesStream'
<1> DEFINE u  == job[e].file
           G0 == [files[u] EXCEPT !.text = job[e].prompt]
           G  == DoneWith(G0, e, auto)
           X  == Streaming([files EXCEPT ![u] = G], Hidden({e}))
           S  == StoppedByUndo(G, X)
           G2 == DoneWith(Undone(G), e, auto)
           X2 == Streaming([files EXCEPT ![u] = G2], Hidden({e} \cup S))
           S2 == StoppedByUndo(G2, X2)
           more == e \notin S /\ MoreTries(e)
           locked == UndoesAgent(G)
           Outcome(H, T) ==
             /\ files' = [files EXCEPT ![u] = H]
             /\ pc' = [Stopped(pc, T) EXCEPT ![e] = IF more THEN "waiting" ELSE "done"]
             /\ shown' = Hidden(T \cup {e})
<1>1. /\ pc[e] = "waiting"
      /\ CASE e \in S \/ more -> Outcome(Undone(G), S)
           [] e \notin S /\ ~more /\ locked -> Outcome(G2, S)
           [] OTHER -> Outcome(Undone(G2), S \cup S2)
      /\ job' = [d \in Edits |-> IF pc'[d] = "done" THEN NoJob
                                ELSE IF d = e /\ more THEN [job[d] EXCEPT !.sent = @ + 1]
                                ELSE job[d]]
  BY DEF FastFinalNotFound
<1>2. pc[e] \in Requested /\ pc[e] \in Alive /\ job[e] \in Job /\ u \in Files /\ files[u] \in File
  BY <1>1, JobOf DEF Alive, Requested
<1>3. G0 \in File /\ G0.past = files[u].past
  BY <1>2, TextOf DEF File
<1>4. G \in File /\ Undone(G) \in File /\ G2 \in File
  BY <1>3, DoneWithType, UndoneType
<1>5. \A d \in Edits : Reaches(files[u], d) => Reaches(G, d)
  <2> HIDE DEF u, G0
  <2> QED
    BY <1>3, ReachSame, ReachFinished
<1> HIDE DEF G, X, X2, u
<1>6. \A d \in Edits : d \notin S /\ Reaches(files[u], d) => Reaches(Undone(G), d)
  BY <1>4, <1>5, ReachUndone
<1>7. \A d \in Edits : d \notin S /\ Reaches(files[u], d) => Reaches(G2, d)
  BY <1>4, <1>6, ReachFinished
<1> HIDE DEF G2, S
<1>8. \A d \in Edits : d \notin S \cup S2 /\ Reaches(files[u], d) => Reaches(Undone(G2), d)
  BY <1>4, <1>7, ReachUndone
<1> HIDE DEF S2, locked
<1>9. PICK H, T : /\ Outcome(H, T)
                  /\ more => e \notin T
                  /\ \A d \in Edits : d \notin T /\ Reaches(files[u], d) => Reaches(H, d)
  <2>1. CASE e \in S \/ more
    <3>1. Outcome(Undone(G), S)
      BY <1>1, <2>1
    <3>2. more => e \notin S
      OBVIOUS
    <3> HIDE DEF Outcome, more
    <3> QED
      BY <1>6, <3>1, <3>2
  <2>2. CASE e \notin S /\ ~more /\ locked
    <3>1. Outcome(G2, S)
      BY <1>1, <2>2
    <3> HIDE DEF Outcome, more
    <3> QED
      BY <1>7, <2>2, <3>1
  <2>3. CASE e \notin S /\ ~more /\ ~locked
    <3>1. Outcome(Undone(G2), S \cup S2)
      BY <1>1, <2>3
    <3> HIDE DEF Outcome, more
    <3> QED
      BY <1>8, <2>3, <3>1
  <2> QED
    BY <2>1, <2>2, <2>3
<1>10. \A d \in Edits : pc'[d] \in Requested => pc[d] \in Requested /\ d \notin T
  <2>1. TAKE d \in Edits
  <2>2. HAVE pc'[d] \in Requested
  <2>3. pc'[d] = IF d = e THEN IF more THEN "waiting" ELSE "done"
                 ELSE IF d \in T /\ pc[d] # "unborn" THEN "done" ELSE pc[d]
    BY <1>9 DEF Stopped
  <2> HIDE DEF more
  <2> QED
    BY <1>2, <1>9, <2>2, <2>3 DEF Requested
<1>11. \A d \in Edits : pc'[d] \in Requested => job'[d].file = job[d].file
  <2>1. TAKE d \in Edits
  <2>2. HAVE pc'[d] \in Requested
  <2>3. job'[d] \in {job[d], [job[d] EXCEPT !.sent = @ + 1]}
    BY <1>1, <2>2 DEF Requested
  <2>4. job[d] \in Job
    BY <1>10, <2>2, JobOf DEF Alive
  <2> QED
    BY <2>3, <2>4 DEF Job
<1>12. files' = [files EXCEPT ![u] = H]
  BY <1>9
<1> HIDE DEF Outcome, more
<1> QED
  BY <1>2, <1>9, <1>10, <1>11, <1>12, ReachKept DEF u

LEMMA AgainReach ==
    ASSUME IInv, UndoReachesStream, NEW e \in Edits, pc[e] \in Requested,
           NEW F \in File, F.past = files[job[e].file].past, NEW auto, Again(e, F, auto)
    PROVE  UndoReachesStream'
<1>1. job[e].file \in Files /\ job[e] \in Job
  BY JobOf DEF Alive
<1>2. CASE MoreTries(e)
  <2>1. /\ files' = [files EXCEPT ![job[e].file] = F]
        /\ job' = [job EXCEPT ![e].sent = @ + 1]
        /\ pc' = [pc EXCEPT ![e] = "waiting"]
    BY <1>2 DEF Again
  <2>2. \A d \in Edits : pc'[d] \in Requested => pc[d] \in Requested
    BY <2>1 DEF IInv, TypeOK
  <2>3. \A d \in Edits : d # e => job'[d] = job[d]
    BY <2>1 DEF IInv, TypeOK
  <2>4. job'[e] = [job[e] EXCEPT !.sent = @ + 1]
    BY <2>1 DEF IInv, TypeOK
  <2>5. job'[e].file = job[e].file
    BY <1>1, <2>4 DEF Job
  <2>6. \A d \in Edits : Reaches(files[job[e].file], d) => Reaches(F, d)
    BY ReachSame
  <2> QED
    BY <1>1, <2>1, <2>2, <2>3, <2>5, <2>6, ReachKept
<1>3. CASE ~MoreTries(e)
  BY <1>3, FailReach DEF Again
<1> QED
  BY <1>2, <1>3

LEMMA AnswerReach ==
    ASSUME IInv, UndoReachesStream, NEW e \in Edits, Answer(e)
    PROVE  UndoReachesStream'
<1> DEFINE F == files[job[e].file]
<1>a. pc[e] \in Requested
  BY DEF Answer, WriteoverText, FastText, FastSecondBlock, FastFinalThrows, LLMError, WriteoverFinal,
         FastNotFound, FastFinal, FastFinalFails, FastFinalNotFound, Open, Requested
<1>b. F \in File /\ job[e].file \in Files
  BY <1>a, JobOf DEF Alive
<1>c. \A t : [F EXCEPT !.text = t].past = F.past
  BY <1>b, SamePast
<1>1. CASE WriteoverText(e)
  <2>1. /\ files' = [files EXCEPT ![job[e].file] = [F EXCEPT !.text = F.text \cup {e}]]
        /\ pc' = [pc EXCEPT ![e] = "writing"] /\ KeepJobs
    BY <1>1, <1>b DEF WriteoverText, IInv, TypeOK
  <2> HIDE DEF F
  <2> QED
    BY <1>a, <1>c, <2>1, StreamReach DEF F
<1>2. \E G : G.past = F.past /\ FirstBlock(e) = [files EXCEPT ![job[e].file] = G]
  <2>1. FirstBlock(e) = [files EXCEPT ![job[e].file] = [F EXCEPT !.text = IF shown[e] THEN F.text \cup {e} ELSE F.text]]
    BY <1>b DEF FirstBlock, IInv, TypeOK
  <2> DEFINE G == [F EXCEPT !.text = IF shown[e] THEN F.text \cup {e} ELSE F.text]
  <2>2. G.past = F.past
    BY <1>c
  <2>3. FirstBlock(e) = [files EXCEPT ![job[e].file] = G]
    BY <2>1
  <2> HIDE DEF G
  <2> QED
    BY <2>2, <2>3
<1>3. CASE FastText(e) \/ FastSecondBlock(e)
  <2>1. PICK at : files' = FirstBlock(e) /\ pc' = [pc EXCEPT ![e] = at] /\ KeepJobs
    BY <1>3 DEF FastText, FastSecondBlock
  <2> QED
    BY <1>a, <1>2, <2>1, StreamReach
<1>4. CASE FastFinalThrows(e)
  <2>1. pc' = [pc EXCEPT ![e] = "stuck"] /\ KeepJobs
    BY <1>4 DEF FastFinalThrows
  <2>2. \E G : G.past = F.past /\ files' = [files EXCEPT ![job[e].file] = G]
    <3>1. CASE pc[e] = "broken"
      <4>1. files' = [files EXCEPT ![job[e].file] = F]
        BY <1>4, <3>1 DEF FastFinalThrows, IInv, TypeOK
      <4> QED
        BY <4>1
    <3>2. CASE pc[e] # "broken"
      BY <1>2, <1>4, <3>2 DEF FastFinalThrows
    <3> QED
      BY <3>1, <3>2
  <2> QED
    BY <1>a, <2>1, <2>2, StreamReach
<1>5. ASSUME NEW auto \in AutoAccept, LLMError(e, auto)
      PROVE  UndoReachesStream'
  BY <1>5, <1>a, <1>b, FailReach DEF LLMError
<1>6. ASSUME NEW auto \in AutoAccept, WriteoverFinal(e, auto)
      PROVE  UndoReachesStream'
  <2>1. PICK left \in SUBSET F.text :
           files' = [files EXCEPT ![job[e].file] =
                        DoneWith([F EXCEPT !.text = job[e].prompt \cup {e} \cup left], e, auto)]
    BY <1>6 DEF WriteoverFinal
  <2> DEFINE G == [F EXCEPT !.text = job[e].prompt \cup {e} \cup left]
  <2>2. G \in File /\ G.past = F.past
    BY <1>a, <1>c, TextOf DEF Alive
  <2>3. pc' = [pc EXCEPT ![e] = "done"] /\ KeepJobs
    BY <1>6 DEF WriteoverFinal
  <2>4. files' = [files EXCEPT ![job[e].file] = DoneWith(G, e, auto)]
    BY <2>1
  <2> HIDE DEF G
  <2> QED
    BY <1>a, <2>2, <2>3, <2>4, FinalReach
<1>7. ASSUME NEW auto \in AutoAccept, FastNotFound(e, auto)
      PROVE  UndoReachesStream'
  <2> DEFINE G == [F EXCEPT !.text = job[e].prompt]
  <2>1. Again(e, G, auto)
    BY <1>7 DEF FastNotFound
  <2>2. G \in File /\ G.past = F.past
    BY <1>a, <1>c, TextOf DEF Alive
  <2> HIDE DEF G
  <2> QED
    BY <1>a, <2>1, <2>2, AgainReach
<1>8. ASSUME NEW auto \in AutoAccept, FastFinal(e, auto)
      PROVE  UndoReachesStream'
  <2> DEFINE G == [F EXCEPT !.text = job[e].prompt \cup {e}]
  <2>1. /\ files' = [files EXCEPT ![job[e].file] = DoneWith(G, e, auto)]
        /\ pc' = [pc EXCEPT ![e] = "done"] /\ KeepJobs
    BY <1>8 DEF FastFinal
  <2>2. G \in File /\ G.past = F.past
    BY <1>a, <1>c, TextOf DEF Alive
  <2> HIDE DEF G
  <2> QED
    BY <1>a, <2>1, <2>2, FinalReach
<1>9. ASSUME NEW auto \in AutoAccept, FastFinalFails(e, auto)
      PROVE  UndoReachesStream'
  <2> DEFINE G == [F EXCEPT !.text = job[e].prompt]
  <2>1. Fail(e, G, auto, "stuck") /\ KeepJobs
    BY <1>9 DEF FastFinalFails
  <2>2. G \in File /\ G.past = F.past
    BY <1>a, <1>c, TextOf DEF Alive
  <2> HIDE DEF G
  <2> QED
    BY <1>a, <2>1, <2>2, FailReach
<1>10. ASSUME NEW auto \in AutoAccept, FastFinalNotFound(e, auto)
       PROVE  UndoReachesStream'
  BY <1>10, FinalNotFoundReach
<1> QED
  BY <1>1, <1>3, <1>4, <1>5, <1>6, <1>7, <1>8, <1>9, <1>10 DEF Answer

\* A step of the user that leaves every edit alone.
LEMMA FileReach ==
    ASSUME IInv, UndoReachesStream, NEW u \in Files, NEW G,
           files' = [files EXCEPT ![u] = G], UNCHANGED <<pc, job, shown>>,
           \A d \in Edits : Reaches(files[u], d) => Reaches(G, d)
    PROVE  UndoReachesStream'
  BY ReachKept

LEMMA UserStepReach ==
    ASSUME IInv, UndoReachesStream, NEW u \in Files, User(u)
    PROVE  UndoReachesStream'
<1> DEFINE F == files[u]
<1>a. F \in File
  BY DEF IInv, TypeOK
<1>1. CASE Type(u)
  <2> DEFINE el == [kind |-> "typed", change |-> Typing]
             H == [F EXCEPT !.text = Toggle(@, Typing)]
             G == Push(H, el)
  <2>1. H \in File /\ H.past = F.past
    BY <1>a, ToggleType, FileWith DEF File, Changes
  <2>2. el \in Element
    BY DEF Element, TypedElement
  <2>3. UNCHANGED <<pc, job, shown>> /\ files' = [files EXCEPT ![u] = UserChanged(G)]
    BY <1>1 DEF Type
  <2> HIDE DEF H, el, F
  <2>4. G \in File /\ \A d \in Edits : Reaches(F, d) => Reaches(G, d)
    BY <2>1, <2>2, PushType, ReachSame, ReachPush
  <2> HIDE DEF G
  <2>5. \A d \in Edits : Reaches(F, d) => Reaches(UserChanged(G), d)
    BY <2>4, ReachDecided
  <2> QED
    BY <2>3, <2>5, FileReach DEF F
<1>2. CASE AcceptFile(u)
  BY <1>2, <1>a, ReachDecided, FileReach DEF AcceptFile
<1>3. CASE RejectFile(u)
  BY <1>3, <1>a, ReachDecided, FileReach DEF RejectFile
<1>4. ASSUME NEW G \in File, G.past = F.past
      PROVE  \A d \in Edits : Reaches(F, d) => Reaches(Record(F, DropIfDone(G)), d)
  <2>1. DropIfDone(G) \in File /\ DropIfDone(G).past = F.past
    BY <1>4, WithoutZoneType, SamePast DEF DropIfDone
  <2> HIDE DEF F
  <2>2. \A d \in Edits : Reaches(F, d) => Reaches(DropIfDone(G), d)
    BY <2>1, ReachSame
  <2> QED
    BY <1>a, <2>1, <2>2, ReachRecord
<1>5. CASE AcceptDiff(u)
  <2>1. PICK c \in DiffsOf(F) :
           files' = [files EXCEPT ![u] = Record(F, DropIfDone([F EXCEPT !.zone.original = Toggle(@, c)]))]
    BY <1>5 DEF AcceptDiff
  <2>2. F.zone # NoZone /\ UNCHANGED <<pc, job, shown>>
    BY <1>5 DEF AcceptDiff
  <2> DEFINE G == [F EXCEPT !.zone.original = Toggle(@, c)]
  <2>3. F.zone \in Zone /\ c \in Changes
    BY <1>a, <2>2 DEF DiffsOf, File, Zone, Text
  <2>4. G \in File /\ G.past = F.past
    <3>1. [F.zone EXCEPT !.original = Toggle(@, c)] \in Zone
      BY <2>3, ToggleType DEF Zone
    <3> QED
      BY <1>a, <3>1 DEF File
  <2> HIDE DEF G
  <2> QED
    BY <1>4, <2>1, <2>2, <2>4, FileReach DEF G
<1>6. CASE RejectDiff(u)
  <2>1. PICK c \in DiffsOf(F) :
           files' = [files EXCEPT ![u] = Record(F, DropIfDone([F EXCEPT !.text = Toggle(@, c)]))]
    BY <1>6 DEF RejectDiff
  <2>2. F.zone # NoZone /\ UNCHANGED <<pc, job, shown>>
    BY <1>6 DEF RejectDiff
  <2> DEFINE G == [F EXCEPT !.text = Toggle(@, c)]
  <2>3. c \in Changes
    BY <1>a, <2>2 DEF DiffsOf, File, Zone, Text
  <2>4. G \in File /\ G.past = F.past
    BY <1>a, <2>3, ToggleType, FileWith DEF File
  <2> HIDE DEF G
  <2> QED
    BY <1>4, <2>1, <2>2, <2>4, FileReach DEF G
<1>7. ASSUME NEW T, StoppedByUndo(F, Streaming(files, shown)) \subseteq T,
             files' = [files EXCEPT ![u] = Undone(F)], pc' = Stopped(pc, T), KeepJobs
      PROVE  UndoReachesStream'
  <2> DEFINE X == Streaming(files, shown)
             S == StoppedByUndo(F, X)
  <2>1. \A d \in Edits : d \notin S /\ Reaches(F, d) => Reaches(Undone(F), d)
    <3> HIDE DEF X, F
    <3> QED
      BY <1>a, ReachUndone
  <2>2. \A d \in Edits : d \notin T /\ Reaches(F, d) => Reaches(Undone(F), d)
    BY <1>7, <2>1
  <2> QED
    BY <1>7, <2>2, UserReach
<1>8. CASE Undo(u)
  BY <1>7, <1>8 DEF Undo
<1>9. CASE Redo(u)
  <2>1. PICK S : files' = [files EXCEPT ![u] = Redone(F)] /\ pc' = Stopped(pc, S) /\ KeepJobs
    BY <1>9 DEF Redo
  <2>2. F.future # << >>
    BY <1>9 DEF Redo
  <2>3. \A d \in Edits : Reaches(F, d) => Reaches(Redone(F), d)
    BY <1>a, <2>2, ReachRedone
  <2> QED
    BY <2>1, <2>3, UserReach
<1>10. CASE Stop(u)
  <2> DEFINE S == StoppedByUndo(F, Streaming(files, shown))
             T == S \cup StillShown(u, Undone(F), S)
  <2>1. files' = [files EXCEPT ![u] = Undone(F)] /\ pc' = Stopped(pc, T) /\ KeepJobs
    BY <1>10 DEF Stop
  <2>2. S \subseteq T
    OBVIOUS
  <2> HIDE DEF T
  <2> QED
    BY <1>7, <2>1, <2>2
<1> QED
  BY <1>1, <1>2, <1>3, <1>5, <1>6, <1>8, <1>9, <1>10 DEF User

\* However a file is edited meanwhile, undoing far enough reaches the element that
\* aborts each stream that still writes to it (_addToHistory, onWillUndo).
THEOREM StreamStaysUndoable == Spec => []UndoReachesStream
<1>1. Init => UndoReachesStream
  BY DEF Init, UndoReachesStream, Open, Requested
<1>2. IInv /\ UndoReachesStream /\ [Next]_vars => UndoReachesStream'
  <2> SUFFICES ASSUME IInv, UndoReachesStream, [Next]_vars PROVE UndoReachesStream'
    OBVIOUS
  <2>1. ASSUME NEW e \in Edits, Start(e) PROVE UndoReachesStream'
    BY <2>1, StartReach
  <2>2. ASSUME NEW e \in Edits, Answer(e) PROVE UndoReachesStream'
    BY <2>2, AnswerReach
  <2>3. ASSUME NEW u \in Opened, User(u) PROVE UndoReachesStream'
    BY <2>3, UserStepReach, FileAssumption
  <2>4. CASE UNCHANGED vars
    BY <2>4 DEF vars, UndoReachesStream, Open, Reaches
  <2> QED
    BY <2>1, <2>2, <2>3, <2>4 DEF Next
<1> QED
  BY <1>1, <1>2, IInvHolds, PTL DEF Spec

-----------------------------------------------------------------------------
\* What an undo and a redo do to the stacks, before they restore anything.

Popped(F) == [F EXCEPT !.past = Front(@), !.future = Append(@, Last(F.past))]
Repushed(F) == [F EXCEPT !.future = Front(@), !.past = Append(@, Last(F.future))]

LEMMA PoppedFile ==
    ASSUME NEW F \in File, F.past # << >>
    PROVE  /\ Popped(F) \in File /\ Popped(F).zone = F.zone
           /\ Popped(F).past = Front(F.past) /\ Popped(F).future = Append(F.future, Last(F.past))
<1> DEFINE p == Front(F.past)
           q == Append(F.future, Last(F.past))
<1>1. p \in Seq(Element) /\ q \in Seq(Element)
  BY StackTypes DEF File
<1>2. Popped(F) = [F EXCEPT !.past = p, !.future = q]
  BY DEF Popped
<1> HIDE DEF p, q
<1>3. Popped(F) \in File /\ Popped(F).past = p /\ Popped(F).future = q /\ Popped(F).zone = F.zone
  BY <1>1, <1>2 DEF File
<1> QED
  BY <1>3 DEF p, q

LEMMA RepushedFile ==
    ASSUME NEW F \in File, F.future # << >>
    PROVE  /\ Repushed(F) \in File /\ Repushed(F).zone = F.zone
           /\ Repushed(F).future = Front(F.future) /\ Repushed(F).past = Append(F.past, Last(F.future))
<1> DEFINE p == Append(F.past, Last(F.future))
           q == Front(F.future)
<1>1. p \in Seq(Element) /\ q \in Seq(Element)
  BY StackTypes DEF File
<1>2. Repushed(F) = [F EXCEPT !.past = p, !.future = q]
  BY DEF Repushed, File
<1> HIDE DEF p, q
<1>3. Repushed(F) \in File /\ Repushed(F).past = p /\ Repushed(F).future = q /\ Repushed(F).zone = F.zone
  BY <1>1, <1>2 DEF File
<1> QED
  BY <1>3 DEF p, q

LEMMA TextFile ==
    ASSUME NEW F \in File, NEW c \in Changes
    PROVE  /\ [F EXCEPT !.text = Toggle(@, c)] \in File
           /\ [F EXCEPT !.text = Toggle(@, c)].past = F.past
           /\ [F EXCEPT !.text = Toggle(@, c)].future = F.future
           /\ [F EXCEPT !.text = Toggle(@, c)].zone = F.zone
  BY ToggleType DEF File


\* What a stop does.

\* The undo of a stop, and the brute force after it, end every stream of the file.
LEMMA StopEnds ==
    ASSUME IInv, NEW u \in Files, Stop(u), NEW e, e = files[u].zone.edit
    PROVE  /\ ~StreamingIn(u)'
           /\ files'[u].zone # NoZone => ~Open(e)'
<1> DEFINE F == files[u]
           G == Undone(F)
           X == Streaming(files, shown)
           S == StoppedByUndo(F, X)
           Y == Streaming([files EXCEPT ![u] = G], Hidden(S))
           T == S \cup StillShown(u, G, S)
<1>1. files \in [Files -> File] /\ F \in File /\ G \in File
  BY UndoneType DEF IInv, TypeOK
<1>2. /\ files' = [files EXCEPT ![u] = G] /\ pc' = Stopped(pc, T) /\ shown' = Hidden(T)
      /\ StreamingIn(u)
  BY DEF Stop
<1>3. files'[u] = G
  BY <1>1, <1>2
<1>4. /\ F.zone \in Zone /\ F.zone # NoZone /\ F.zone.own /\ e \in Edits /\ shown[e]
  BY <1>1, <1>2 DEF StreamingIn, File, Zone
<1>5. pc[e] # "unborn" /\ pc \in [Edits -> PCs]
  BY <1>4 DEF IInv, TypeOK, ShownIsAlive, Requested
<1>6. e \in X
  BY <1>4 DEF Streaming
<1>7. ASSUME NEW d \in Edits, d \notin S, shown[d], G.zone # NoZone, G.zone.own, G.zone.edit = d
      PROVE  d \in T
  <2>1. Hidden(S)[d]
    BY <1>7 DEF Hidden
  <2>2. [files EXCEPT ![u] = G][u] = G
    BY <1>1
  <2> HIDE DEF G, S, F
  <2>3. d \in Y
    BY <1>7, <2>1, <2>2 DEF Streaming
  <2> QED
    BY <1>7, <2>3 DEF StillShown
<1>8. ~StreamingIn(u)'
  <2> SUFFICES ASSUME G.zone # NoZone, G.zone.own, shown'[G.zone.edit]
               PROVE  FALSE
    BY <1>3 DEF StreamingIn
  <2>1. G.zone.edit \in Edits
    BY <1>1 DEF File, Zone
  <2>2. shown[G.zone.edit] /\ G.zone.edit \notin T
    BY <1>2, <2>1 DEF Hidden
  <2> HIDE DEF G, S
  <2> QED
    BY <1>7, <2>1, <2>2
<1>9. ASSUME G.zone # NoZone
      PROVE  e \in T
  <2>1. CASE UndoesAgent(F)
    BY <1>6, <2>1 DEF StoppedByUndo
  <2>2. CASE ~UndoesAgent(F)
    <3>1. S = {}
      BY <2>2 DEF StoppedByUndo
    <3>2. G.zone = F.zone
      <4>1. CASE F.past = << >>
        BY <4>1 DEF Undone
      <4>2. CASE F.past # << >>
        <5> DEFINE el == Last(F.past)
                   H == Popped(F)
                   K == [H EXCEPT !.text = Toggle(@, el.change)]
        <5>1. el \in Element
          BY <1>1, <4>2, StackTypes DEF File
        <5>2. el.kind = "typed" /\ el.change \in Changes
          BY <2>2, <4>2, <5>1, ElementTypes DEF UndoesAgent, Changes
        <5>3. G = UserChanged(K)
          BY <4>2, <5>2 DEF Undone, Popped
        <5>4. K \in File /\ K.zone = F.zone
          BY <1>1, <4>2, <5>2, PoppedFile, TextFile
        <5> HIDE DEF K, G
        <5>5. Record(K, WithoutZone(K)).zone = NoZone
          BY <5>4 DEF Record, Push, WithoutZone, File
        <5> QED
          BY <1>9, <5>3, <5>4, <5>5 DEF UserChanged
      <4> QED
        BY <4>1, <4>2
    <3> HIDE DEF S, G, F
    <3> QED
      BY <1>4, <1>7, <1>9, <3>1, <3>2 DEF F
  <2> QED
    BY <2>1, <2>2
<1>10. e \in T => pc'[e] = "done"
  <2> HIDE DEF T
  <2> QED
    BY <1>2, <1>4, <1>5 DEF Stopped
<1> QED
  BY <1>3, <1>8, <1>9, <1>10 DEF Open, Requested

-----------------------------------------------------------------------------
\* What happens to a file brings no streaming zone back and starts no stream.

\* G has no start of a stream that F had not, and is sound.
From(F, G) ==
    /\ Sound(G)
    /\ \A el \in Elements(G) : IsStart(el) =>
          \E old \in Elements(F) : IsStart(old) /\ old.edit = el.edit /\ old.before = el.before

LEMMA FromSelf ==
    ASSUME NEW F, Sound(F)
    PROVE  From(F, F)
  BY DEF From

LEMMA FromTwice ==
    ASSUME NEW F, NEW G, NEW H, From(F, G), From(G, H)
    PROVE  From(F, H)
  BY DEF From

\* No snapshot is of a streaming zone.
LEMMA SnapNotOwn ==
    ASSUME NEW F \in File
    PROVE  ~Own(SnapOf(F))
  BY DEF SnapOf, Own, File, Zone

\* A file with no streaming zone and nothing new on its stacks.
LEMMA NotOwnFrom ==
    ASSUME NEW F, Sound(F), NEW G, ~Own(G), Elements(G) \subseteq Elements(F)
    PROVE  From(F, G)
<1>1. Sound(G)
  BY DEF Sound
<1> QED
  BY <1>1 DEF From

\* The stacks are left alone, and no zone is made a streaming one.
LEMMA SameStacks ==
    ASSUME NEW F, Sound(F), NEW G, G.past = F.past, G.future = F.future,
           Own(G) => Own(F) /\ G.zone.edit = F.zone.edit
    PROVE  From(F, G)
<1>1. Elements(G) = Elements(F)
  BY DEF Elements
<1>2. Sound(G)
  BY <1>1 DEF Sound
<1> QED
  BY <1>1, <1>2 DEF From

LEMMA PushedElements ==
    ASSUME NEW F \in File, NEW el \in Element
    PROVE  /\ Push(F, el) \in File /\ Push(F, el).zone = F.zone
           /\ Push(F, el).past = Append(F.past, el) /\ Push(F, el).future = << >>
           /\ Elements(Push(F, el)) \subseteq Elements(F) \cup {el}
<1> DEFINE p == Append(F.past, el)
           P == Push(F, el)
<1>1. F.past \in Seq(Element)
  BY DEF File
<1>2. P \in File
  BY PushType
<1>3. P.past = p /\ P.future = << >> /\ P.zone = F.zone
  BY DEF Push, File
<1>4. \A i \in DOMAIN p : (i \in DOMAIN F.past /\ p[i] = F.past[i]) \/ p[i] = el
  BY <1>1
<1>5. DOMAIN << >> = {}
  OBVIOUS
<1> HIDE DEF p, P
<1>6. Elements(P) \subseteq Elements(F) \cup {el}
  BY <1>3, <1>4, <1>5 DEF Elements
<1> QED
  BY <1>2, <1>3, <1>6 DEF p, P

\* The last start is still the last when something else is pushed.
LEMMA StartedLastPush ==
    ASSUME NEW s \in Seq(Element), NEW e, StartedLast(s, e), NEW el, ~IsStart(el)
    PROVE  StartedLast(Append(s, el), e)
<1>1. PICK i \in DOMAIN s : /\ s[i].kind = "agent" /\ s[i].edit = e
                            /\ \A j \in DOMAIN s : j > i => ~IsStart(s[j])
  BY DEF StartedLast
<1> DEFINE p == Append(s, el)
<1>2. \A j \in DOMAIN p : (j \in DOMAIN s /\ p[j] = s[j]) \/ p[j] = el
  OBVIOUS
<1>3. i \in DOMAIN p /\ p[i] = s[i]
  OBVIOUS
<1> HIDE DEF p
<1>4. StartedLast(p, e)
  BY <1>1, <1>2, <1>3 DEF StartedLast
<1> QED
  BY <1>4 DEF p

\* An element that starts no stream is pushed.
LEMMA PushFrom ==
    ASSUME NEW F \in File, Sound(F), NEW el \in Element, ~IsStart(el),
           el.kind = "agent" => ~Own(el.before) /\ (el.after # NoSnap => ~Own(el.after))
    PROVE  From(F, Push(F, el))
<1> DEFINE P == Push(F, el)
<1>1. /\ P.zone = F.zone /\ P.past = Append(F.past, el) /\ P.future = << >>
      /\ Elements(P) \subseteq Elements(F) \cup {el}
  BY PushedElements
<1>2. F.past \in Seq(Element)
  BY DEF File
<1>3. Own(F) => StartedLast(Append(F.past, el), F.zone.edit)
  BY <1>2, StartedLastPush DEF Sound
<1>4. DOMAIN << >> = {}
  OBVIOUS
<1> HIDE DEF P
<1>5. Sound(P)
  BY <1>1, <1>3, <1>4 DEF Sound, Own
<1> QED
  BY <1>1, <1>5 DEF From, P

LEMMA RecordFrom ==
    ASSUME NEW F \in File, NEW G \in File, Sound(G)
    PROVE  From(G, Record(F, G))
<1> DEFINE el == Agent(NoEdit, SnapOf(F), SnapOf(G))
<1>1. el \in Element /\ el.before = SnapOf(F) /\ el.after = SnapOf(G) /\ el.edit = NoEdit
  BY SnapType, AgentType DEF Agent
<1>2. ~Own(SnapOf(F)) /\ ~Own(SnapOf(G))
  BY SnapNotOwn
<1> HIDE DEF el
<1>3. From(G, Push(G, el))
  BY <1>1, <1>2, PushFrom DEF IsStart
<1> QED
  BY <1>3 DEF Record, el

\* F becomes G, which has its stacks, and that is recorded.
LEMMA ChangeFrom ==
    ASSUME NEW F \in File, Sound(F), NEW G \in File, G.past = F.past, G.future = F.future,
           Own(G) => Own(F) /\ G.zone.edit = F.zone.edit
    PROVE  From(F, Record(F, G))
<1>1. From(F, G)
  BY SameStacks
<1>2. From(G, Record(F, G))
  BY <1>1, RecordFrom DEF From
<1> QED
  BY <1>1, <1>2, FromTwice

LEMMA ZoneGone ==
    ASSUME NEW F \in File
    PROVE  /\ WithoutZone(F).past = F.past /\ WithoutZone(F).future = F.future /\ ~Own(WithoutZone(F))
           /\ Reverted(F).past = F.past /\ Reverted(F).future = F.future /\ ~Own(Reverted(F))
  BY DEF WithoutZone, Reverted, Own, File

LEMMA DecidedFrom ==
    ASSUME NEW F \in File, Sound(F)
    PROVE  /\ From(F, AcceptedAll(F))
           /\ From(F, RejectedAll(F))
           /\ From(F, UserChanged(F))
<1>1. From(F, Record(F, WithoutZone(F))) /\ From(F, Record(F, Reverted(F)))
  BY ZoneGone, WithoutZoneType, RevertedType, ChangeFrom
<1> QED
  BY <1>1, FromSelf DEF AcceptedAll, RejectedAll, UserChanged

\* The end of a stream is noted in its start.
LEMMA FinishedFrom ==
    ASSUME NEW F \in File, Sound(F), NEW e
    PROVE  From(F, Finished(F, e))
<1> DEFINE Marked(el) == IF el.kind = "agent" /\ el.edit = e THEN [el EXCEPT !.after = SnapOf(F)] ELSE el
           Mark(s) == [i \in DOMAIN s |->
             IF s[i].kind = "agent" /\ s[i].edit = e THEN [s[i] EXCEPT !.after = SnapOf(F)] ELSE s[i]]
           G == Finished(F, e)
<1>1. F.past \in Seq(Element) /\ F.future \in Seq(Element)
  BY DEF File
<1>2. G.past = Mark(F.past) /\ G.future = Mark(F.future) /\ G.zone = F.zone
  BY DEF Finished, File
<1>3. \A s : DOMAIN Mark(s) = DOMAIN s /\ \A i \in DOMAIN s : Mark(s)[i] = Marked(s[i])
  OBVIOUS
<1>4. ASSUME NEW el \in Element
      PROVE  /\ Marked(el).kind = el.kind
             /\ IsStart(Marked(el)) <=> IsStart(el)
             /\ el.kind = "agent" => /\ Marked(el).edit = el.edit /\ Marked(el).before = el.before
                                     /\ Marked(el).after \in {el.after, SnapOf(F)}
  <2>1. CASE el \in AgentElement
    BY <2>1 DEF AgentElement, IsStart
  <2>2. CASE el \in TypedElement
    BY <2>2 DEF TypedElement, IsStart
  <2> QED
    BY <2>1, <2>2 DEF Element
<1>5. ~Own(SnapOf(F))
  BY SnapNotOwn
<1> HIDE DEF Mark, Marked, G
<1>6. \A new \in Elements(G) : \E el \in Elements(F) : el \in Element /\ new = Marked(el)
  BY <1>1, <1>2, <1>3 DEF Elements
<1>7. Own(G) => /\ StartedLast(G.past, G.zone.edit)
                /\ \A i \in DOMAIN G.future : G.future[i].kind = "typed"
  <2> SUFFICES ASSUME Own(G) PROVE /\ StartedLast(G.past, G.zone.edit)
                                   /\ \A i \in DOMAIN G.future : G.future[i].kind = "typed"
    OBVIOUS
  <2>1. StartedLast(F.past, F.zone.edit) /\ \A i \in DOMAIN F.future : F.future[i].kind = "typed"
    BY <1>2 DEF Own, Sound
  <2>2. PICK i \in DOMAIN F.past : /\ F.past[i].kind = "agent" /\ F.past[i].edit = F.zone.edit
                                   /\ \A j \in DOMAIN F.past : j > i => ~IsStart(F.past[j])
    BY <2>1 DEF StartedLast
  <2>3. \A j \in DOMAIN F.past : F.past[j] \in Element
    BY <1>1
  <2>4. \A j \in DOMAIN F.future : F.future[j] \in Element
    BY <1>1
  <2>5. \A j \in DOMAIN G.past : j > i => ~IsStart(G.past[j])
    BY <1>2, <1>3, <1>4, <2>2, <2>3
  <2>6. i \in DOMAIN G.past /\ G.past[i].kind = "agent" /\ G.past[i].edit = G.zone.edit
    BY <1>2, <1>3, <1>4, <2>2, <2>3
  <2>7. \A j \in DOMAIN G.future : G.future[j].kind = "typed"
    BY <1>2, <1>3, <1>4, <2>1, <2>4
  <2> QED
    BY <2>5, <2>6, <2>7 DEF StartedLast
<1>8. Sound(G)
  BY <1>4, <1>5, <1>6, <1>7 DEF Sound
<1>9. From(F, G)
  BY <1>4, <1>6, <1>8 DEF From, IsStart
<1> QED
  BY <1>9 DEF G

LEMMA DoneWithFrom ==
    ASSUME NEW F \in File, Sound(F), NEW e, NEW auto
    PROVE  From(F, DoneWith(F, e, auto))
<1>1. From(F, Finished(F, e)) /\ Finished(F, e) \in File
  BY FinishedFrom, FinishedType
<1>2. From(Finished(F, e), AcceptedAll(Finished(F, e)))
  BY <1>1, DecidedFrom DEF From
<1> QED
  BY <1>1, <1>2, FromTwice DEF DoneWith

LEMMA RestoredNotOwn ==
    ASSUME NEW F \in File, NEW snap, ~Own(snap)
    PROVE  /\ ~Own(Restored(F, snap))
           /\ Restored(F, snap).past = F.past /\ Restored(F, snap).future = F.future
  BY DEF Restored, Own, File

\* Text is changed and not by this service.
LEMMA TypedFrom ==
    ASSUME NEW F \in File, Sound(F), NEW c \in Changes
    PROVE  From(F, UserChanged([F EXCEPT !.text = Toggle(@, c)]))
<1> DEFINE G == [F EXCEPT !.text = Toggle(@, c)]
<1>1. G \in File /\ G.past = F.past /\ G.future = F.future /\ G.zone = F.zone
  BY TextFile
<1> HIDE DEF G
<1>2. From(F, G)
  BY <1>1, SameStacks DEF Own
<1>3. From(G, UserChanged(G))
  BY <1>1, <1>2, DecidedFrom DEF From
<1>4. From(F, UserChanged(G))
  BY <1>2, <1>3, FromTwice
<1> QED
  BY <1>4 DEF G

LEMMA UndoneFrom ==
    ASSUME NEW F \in File, Sound(F)
    PROVE  From(F, Undone(F))
<1>1. CASE F.past = << >>
  BY <1>1, FromSelf DEF Undone
<1>2. CASE F.past # << >>
  <2> DEFINE el == Last(F.past)
             H == Popped(F)
             n == Len(F.past)
  <2>1. F.past \in Seq(Element) /\ F.future \in Seq(Element) /\ el \in Element
    BY <1>2, StackTypes DEF File
  <2>2. /\ H \in File /\ H.zone = F.zone
        /\ H.past = Front(F.past) /\ H.future = Append(F.future, el)
    BY <1>2, PoppedFile
  <2>3. n \in DOMAIN F.past /\ el = F.past[n] /\ \A j \in DOMAIN F.past : j <= n
    BY <1>2, <2>1 DEF Last
  <2>4. /\ DOMAIN Front(F.past) = {j \in DOMAIN F.past : j # n}
        /\ \A j \in DOMAIN Front(F.past) : Front(F.past)[j] = F.past[j]
    BY <1>2, <2>1 DEF Front
  <2>5. \A j \in DOMAIN H.future : (j \in DOMAIN F.future /\ H.future[j] = F.future[j]) \/ H.future[j] = el
    <3> DEFINE q == Append(F.future, el)
    <3>1. \A j \in DOMAIN q : (j \in DOMAIN F.future /\ q[j] = F.future[j]) \/ q[j] = el
      BY <2>1
    <3> HIDE DEF el, H, q
    <3> QED
      BY <2>2, <3>1 DEF q
  <2>6. Undone(F) = IF el.kind = "typed" THEN UserChanged([H EXCEPT !.text = Toggle(@, el.change)])
                                         ELSE Restored(H, el.before)
    BY <1>2 DEF Undone, Popped
  <2> HIDE DEF el, H, n
  <2>7. Elements(H) \subseteq Elements(F)
    BY <2>2, <2>3, <2>4, <2>5 DEF Elements
  <2>8. el \in Elements(F)
    BY <2>3 DEF Elements
  <2>9. CASE el.kind = "typed"
    <3>1. el.change \in Changes
      BY <2>1, <2>9, ElementTypes DEF Changes
    <3>2. ASSUME Own(H)
          PROVE  /\ StartedLast(H.past, H.zone.edit)
                 /\ \A i \in DOMAIN H.future : H.future[i].kind = "typed"
      <4>1. StartedLast(F.past, F.zone.edit) /\ \A i \in DOMAIN F.future : F.future[i].kind = "typed"
        BY <2>2, <3>2 DEF Own, Sound
      <4>2. PICK i \in DOMAIN F.past : /\ F.past[i].kind = "agent" /\ F.past[i].edit = F.zone.edit
                                       /\ \A j \in DOMAIN F.past : j > i => ~IsStart(F.past[j])
        BY <4>1 DEF StartedLast
      <4>3. i # n
        BY <2>3, <2>9, <4>2
      <4>4. StartedLast(H.past, H.zone.edit)
        BY <2>2, <2>4, <4>2, <4>3 DEF StartedLast
      <4> QED
        BY <2>5, <2>9, <4>1, <4>4
    <3>3. Sound(H)
      BY <2>7, <3>2 DEF Sound
    <3>4. From(F, H)
      BY <2>7, <3>3 DEF From
    <3> QED
      BY <2>2, <2>6, <2>9, <3>1, <3>3, <3>4, TypedFrom, FromTwice
  <2>10. CASE el.kind # "typed"
    <3>1. ~Own(el.before)
      BY <2>1, <2>8, <2>10, ElementTypes DEF Sound
    <3>2. ~Own(Undone(F)) /\ Elements(Undone(F)) = Elements(H)
      BY <2>2, <2>6, <2>10, <3>1, RestoredNotOwn DEF Elements
    <3> QED
      BY <2>7, <3>2, NotOwnFrom
  <2> QED
    BY <2>9, <2>10
<1> QED
  BY <1>1, <1>2

LEMMA RedoneFrom ==
    ASSUME NEW F \in File, Sound(F), F.future # << >>
    PROVE  From(F, Redone(F))
<1> DEFINE el == Last(F.future)
           H == Repushed(F)
           n == Len(F.future)
<1>1. F.past \in Seq(Element) /\ F.future \in Seq(Element) /\ el \in Element
  BY StackTypes DEF File
<1>2. /\ H \in File /\ H.zone = F.zone
      /\ H.past = Append(F.past, el) /\ H.future = Front(F.future)
  BY RepushedFile
<1>3. n \in DOMAIN F.future /\ el = F.future[n]
  BY <1>1 DEF Last
<1>4. \A j \in DOMAIN Front(F.future) : j \in DOMAIN F.future /\ Front(F.future)[j] = F.future[j]
  BY <1>1 DEF Front
<1>5. \A j \in DOMAIN H.past : (j \in DOMAIN F.past /\ H.past[j] = F.past[j]) \/ H.past[j] = el
  <2> DEFINE q == Append(F.past, el)
  <2>1. \A j \in DOMAIN q : (j \in DOMAIN F.past /\ q[j] = F.past[j]) \/ q[j] = el
    BY <1>1
  <2> HIDE DEF el, H, q
  <2> QED
    BY <1>2, <2>1 DEF q
<1>6. Redone(F) = CASE el.kind = "typed" -> UserChanged([H EXCEPT !.text = Toggle(@, el.change)])
                    [] el.kind = "agent" /\ el.after = NoSnap -> H
                    [] OTHER -> Restored(H, el.after)
  BY DEF Redone, Repushed
<1> HIDE DEF el, H, n
<1>7. Elements(H) \subseteq Elements(F)
  BY <1>2, <1>3, <1>4, <1>5 DEF Elements
<1>8. el \in Elements(F)
  BY <1>3 DEF Elements
<1>9. CASE el.kind = "typed"
  <2>1. el.change \in Changes
    BY <1>1, <1>9, ElementTypes DEF Changes
  <2>2. Own(H) => /\ StartedLast(H.past, H.zone.edit)
                  /\ \A i \in DOMAIN H.future : H.future[i].kind = "typed"
    <3>1. ~IsStart(el)
      BY <1>9 DEF IsStart
    <3> QED
      BY <1>1, <1>2, <1>4, <3>1, StartedLastPush DEF Own, Sound
  <2>3. Sound(H)
    BY <1>7, <2>2 DEF Sound
  <2>4. From(F, H)
    BY <1>7, <2>3 DEF From
  <2>5. Redone(F) = UserChanged([H EXCEPT !.text = Toggle(@, el.change)])
    BY <1>6, <1>9
  <2> QED
    BY <1>2, <2>1, <2>3, <2>4, <2>5, TypedFrom, FromTwice
<1>10. CASE el.kind = "agent"
  <2>1. ~Own(Redone(F)) /\ Elements(Redone(F)) = Elements(H)
    <3>1. CASE el.after = NoSnap
      <4>1. ~Own(F)
        BY <1>3, <1>10 DEF Sound
      <4>2. Redone(F) = H
        BY <1>6, <1>10, <3>1
      <4> QED
        BY <1>2, <4>1, <4>2 DEF Own
    <3>2. CASE el.after # NoSnap
      <4>1. ~Own(el.after)
        BY <1>8, <1>10, <3>2 DEF Sound
      <4>2. Redone(F) = Restored(H, el.after)
        BY <1>6, <1>10, <3>2
      <4> QED
        BY <1>2, <4>1, <4>2, RestoredNotOwn DEF Elements
    <3> QED
      BY <3>1, <3>2
  <2> QED
    BY <1>7, <2>1, NotOwnFrom
<1> QED
  BY <1>1, <1>9, <1>10, ElementTypes

\* A stream starts in F.
LEMMA StartedSound ==
    ASSUME NEW F \in File, Sound(F), NEW e \in Edits
    PROVE  /\ Sound(Started(F, e))
           /\ \A el \in Elements(Started(F, e)) :
                el \in Elements(F) \/ (el.edit = e /\ el.before.text = F.text)
<1> DEFINE R == Reverted(F)
           el == Agent(e, SnapOf(F), NoSnap)
           P == Push(R, el)
           z == [edit |-> e, original |-> F.text, own |-> TRUE]
           G == [P EXCEPT !.zone = z]
<1>1. R \in File /\ R.past = F.past /\ R.future = F.future
  BY RevertedType, ZoneGone
<1>2. /\ el \in Element /\ el.kind = "agent" /\ el.edit = e
      /\ el.before = SnapOf(F) /\ el.before.text = F.text /\ el.after = NoSnap
  BY SnapType, AgentType DEF Agent, SnapOf
<1>3. ~Own(SnapOf(F))
  BY SnapNotOwn
<1> HIDE DEF R, el
<1>4. /\ P \in File /\ P.past = Append(F.past, el) /\ P.future = << >>
      /\ Elements(P) \subseteq Elements(F) \cup {el}
  <2>1. Elements(R) = Elements(F)
    BY <1>1 DEF Elements
  <2> QED
    BY <1>1, <1>2, <2>1, PushedElements
<1> HIDE DEF P
<1>5. G.past = P.past /\ G.future = P.future /\ G.zone = z /\ z.edit = e
  BY <1>4 DEF File
<1>6. StartedLast(P.past, e)
  <2> DEFINE p == Append(F.past, el)
             n == Len(F.past) + 1
  <2>1. F.past \in Seq(Element)
    BY DEF File
  <2>2. n \in DOMAIN p /\ p[n] = el /\ \A j \in DOMAIN p : ~(j > n)
    BY <2>1
  <2> HIDE DEF p, n
  <2>3. StartedLast(p, e)
    BY <1>2, <2>2 DEF StartedLast
  <2> QED
    BY <1>4, <2>3 DEF p
<1>7. DOMAIN << >> = {}
  OBVIOUS
<1> HIDE DEF G, z
<1>8. Elements(G) = Elements(P)
  BY <1>5 DEF Elements
<1>9. Sound(G)
  BY <1>2, <1>3, <1>4, <1>5, <1>6, <1>7, <1>8 DEF Sound
<1>10. G = Started(F, e)
  BY DEF G, P, R, el, z, Started
<1> QED
  BY <1>2, <1>4, <1>8, <1>9, <1>10

-----------------------------------------------------------------------------
\* StacksOK is kept.

\* An edit that began does not begin again, and is shown no other text.
EditsGoOn ==
    \A d \in Edits : Begun(d) =>
        /\ Begun(d)'
        /\ pc'[d] # "done" => pc[d] # "done" /\ job'[d].prompt = job[d].prompt

LEMMA PlainGoOn ==
    ASSUME KeepJobs,
           \A d \in Edits : pc'[d] \in {pc[d], "done"}
                              \/ (pc[d] \in Requested /\ pc'[d] \in Requested \cup {"stuck"})
    PROVE  EditsGoOn
  BY DEF EditsGoOn, Begun, KeepJobs, Requested

LEMMA StopGoOn ==
    ASSUME KeepJobs, NEW S, pc' = Stopped(pc, S)
    PROVE  EditsGoOn
<1>1. \A d \in Edits : pc'[d] \in {pc[d], "done"}
  BY DEF Stopped
<1> QED
  BY <1>1, PlainGoOn

\* The file u becomes G in a step that starts no stream.
LEMMA StacksKept ==
    ASSUME IInv, StacksOK, NEW u \in Files, NEW G, From(files[u], G),
           files' = [files EXCEPT ![u] = G], EditsGoOn
    PROVE  StacksOK'
<1>1. files'[u] = G /\ \A v \in Files : v # u => files'[v] = files[v]
  BY DEF IInv, TypeOK
<1>2. ASSUME NEW v \in Files, NEW el \in Elements(files[v])
      PROVE  IsStart(el) => el.edit \in Edits
  <2>1. files[v].past \in Seq(Element) /\ files[v].future \in Seq(Element)
    BY DEF IInv, TypeOK, File
  <2>2. el \in Element
    BY <2>1 DEF Elements
  <2> QED
    BY <2>2, ElementTypes DEF IsStart
<1>3. ASSUME NEW el, NEW old, IsStart(old), old.edit \in Edits, PromptKept(old),
             IsStart(el), el.edit = old.edit, el.before = old.before
      PROVE  PromptKept(el)'
  BY <1>3 DEF PromptKept, EditsGoOn, Begun
<1>4. ASSUME NEW v \in Files PROVE Sound(files'[v])
  BY <1>1 DEF StacksOK, From
<1>5. ASSUME NEW v \in Files, NEW el \in Elements(files'[v]), IsStart(el) PROVE PromptKept(el)'
  <2>1. PICK old \in Elements(files[v]) : IsStart(old) /\ el.edit = old.edit /\ el.before = old.before
    BY <1>1, <1>5 DEF From
  <2>2. old.edit \in Edits /\ PromptKept(old)
    BY <1>2, <2>1 DEF StacksOK
  <2> QED
    BY <1>3, <1>5, <2>1, <2>2
<1>6. ASSUME NEW v \in Files PROVE Sound(files[v])' /\ \A el \in Elements(files[v])' : PromptKept(el)'
  <2>1. Sound(files[v])' = Sound(files'[v]) /\ Elements(files[v])' = Elements(files'[v])
    BY DEF Sound, Elements, StartedLast, Own, IsStart
  <2>2. \A el \in Elements(files'[v]) : PromptKept(el)'
    BY <1>5 DEF PromptKept
  <2> QED
    BY <1>4, <2>1, <2>2
<1> QED
  BY <1>6 DEF StacksOK

\* Nothing happens to the files.
LEMMA StacksUntouched ==
    ASSUME StacksOK, files' = files, EditsGoOn, IInv
    PROVE  StacksOK'
<1>1. CASE Files = {}
  BY <1>1 DEF StacksOK
<1>2. CASE Files # {}
  <2>1. PICK u \in Files : TRUE
    BY <1>2
  <2>2. files' = [files EXCEPT ![u] = files[u]]
    BY DEF IInv, TypeOK
  <2>3. From(files[u], files[u])
    BY FromSelf DEF StacksOK
  <2> QED
    BY <2>2, <2>3, StacksKept
<1> QED
  BY <1>1, <1>2

LEMMA KeptZone ==
    ASSUME NEW F \in File, NEW e \in Edits
    PROVE  LET G == [F EXCEPT !.zone = Kept(F, e)]
               H == [F EXCEPT !.zone = Kept(F, e), !.text = @ \cup {e}]
           IN  /\ G.past = F.past /\ G.future = F.future /\ ~Own(G)
               /\ H.past = F.past /\ H.future = F.future /\ ~Own(H)
  BY DEF File, Own, Kept

LEMMA AskStacks ==
    ASSUME IInv, StacksOK, NEW e \in Edits, NEW m, NEW u, Ask(e, m, u)
    PROVE  StacksOK'
<1>1. EditsGoOn
  BY DEF Ask, IInv, TypeOK, EditsGoOn, Begun
<1>2. files' = files
  BY DEF Ask
<1> QED
  BY <1>1, <1>2, StacksUntouched

LEMMA ToolStacks ==
    ASSUME IInv, StacksOK, NEW e \in Edits, NEW auto, ToolEdit(e, auto) \/ ToolEditFails(e, auto)
    PROVE  StacksOK'
<1> DEFINE u == job[e].file
           F == files[u]
<1>1. /\ pc[e] = "saving" /\ pc[e] \in Alive /\ u \in Files /\ F \in File /\ Sound(F)
  BY JobOf DEF ToolEdit, ToolEditFails, Alive, StacksOK
<1>2. pc \in [Edits -> PCs]
  BY DEF IInv, TypeOK
<1>3. CASE ToolEdit(e, auto)
  <2> DEFINE H == [F EXCEPT !.zone = Kept(F, e), !.text = @ \cup {e}]
             G == Record(F, H)
             K == IF auto THEN AcceptedAll(G) ELSE G
  <2>1. H \in File /\ G \in File
    BY <1>1, ToolTypes, RecordType
  <2>2. H.past = F.past /\ H.future = F.future /\ ~Own(H)
    BY <1>1, KeptZone
  <2>3. files' = [files EXCEPT ![u] = K] /\ pc' = [pc EXCEPT ![e] = "done"] /\ KeepJobs
    BY <1>3 DEF ToolEdit
  <2> HIDE DEF H, F, u
  <2>4. From(F, G)
    BY <1>1, <2>1, <2>2, ChangeFrom
  <2> HIDE DEF G
  <2>5. From(G, AcceptedAll(G))
    BY <2>1, <2>4, DecidedFrom DEF From
  <2>6. From(F, K)
    BY <2>4, <2>5, FromTwice
  <2>7. EditsGoOn
    BY <1>2, <2>3, PlainGoOn
  <2> HIDE DEF K
  <2> QED
    BY <1>1, <2>3, <2>6, <2>7, StacksKept DEF F
<1>4. CASE ToolEditFails(e, auto)
  <2> DEFINE H == [F EXCEPT !.zone = Kept(F, e)]
             G == Record(F, H)
             K == IF auto THEN AcceptedAll(G) ELSE G
             S == StoppedByUndo(K, Streaming([files EXCEPT ![u] = K], shown))
  <2>1. H \in File /\ G \in File
    BY <1>1, ToolTypes, RecordType
  <2>2. H.past = F.past /\ H.future = F.future /\ ~Own(H)
    BY <1>1, KeptZone
  <2>3. files' = [files EXCEPT ![u] = Undone(K)] /\ pc' = [Stopped(pc, S) EXCEPT ![e] = "done"] /\ KeepJobs
    BY <1>4 DEF ToolEditFails
  <2> HIDE DEF H, F, u, S
  <2>4. From(F, G)
    BY <1>1, <2>1, <2>2, ChangeFrom
  <2> HIDE DEF G
  <2>5. From(G, AcceptedAll(G))
    BY <2>1, <2>4, DecidedFrom DEF From
  <2>6. K \in File /\ From(F, K)
    BY <2>1, <2>4, <2>5, FromTwice, DecidedType
  <2> HIDE DEF K
  <2>7. From(F, Undone(K))
    BY <2>6, UndoneFrom, FromTwice DEF From
  <2>8. \A d \in Edits : pc'[d] \in {pc[d], "done"}
    BY <2>3 DEF Stopped
  <2>9. EditsGoOn
    BY <2>3, <2>8, PlainGoOn
  <2> QED
    BY <1>1, <2>3, <2>7, <2>9, StacksKept DEF F
<1> QED
  BY <1>3, <1>4

\* The start of the stream of e is new, and restores what the LLM is shown.
LEMMA ApplyStacks ==
    ASSUME IInv, StacksOK, NEW e \in Edits, Apply(e)
    PROVE  StacksOK'
<1> DEFINE u == job[e].file
           F == files[u]
           G == Started(F, e)
<1>1. pc[e] = "saving" /\ job[e] \in Job /\ u \in Files /\ F \in File /\ Sound(F)
  BY JobOf DEF Apply, Alive, StacksOK
<1>2. CASE StreamingIn(u)
  <2>1. EditsGoOn
    BY <1>1, <1>2 DEF Apply, IInv, TypeOK, EditsGoOn, Begun
  <2>2. files' = files
    BY <1>2 DEF Apply
  <2> QED
    BY <2>1, <2>2, StacksUntouched
<1>3. CASE ~StreamingIn(u)
  <2>1. /\ files' = [files EXCEPT ![u] = G]
        /\ pc' = [pc EXCEPT ![e] = "waiting"]
        /\ job' = [job EXCEPT ![e].prompt = F.text, ![e].sent = 1]
    BY <1>3 DEF Apply
  <2>2. Sound(G) /\ \A el \in Elements(G) : el \in Elements(F) \/ (el.edit = e /\ el.before.text = F.text)
    BY <1>1, StartedSound
  <2>3. \A d \in Edits : d # e => pc'[d] = pc[d] /\ job'[d] = job[d]
    BY <2>1 DEF IInv, TypeOK
  <2>4. pc'[e] = "waiting" /\ job'[e].prompt = F.text
    BY <1>1, <2>1 DEF IInv, TypeOK, Job
  <2>5. files'[u] = G /\ \A v \in Files : v # u => files'[v] = files[v]
    BY <1>1, <2>1 DEF IInv, TypeOK
  <2> HIDE DEF F, G, u
  <2>6. ASSUME NEW v \in Files, NEW el \in Elements(files[v]) PROVE PromptKept(el)'
    <3>1. PromptKept(el)
      BY <2>6 DEF StacksOK
    <3>2. IsStart(el) => el.edit \in Edits
      <4>1. files[v].past \in Seq(Element) /\ files[v].future \in Seq(Element)
        BY DEF IInv, TypeOK, File
      <4>2. el \in Element
        BY <2>6, <4>1 DEF Elements
      <4> QED
        BY <4>2, ElementTypes DEF IsStart
    <3> QED
      BY <1>1, <2>3, <3>1, <3>2 DEF PromptKept, Begun
  <2>7. ASSUME NEW el, el.edit = e, el.before.text = F.text PROVE PromptKept(el)'
    BY <2>4, <2>7 DEF PromptKept, Begun
  <2>8. ASSUME NEW v \in Files
        PROVE  Sound(files'[v]) /\ \A el \in Elements(files'[v]) : PromptKept(el)'
    <3>1. CASE v = u
      <4>1. ASSUME NEW el \in Elements(G) PROVE PromptKept(el)'
        BY <1>1, <2>2, <2>6, <2>7, <4>1 DEF F
      <4> QED
        BY <2>2, <2>5, <3>1, <4>1
    <3>2. CASE v # u
      <4>1. ASSUME NEW el \in Elements(files[v]) PROVE PromptKept(el)'
        BY <2>6, <4>1
      <4> QED
        BY <2>5, <3>2, <4>1 DEF StacksOK
    <3> QED
      BY <3>1, <3>2
  <2>9. ASSUME NEW v \in Files PROVE Sound(files[v])' /\ \A el \in Elements(files[v])' : PromptKept(el)'
    <3>1. Sound(files[v])' = Sound(files'[v]) /\ Elements(files[v])' = Elements(files'[v])
      BY DEF Sound, Elements, StartedLast, Own, IsStart
    <3> QED
      BY <2>8, <3>1
  <2> QED
    BY <2>9 DEF StacksOK
<1> QED
  BY <1>2, <1>3

\* What an answer makes of the text leaves the stacks and the zone alone.
LEMMA TextFrom ==
    ASSUME NEW F \in File, Sound(F), NEW t
    PROVE  From(F, [F EXCEPT !.text = t])
<1> DEFINE G == [F EXCEPT !.text = t]
<1>1. G.past = F.past /\ G.future = F.future /\ G.zone = F.zone
  BY DEF File
<1> HIDE DEF G
<1>2. From(F, G)
  BY <1>1, SameStacks DEF Own
<1> QED
  BY <1>2 DEF G

\* A step of the stream of e, with or without its end.
LEMMA StreamGoOn ==
    ASSUME IInv, KeepJobs, NEW e \in Edits, pc[e] \in Requested,
           NEW at \in Requested \cup {"stuck", "done"}, pc' = [pc EXCEPT ![e] = at]
    PROVE  EditsGoOn
<1>1. \A d \in Edits : pc'[d] = IF d = e THEN at ELSE pc[d]
  BY DEF IInv, TypeOK
<1> QED
  BY <1>1, PlainGoOn

LEMMA StreamStacks ==
    ASSUME IInv, StacksOK, NEW e \in Edits, pc[e] \in Requested, NEW G,
           From(files[job[e].file], G), files' = [files EXCEPT ![job[e].file] = G], EditsGoOn
    PROVE  StacksOK'
  BY JobOf, StacksKept DEF Alive

LEMMA FailStacks ==
    ASSUME IInv, StacksOK, NEW e \in Edits, pc[e] \in Requested, NEW F \in File,
           From(files[job[e].file], F), NEW auto, NEW otherwise \in {"stuck", "done"},
           Fail(e, F, auto, otherwise), KeepJobs
    PROVE  StacksOK'
<1> DEFINE u == job[e].file
           G == DoneWith(F, e, auto)
           S == StoppedByUndo(G, Streaming([files EXCEPT ![u] = G], Hidden({e})))
           f == [pc EXCEPT ![e] = otherwise]
<1>1. files' = [files EXCEPT ![u] = Undone(G)] /\ pc' = Stopped(f, S)
  BY DEF Fail
<1>2. From(F, G) /\ G \in File
  BY DoneWithFrom, DoneWithType DEF From
<1> HIDE DEF u, G, S
<1>3. From(G, Undone(G))
  BY <1>2, UndoneFrom DEF From
<1>4. From(files[u], Undone(G))
  BY <1>2, <1>3, FromTwice DEF u
<1>5. EditsGoOn
  <2>1. \A d \in Edits : f[d] = IF d = e THEN otherwise ELSE pc[d]
    BY DEF IInv, TypeOK
  <2>2. \A d \in Edits : pc'[d] = IF d \in S /\ f[d] # "unborn" THEN "done" ELSE f[d]
    BY <1>1 DEF Stopped
  <2> HIDE DEF f
  <2> QED
    BY <2>1, <2>2, PlainGoOn
<1> QED
  BY <1>1, <1>4, <1>5, StreamStacks DEF u

LEMMA AgainStacks ==
    ASSUME IInv, StacksOK, NEW e \in Edits, pc[e] \in Requested, NEW F \in File,
           From(files[job[e].file], F), NEW auto, Again(e, F, auto)
    PROVE  StacksOK'
<1>1. CASE MoreTries(e)
  <2>1. /\ files' = [files EXCEPT ![job[e].file] = F]
        /\ job' = [job EXCEPT ![e].sent = @ + 1]
        /\ pc' = [pc EXCEPT ![e] = "waiting"]
    BY <1>1 DEF Again
  <2>2. job[e] \in Job
    BY JobOf DEF Alive
  <2>3. \A d \in Edits : d # e => pc'[d] = pc[d] /\ job'[d] = job[d]
    BY <2>1 DEF IInv, TypeOK
  <2>4. pc'[e] = "waiting" /\ job'[e].prompt = job[e].prompt
    BY <2>1, <2>2 DEF IInv, TypeOK, Job
  <2>5. EditsGoOn
    BY <2>3, <2>4 DEF EditsGoOn, Begun, Requested
  <2> QED
    BY <2>1, <2>5, StreamStacks
<1>2. CASE ~MoreTries(e)
  BY <1>2, FailStacks DEF Again
<1> QED
  BY <1>1, <1>2

LEMMA FinalNotFoundStacks ==
    ASSUME IInv, StacksOK, NEW e \in Edits, NEW auto, FastFinalNotFound(e, auto)
    PROVE  StacksOK'
<1> DEFINE u  == job[e].file
           G0 == [files[u] EXCEPT !.text = job[e].prompt]
           G  == DoneWith(G0, e, auto)
           S  == StoppedByUndo(G, Streaming([files EXCEPT ![u] = G], Hidden({e})))
           G2 == DoneWith(Undone(G), e, auto)
           S2 == StoppedByUndo(G2, Streaming([files EXCEPT ![u] = G2], Hidden({e} \cup S)))
           more == e \notin S /\ MoreTries(e)
           locked == UndoesAgent(G)
           Outcome(H, T) ==
             /\ files' = [files EXCEPT ![u] = H]
             /\ pc' = [Stopped(pc, T) EXCEPT ![e] = IF more THEN "waiting" ELSE "done"]
             /\ shown' = Hidden(T \cup {e})
<1>1. /\ pc[e] = "waiting"
      /\ CASE e \in S \/ more -> Outcome(Undone(G), S)
           [] e \notin S /\ ~more /\ locked -> Outcome(G2, S)
           [] OTHER -> Outcome(Undone(G2), S \cup S2)
      /\ job' = [d \in Edits |-> IF pc'[d] = "done" THEN NoJob
                                ELSE IF d = e /\ more THEN [job[d] EXCEPT !.sent = @ + 1]
                                ELSE job[d]]
  BY DEF FastFinalNotFound
<1>2. /\ pc[e] \in Requested /\ job[e] \in Job /\ u \in Files /\ files[u] \in File /\ Sound(files[u])
      /\ pc \in [Edits -> PCs]
  BY <1>1, JobOf DEF Alive, Requested, StacksOK, IInv, TypeOK
<1>3. G0 \in File /\ From(files[u], G0)
  BY <1>2, TextFrom, TextOf DEF Alive
<1> HIDE DEF u, G0
<1>4. G \in File /\ From(G0, G)
  BY <1>3, DoneWithFrom, DoneWithType DEF From
<1> HIDE DEF G
<1>5. Undone(G) \in File /\ From(G, Undone(G))
  BY <1>4, UndoneFrom, UndoneType DEF From
<1>6. G2 \in File /\ From(Undone(G), G2)
  BY <1>5, DoneWithFrom, DoneWithType DEF From
<1> HIDE DEF G2
<1>7. From(G2, Undone(G2))
  BY <1>6, UndoneFrom DEF From
<1>8. From(files[u], Undone(G)) /\ From(files[u], G2) /\ From(files[u], Undone(G2))
  BY <1>3, <1>4, <1>5, <1>6, <1>7, FromTwice
<1>9. PICK H, T : From(files[u], H) /\ Outcome(H, T)
  <2> HIDE DEF Outcome, more, locked, S, S2
  <2> QED
    BY <1>1, <1>8
<1> HIDE DEF S
<1>10. \A d \in Edits : pc'[d] = IF d = e THEN IF more THEN "waiting" ELSE "done"
                                 ELSE IF d \in T /\ pc[d] # "unborn" THEN "done" ELSE pc[d]
  BY <1>9 DEF Stopped
<1>11. ASSUME NEW d \in Edits, pc'[d] # "done"
       PROVE  job'[d].prompt = job[d].prompt
  <2>1. job'[d] = IF d = e /\ more THEN [job[d] EXCEPT !.sent = @ + 1] ELSE job[d]
    BY <1>1, <1>11
  <2> QED
    BY <1>2, <2>1 DEF Job
<1>12. EditsGoOn
  <2> HIDE DEF more
  <2> QED
    BY <1>2, <1>10, <1>11 DEF EditsGoOn, Begun, Requested
<1>13. files' = [files EXCEPT ![u] = H]
  BY <1>9
<1> QED
  BY <1>2, <1>9, <1>12, <1>13, StacksKept

LEMMA AnswerStacks ==
    ASSUME IInv, StacksOK, NEW e \in Edits, Answer(e)
    PROVE  StacksOK'
<1> DEFINE F == files[job[e].file]
<1>a. pc[e] \in Requested /\ pc[e] \in Alive
  BY DEF Answer, WriteoverText, FastText, FastSecondBlock, FastFinalThrows, LLMError, WriteoverFinal,
         FastNotFound, FastFinal, FastFinalFails, FastFinalNotFound, Open, Requested, Alive
<1>b. F \in File /\ job[e].file \in Files /\ Sound(F)
  BY <1>a, JobOf DEF StacksOK
<1>c. \A t : From(F, [F EXCEPT !.text = t])
  BY <1>b, TextFrom
<1>1. CASE WriteoverText(e)
  <2>1. /\ files' = [files EXCEPT ![job[e].file] = [F EXCEPT !.text = F.text \cup {e}]]
        /\ pc' = [pc EXCEPT ![e] = "writing"] /\ KeepJobs
    BY <1>1, <1>b DEF WriteoverText, IInv, TypeOK
  <2>2. EditsGoOn
    BY <1>a, <2>1, StreamGoOn DEF Requested
  <2> HIDE DEF F
  <2> QED
    BY <1>a, <1>c, <2>1, <2>2, StreamStacks DEF F
<1>2. \E G : From(F, G) /\ FirstBlock(e) = [files EXCEPT ![job[e].file] = G]
  <2> DEFINE G == [F EXCEPT !.text = IF shown[e] THEN F.text \cup {e} ELSE F.text]
  <2>1. FirstBlock(e) = [files EXCEPT ![job[e].file] = G]
    BY <1>b DEF FirstBlock, IInv, TypeOK
  <2>2. From(F, G)
    BY <1>c
  <2> HIDE DEF G
  <2> QED
    BY <2>1, <2>2
<1>3. CASE FastText(e) \/ FastSecondBlock(e)
  <2>1. PICK at \in Requested : files' = FirstBlock(e) /\ pc' = [pc EXCEPT ![e] = at] /\ KeepJobs
    BY <1>3 DEF FastText, FastSecondBlock, Requested
  <2>2. EditsGoOn
    BY <1>a, <2>1, StreamGoOn
  <2> QED
    BY <1>a, <1>2, <2>1, <2>2, StreamStacks
<1>4. CASE FastFinalThrows(e)
  <2>1. pc' = [pc EXCEPT ![e] = "stuck"] /\ KeepJobs
    BY <1>4 DEF FastFinalThrows
  <2>2. \E G : From(F, G) /\ files' = [files EXCEPT ![job[e].file] = G]
    <3>1. CASE pc[e] = "broken"
      <4>1. files' = [files EXCEPT ![job[e].file] = F]
        BY <1>4, <3>1 DEF FastFinalThrows, IInv, TypeOK
      <4> QED
        BY <1>b, <4>1, FromSelf
    <3>2. CASE pc[e] # "broken"
      BY <1>2, <1>4, <3>2 DEF FastFinalThrows
    <3> QED
      BY <3>1, <3>2
  <2>3. EditsGoOn
    BY <1>a, <2>1, StreamGoOn
  <2> QED
    BY <1>a, <2>2, <2>3, StreamStacks
<1>5. ASSUME NEW auto \in AutoAccept, LLMError(e, auto)
      PROVE  StacksOK'
  BY <1>5, <1>a, <1>b, FromSelf, FailStacks DEF LLMError
<1>6. ASSUME NEW auto, NEW t, [F EXCEPT !.text = t] \in File,
             files' = [files EXCEPT ![job[e].file] = DoneWith([F EXCEPT !.text = t], e, auto)],
             pc' = [pc EXCEPT ![e] = "done"], KeepJobs
      PROVE  StacksOK'
  <2> DEFINE G == [F EXCEPT !.text = t]
  <2>1. G \in File /\ From(F, G) /\ files' = [files EXCEPT ![job[e].file] = DoneWith(G, e, auto)]
    BY <1>6, <1>c
  <2> HIDE DEF G, F
  <2>2. From(F, DoneWith(G, e, auto))
    BY <2>1, DoneWithFrom, FromTwice DEF From
  <2>3. EditsGoOn
    BY <1>6, <1>a, StreamGoOn
  <2> QED
    BY <1>a, <2>1, <2>2, <2>3, StreamStacks DEF F
<1>7. ASSUME NEW auto \in AutoAccept, WriteoverFinal(e, auto)
      PROVE  StacksOK'
  <2>1. PICK left \in SUBSET F.text :
           files' = [files EXCEPT ![job[e].file] =
                        DoneWith([F EXCEPT !.text = job[e].prompt \cup {e} \cup left], e, auto)]
    BY <1>7 DEF WriteoverFinal
  <2>2. [F EXCEPT !.text = job[e].prompt \cup {e} \cup left] \in File
    BY <1>a, TextOf
  <2>3. pc' = [pc EXCEPT ![e] = "done"] /\ KeepJobs
    BY <1>7 DEF WriteoverFinal
  <2> HIDE DEF F
  <2> QED
    BY <1>6, <2>1, <2>2, <2>3
<1>8. ASSUME NEW auto \in AutoAccept, FastNotFound(e, auto)
      PROVE  StacksOK'
  <2> DEFINE G == [F EXCEPT !.text = job[e].prompt]
  <2>1. Again(e, G, auto)
    BY <1>8 DEF FastNotFound
  <2>2. G \in File /\ From(F, G)
    BY <1>a, <1>c, TextOf
  <2> HIDE DEF G
  <2> QED
    BY <1>a, <2>1, <2>2, AgainStacks
<1>9. ASSUME NEW auto \in AutoAccept, FastFinal(e, auto)
      PROVE  StacksOK'
  <2>1. /\ files' = [files EXCEPT ![job[e].file] = DoneWith([F EXCEPT !.text = job[e].prompt \cup {e}], e, auto)]
        /\ pc' = [pc EXCEPT ![e] = "done"] /\ KeepJobs
    BY <1>9 DEF FastFinal
  <2>2. [F EXCEPT !.text = job[e].prompt \cup {e}] \in File
    BY <1>a, TextOf
  <2> HIDE DEF F
  <2> QED
    BY <1>6, <2>1, <2>2
<1>10. ASSUME NEW auto \in AutoAccept, FastFinalFails(e, auto)
      PROVE  StacksOK'
  <2> DEFINE G == [F EXCEPT !.text = job[e].prompt]
  <2>1. Fail(e, G, auto, "stuck") /\ KeepJobs
    BY <1>10 DEF FastFinalFails
  <2>2. G \in File /\ From(F, G)
    BY <1>a, <1>c, TextOf
  <2> HIDE DEF G
  <2> QED
    BY <1>a, <2>1, <2>2, FailStacks
<1>11. ASSUME NEW auto \in AutoAccept, FastFinalNotFound(e, auto)
       PROVE  StacksOK'
  BY <1>11, FinalNotFoundStacks
<1> QED
  BY <1>1, <1>3, <1>4, <1>5, <1>7, <1>8, <1>9, <1>10, <1>11 DEF Answer

\* One change that a zone shows is accepted or rejected.
LEMMA DiffFrom ==
    ASSUME NEW F \in File, Sound(F), NEW G \in File, G.past = F.past, G.future = F.future,
           Own(G) => Own(F) /\ G.zone.edit = F.zone.edit
    PROVE  From(F, Record(F, DropIfDone(G)))
<1>1. DropIfDone(G) \in {G, WithoutZone(G)}
  BY DEF DropIfDone
<1>2. WithoutZone(G) \in File /\ WithoutZone(G).past = F.past /\ WithoutZone(G).future = F.future /\ ~Own(WithoutZone(G))
  BY WithoutZoneType, ZoneGone
<1> QED
  BY <1>1, <1>2, ChangeFrom

LEMMA UserStacks ==
    ASSUME IInv, StacksOK, NEW u \in Files, User(u)
    PROVE  StacksOK'
<1> DEFINE F == files[u]
<1>a. F \in File /\ Sound(F)
  BY DEF IInv, TypeOK, StacksOK
<1>b. UNCHANGED <<pc, job, shown>> => EditsGoOn
  BY DEF EditsGoOn, Begun
<1>1. CASE Type(u)
  <2> DEFINE el == [kind |-> "typed", change |-> Typing]
             H == [F EXCEPT !.text = Toggle(@, Typing)]
             G == Push(H, el)
  <2>1. H \in File /\ H.past = F.past /\ H.future = F.future /\ H.zone = F.zone
    BY <1>a, TextFile DEF Changes
  <2>2. el \in Element /\ el.kind = "typed"
    BY DEF Element, TypedElement
  <2>3. UNCHANGED <<pc, job, shown>> /\ files' = [files EXCEPT ![u] = UserChanged(G)]
    BY <1>1 DEF Type
  <2> HIDE DEF H, el, F
  <2>4. From(F, H)
    BY <1>a, <2>1, SameStacks DEF Own
  <2>5. G \in File /\ From(H, G)
    BY <2>1, <2>2, <2>4, PushType, PushFrom DEF From, IsStart
  <2> HIDE DEF G
  <2>6. From(G, UserChanged(G))
    BY <2>5, DecidedFrom DEF From
  <2>7. From(F, UserChanged(G))
    BY <2>4, <2>5, <2>6, FromTwice
  <2> QED
    BY <1>b, <2>3, <2>7, StacksKept DEF F
<1>2. CASE AcceptFile(u)
  <2>1. UNCHANGED <<pc, job, shown>> /\ files' = [files EXCEPT ![u] = AcceptedAll(F)]
    BY <1>2 DEF AcceptFile
  <2> QED
    BY <1>a, <1>b, <2>1, DecidedFrom, StacksKept
<1>3. CASE RejectFile(u)
  <2>1. UNCHANGED <<pc, job, shown>> /\ files' = [files EXCEPT ![u] = RejectedAll(F)]
    BY <1>3 DEF RejectFile
  <2> QED
    BY <1>a, <1>b, <2>1, DecidedFrom, StacksKept
<1>4. CASE AcceptDiff(u)
  <2>1. PICK c \in DiffsOf(F) :
           files' = [files EXCEPT ![u] = Record(F, DropIfDone([F EXCEPT !.zone.original = Toggle(@, c)]))]
    BY <1>4 DEF AcceptDiff
  <2>2. F.zone # NoZone /\ UNCHANGED <<pc, job, shown>>
    BY <1>4 DEF AcceptDiff
  <2> DEFINE G == [F EXCEPT !.zone.original = Toggle(@, c)]
  <2>3. F.zone \in Zone /\ c \in Changes
    BY <1>a, <2>2 DEF DiffsOf, File, Zone, Text
  <2>4. G \in File /\ G.past = F.past /\ G.future = F.future /\ (Own(G) => Own(F) /\ G.zone.edit = F.zone.edit)
    <3>1. [F.zone EXCEPT !.original = Toggle(@, c)] \in Zone
      BY <2>3, ToggleType DEF Zone
    <3>2. G.zone = [F.zone EXCEPT !.original = Toggle(@, c)]
      BY <1>a DEF File
    <3>3. G.zone.own = F.zone.own /\ G.zone.edit = F.zone.edit
      BY <2>3, <3>2 DEF Zone
    <3> QED
      BY <1>a, <2>2, <3>1, <3>3 DEF File, Own
  <2> HIDE DEF G, F
  <2>5. From(F, Record(F, DropIfDone(G)))
    BY <1>a, <2>4, DiffFrom
  <2> QED
    BY <1>b, <2>1, <2>2, <2>5, StacksKept DEF F, G
<1>5. CASE RejectDiff(u)
  <2>1. PICK c \in DiffsOf(F) :
           files' = [files EXCEPT ![u] = Record(F, DropIfDone([F EXCEPT !.text = Toggle(@, c)]))]
    BY <1>5 DEF RejectDiff
  <2>2. F.zone # NoZone /\ UNCHANGED <<pc, job, shown>>
    BY <1>5 DEF RejectDiff
  <2> DEFINE G == [F EXCEPT !.text = Toggle(@, c)]
  <2>3. c \in Changes
    BY <1>a, <2>2 DEF DiffsOf, File, Zone, Text
  <2>4. G \in File /\ G.past = F.past /\ G.future = F.future /\ G.zone = F.zone
    BY <1>a, <2>3, TextFile
  <2> HIDE DEF G, F
  <2>5. From(F, Record(F, DropIfDone(G)))
    BY <1>a, <2>4, DiffFrom DEF Own
  <2> QED
    BY <1>b, <2>1, <2>2, <2>5, StacksKept DEF F, G
<1>6. CASE Undo(u) \/ Stop(u)
  <2>1. PICK S : files' = [files EXCEPT ![u] = Undone(F)] /\ pc' = Stopped(pc, S) /\ KeepJobs
    BY <1>6 DEF Undo, Stop
  <2> QED
    BY <1>a, <2>1, UndoneFrom, StopGoOn, StacksKept
<1>7. CASE Redo(u)
  <2>1. PICK S : files' = [files EXCEPT ![u] = Redone(F)] /\ pc' = Stopped(pc, S) /\ KeepJobs
    BY <1>7 DEF Redo
  <2>2. F.future # << >>
    BY <1>7 DEF Redo
  <2> QED
    BY <1>a, <2>1, <2>2, RedoneFrom, StopGoOn, StacksKept
<1> QED
  BY <1>1, <1>2, <1>3, <1>4, <1>5, <1>6, <1>7 DEF User

LEMMA StacksHold == Spec => [](IInv /\ StacksOK)
<1>1. Init => StacksOK
  <2> SUFFICES ASSUME Init, NEW u \in Files
               PROVE  Sound(files[u]) /\ \A el \in Elements(files[u]) : PromptKept(el)
    BY DEF StacksOK
  <2>1. files[u].zone = NoZone /\ files[u].past = << >> /\ files[u].future = << >>
    BY DEF Init
  <2>2. DOMAIN << >> = {}
    OBVIOUS
  <2>3. Elements(files[u]) = {} /\ ~Own(files[u])
    BY <2>1, <2>2 DEF Elements, Own
  <2> QED
    BY <2>3 DEF Sound
<1>2. IInv /\ StacksOK /\ [Next]_vars => StacksOK'
  <2> SUFFICES ASSUME IInv, StacksOK, [Next]_vars PROVE StacksOK'
    OBVIOUS
  <2>1. ASSUME NEW e \in Edits, Start(e) PROVE StacksOK'
    BY <2>1, AskStacks, ApplyStacks, ToolStacks DEF Start
  <2>2. ASSUME NEW e \in Edits, Answer(e) PROVE StacksOK'
    BY <2>2, AnswerStacks
  <2>3. ASSUME NEW u \in Opened, User(u) PROVE StacksOK'
    BY <2>3, UserStacks, FileAssumption
  <2>4. CASE UNCHANGED vars
    <3>1. EditsGoOn /\ files' = files
      BY <2>4 DEF vars, EditsGoOn, Begun
    <3> QED
      BY <3>1, StacksUntouched
  <2> QED
    BY <2>1, <2>2, <2>3, <2>4 DEF Next
<1> QED
  BY <1>1, <1>2, IInvHolds, PTL DEF Spec

\* The last element that undoing takes back is the start of the stream that the file
\* shows, and it gives back what the LLM was shown.
LEMMA StopGivesBack ==
    ASSUME IInv, StacksOK, NEW u \in Files, NEW e \in Edits, Stop(u),
           UndoesAgent(files[u]), Last(files[u].past).edit = e
    PROVE  files'[u].text = job[e].prompt /\ ~Open(e)'
<1> DEFINE F == files[u]
           n == Len(F.past)
           el == Last(F.past)
           S == StoppedByUndo(F, Streaming(files, shown))
<1>1. F \in File /\ Sound(F) /\ F.past \in Seq(Element) /\ F.past # << >>
  BY DEF IInv, TypeOK, StacksOK, UndoesAgent, File
<1>2. n \in DOMAIN F.past /\ el = F.past[n] /\ el \in Element /\ \A j \in DOMAIN F.past : j <= n
  BY <1>1 DEF Last
<1>3. el.kind = "agent" /\ el.edit = e /\ IsStart(el)
  BY EditAssumption DEF UndoesAgent, IsStart
<1>4. Own(F) /\ F.zone \in Zone /\ shown[F.zone.edit]
  BY <1>1 DEF Stop, StreamingIn, Own, File
<1>5. F.zone.edit = e
  <2> HIDE DEF F, n, el
  <2>1. PICK i \in DOMAIN F.past : /\ F.past[i].kind = "agent" /\ F.past[i].edit = F.zone.edit
                                   /\ \A j \in DOMAIN F.past : j > i => ~IsStart(F.past[j])
    BY <1>1, <1>4 DEF Sound, StartedLast
  <2>2. i \in Nat /\ n \in Nat
    BY <1>1, <1>2
  <2>3. i = n
    BY <1>2, <1>3, <2>1, <2>2
  <2> QED
    BY <1>2, <1>3, <2>1, <2>3
<1>6. pc[e] \in Requested \cup {"stuck"}
  BY <1>4, <1>5 DEF IInv, ShownIsAlive
<1>7. el.before.text = job[e].prompt
  <2>1. el \in Elements(F)
    BY <1>2 DEF Elements
  <2> QED
    BY <1>3, <1>6, <2>1 DEF StacksOK, PromptKept, Requested
<1>8. files'[u] = Undone(F)
  BY DEF Stop, IInv, TypeOK
<1>9. Undone(F).text = el.before.text
  <2>1. Undone(F) = Restored(Popped(F), el.before)
    BY <1>1, <1>3 DEF Undone, Popped
  <2>2. Popped(F) \in File
    BY <1>1, PoppedFile
  <2> HIDE DEF el, F
  <2> QED
    BY <2>1, <2>2 DEF Restored, File
<1>10. e \in S
  BY <1>3, EditAssumption DEF StoppedByUndo, UndoesAgent
<1>11. pc'[e] = "done"
  <2>1. PICK T : S \subseteq T /\ pc' = Stopped(pc, T)
    BY DEF Stop
  <2> HIDE DEF S
  <2> QED
    BY <1>6, <1>10, <2>1 DEF Stopped, Requested
<1> QED
  BY <1>7, <1>8, <1>9, <1>11 DEF Open, Requested

\* Stopping a stream that only the LLM wrote to since the click gives the file the
\* text that it had then, and ends the stream, however many edits, undos and redos
\* went before (interruptURIStreaming, the onWillUndo of _addToHistory).
THEOREM StopGivesTextBack == Spec => StopRestores
<1>1. IInv /\ StacksOK /\ [Next]_vars =>
        [\A u \in Files, e \in Edits :
            Stop(u) /\ UndoesAgent(files[u]) /\ Last(files[u].past).edit = e =>
                files'[u].text = job[e].prompt /\ ~Open(e)']_vars
  BY StopGivesBack
<1> QED
  BY StacksHold, <1>1, PTL DEF Spec, StopRestores

\* After a stop the file is not shown as streaming, whatever the undo took back, and
\* a stream whose zone is left is over (interruptURIStreaming, _stopIfStreaming).
THEOREM StopEndsSweep == Spec => StopWorks
<1>1. IInv /\ [Next]_vars =>
        [\A u \in Files, e \in Edits :
            Stop(u) /\ files[u].zone.edit = e =>
                /\ ~StreamingIn(u)'
                /\ files'[u].zone # NoZone => ~Open(e)']_vars
  BY StopEnds
<1> QED
  BY IInvHolds, <1>1, PTL DEF Spec, StopWorks

=============================================================================
