----------------------------- MODULE EditApply ------------------------------
(***************************************************************************)
(* Edits of files by the LLM (browser/editCodeService.ts): the Apply button*)
(* streams an answer into a file, the agent's tools edit a file at once,   *)
(* and in both cases a diff zone over the file remembers the code it had,  *)
(* for the user to accept or reject.  All of it goes through the undo      *)
(* stack of the file.                                                      *)
(*                                                                         *)
(* The text of a file is the set of the changes it contains: an edit of    *)
(* the LLM, whole or partial, or what the user typed.  Every step is one   *)
(* macrotask of the renderer with the microtasks it resumes; a request to  *)
(* the LLM is open until it ends or is aborted, and silent afterwards,     *)
(* which is what LLMRequests promises.                                     *)
(*                                                                         *)
(* Left out: Ctrl+K zones, the lines that zones and diffs span, the zones  *)
(* that track the blocks of a fast apply, and files without a model.       *)
(***************************************************************************)
EXTENDS Naturals, Sequences

CONSTANTS
    Files,
    Opened,       \* the files that the user works on
    Edits,        \* the clicks on Apply and the edits of the agent's tools
    NoEdit,
    Typing,       \* the change that the user types
    NoZone, NoSnap, NoJob,
    Modes,        \* the ways of editing that occur, a subset of AllModes
    AutoAccept,   \* the values that the setting autoAcceptLLMChanges takes
    N_RETRIES,
    MaxHistory    \* bound: the user and the tools act on shorter undo stacks

AllModes == {"writeover", "fast", "tool"}

ASSUME FileAssumption == Opened \subseteq Files
ASSUME EditAssumption == NoEdit \notin Edits /\ Typing \notin Edits
ASSUME ModeAssumption == Modes \subseteq AllModes /\ AutoAccept \subseteq BOOLEAN
ASSUME NumberAssumption == N_RETRIES \in Nat \ {0, 1} /\ MaxHistory \in Nat

Changes == Edits \cup {Typing}
Text == SUBSET Changes

\* A diff zone over the whole file.  own: it is the object that the stream of
\* the edit holds; a zone restored from a snapshot is another object.
Zone == [edit : Edits, original : Text, own : BOOLEAN]
Snap == [text : Text, zone : Zone \cup {NoZone}]

\* An element of the undo stack.  Undoing the start of a stream aborts it.
AgentElement == [kind : {"agent"}, edit : Edits \cup {NoEdit}, before : Snap, after : Snap \cup {NoSnap}]
TypedElement == [kind : {"typed"}, change : {Typing}]
Element == AgentElement \cup TypedElement

File == [text : Text, zone : Zone \cup {NoZone}, past : Seq(Element), future : Seq(Element)]

Agent(e, before, after) == [kind |-> "agent", edit |-> e, before |-> before, after |-> after]

-----------------------------------------------------------------------------
\* What happens to one file F.

\* A restored zone is never streaming.
SnapOf(F) ==
    [text |-> F.text, zone |-> IF F.zone = NoZone THEN NoZone ELSE [F.zone EXCEPT !.own = FALSE]]

Push(F, el) == [F EXCEPT !.past = Append(@, el), !.future = << >>]

\* G replaces F, as one element of the history.
Record(F, G) == Push(G, Agent(NoEdit, SnapOf(F), SnapOf(G)))

WithoutZone(F) == [F EXCEPT !.zone = NoZone]
Reverted(F) == IF F.zone = NoZone THEN F ELSE [WithoutZone(F) EXCEPT !.text = F.zone.original]

AcceptedAll(F) == IF F.zone = NoZone THEN F ELSE Record(F, WithoutZone(F))
RejectedAll(F) == IF F.zone = NoZone THEN F ELSE Record(F, Reverted(F))

\* What would be left if the user rejected everything.
Baseline(F) == Reverted(F).text

Toggle(text, c) == IF c \in text THEN text \ {c} ELSE text \cup {c}

HasDiffs(F) == F.zone.original # F.text

\* The content of the file was changed by somebody else than this service: a
\* zone that has no diffs any more is deleted, streaming or not.
UserChanged(F) == IF F.zone # NoZone /\ ~HasDiffs(F) THEN Record(F, WithoutZone(F)) ELSE F

Last(s) == s[Len(s)]
Front(s) == SubSeq(s, 1, Len(s) - 1)
UndoesAgent(F) == F.past # << >> /\ Last(F.past).kind = "agent"

Restored(F, snap) == [F EXCEPT !.text = snap.text, !.zone = snap.zone]

Undone(F) ==
    IF F.past = << >> THEN F
    ELSE LET el == Last(F.past)
             G  == [F EXCEPT !.past = Front(@), !.future = Append(@, el)]
         IN  IF el.kind = "typed" THEN UserChanged([G EXCEPT !.text = Toggle(@, el.change)])
                                  ELSE Restored(G, el.before)

Redone(F) ==
    LET el == Last(F.future)
        G  == [F EXCEPT !.future = Front(@), !.past = Append(@, el)]
    IN  CASE el.kind = "typed" -> UserChanged([G EXCEPT !.text = Toggle(@, el.change)])
          [] el.kind = "agent" /\ el.after = NoSnap -> G
          [] OTHER -> Restored(G, el.after)

\* onFinishEdit of the edit e.
Finished(F, e) ==
    LET Mark(s) == [i \in DOMAIN s |->
                      IF s[i].kind = "agent" /\ s[i].edit = e THEN [s[i] EXCEPT !.after = SnapOf(F)] ELSE s[i]]
    IN  [F EXCEPT !.past = Mark(@), !.future = Mark(@)]

\* onDone: the stream of e is over.
DoneWith(F, e, auto) == IF auto THEN AcceptedAll(Finished(F, e)) ELSE Finished(F, e)

-----------------------------------------------------------------------------
VARIABLES
    files,    \* the files
    pc,       \* where each edit is
    job,      \* what it edits, and the local variables of its stream
    shown     \* _streamState.isStreaming of the zone object that the edit holds

vars == <<files, pc, job, shown>>

\* prompt: originalFileCode, the text the LLM was shown; sent: nMessagesSent.
Job == [mode : Modes, file : Files, prompt : Text, sent : 0..(N_RETRIES - 1)]

\* "saving": awaiting callBeforeApplyOrEdit; "waiting": the request is open and no
\* block of the answer has been applied; "writing": some was; "broken": onText
\* throws; "stuck": the request is closed and nothing settles the promise.
Requested == {"waiting", "writing", "broken"}
PCs == {"unborn", "saving", "stuck", "done"} \cup Requested
Open(e) == pc[e] \in Requested

\* The edits that some file shows as streaming.
Streaming(fs, sh) ==
    {e \in Edits : sh[e] /\ \E u \in Files : fs[u].zone # NoZone /\ fs[u].zone.own /\ fs[u].zone.edit = e}

StreamingIn(u) == files[u].zone # NoZone /\ files[u].zone.own /\ shown[files[u].zone.edit]

Init ==
    /\ files = [u \in Files |-> [text |-> {}, zone |-> NoZone, past |-> << >>, future |-> << >>]]
    /\ pc = [e \in Edits |-> "unborn"]
    /\ job = [e \in Edits |-> NoJob]
    /\ shown = [e \in Edits |-> FALSE]

\* The variables of an edit end with it.
KeepJobs == job' = [e \in Edits |-> IF pc'[e] = "done" THEN NoJob ELSE job[e]]

Busy(u) == Len(files[u].past) >= MaxHistory

\* The edits that an undo in F aborts: the stream that the element started, and,
\* as a snapshot is restored, every stream of every file.
\* Mutant: undoing does not abort the stream it undoes the start of.
StoppedWithoutAbort(F, streaming) == IF UndoesAgent(F) THEN streaming ELSE {}

StoppedByUndo(F, streaming) ==
    IF UndoesAgent(F) THEN streaming \cup ({Last(F.past).edit} \ {NoEdit}) ELSE {}

\* _stopIfStreaming, and onAbort of the request: the promise is rejected.
Stopped(f, S) == [e \in Edits |-> IF e \in S /\ f[e] # "unborn" THEN "done" ELSE f[e]]
\* Mutant: the zone object goes on saying that it is streaming.
StillStreaming(S) == shown

Hidden(S) == [e \in Edits |-> shown[e] /\ e \notin S]

-----------------------------------------------------------------------------
\* Starting an edit.

\* A click on Apply in a block that was not applied yet, or a call of edit_file
\* or rewrite_file, which is refused while the file is streaming.
Ask(e, m, u) ==
    /\ pc[e] = "unborn"
    /\ ~Busy(u)
    /\ m = "tool" => ~StreamingIn(u)
    /\ pc' = [pc EXCEPT ![e] = "saving"]
    /\ job' = [job EXCEPT ![e] = [mode |-> m, file |-> u, prompt |-> {}, sent |-> 0]]
    /\ UNCHANGED <<files, shown>>

\* Mutant: the history is recorded when the conflicts are gone.
StartedLate(F, e) ==
    [Push(Reverted(F), Agent(e, SnapOf(Reverted(F)), NoSnap)) EXCEPT
        !.zone = [edit |-> e, original |-> F.text, own |-> TRUE]]

\* startApplying with 'reject-conflicts'; the zone's original code is read
\* before the other zones are rejected.
Started(F, e) ==
    [Push(Reverted(F), Agent(e, SnapOf(F), NoSnap)) EXCEPT
        !.zone = [edit |-> e, original |-> F.text, own |-> TRUE]]

Apply(e) ==
    LET u == job[e].file IN
    /\ pc[e] = "saving" /\ job[e].mode # "tool"
    /\ IF StreamingIn(u)
       THEN /\ pc' = [pc EXCEPT ![e] = "done"]
            /\ job' = [job EXCEPT ![e] = NoJob]
            /\ UNCHANGED <<files, shown>>
       ELSE /\ files' = [files EXCEPT ![u] = Started(@, e)]
            /\ pc' = [pc EXCEPT ![e] = "waiting"]
            /\ job' = [job EXCEPT ![e].prompt = files[u].text, ![e].sent = 1]
            /\ shown' = [shown EXCEPT ![e] = TRUE]

\* The zone of an edit of the agent, with 'keep-conflicts': its original code is
\* what is left when the other zones are rejected.
Kept(F, e) == [edit |-> e, original |-> Baseline(F), own |-> FALSE]

\* instantlyRewriteFile and instantlyApplySearchReplaceBlocks.
ToolEdit(e, auto) ==
    LET u == job[e].file
        F == files[u]
        G == Record(F, [F EXCEPT !.zone = Kept(F, e), !.text = @ \cup {e}])
    IN
    /\ pc[e] = "saving" /\ job[e].mode = "tool"
    /\ files' = [files EXCEPT ![u] = IF auto THEN AcceptedAll(G) ELSE G]
    /\ pc' = [pc EXCEPT ![e] = "done"]
    /\ KeepJobs
    /\ UNCHANGED shown

\* A block is not found: the edit is finished like the others, and undone.
ToolEditFails(e, auto) ==
    LET u == job[e].file
        F == files[u]
        G == Record(F, [F EXCEPT !.zone = Kept(F, e)])
        H == IF auto THEN AcceptedAll(G) ELSE G
        S == StoppedByUndo(H, Streaming([files EXCEPT ![u] = H], shown))
    IN
    /\ pc[e] = "saving" /\ job[e].mode = "tool"
    /\ files' = [files EXCEPT ![u] = Undone(H)]
    /\ pc' = [Stopped(pc, S) EXCEPT ![e] = "done"]
    /\ shown' = Hidden(S)
    /\ KeepJobs

-----------------------------------------------------------------------------
\* The answer of the LLM to an edit e.

\* onError: the edit is finished and the last element of the history is undone.
\* Undoing the start of the stream calls its onAbort, which is what rejects the
\* promise; if something else was undone, the promise stays pending.
Fail(e, F, auto, otherwise) ==
    LET u == job[e].file
        G == DoneWith(F, e, auto)
        S == StoppedByUndo(G, Streaming([files EXCEPT ![u] = G], Hidden({e})))
    IN
    /\ files' = [files EXCEPT ![u] = Undone(G)]
    /\ pc' = Stopped([pc EXCEPT ![e] = otherwise], S)
    /\ shown' = Hidden(S \cup {e})

LLMError(e, auto) ==
    /\ Open(e)
    /\ Fail(e, files[job[e].file], auto, "stuck")
    /\ KeepJobs

WriteoverText(e) ==
    /\ Open(e) /\ job[e].mode = "writeover"
    /\ files' = [files EXCEPT ![job[e].file].text = @ \cup {e}]
    /\ pc' = [pc EXCEPT ![e] = "writing"]
    /\ KeepJobs
    /\ UNCHANGED shown

\* The whole zone is written again.  The lines of a zone that was deleted are no
\* longer kept up to date, so anything may be left beside it.
WriteoverFinal(e, auto) ==
    LET u == job[e].file
        F == files[u]
        inPlace == F.zone # NoZone /\ F.zone.own /\ F.zone.edit = e
    IN
    /\ Open(e) /\ job[e].mode = "writeover"
    /\ \E left \in IF inPlace THEN {{}} ELSE SUBSET F.text :
          files' = [files EXCEPT ![u] = DoneWith([F EXCEPT !.text = job[e].prompt \cup {e} \cup left], e, auto)]
    /\ shown' = Hidden({e})
    /\ pc' = [pc EXCEPT ![e] = "done"]
    /\ KeepJobs

\* Fast apply.  The first search/replace block is applied as it arrives, unless
\* the zone is not streaming.
FirstBlock(e) == [files EXCEPT ![job[e].file].text = IF shown[e] THEN @ \cup {e} ELSE @]

FastText(e) ==
    /\ pc[e] \in {"waiting", "writing"} /\ job[e].mode = "fast"
    /\ files' = FirstBlock(e)
    /\ pc' = [pc EXCEPT ![e] = "writing"]
    /\ KeepJobs
    /\ UNCHANGED shown

\* Seeing a second block throws a ReferenceError, now and at every later onText.
FastSecondBlock(e) ==
    /\ pc[e] \in {"waiting", "writing"} /\ job[e].mode = "fast"
    /\ files' = FirstBlock(e)
    /\ pc' = [pc EXCEPT ![e] = "broken"]
    /\ KeepJobs
    /\ UNCHANGED shown

\* Mutant: one message too many.
MoreTriesAllowed(e) == job[e].sent < N_RETRIES

MoreTries(e) == job[e].sent + 1 < N_RETRIES

\* The loop goes on after a block that was not found, or gives up.
Again(e, F, auto) ==
    IF MoreTries(e)
    THEN /\ files' = [files EXCEPT ![job[e].file] = F]
         /\ job' = [job EXCEPT ![e].sent = @ + 1]
         /\ pc' = [pc EXCEPT ![e] = "waiting"]
         /\ UNCHANGED shown
    ELSE Fail(e, F, auto, "done") /\ KeepJobs

\* The first block is not found in the code: the file is written back, the
\* request is aborted and another message is sent.
FastNotFound(e, auto) ==
    /\ pc[e] = "waiting" /\ job[e].mode = "fast"
    /\ Again(e, [files[job[e].file] EXCEPT !.text = job[e].prompt], auto)

FastFinal(e, auto) ==
    LET u == job[e].file IN
    /\ pc[e] \in {"waiting", "writing"} /\ job[e].mode = "fast"
    /\ files' = [files EXCEPT ![u] = DoneWith([@ EXCEPT !.text = job[e].prompt \cup {e}], e, auto)]
    /\ shown' = Hidden({e})
    /\ pc' = [pc EXCEPT ![e] = "done"]
    /\ KeepJobs

\* The answer has no block, or its last block is cut off and not found.
FastFinalFails(e, auto) ==
    /\ pc[e] \in {"waiting", "writing"} /\ job[e].mode = "fast"
    /\ Fail(e, [files[job[e].file] EXCEPT !.text = job[e].prompt], auto, "stuck")
    /\ KeepJobs

\* The answer comes in one piece and its first block is not found: onText asks
\* for another message before onFinalMessage fails.  The loop goes on unless the
\* undo aborted it, and when it gives up it fails once more, but undoes nothing
\* while the first undo is under way.
FastFinalNotFound(e, auto) ==
    LET u  == job[e].file
        G  == DoneWith([files[u] EXCEPT !.text = job[e].prompt], e, auto)
        S  == StoppedByUndo(G, Streaming([files EXCEPT ![u] = G], Hidden({e})))
        G2 == DoneWith(Undone(G), e, auto)
        S2 == StoppedByUndo(G2, Streaming([files EXCEPT ![u] = G2], Hidden({e} \cup S)))
        more == e \notin S /\ MoreTries(e)
        locked == UndoesAgent(G)
        Outcome(H, T) ==
            /\ files' = [files EXCEPT ![u] = H]
            /\ pc' = [Stopped(pc, T) EXCEPT ![e] = IF more THEN "waiting" ELSE "done"]
            /\ shown' = Hidden(T \cup {e})
    IN
    /\ pc[e] = "waiting" /\ job[e].mode = "fast"
    /\ CASE e \in S \/ more -> Outcome(Undone(G), S)
         [] e \notin S /\ ~more /\ locked -> Outcome(G2, S)
         [] OTHER -> Outcome(Undone(G2), S \cup S2)
    /\ job' = [d \in Edits |-> IF pc'[d] = "done" THEN NoJob
                              ELSE IF d = e /\ more THEN [job[d] EXCEPT !.sent = @ + 1]
                              ELSE job[d]]

\* The final message of an answer with two blocks.
FastFinalThrows(e) ==
    /\ pc[e] \in {"waiting", "broken"} /\ job[e].mode = "fast"
    /\ files' = IF pc[e] = "broken" THEN files ELSE FirstBlock(e)
    /\ pc' = [pc EXCEPT ![e] = "stuck"]
    /\ KeepJobs
    /\ UNCHANGED shown

-----------------------------------------------------------------------------
\* The user.

\* Typing something, or deleting what was typed.
Type(u) ==
    LET F == files[u] IN
    /\ ~Busy(u)
    /\ files' = [files EXCEPT ![u] =
           UserChanged(Push([F EXCEPT !.text = Toggle(@, Typing)], [kind |-> "typed", change |-> Typing]))]
    /\ UNCHANGED <<pc, job, shown>>

\* Accept or reject all changes of the file, by a button or a key; the keys work
\* while the file is streaming.
AcceptFile(u) ==
    /\ ~Busy(u) /\ files[u].zone # NoZone
    /\ files' = [files EXCEPT ![u] = AcceptedAll(@)]
    /\ UNCHANGED <<pc, job, shown>>

RejectFile(u) ==
    /\ ~Busy(u) /\ files[u].zone # NoZone
    /\ files' = [files EXCEPT ![u] = RejectedAll(@)]
    /\ UNCHANGED <<pc, job, shown>>

\* acceptDiff and rejectDiff of one of the changes that a zone shows; a zone with
\* no diffs left is deleted.
DropIfDone(F) == IF HasDiffs(F) THEN F ELSE WithoutZone(F)

DiffsOf(F) == (F.text \ F.zone.original) \cup (F.zone.original \ F.text)

AcceptDiff(u) ==
    LET F == files[u] IN
    /\ ~Busy(u) /\ F.zone # NoZone /\ ~StreamingIn(u)
    /\ \E c \in DiffsOf(F) :
          files' = [files EXCEPT ![u] = Record(F, DropIfDone([F EXCEPT !.zone.original = Toggle(@, c)]))]
    /\ UNCHANGED <<pc, job, shown>>

RejectDiff(u) ==
    LET F == files[u] IN
    /\ ~Busy(u) /\ F.zone # NoZone /\ ~StreamingIn(u)
    /\ \E c \in DiffsOf(F) :
          files' = [files EXCEPT ![u] = Record(F, DropIfDone([F EXCEPT !.text = Toggle(@, c)]))]
    /\ UNCHANGED <<pc, job, shown>>

Undo(u) ==
    LET S == StoppedByUndo(files[u], Streaming(files, shown)) IN
    /\ files[u].past # << >>
    /\ files' = [files EXCEPT ![u] = Undone(@)]
    /\ pc' = Stopped(pc, S)
    /\ shown' = Hidden(S)
    /\ KeepJobs

\* Restoring a snapshot stops every stream, here too.
Redo(u) ==
    LET el == Last(files[u].future)
        S  == IF el.kind = "agent" /\ el.after # NoSnap THEN Streaming(files, shown) ELSE {}
    IN
    /\ files[u].future # << >>
    /\ files' = [files EXCEPT ![u] = Redone(@)]
    /\ pc' = Stopped(pc, S)
    /\ shown' = Hidden(S)
    /\ KeepJobs

\* Mutant: the stop relies on the undo alone.
NoneStillShown(u, F, S) == {}

\* The streams that are still shown in u after the undo of a stop: brute force.
StillShown(u, F, S) == {e \in Streaming([files EXCEPT ![u] = F], Hidden(S)) : F.zone # NoZone /\ F.zone.edit = e}

\* The Stop button: interruptURIStreaming.  The button also calls it when a promise
\* is rejected, but what rejects one has already stopped every stream of the file.
Stop(u) ==
    LET F == Undone(files[u])
        S == StoppedByUndo(files[u], Streaming(files, shown))
        T == S \cup StillShown(u, F, S)
    IN
    /\ StreamingIn(u)
    /\ files' = [files EXCEPT ![u] = F]
    /\ pc' = Stopped(pc, T)
    /\ shown' = Hidden(T)
    /\ KeepJobs

-----------------------------------------------------------------------------
Answer(e) ==
    \/ WriteoverText(e)
    \/ FastText(e)
    \/ FastSecondBlock(e)
    \/ FastFinalThrows(e)
    \/ \E auto \in AutoAccept :
          \/ LLMError(e, auto)
          \/ WriteoverFinal(e, auto)
          \/ FastNotFound(e, auto)
          \/ FastFinal(e, auto)
          \/ FastFinalFails(e, auto)
          \/ FastFinalNotFound(e, auto)

Start(e) ==
    \/ \E m \in Modes, u \in Files : Ask(e, m, u)
    \/ Apply(e)
    \/ \E auto \in AutoAccept : ToolEdit(e, auto) \/ ToolEditFails(e, auto)

User(u) ==
    \/ Type(u)
    \/ AcceptFile(u)
    \/ RejectFile(u)
    \/ AcceptDiff(u)
    \/ RejectDiff(u)
    \/ Undo(u)
    \/ Redo(u)
    \/ Stop(u)

Next == (\E e \in Edits : Start(e) \/ Answer(e)) \/ (\E u \in Opened : User(u))

Spec == Init /\ [][Next]_vars

-----------------------------------------------------------------------------
\* Properties.

TypeOK ==
    /\ files \in [Files -> File]
    /\ pc \in [Edits -> PCs]
    /\ job \in [Edits -> Job \cup {NoJob}]
    /\ shown \in [Edits -> BOOLEAN]

\* What a file shows as streaming has an Apply that is not over: the Stop button
\* never acts on a zone that nobody stands behind.
SpinnerIsLive ==
    \A u \in Files : StreamingIn(u) => pc[files[u].zone.edit] \in Requested \cup {"stuck"}

\* Undoing far enough in F comes to the start of the stream of e.
Reaches(F, e) == \E i \in DOMAIN F.past : F.past[i].kind = "agent" /\ F.past[i].edit = e

\* Whatever the user accepted, rejected or typed meanwhile, undoing far enough
\* reaches the start of every stream that still writes to the file.
UndoReachesStream == \A e \in Edits : Open(e) => Reaches(files[job[e].file], e)

\* Stopping a stream right after it was started, or when only the LLM wrote since,
\* gives back the text that the file had at the click.
StopRestores ==
    [][\A u \in Files, e \in Edits :
          Stop(u) /\ UndoesAgent(files[u]) /\ Last(files[u].past).edit = e =>
              files'[u].text = job[e].prompt /\ ~Open(e)']_vars

\* Stop takes the sweep off the file, also when the undo it starts with took back
\* something else; and a stream whose zone is still there is ended.
StopWorks ==
    [][\A u \in Files, e \in Edits :
          Stop(u) /\ files[u].zone.edit = e =>
              /\ ~StreamingIn(u)'
              /\ files'[u].zone # NoZone => ~Open(e)']_vars

-----------------------------------------------------------------------------
\* The inductive invariant behind TypeOK and SpinnerIsLive.

\* An edit that is under way has its variables.
HasJob == \A e \in Edits : pc[e] \in {"saving", "stuck"} \cup Requested => job[e] \in Job

\* A zone object that says it is streaming is held by a stream that is not over.
ShownIsAlive == \A e \in Edits : shown[e] => pc[e] \in Requested \cup {"stuck"}

IInv == TypeOK /\ HasJob /\ ShownIsAlive

\* The invariant behind StopRestores.  No snapshot brings a streaming zone back, so
\* the start of the stream that a file shows is the last start on its undo stack
\* and there is nothing to redo but typing; and while a stream is not over, what its
\* start would restore is the text that the LLM was shown.
Elements(F) == {F.past[i] : i \in DOMAIN F.past} \cup {F.future[i] : i \in DOMAIN F.future}
IsStart(el) == el.kind = "agent" /\ el.edit # NoEdit
Own(F) == F.zone # NoZone /\ F.zone.own

StartedLast(s, e) ==
    \E i \in DOMAIN s :
        /\ s[i].kind = "agent" /\ s[i].edit = e
        /\ \A j \in DOMAIN s : j > i => ~IsStart(s[j])

Sound(F) ==
    /\ \A el \in Elements(F) : el.kind = "agent" =>
          ~Own(el.before) /\ (el.after # NoSnap => ~Own(el.after))
    /\ Own(F) => /\ StartedLast(F.past, F.zone.edit)
                 /\ \A i \in DOMAIN F.future : F.future[i].kind = "typed"

Begun(e) == pc[e] \notin {"unborn", "saving"}
PromptKept(el) ==
    IsStart(el) => /\ Begun(el.edit)
                   /\ pc[el.edit] # "done" => el.before.text = job[el.edit].prompt

StacksOK == \A u \in Files : Sound(files[u]) /\ \A el \in Elements(files[u]) : PromptKept(el)

-----------------------------------------------------------------------------
\* Refuted by a run: `allowed to throw errors - this is called inside a promise that
\* handles everything' (_initializeSearchAndReplaceStream): a file that is shown as
\* streaming has a request that is open.
SweepHasRequest ==
    \A u \in Files : StreamingIn(u) => Open(files[u].zone.edit)
=============================================================================
