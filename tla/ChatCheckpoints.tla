-------------------------- MODULE ChatCheckpoints ---------------------------
(***************************************************************************)
(* The checkpoints of a chat thread (browser/chatThreadService.ts): the    *)
(* agent and the user change files, the thread records snapshots of them   *)
(* among its messages, and the user jumps between the checkpoints.         *)
(*                                                                         *)
(* A snapshot of a file is the version it holds: every change makes a new  *)
(* one.  Of the messages, the user's, the checkpoints and the requests for *)
(* an edit are kept.  The agent loop is that of ChatThread, one step per   *)
(* stretch between the checkpoints it adds.                                *)
(***************************************************************************)
EXTENDS Naturals, Sequences, SequencesExt, FiniteSetsExt

CONSTANTS
    Files,
    Opened,        \* files that have a text model from the start
    None,
    MaxMessages,   \* bound: sends and tool calls while the thread is shorter
    MaxChanges     \* bound: changes of files

ASSUME CheckpointsAssumption ==
    /\ Opened \subseteq Files
    /\ MaxMessages \in Nat /\ MaxChanges \in Nat
    /\ None \notin Nat

VARIABLES
    messages,   \* thread.messages
    cp,         \* thread.state.currCheckpointIdx, from 1, or None
    content,    \* the version each file holds
    models,     \* files with a model in genrtlModelService
    turn,       \* idle, llm, asking, tool, or aborting: an abort awaits the tool
    target,     \* the file of the edit the LLM asked for
    noted,      \* and whether a checkpoint was added for it
    changes,    \* changes of files so far
    loose,      \* ghost: files changed since their last snapshot
    missed,     \* ghost: files loose when the thread was left without a checkpoint at its end
    end         \* ghost: contents when the user jumped away from the last checkpoint

vars == <<messages, cp, content, models, turn, target, noted, changes, loose, missed, end>>

-----------------------------------------------------------------------------
Versions == 0..MaxChanges
Nothing == [f \in Files |-> None]

\* snap is genRTLFileSnapshotOfURI, mods the userModifications; the ghosts was
\* and sure are the contents of all files when the checkpoint was added, and the
\* files that a jump to it must give back.
Message(role, snap, was, sure) ==
    [role |-> role, snap |-> snap, mods |-> Nothing, was |-> was, sure |-> sure]
UserMessage == Message("user", Nothing, Nothing, {})
ToolMessage == Message("tool", Nothing, Nothing, {})

Snapped(snap) == {f \in Files : snap[f] # None}
IsCheckpoint(m) == m.role = "checkpoint"
Checkpoint(snap) == Message("checkpoint", snap, content, Files \ (loose \ Snapped(snap)))

\* _getCheckpointsBetween
FilesBetween(ms, lo, hi) ==
    UNION {Snapped(ms[k].snap) : k \in {j \in lo..hi : IsCheckpoint(ms[j])}}

\* _computeNewCheckpointInfo: all files of the history, as snapshots are compared
\* by reference.
CurrentSnapshots ==
    LET history == FilesBetween(messages, 1, Len(messages)) \cap models IN
    [f \in Files |-> IF f \in history THEN content[f] ELSE None]

\* A file changes beside the snapshots: of the messages in at, no jump can be
\* sure to give it back as it was.
Unsure(ms, at, changed) == [i \in DOMAIN ms |-> IF i \in at THEN [ms[i] EXCEPT !.sure = @ \ changed] ELSE ms[i]]

Write(f) ==
    /\ changes < MaxChanges
    /\ changes' = changes + 1
    /\ content' = [content EXCEPT ![f] = changes + 1]

Init ==
    /\ messages = << >> /\ cp = None
    /\ content = [f \in Files |-> 0]
    /\ models = Opened
    /\ turn = "idle" /\ target = None /\ noted = FALSE
    /\ changes = 0 /\ loose = {} /\ missed = {} /\ end = None

-----------------------------------------------------------------------------
\* The thread goes on from the first n messages, which nothing restores: files
\* that hold something else than at the last checkpoint stay as they are.
CutTo(n) ==
    LET kept == SubSeq(messages, 1, n)
        last == kept[Max({k \in 1..n : IsCheckpoint(kept[k])})]
        moved == {f \in Files : content[f] # last.was[f]}
    IN
    /\ messages' = Append(Unsure(kept, 1..n, moved), UserMessage)
    /\ loose' = moved \cup (Files \ last.sure)

\* A turn starts, and the thread stands on no checkpoint any more.
Starts ==
    /\ turn = "idle"
    /\ turn' = "llm" /\ cp' = None /\ end' = None /\ missed' = {}
    /\ UNCHANGED <<content, models, target, noted, changes>>

\* addUserMessageAndStreamResponse
Send ==
    /\ Len(messages) + 2 <= MaxMessages
    /\ Starts
    /\ CASE cp # None -> CutTo(cp)
         [] messages = << >> -> messages' = <<Checkpoint(Nothing), UserMessage>> /\ UNCHANGED loose
         [] OTHER -> messages' = Append(messages, UserMessage) /\ UNCHANGED loose

\* editUserMessageAndStreamResponse
EditMessage(i) ==
    /\ messages[i].role = "user"
    /\ Starts
    /\ CutTo(i - 1)

\* _addUserCheckpoint, at the end of a turn, of an abort or of an error.
AddUserCheckpoint ==
    /\ messages' = Append(messages, Checkpoint(CurrentSnapshots))
    /\ loose' = loose \ Snapped(CurrentSnapshots)

NoTarget == target' = None /\ noted' = FALSE

EndTurn ==
    /\ turn \in {"llm", "asking"}
    /\ AddUserCheckpoint
    /\ turn' = "idle" /\ NoTarget
    /\ UNCHANGED <<cp, content, models, changes, missed, end>>

\* abortRunning while a tool runs: the checkpoint comes first.
AbortTool ==
    /\ turn = "tool"
    /\ AddUserCheckpoint
    /\ turn' = "aborting"
    /\ UNCHANGED <<cp, content, models, target, noted, changes, missed, end>>

\* The LLM asks for an edit_file or rewrite_file: _addToolEditCheckpoint, which
\* needs a model, and the request.
Ask(f) ==
    /\ turn = "llm" /\ Len(messages) + 2 <= MaxMessages
    /\ noted' = (f \in models)
    /\ IF f \in models
       THEN /\ messages' = messages \o <<Checkpoint([Nothing EXCEPT ![f] = content[f]]), ToolMessage>>
            /\ loose' = loose \ {f}
       ELSE messages' = Append(messages, ToolMessage) /\ UNCHANGED loose
    /\ target' = f
    /\ turn' \in {"tool", "asking"}
    /\ UNCHANGED <<cp, content, models, changes, missed, end>>

Approve ==
    /\ turn = "asking" /\ turn' = "tool"
    /\ UNCHANGED <<messages, cp, content, models, target, noted, changes, loose, missed, end>>

\* rejectLatestToolRequest: the turn ends without a checkpoint.
Reject ==
    /\ turn = "asking" /\ turn' = "idle" /\ NoTarget
    /\ UNCHANGED <<messages, cp, content, models, changes, loose, missed, end>>

ToolDone ==
    /\ turn \in {"tool", "aborting"}
    /\ models' = models \cup {target}
    /\ turn' = IF turn = "tool" THEN "llm" ELSE "idle"
    /\ NoTarget
    /\ UNCHANGED <<cp, missed, end>>

\* callTool writes the file.  Only checkpoints older than its own are followed by
\* a snapshot of what it overwrites.
ToolEdit ==
    /\ ToolDone
    /\ Write(target)
    /\ loose' = loose \cup {target}
    /\ messages' = LET n == Len(messages)
                       after == IF ~noted THEN 1..n ELSE IF turn = "aborting" THEN {n} ELSE {}
                   IN Unsure(messages, after, {target})

\* It throws, or its text is what the file holds.
ToolFails ==
    /\ ToolDone
    /\ UNCHANGED <<messages, content, changes, loose>>

\* The user, a formatter or the agent of another thread changes a file, the user
\* undoes or rejects an edit.
Type(f) ==
    /\ Write(f)
    /\ messages' = Unsure(messages, DOMAIN messages, {f})
    /\ loose' = loose \cup {f}
    /\ models' = models \cup {f}
    /\ end' = None
    /\ UNCHANGED <<cp, turn, target, noted, missed>>

-----------------------------------------------------------------------------
\* _getCheckpointInfo
Info(m, f, userModified) == IF userModified /\ m.mods[f] # None THEN m.mods[f] ELSE m.snap[f]

\* Of the checkpoints in order that hold f, the snapshot of the first one; none
\* leaves the file.
FirstInfo(ms, order, f, userModified) ==
    LET found == {i \in DOMAIN order : Info(ms[order[i]], f, userModified) # None} IN
    IF found = {} THEN content[f] ELSE Info(ms[order[Min(found)]], f, userModified)

Upwards(lo, hi) == [k \in 1..(hi + 1 - lo) |-> hi + 1 - k]
Downwards(lo, hi) == [k \in 1..(hi + 1 - lo) |-> lo + k - 1]

\* Mutant: a file with no older snapshot takes its newest.
UndoOrderNewest(ms, to) == Upwards(1, to) \o Upwards(to + 1, Len(ms))

\* Where the undo looks for a file: up from the checkpoint, then down.
UndoOrder(ms, to) == Upwards(1, to) \o Downwards(to + 1, Len(ms))

Jumped(ms, from, to, userModified) ==
    LET touched == IF to < from THEN FilesBetween(ms, to + 1, from) ELSE FilesBetween(ms, from + 1, to)
        order == IF to < from THEN UndoOrder(ms, to) ELSE Upwards(from + 1, to)
    IN [f \in Files |-> IF f \in touched \cap models THEN FirstInfo(ms, order, f, userModified) ELSE content[f]]

\* Mutant: what the user changed is not kept with the checkpoint that is left.
WithoutModifications(ms, at) == ms

\* _addUserModificationsToCurrCheckpoint
WithModifications(ms, at) ==
    IF IsCheckpoint(ms[at]) THEN [ms EXCEPT ![at].mods = CurrentSnapshots] ELSE ms

\* _makeUsStandOnCheckpoint: the index is that of the last message of the thread
\* as it was, before the temporary checkpoint.
Standing(ms) == IF cp = None THEN Len(messages) ELSE cp

\* jumpToCheckpointBeforeMessageIdx, which is disabled while a turn runs.
Jump(to) ==
    /\ turn = "idle" /\ IsCheckpoint(messages[to])
    /\ LET temporary == cp = None /\ ~IsCheckpoint(Last(messages))
           ms == IF temporary THEN Append(messages, Checkpoint(CurrentSnapshots)) ELSE messages
           from == Standing(ms)
       IN
       /\ loose' = IF temporary THEN loose \ Snapped(CurrentSnapshots) ELSE loose
       /\ missed' = IF temporary THEN missed \cup loose ELSE missed
       /\ IF to = from
          THEN messages' = ms /\ cp' = from /\ UNCHANGED <<content, end>>
          ELSE /\ messages' = WithModifications(ms, from)
               /\ content' = Jumped(ms, from, to, to = Len(messages))
               /\ cp' = to
               /\ end' = IF cp = None \/ cp = Len(messages) THEN content ELSE end
    /\ UNCHANGED <<models, turn, target, noted, changes>>

-----------------------------------------------------------------------------
Next ==
    \/ Send \/ EndTurn \/ AbortTool \/ Approve \/ Reject \/ ToolEdit \/ ToolFails
    \/ \E f \in Files : Ask(f) \/ Type(f)
    \/ \E i \in DOMAIN messages : EditMessage(i) \/ Jump(i)

Spec == Init /\ [][Next]_vars

-----------------------------------------------------------------------------
Snapshots == [Files -> Versions \cup {None}]

\* Types; the thread stands on a checkpoint, every message follows one, and a
\* snapshot is what the file held when it was taken.
TypeOK ==
    /\ content \in [Files -> Versions] /\ changes \in Versions
    /\ Opened \subseteq models /\ models \subseteq Files
    /\ turn \in {"idle", "llm", "asking", "tool", "aborting"}
    /\ loose \cup missed \subseteq Files /\ end \in [Files -> Versions] \cup {None}
    /\ cp = None \/ (cp \in DOMAIN messages /\ IsCheckpoint(messages[cp]))
    /\ messages # << >> => IsCheckpoint(messages[1])
    /\ \A i \in DOMAIN messages :
        /\ messages[i].snap \in Snapshots /\ messages[i].mods \in Snapshots
        /\ \A f \in Snapped(messages[i].snap) : messages[i].snap[f] = messages[i].was[f]

\* Standing on a checkpoint, every file holds what it held when the checkpoint
\* was added, whatever jumps led there, unless something other than the agent's
\* recorded edits changed it since, or it was between an edit and its next
\* snapshot at the time (chatThreadService.ts:1119-1122).
StandsExactly ==
    TypeOK /\ (cp # None => \A f \in messages[cp].sure \ missed : content[f] = messages[cp].was[f])

\* Jumping away from the end of the thread and back, by any way, gives back all
\* that was there, what the user typed included, if nothing changed meanwhile:
\* "add a new temp checkpoint so user can jump forward again" (1082).
RoundTrip ==
    (end # None /\ cp = Len(messages)) => content = end
=============================================================================
