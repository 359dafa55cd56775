----------------------------- MODULE ChatThread -----------------------------
(***************************************************************************)
(* One conversation of the chat service (browser/chatThreadService.ts):    *)
(* its message history, its stream state, and every agent loop             *)
(* (_runChatAgent) that was ever started on it.                            *)
(*                                                                         *)
(* The renderer is one JavaScript thread.  A step here is one macrotask (a *)
(* click, an IPC answer, a timer) or one microtask; `micro' is the queue   *)
(* of continuations that were resumed but have not run yet, and no         *)
(* macrotask runs until that queue is empty.  An `await' of something that *)
(* is not yet settled ends the step.                                       *)
(***************************************************************************)
EXTENDS Naturals, Sequences

CONSTANTS
    Agents,        \* the _runChatAgent invocations that may be started
    NoAgent,       \* no agent
    Calls,         \* the identifiers the LLM gives to its tool calls
    NoCall,        \* a message that belongs to no tool call
    Tools,         \* the kinds of tools the LLM may call, see ToolShape
    NoTool,        \* the tool of a call that was not made
    Ops,           \* the user operations that occur, a subset of UserOps
    CHAT_RETRIES,  \* how many times one LLM message is attempted
    MaxLen,        \* bound: the user acts while the history is shorter than this
    MaxPending     \* bound: unfinished user operations of one kind

\* What the control flow of _runToolCall asks about a tool: do its parameters
\* validate, is it an MCP tool, does it edit a file that has a model, and does it
\* need an approval that is not automatic.
ToolShape == [valid : BOOLEAN, mcp : BOOLEAN, edit : BOOLEAN, ask : BOOLEAN]

UserOps == {"send", "abort", "edit", "approve", "reject", "jump", "restart"}

ASSUME AgentAssumption == NoAgent \notin Agents
ASSUME CallAssumption == NoCall \notin Calls
ASSUME ToolAssumption == Tools \subseteq ToolShape /\ NoTool \notin Tools
ASSUME OpsAssumption == Ops \subseteq UserOps
ASSUME BoundAssumption ==
    /\ CHAT_RETRIES \in Nat \ {0}
    /\ MaxLen \in Nat
    /\ MaxPending \in Nat

-----------------------------------------------------------------------------
\* Messages.  Texts, parameters and results are left out; a tool message keeps
\* the identifier of its call.

ToolTypes == {"tool_request", "running_now", "rejected", "success", "tool_error"}
Roles == {"user", "assistant", "interrupted_streaming_tool", "checkpoint"}
Message == [kind : Roles, call : {NoCall}] \cup [kind : ToolTypes \cup {"invalid_params"}, call : Calls]

Plain(k) == [kind |-> k, call |-> NoCall]
ToolMsg(type, c) == [kind |-> type, call |-> c]
Checkpoint == Plain("checkpoint")

\* A swappable tool message: role 'tool' and not 'invalid_params'.
IsTool(m) == m.kind \in ToolTypes

LastKind(msgs) == IF msgs = << >> THEN "none" ELSE msgs[Len(msgs)].kind
LastCall(msgs) == IF msgs = << >> THEN NoCall ELSE msgs[Len(msgs)].call

ReplaceLast(msgs, m) == [msgs EXCEPT ![Len(msgs)] = m]

\* slice(0, n), which takes what there is of the first n messages.
FirstOf(msgs, n) == IF n < Len(msgs) THEN SubSeq(msgs, 1, n) ELSE msgs

\* The latest tool message is swapped for m whatever call it is of; with no tool
\* message at the end, m is appended.
UpdateLatestTool(msgs, m) ==
    IF LastKind(msgs) \in ToolTypes THEN ReplaceLast(msgs, m) ELSE Append(msgs, m)

-----------------------------------------------------------------------------
VARIABLES
    messages,   \* the history
    cp,         \* state.currCheckpointIdx, 0 for null
    disk,       \* the history and cp that _storeAllThreads last wrote
    stream,     \* streamState of the thread
    sending,    \* sends waiting for chat_userMessageContent
    waiting,    \* waiting[a]: aborts awaiting the interruptor of a's running tool
    micro,      \* the microtask queue
    pc,         \* where each agent loop is
    attempts,   \* nAttempts of the LLM message the agent is sending
    idleCut,    \* interruptedWhenIdle of the agent
    toolCut,    \* `interrupted' of the agent's running tool call
    first,      \* the running tool call is callThisToolFirst
    cur,        \* the agent's running tool call
    toolOf,     \* the tool each call made is a call of
    runs,       \* history: how often each call was started
    denied      \* history: the calls the user turned down

thread == <<messages, cp, disk>>
agent == <<pc, attempts, idleCut, toolCut, first, cur>>
ghosts == <<runs, denied>>
vars == <<messages, cp, disk, stream, sending, waiting, micro,
          pc, attempts, idleCut, toolCut, first, cur, toolOf, runs, denied>>

\* isRunning, with "none" for undefined; `by' is the agent whose interruptor the
\* stream state holds; err is the error shown under the conversation.
Running == {"LLM", "tool", "idle"}
Stream == [run : Running \cup {"awaiting_user", "none"}, by : Agents \cup {NoAgent}, err : BOOLEAN]

Idle == [run |-> "none", by |-> NoAgent, err |-> FALSE]
Failed == [Idle EXCEPT !.err = TRUE]
Awaiting == [Idle EXCEPT !.run = "awaiting_user"]
On(run, a) == [run |-> run, by |-> a, err |-> FALSE]

\* What follows an abort: nothing (the stop button), the edit of message idx, or
\* the rest of _addUserMessageAndStreamResponse.
After == [op : {"stop", "edit", "content"}, idx : Nat]
Stop == [op |-> "stop", idx |-> 0]

\* A queued continuation: an abort about to call interruptor `how' of agent `on',
\* the edit of message `after.idx', the body of a send, the reading of the
\* message's content, or the loop of `on' going on after a tool that threw.
Jobs == [op : {"interrupt", "edit", "send", "content", "loop"},
         on : Agents \cup {NoAgent},
         how : {"idle", "LLM", "tool", "noop"},
         after : After]
Job(op, on, how, after) == [op |-> op, on |-> on, how |-> how, after |-> after]

ToolPCs == {"calling", "result", "thrown"}
\* "dead" is a loop whose preparation rejected: it ended without clearing up.
PCs == {"unborn", "prepare", "llm", "retry", "done", "dead"} \cup ToolPCs
Alive(a) == pc[a] \notin {"unborn", "done", "dead"}

Init ==
    /\ messages = << >>
    /\ cp = 0
    /\ disk = [messages |-> << >>, cp |-> 0]
    /\ stream = Idle
    /\ sending = 0
    /\ waiting = [a \in Agents |-> << >>]
    /\ micro = << >>
    /\ pc = [a \in Agents |-> "unborn"]
    /\ attempts = [a \in Agents |-> 0]
    /\ idleCut = [a \in Agents |-> FALSE]
    /\ toolCut = [a \in Agents |-> FALSE]
    /\ first = [a \in Agents |-> FALSE]
    /\ cur = [a \in Agents |-> NoCall]
    /\ toolOf = [c \in Calls |-> NoTool]
    /\ runs = [c \in Calls |-> 0]
    /\ denied = {}

\* Every message added or edited is stored at once, with the thread's state.
Store(msgs) ==
    /\ messages' = msgs
    /\ disk' = [messages |-> msgs, cp |-> cp]

\* A history put in place while nothing runs (s is the stream state then): a
\* request at its end is asked again, and a tool left running is cancelled.
Orphaned(msgs, s) == s.run = "none" /\ ~s.err /\ LastKind(msgs) = "running_now"

\* Mutant: a tool left running is asked for again.
ShownAsRequest(msgs, s) ==
    IF Orphaned(msgs, s) THEN ReplaceLast(msgs, ToolMsg("tool_request", LastCall(msgs))) ELSE msgs

Shown(msgs, s) ==
    IF Orphaned(msgs, s) THEN ReplaceLast(msgs, ToolMsg("rejected", LastCall(msgs))) ELSE msgs
ShownStream(msgs, s) ==
    IF s.run = "none" /\ ~s.err /\ LastKind(msgs) = "tool_request" THEN Awaiting ELSE s

-----------------------------------------------------------------------------
\* Aborting.  abortRunning up to its await: the history is closed off according
\* to what is running and a checkpoint is added.

\* Mutant: the request stays as it was.
RejectedForgotten(msgs) == msgs

Rejected(msgs) ==
    IF LastKind(msgs) \in ToolTypes THEN ReplaceLast(msgs, ToolMsg("rejected", LastCall(msgs))) ELSE msgs

AbortedHistory(withTool) ==
    LET closed ==
          CASE stream.run = "LLM" ->
                 messages \o <<Plain("assistant")>>
                          \o (IF withTool THEN <<Plain("interrupted_streaming_tool")>> ELSE << >>)
            [] stream.run = "tool" -> UpdateLatestTool(messages, ToolMsg("rejected", cur[stream.by]))
            [] stream.run = "awaiting_user" -> Rejected(messages)
            [] OTHER -> messages
    IN  Append(closed, Checkpoint)

\* The call that an abort turns down while it awaits the user.
TurnedDown == IF stream.run = "awaiting_user" /\ LastKind(messages) \in ToolTypes
              THEN {LastCall(messages)} ELSE {}

\* The interruptor the abort awaits.  A built-in tool has none until callTool
\* returns; that of an MCP tool does nothing.
MustWait == stream.run = "tool" /\ pc[stream.by] = "calling"
Interruptor ==
    CASE stream.run \in {"idle", "LLM"} -> stream.run
      [] stream.run = "tool" /\ pc[stream.by] = "result" /\ ~toolOf[cur[stream.by]].mcp -> "tool"
      [] OTHER -> "noop"

\* rest is what is left of the microtask queue.
Abort(after, rest) ==
    /\ \E withTool \in BOOLEAN : Store(AbortedHistory(withTool))
    /\ denied' = denied \cup TurnedDown
    /\ stream' = IF stream.run = "awaiting_user" THEN Idle ELSE stream
    /\ IF MustWait
       THEN /\ waiting' = [waiting EXCEPT ![stream.by] = Append(@, after)]
            /\ micro' = rest
       ELSE /\ micro' = Append(rest, Job("interrupt", stream.by, Interruptor, after))
            /\ UNCHANGED waiting
    /\ UNCHANGED <<cp, sending, agent, toolOf, runs>>

\* The local variables of an agent loop end with it.
End(a) ==
    /\ pc' = [pc EXCEPT ![a] = "done"]
    /\ attempts' = [attempts EXCEPT ![a] = 0]
    /\ idleCut' = [idleCut EXCEPT ![a] = FALSE]
    /\ toolCut' = [toolCut EXCEPT ![a] = FALSE]
    /\ first' = [first EXCEPT ![a] = FALSE]
    /\ cur' = [cur EXCEPT ![a] = NoCall]

-----------------------------------------------------------------------------
\* Microtasks.

\* The abort goes on: it calls the interruptor, which ends an LLM request (its
\* onAbort resolves the loop's promise at once) or sets the flag that the loop or
\* the tool call looks at later, and the stream state is cleared.
RunInterrupt ==
    LET job == Head(micro) IN
    /\ job.op = "interrupt"
    /\ IF job.how = "LLM" THEN End(job.on)
       ELSE /\ idleCut' = IF job.how = "idle" THEN [idleCut EXCEPT ![job.on] = TRUE] ELSE idleCut
            /\ toolCut' = IF job.how = "tool" THEN [toolCut EXCEPT ![job.on] = TRUE] ELSE toolCut
            /\ UNCHANGED <<pc, attempts, first, cur>>
    /\ stream' = Idle
    /\ micro' = IF job.after.op = "stop" THEN Tail(micro)
                ELSE Append(Tail(micro), Job(job.after.op, NoAgent, "noop", job.after))
    /\ UNCHANGED <<thread, sending, waiting, toolOf, ghosts>>

\* editUserMessageAndStreamResponse: the history is cut before the message, which
\* is not stored, and the message is sent anew.
RunEdit ==
    LET job == Head(micro)
        idx == job.after.idx
        cut == FirstOf(messages, idx - 1)
    IN
    /\ job.op = "edit"
    /\ IF idx \in 1..Len(messages) /\ messages[idx].kind = "user"
       THEN /\ messages' = Shown(cut, stream)
            /\ disk' = IF Orphaned(cut, stream) THEN [messages |-> messages', cp |-> cp] ELSE disk
            /\ stream' = ShownStream(cut, stream)
            /\ micro' = <<Job("send", NoAgent, "noop", Stop)>> \o Tail(micro)
       ELSE /\ micro' = Tail(micro)
            /\ UNCHANGED <<messages, disk, stream>>
    /\ UNCHANGED <<cp, sending, waiting, agent, toolOf, ghosts>>

\* A conversation opens with a checkpoint.  Mutant: it does not.
NoDummyCheckpoint == UNCHANGED <<messages, disk>>

DummyCheckpoint ==
    IF messages = << >> THEN Store(<<Checkpoint>>) ELSE UNCHANGED <<messages, disk>>

\* _addUserMessageAndStreamResponse up to its first await.
RunSend ==
    /\ Head(micro).op = "send"
    /\ IF stream.run # "none"
       THEN Abort([op |-> "content", idx |-> 0], Tail(micro))
       ELSE /\ DummyCheckpoint
            /\ sending' = sending + 1
            /\ micro' = Tail(micro)
            /\ UNCHANGED <<cp, stream, waiting, agent, toolOf, ghosts>>

\* The same after the abort it awaited.
RunContent ==
    /\ Head(micro).op = "content"
    /\ sending' = sending + 1
    /\ micro' = Tail(micro)
    /\ UNCHANGED <<thread, stream, waiting, agent, toolOf, ghosts>>

\* The agent loop goes on to its next LLM message.
NextMessage(a) ==
    /\ stream' = On("idle", a)
    /\ pc' = [pc EXCEPT ![a] = "prepare"]
    /\ first' = [first EXCEPT ![a] = FALSE]
    /\ toolCut' = [toolCut EXCEPT ![a] = FALSE]
    /\ cur' = [cur EXCEPT ![a] = NoCall]
    /\ UNCHANGED <<attempts, idleCut>>

RunLoop ==
    /\ Head(micro).op = "loop"
    /\ NextMessage(Head(micro).on)
    /\ micro' = Tail(micro)
    /\ UNCHANGED <<thread, sending, waiting, toolOf, ghosts>>

Microtask ==
    /\ micro # << >>
    /\ RunInterrupt \/ RunEdit \/ RunSend \/ RunContent \/ RunLoop

-----------------------------------------------------------------------------
\* The user.

MayAct(op) == micro = << >> /\ op \in Ops /\ Len(messages) < MaxLen

\* The submit button, which the sidebar blocks while the thread runs.  Standing at
\* a checkpoint, the messages after it are dropped first.
Send ==
    /\ MayAct("send") /\ sending < MaxPending
    /\ stream.run = "none"
    /\ IF cp # 0
       THEN LET kept == FirstOf(messages, cp) IN
            /\ Store(Shown(kept, stream))
            /\ stream' = ShownStream(kept, stream)
       ELSE UNCHANGED <<messages, disk, stream>>
    /\ micro' = <<Job("send", NoAgent, "noop", Stop)>>
    /\ UNCHANGED <<cp, sending, waiting, agent, toolOf, ghosts>>

\* The content of the message was read: the message is added and an agent loop
\* starts, up to its await of prepareLLMChatMessages.
ContentReady(a) ==
    /\ micro = << >>
    /\ sending > 0
    /\ pc[a] = "unborn"
    /\ sending' = sending - 1
    /\ Store(Append(messages, Plain("user")))
    /\ cp' = 0
    /\ NextMessage(a)
    /\ UNCHANGED <<waiting, micro, toolOf, ghosts>>

\* It could not be read (a selected folder is gone): the send is dropped.
ContentFails ==
    /\ micro = << >>
    /\ sending > 0
    /\ sending' = sending - 1
    /\ UNCHANGED <<thread, stream, waiting, micro, agent, toolOf, ghosts>>

\* An unfinished abort is bounded by MaxPending per running tool.
MayAbort == MustWait => Len(waiting[stream.by]) < MaxPending

\* The stop button or Escape, shown while the thread runs.
StopClick ==
    /\ MayAct("abort") /\ MayAbort
    /\ stream.run # "none"
    /\ Abort(Stop, << >>)

\* Submitting the edit of an earlier message aborts whatever runs, then edits.
EditClick ==
    /\ MayAct("edit") /\ MayAbort /\ sending < MaxPending
    /\ \E i \in 1..Len(messages) :
          /\ messages[i].kind = "user"
          /\ Abort([op |-> "edit", idx |-> i], << >>)

\* The approve and reject buttons are beside every tool request of the history
\* (SidebarChat.tsx 2556-2560), and act on its last message.
Reject ==
    /\ MayAct("reject")
    /\ \E i \in 1..Len(messages) : messages[i].kind = "tool_request"
    /\ LastKind(messages) \in ToolTypes
    /\ Store(Rejected(messages))
    /\ denied' = denied \cup {LastCall(messages)}
    /\ stream' = Idle
    /\ UNCHANGED <<cp, sending, waiting, micro, agent, toolOf, runs>>

\* _runToolCall from `3. call the tool' to its first await, by agent a, with the
\* history msgs.  The history is put in place before the stream state, so it is
\* refreshed under stream state s.  An MCP tool that is gone throws at once.
StartTool(a, c, tool, msgs, s, pre) ==
    \/ /\ Store(Shown(UpdateLatestTool(msgs, ToolMsg("running_now", c)), s))
       /\ pc' = [pc EXCEPT ![a] = IF tool.mcp THEN "result" ELSE "calling"]
       /\ runs' = [runs EXCEPT ![c] = @ + 1]
       /\ stream' = On("tool", a)
       /\ first' = [first EXCEPT ![a] = pre]
       /\ cur' = [cur EXCEPT ![a] = c]
       /\ UNCHANGED micro
    \/ /\ tool.mcp
       /\ Store(UpdateLatestTool(msgs, ToolMsg("tool_error", c)))
       /\ stream' = On("idle", a)
       /\ pc' = [pc EXCEPT ![a] = "prepare"]
       /\ UNCHANGED <<runs, first, cur, micro>>

Approvable == LastKind(messages) = "tool_request"

Approve(a) ==
    /\ MayAct("approve")
    /\ pc[a] = "unborn"
    /\ Approvable
    /\ LET c == LastCall(messages) IN StartTool(a, c, toolOf[c], messages, stream, TRUE)
    /\ UNCHANGED <<cp, sending, waiting, attempts, idleCut, toolCut, toolOf, denied>>

\* Clicking checkpoint i, which the sidebar disables while the thread runs.  With
\* cp null the user is first made to stand at the end: a checkpoint is added there,
\* but cp takes the index of the message before it.
Jump ==
    LET standing == IF cp = 0 THEN Len(messages) ELSE cp
        hist == IF cp = 0 /\ LastKind(messages) # "checkpoint"
                THEN Append(messages, Checkpoint) ELSE messages
        modified(i) == i # standing /\ standing <= Len(hist) /\ hist[standing] = Checkpoint
    IN
    /\ MayAct("jump")
    /\ stream.run = "none"
    /\ \E i \in 1..Len(messages) :
          /\ messages[i] = Checkpoint
          /\ cp' = i
          /\ messages' = Shown(hist, stream)
          /\ stream' = ShownStream(hist, stream)
          /\ disk' = CASE modified(i) \/ Orphaned(hist, stream) -> [messages |-> messages', cp |-> standing]
                       [] hist # messages -> [messages |-> hist, cp |-> 0]
                       [] OTHER -> disk
    /\ UNCHANGED <<sending, waiting, micro, agent, toolOf, ghosts>>

\* Any change of the service's state by the user interface (a staged selection, a
\* focused message, a switch to this thread) refreshes the thread.
Touch ==
    /\ micro = << >>
    /\ Shown(messages, stream) # messages \/ ShownStream(messages, stream) # stream
    /\ messages' = Shown(messages, stream)
    /\ stream' = ShownStream(messages, stream)
    /\ disk' = IF messages' # messages THEN [messages |-> messages', cp |-> cp] ELSE disk
    /\ UNCHANGED <<cp, sending, waiting, micro, agent, toolOf, ghosts>>

\* dismissStreamError.
Dismiss ==
    /\ micro = << >>
    /\ stream.err
    /\ stream' = Idle
    /\ UNCHANGED <<thread, sending, waiting, micro, agent, toolOf, ghosts>>

\* The window is closed or reloaded, and the thread is opened again from storage.
Restart ==
    /\ MayAct("restart")
    /\ messages' = Shown(disk.messages, Idle)
    /\ cp' = disk.cp
    /\ disk' = [disk EXCEPT !.messages = messages']
    /\ stream' = ShownStream(disk.messages, Idle)
    /\ sending' = 0
    /\ waiting' = [a \in Agents |-> << >>]
    /\ pc' = [a \in Agents |-> IF pc[a] = "unborn" THEN "unborn" ELSE "done"]
    /\ attempts' = [a \in Agents |-> 0]
    /\ idleCut' = [a \in Agents |-> FALSE]
    /\ toolCut' = [a \in Agents |-> FALSE]
    /\ first' = [a \in Agents |-> FALSE]
    /\ cur' = [a \in Agents |-> NoCall]
    /\ UNCHANGED <<micro, toolOf, ghosts>>

-----------------------------------------------------------------------------
\* The agent loops.  Each step starts where the loop awaits something.

\* The end of the loop.  Mutant: isRunning is left as it was.
FinishStillRunning(a, msgs) ==
    /\ Store(Append(msgs, Checkpoint))
    /\ UNCHANGED stream
    /\ End(a)

Finish(a, msgs) ==
    /\ stream' = Idle
    /\ Store(Append(msgs, Checkpoint))
    /\ End(a)

\* A request is handed to the LLM service, which may refuse it (no model, no
\* messages): the error set then is overwritten at the end of the loop.
SendLLM(a, n) ==
    \/ /\ stream' = On("LLM", a)
       /\ pc' = [pc EXCEPT ![a] = "llm"]
       /\ attempts' = [attempts EXCEPT ![a] = n]
       /\ UNCHANGED <<messages, disk, idleCut, toolCut, first, cur>>
    \/ Finish(a, messages)

\* A loop that was interrupted while idle clears the stream state and returns.
StopIdle(a) ==
    /\ stream' = Idle
    /\ End(a)
    /\ UNCHANGED <<messages, disk>>

Prepared(a) ==
    /\ micro = << >>
    /\ pc[a] = "prepare"
    /\ IF idleCut[a] THEN StopIdle(a) ELSE SendLLM(a, 1)
    /\ UNCHANGED <<cp, sending, waiting, micro, toolOf, ghosts>>

\* prepareLLMChatMessages rejects (a workspace folder cannot be read) and nothing
\* catches it: the loop dies, interrupted or not, and the stream state stays.
PrepareFails(a) ==
    /\ micro = << >>
    /\ pc[a] = "prepare"
    /\ pc' = [pc EXCEPT ![a] = "dead"]
    /\ UNCHANGED <<thread, stream, sending, waiting, micro, attempts, idleCut, toolCut,
                   first, cur, toolOf, ghosts>>

\* Mutants: the timer does not look at interruptedWhenIdle; nAttempts starts again.
RetryTimerBlind(a) ==
    /\ micro = << >>
    /\ pc[a] = "retry"
    /\ SendLLM(a, attempts[a] + 1)
    /\ UNCHANGED <<cp, sending, waiting, micro, toolOf, ghosts>>
AttemptAfterReset(a) == 1

AttemptAfter(a) == attempts[a] + 1

RetryTimer(a) ==
    /\ micro = << >>
    /\ pc[a] = "retry"
    /\ IF idleCut[a] THEN StopIdle(a) ELSE SendLLM(a, AttemptAfter(a))
    /\ UNCHANGED <<cp, sending, waiting, micro, toolOf, ghosts>>

\* onText: part of the answer arrived.
LLMText(a) ==
    /\ micro = << >>
    /\ pc[a] = "llm"
    /\ stream # On("LLM", a)
    /\ stream' = On("LLM", a)
    /\ UNCHANGED <<thread, sending, waiting, micro, agent, toolOf, ghosts>>

\* `if something else started running in the meantime': the answer is dropped.
Superseded(a) ==
    /\ stream.run # "LLM"
    /\ End(a)
    /\ UNCHANGED <<messages, disk, stream>>

\* Mutant: one attempt too many.
OneRetryMore(a) == attempts[a] <= CHAT_RETRIES

MayRetry(a) == attempts[a] < CHAT_RETRIES

LLMError(a) ==
    /\ micro = << >>
    /\ pc[a] = "llm"
    /\ \/ Superseded(a)
       \/ /\ stream.run = "LLM"
          /\ IF MayRetry(a)
             THEN /\ stream' = On("idle", a)
                  /\ pc' = [pc EXCEPT ![a] = "retry"]
                  /\ UNCHANGED <<messages, disk, attempts, idleCut, toolCut, first, cur>>
             ELSE /\ \E withTool \in BOOLEAN : Store(AbortedHistory(withTool))
                  /\ stream' = Failed
                  /\ End(a)
    /\ UNCHANGED <<cp, sending, waiting, micro, toolOf, ghosts>>

\* A final message with no tool call ends the loop, with a checkpoint.
LLMFinal(a) ==
    /\ micro = << >>
    /\ pc[a] = "llm"
    /\ \/ Superseded(a)
       \/ /\ stream.run = "LLM"
          /\ Finish(a, Append(messages, Plain("assistant")))
    /\ UNCHANGED <<cp, sending, waiting, micro, toolOf, ghosts>>

\* A final message with a tool call: _runToolCall up to its first await.
LLMFinalWithTool(a) ==
    /\ micro = << >>
    /\ pc[a] = "llm"
    /\ stream.run = "LLM"
    /\ \E c \in Calls, tool \in Tools :
          LET said == Append(messages, Plain("assistant"))
              kept == IF tool.edit THEN Append(said, Checkpoint) ELSE said
          IN
          /\ toolOf[c] = NoTool
          /\ toolOf' = [toolOf EXCEPT ![c] = tool]
          /\ \/ /\ ~tool.valid
                /\ Store(Append(said, ToolMsg("invalid_params", c)))
                /\ NextMessage(a)
                /\ UNCHANGED <<runs, micro>>
             \/ /\ tool.valid /\ tool.ask
                /\ Store(Append(kept, ToolMsg("tool_request", c)))
                /\ stream' = Awaiting
                /\ End(a)
                /\ UNCHANGED <<runs, micro>>
             \/ /\ tool.valid /\ ~tool.ask
                /\ StartTool(a, c, tool, kept, On("idle", a), FALSE)
                /\ UNCHANGED <<attempts, idleCut, toolCut>>
    /\ UNCHANGED <<cp, sending, waiting, denied>>

\* callTool of a built-in tool returned: its interruptor is known, and the aborts
\* that awaited it go on.
Resumed(a, how) ==
    [i \in 1..Len(waiting[a]) |-> Job("interrupt", a, how, waiting[a][i])]

\* Mutant: the interruptor's promise is not resolved.
NoAbortResumed(a, how, rest) ==
    /\ micro' = rest
    /\ UNCHANGED waiting

ResumeAborts(a, how, rest) ==
    /\ micro' = Resumed(a, how) \o rest
    /\ waiting' = [waiting EXCEPT ![a] = << >>]

CallToolReturned(a) ==
    /\ micro = << >>
    /\ pc[a] = "calling"
    /\ pc' = [pc EXCEPT ![a] = "result"]
    /\ ResumeAborts(a, "tool", << >>)
    /\ UNCHANGED <<thread, stream, sending, attempts, idleCut, toolCut, first, cur, toolOf, ghosts>>

\* It threw: the aborts go on with an interruptor that does nothing, and the loop
\* goes on after them.
CallToolThrew(a) ==
    /\ micro = << >>
    /\ pc[a] = "calling"
    /\ pc' = [pc EXCEPT ![a] = "thrown"]
    /\ Store(UpdateLatestTool(messages, ToolMsg("tool_error", cur[a])))
    /\ ResumeAborts(a, "noop", <<Job("loop", a, "noop", Stop)>>)
    /\ UNCHANGED <<cp, stream, sending, attempts, idleCut, toolCut, first, cur, toolOf, ghosts>>

\* The result is there, or the tool failed.  An interrupted call adds nothing; the
\* loop then returns, except after callThisToolFirst.
ToolResult(a) ==
    /\ micro = << >>
    /\ pc[a] = "result"
    /\ IF toolCut[a]
       THEN IF first[a]
            THEN /\ Store(Append(messages, Checkpoint))
                 /\ NextMessage(a)
            ELSE StopIdle(a)
       ELSE /\ \E type \in {"success", "tool_error"} :
                  Store(UpdateLatestTool(messages, ToolMsg(type, cur[a])))
            /\ NextMessage(a)
    /\ UNCHANGED <<cp, sending, waiting, micro, toolOf, ghosts>>

AgentStep(a) ==
    \/ Prepared(a) \/ PrepareFails(a) \/ RetryTimer(a)
    \/ LLMError(a) \/ LLMFinal(a) \/ LLMFinalWithTool(a)
    \/ CallToolReturned(a) \/ CallToolThrew(a) \/ ToolResult(a)

Next ==
    \/ Microtask
    \/ Send \/ ContentFails
    \/ StopClick \/ EditClick \/ Reject \/ Jump \/ Touch \/ Dismiss \/ Restart
    \/ \E a \in Agents : ContentReady(a) \/ Approve(a) \/ LLMText(a) \/ AgentStep(a)

\* Promises settle, timers fire, and the LLM answers or fails; the user owes nothing.
Fairness ==
    /\ WF_vars(Microtask)
    /\ WF_vars(ContentFails \/ \E a \in Agents : ContentReady(a))
    /\ \A a \in Agents : WF_vars(AgentStep(a))

Spec == Init /\ [][Next]_vars /\ Fairness

-----------------------------------------------------------------------------
\* Properties.

TypeOK ==
    /\ messages \in Seq(Message)
    /\ cp \in Nat
    /\ disk \in [messages : Seq(Message), cp : Nat]
    /\ stream \in Stream
    /\ sending \in Nat
    /\ waiting \in [Agents -> Seq(After)]
    /\ micro \in Seq(Jobs)
    /\ pc \in [Agents -> PCs]
    /\ attempts \in [Agents -> 0..CHAT_RETRIES]
    /\ idleCut \in [Agents -> BOOLEAN]
    /\ toolCut \in [Agents -> BOOLEAN]
    /\ first \in [Agents -> BOOLEAN]
    /\ cur \in [Agents -> Calls \cup {NoCall}]
    /\ toolOf \in [Calls -> Tools \cup {NoTool}]
    /\ runs \in [Calls -> Nat]
    /\ denied \subseteq Calls

\* While the sidebar shows the thread busy there is a loop at the matching place,
\* however the loops of aborted and of newer agents overwrite each other's stream
\* state.  The one spinner that outlives its loop is that of a loop whose messages
\* could not be prepared (780): nothing catches that, and the state stays 'idle'.
NoDeadSpinner ==
    /\ stream.run = "LLM" => pc[stream.by] = "llm"
    /\ stream.run = "idle" => pc[stream.by] \in {"prepare", "retry", "dead"}
    /\ stream.run = "tool" => pc[stream.by] \in ToolPCs

\* A loop that an interruptor told to stop sends and starts nothing more: whatever it
\* waits for, its next step is its end.  The loop of an approved call (763) is the
\* exception: interrupted in that call it goes on to a message.  MCP calls and tools
\* that throw have no interruptor, so their loops are not told.
InterruptedIsSilent ==
    [][\A a \in Agents :
        /\ idleCut[a] => pc'[a] \in {pc[a], "done", "dead"}
        /\ toolCut[a] => \/ pc'[a] \in {pc[a], "done"}
                         \/ first[a] /\ pc'[a] = "prepare"]_vars

\* Every message has a checkpoint at or before it, so that a jump always finds one
\* (_getCheckpointBeforeMessage), after any truncation by an edit, a send or a restart.
EveryMessageHasCheckpoint == messages # << >> => messages[1] = Checkpoint

\* An abort that awaits the interruptor of a tool awaits one that can still come.
NoAbortForgotten == \A a \in Agents : waiting[a] # << >> => pc[a] = "calling"

\* No tool call is started twice, and none is started after the user turned it
\* down, in whatever order approvals, rejections, aborts, edits, restarts and late
\* results of other agents come.
RunsAtMostOnce == \A c \in Calls : runs[c] <= 1
DeniedNeverRuns == [][\A c \in denied : runs'[c] = runs[c]]_vars

\* The thread does not stay busy, and an abort does not wait, for ever, when LLM
\* requests and tools end.  A loop whose messages could not be prepared leaves the
\* thread busy until the user stops it.
BusyEnds == stream.run \in Running ~> (stream.run \notin Running \/ pc[stream.by] = "dead")
AbortsComplete == \A a \in Agents : waiting[a] # << >> ~> waiting[a] = << >>

-----------------------------------------------------------------------------
\* The inductive invariant behind TypeOK, NoDeadSpinner and InterruptedIsSilent.

\* Where the loops are that an interruptor told to stop.
CutPlaces ==
    \A a \in Agents :
        /\ idleCut[a] => pc[a] \in {"prepare", "retry", "dead"}
        /\ toolCut[a] => pc[a] = "result"

\* The stream state holds the interruptor of an agent exactly while it is busy.
StreamOwned == stream.run \in Running <=> stream.by \in Agents

\* A loop in a tool has a call, and one that waits to retry has an attempt left.
LoopsOK ==
    \A a \in Agents :
        /\ pc[a] \in ToolPCs => cur[a] \in Calls
        /\ pc[a] = "retry" => attempts[a] < CHAT_RETRIES

\* A queued continuation fits the place `at' of the loop it is about, and what may
\* follow an abort is only queued while no LLM request is in the stream state.
Fits(job, at, run) ==
    /\ job.how = "idle" => job.on \in Agents /\ at[job.on] \in {"prepare", "retry", "dead"}
    /\ job.how = "LLM" => job.on \in Agents /\ at[job.on] = "llm"
    /\ job.how = "tool" => job.on \in Agents /\ at[job.on] = "result"
    /\ job.op = "loop" => job.on \in Agents /\ at[job.on] \in {"thrown", "prepare"}
    /\ job.op \in {"edit", "send", "content"} => run # "LLM"

\* The interruptor of an LLM request is alone in the queue.
JobsOK ==
    \A i \in 1..Len(micro) :
        /\ Fits(micro[i], pc, stream.run)
        /\ micro[i].how = "LLM" => Len(micro) = 1

Control == StreamOwned /\ LoopsOK /\ NoDeadSpinner /\ CutPlaces /\ JobsOK

IInv == TypeOK /\ Control

\* The invariant behind EveryMessageHasCheckpoint: a history that was stored opens
\* with a checkpoint too, and while there is none, no loop runs and nothing is
\* queued but a send, which adds it first.
Opens(msgs) == msgs # << >> => msgs[1] = Checkpoint
Quiet ==
    /\ stream.run = "none" /\ sending = 0
    /\ \A a \in Agents : ~Alive(a)
    /\ \A i \in 1..Len(micro) : micro[i].op = "send"
OpensOK == Opens(messages) /\ Opens(disk.messages) /\ (messages = << >> => Quiet)

\* The invariant behind RunsAtMostOnce and DeniedNeverRuns.  What a history asks for
\* did not run, was not turned down, and is not mentioned elsewhere in it.
Untouched == {c \in Calls : runs[c] = 0 /\ c \notin denied}
Mentions(msgs, c) == \E i \in 1..Len(msgs) : msgs[i].call = c
AskedOnce(msgs, ok) ==
    \A i \in 1..Len(msgs) : msgs[i].kind = "tool_request" =>
        /\ msgs[i].call \in ok
        /\ \A j \in 1..Len(msgs) : msgs[j].call = msgs[i].call => j = i

\* A call that was not made yet is nowhere, and that of a loop has run.
NotMade == \A c \in Calls : toolOf[c] = NoTool =>
    c \in Untouched /\ ~Mentions(messages, c) /\ ~Mentions(disk.messages, c)
CurrentRan == \A a \in Agents : cur[a] # NoCall => runs[cur[a]] # 0

CallsOK ==
    /\ AskedOnce(messages, Untouched) /\ AskedOnce(disk.messages, Untouched)
    /\ NotMade /\ CurrentRan /\ RunsAtMostOnce

=============================================================================
