-------------------------- MODULE ChatThreadProofs --------------------------
(***************************************************************************)
(* Theorems about ChatThread, for every set of agents, calls and tools.    *)
(***************************************************************************)
EXTENDS ChatThread, TLAPS, SequenceTheorems

-----------------------------------------------------------------------------
\* Lemmas about the operators on histories.

LEMMA LastMessage ==
    ASSUME NEW msgs \in Seq(Message), msgs # << >>
    PROVE  /\ Len(msgs) \in 1..Len(msgs)
           /\ msgs[Len(msgs)] \in Message
           /\ LastKind(msgs) = msgs[Len(msgs)].kind
           /\ LastCall(msgs) = msgs[Len(msgs)].call
  BY DEF LastKind, LastCall

\* A tool message names its call.
LEMMA LastToolCall ==
    ASSUME NEW msgs \in Seq(Message), LastKind(msgs) \in ToolTypes
    PROVE  msgs # << >> /\ LastCall(msgs) \in Calls
<1>1. msgs # << >>
  BY DEF LastKind, ToolTypes
<1>2. msgs[Len(msgs)] \in Message /\ msgs[Len(msgs)].kind \in ToolTypes
  BY <1>1, LastMessage
<1> QED
  BY <1>1, <1>2, LastMessage DEF Message, ToolTypes, Roles

LEMMA MessageTypes ==
    /\ Checkpoint \in Message
    /\ \A k \in Roles : Plain(k) \in Message
    /\ \A t \in ToolTypes \cup {"invalid_params"}, c \in Calls : ToolMsg(t, c) \in Message
  BY DEF Message, Checkpoint, Plain, ToolMsg, Roles, ToolTypes

LEMMA ReplaceLastType ==
    ASSUME NEW msgs \in Seq(Message), msgs # << >>, NEW m \in Message
    PROVE  ReplaceLast(msgs, m) \in Seq(Message)
  BY LastMessage, ExceptSeq DEF ReplaceLast

LEMMA UpdateLatestToolType ==
    ASSUME NEW msgs \in Seq(Message), NEW m \in Message
    PROVE  UpdateLatestTool(msgs, m) \in Seq(Message)
<1>1. CASE LastKind(msgs) \in ToolTypes
  BY <1>1, LastToolCall, ReplaceLastType DEF UpdateLatestTool
<1>2. CASE LastKind(msgs) \notin ToolTypes
  BY <1>2 DEF UpdateLatestTool
<1> QED
  BY <1>1, <1>2

LEMMA RejectedType ==
    ASSUME NEW msgs \in Seq(Message)
    PROVE  Rejected(msgs) \in Seq(Message)
<1>1. CASE LastKind(msgs) \in ToolTypes
  <2>1. ToolMsg("rejected", LastCall(msgs)) \in Message
    BY <1>1, LastToolCall, MessageTypes DEF ToolTypes
  <2> QED
    BY <1>1, <2>1, LastToolCall, ReplaceLastType DEF Rejected
<1>2. CASE LastKind(msgs) \notin ToolTypes
  BY <1>2 DEF Rejected
<1> QED
  BY <1>1, <1>2

LEMMA ShownType ==
    ASSUME NEW msgs \in Seq(Message), NEW s \in Stream
    PROVE  /\ Shown(msgs, s) \in Seq(Message)
           /\ ShownStream(msgs, s) \in {s, Awaiting}
           /\ ShownStream(msgs, s) # s => s.run = "none"
<1>1. CASE Orphaned(msgs, s)
  <2>1. LastKind(msgs) \in ToolTypes
    BY <1>1 DEF Orphaned, ToolTypes
  <2>2. ToolMsg("rejected", LastCall(msgs)) \in Message
    BY <2>1, LastToolCall, MessageTypes DEF ToolTypes
  <2> QED
    BY <1>1, <2>1, <2>2, LastToolCall, ReplaceLastType DEF Shown, ShownStream, Orphaned
<1>2. CASE ~Orphaned(msgs, s)
  BY <1>2 DEF Shown, ShownStream
<1> QED
  BY <1>1, <1>2

LEMMA FirstOfType ==
    ASSUME NEW msgs \in Seq(Message), NEW n \in Int
    PROVE  FirstOf(msgs, n) \in Seq(Message)
  BY DEF FirstOf

LEMMA StreamTypes ==
    /\ Idle \in Stream /\ Failed \in Stream /\ Awaiting \in Stream
    /\ \A run \in Running, a \in Agents : On(run, a) \in Stream
  BY DEF Idle, Failed, Awaiting, On, Stream, Running

\* The history that an abort leaves.
LEMMA AbortedHistoryType ==
    ASSUME TypeOK, StreamOwned, LoopsOK, NoDeadSpinner, NEW w \in BOOLEAN
    PROVE  AbortedHistory(w) \in Seq(Message)
<1> DEFINE closed ==
          CASE stream.run = "LLM" ->
                 messages \o <<Plain("assistant")>>
                          \o (IF w THEN <<Plain("interrupted_streaming_tool")>> ELSE << >>)
            [] stream.run = "tool" -> UpdateLatestTool(messages, ToolMsg("rejected", cur[stream.by]))
            [] stream.run = "awaiting_user" -> Rejected(messages)
            [] OTHER -> messages
<1>1. messages \in Seq(Message)
  BY DEF TypeOK
<1>2. closed \in Seq(Message)
  <2>1. CASE stream.run = "LLM"
    BY <1>1, <2>1, MessageTypes DEF Roles
  <2>2. CASE stream.run = "tool"
    <3>1. cur[stream.by] \in Calls
      BY <2>2 DEF StreamOwned, LoopsOK, NoDeadSpinner, Running
    <3>2. ToolMsg("rejected", cur[stream.by]) \in Message
      BY <3>1, MessageTypes DEF ToolTypes
    <3> QED
      BY <1>1, <2>2, <3>2, UpdateLatestToolType
  <2>3. CASE stream.run = "awaiting_user"
    BY <1>1, <2>3, RejectedType
  <2>4. CASE stream.run \notin {"LLM", "tool", "awaiting_user"}
    BY <1>1, <2>4
  <2> QED
    BY <2>1, <2>2, <2>3, <2>4
<1> QED
  BY <1>2, MessageTypes DEF AbortedHistory

LEMMA StoreType ==
    ASSUME TypeOK, NEW msgs \in Seq(Message), Store(msgs)
    PROVE  messages' \in Seq(Message) /\ disk' \in [messages : Seq(Message), cp : Nat]
  BY DEF Store, TypeOK

LEMMA JobType ==
    ASSUME NEW op \in {"interrupt", "edit", "send", "content", "loop"},
           NEW on \in Agents \cup {NoAgent},
           NEW how \in {"idle", "LLM", "tool", "noop"},
           NEW after \in After
    PROVE  Job(op, on, how, after) \in Jobs
  BY DEF Job, Jobs

LEMMA AbortType ==
    ASSUME IInv, NEW after \in After, NEW rest \in Seq(Jobs), Abort(after, rest)
    PROVE  TypeOK'
<1>1. messages' \in Seq(Message) /\ disk' \in [messages : Seq(Message), cp : Nat]
  <2>1. PICK w \in BOOLEAN : Store(AbortedHistory(w))
    BY DEF Abort
  <2> QED
    BY <2>1, AbortedHistoryType, StoreType DEF IInv, Control
<1>2. denied' \subseteq Calls
  <2>1. TurnedDown \subseteq Calls
    BY LastToolCall DEF TurnedDown, IInv, TypeOK
  <2> QED
    BY <2>1 DEF Abort, IInv, TypeOK
<1>3. stream' \in Stream
  BY StreamTypes DEF Abort, IInv, TypeOK
<1>4. Interruptor \in {"idle", "LLM", "tool", "noop"} /\ stream.by \in Agents \cup {NoAgent}
  BY DEF Interruptor, IInv, TypeOK, Stream
<1>5. waiting' \in [Agents -> Seq(After)] /\ micro' \in Seq(Jobs)
  <2>1. CASE MustWait
    <3>1. stream.by \in Agents
      BY <2>1 DEF MustWait, IInv, Control, StreamOwned, Running
    <3>2. Append(waiting[stream.by], after) \in Seq(After)
      BY <3>1 DEF IInv, TypeOK
    <3> QED
      BY <2>1, <3>2 DEF Abort, IInv, TypeOK
  <2>2. CASE ~MustWait
    <3>1. Job("interrupt", stream.by, Interruptor, after) \in Jobs
      BY <1>4, JobType
    <3>2. Append(rest, Job("interrupt", stream.by, Interruptor, after)) \in Seq(Jobs)
      BY <3>1
    <3>3. micro' \in Seq(Jobs) /\ waiting' = waiting
      BY <2>2, <3>2 DEF Abort
    <3> QED
      BY <3>3 DEF IInv, TypeOK
  <2> QED
    BY <2>1, <2>2
<1> QED
  BY <1>1, <1>2, <1>3, <1>5 DEF Abort, IInv, TypeOK, agent

LEMMA EndType ==
    ASSUME TypeOK, NEW a \in Agents, End(a)
    PROVE  /\ pc' \in [Agents -> PCs]
           /\ attempts' \in [Agents -> 0..CHAT_RETRIES]
           /\ idleCut' \in [Agents -> BOOLEAN]
           /\ toolCut' \in [Agents -> BOOLEAN]
           /\ first' \in [Agents -> BOOLEAN]
           /\ cur' \in [Agents -> Calls \cup {NoCall}]
  BY BoundAssumption DEF TypeOK, End, PCs

LEMMA NextMessageType ==
    ASSUME TypeOK, NEW a \in Agents, NextMessage(a)
    PROVE  /\ stream' \in Stream
           /\ pc' \in [Agents -> PCs]
           /\ attempts' \in [Agents -> 0..CHAT_RETRIES]
           /\ idleCut' \in [Agents -> BOOLEAN]
           /\ toolCut' \in [Agents -> BOOLEAN]
           /\ first' \in [Agents -> BOOLEAN]
           /\ cur' \in [Agents -> Calls \cup {NoCall}]
  BY StreamTypes DEF TypeOK, NextMessage, PCs, Running

LEMMA StartToolType ==
    ASSUME IInv, NEW a \in Agents, NEW c \in Calls, NEW tool, NEW msgs \in Seq(Message),
           NEW s \in Stream, NEW pre \in BOOLEAN, StartTool(a, c, tool, msgs, s, pre)
    PROVE  /\ messages' \in Seq(Message)
           /\ disk' \in [messages : Seq(Message), cp : Nat]
           /\ stream' \in Stream
           /\ pc' \in [Agents -> PCs]
           /\ first' \in [Agents -> BOOLEAN]
           /\ cur' \in [Agents -> Calls \cup {NoCall}]
           /\ runs' \in [Calls -> Nat]
           /\ micro' = micro
<1>1. TypeOK
  BY DEF IInv
<1>2. ToolMsg("running_now", c) \in Message /\ ToolMsg("tool_error", c) \in Message
  BY MessageTypes DEF ToolTypes
<1>3. /\ UpdateLatestTool(msgs, ToolMsg("running_now", c)) \in Seq(Message)
      /\ UpdateLatestTool(msgs, ToolMsg("tool_error", c)) \in Seq(Message)
  BY <1>2, UpdateLatestToolType
<1>4. Shown(UpdateLatestTool(msgs, ToolMsg("running_now", c)), s) \in Seq(Message)
  BY <1>3, ShownType
<1>5. messages' \in Seq(Message) /\ disk' \in [messages : Seq(Message), cp : Nat]
  BY <1>1, <1>3, <1>4, StoreType DEF StartTool
<1>6. stream' \in Stream
  BY StreamTypes DEF StartTool, Running
<1>7. pc' \in [Agents -> PCs]
  BY <1>1 DEF StartTool, TypeOK, PCs, ToolPCs
<1>8. first' \in [Agents -> BOOLEAN] /\ cur' \in [Agents -> Calls \cup {NoCall}]
  <2>1. first' = [first EXCEPT ![a] = pre] \/ first' = first
    BY DEF StartTool
  <2>2. cur' = [cur EXCEPT ![a] = c] \/ cur' = cur
    BY DEF StartTool
  <2> QED
    BY <1>1, <2>1, <2>2 DEF TypeOK
<1>9. runs' \in [Calls -> Nat]
  <2>1. runs' = [runs EXCEPT ![c] = runs[c] + 1] \/ runs' = runs
    BY DEF StartTool
  <2>2. runs[c] + 1 \in Nat
    BY <1>1 DEF TypeOK
  <2> QED
    BY <1>1, <2>1, <2>2 DEF TypeOK
<1> QED
  BY <1>5, <1>6, <1>7, <1>8, <1>9 DEF StartTool

LEMMA FinishType ==
    ASSUME TypeOK, NEW a \in Agents, NEW msgs \in Seq(Message), Finish(a, msgs)
    PROVE  /\ messages' \in Seq(Message)
           /\ disk' \in [messages : Seq(Message), cp : Nat]
           /\ stream' \in Stream
<1>1. Append(msgs, Checkpoint) \in Seq(Message)
  BY MessageTypes
<1> QED
  BY <1>1, StoreType, StreamTypes DEF Finish

LEMMA SendLLMType ==
    ASSUME TypeOK, NEW a \in Agents, NEW n \in 1..CHAT_RETRIES, SendLLM(a, n),
           UNCHANGED <<cp, sending, waiting, micro, toolOf, ghosts>>
    PROVE  TypeOK'
<1>1. CASE Finish(a, messages)
  <2>1. End(a)
    BY <1>1 DEF Finish
  <2> QED
    BY <1>1, <2>1, FinishType, EndType DEF TypeOK, ghosts
<1>2. CASE ~Finish(a, messages)
  <2>1. stream' \in Stream
    BY <1>2, StreamTypes DEF SendLLM, Running
  <2>2. pc' \in [Agents -> PCs]
    BY <1>2 DEF SendLLM, TypeOK, PCs
  <2>3. attempts' \in [Agents -> 0..CHAT_RETRIES]
    <3>1. n \in 0..CHAT_RETRIES
      BY BoundAssumption
    <3>2. attempts' = [attempts EXCEPT ![a] = n]
      BY <1>2 DEF SendLLM
    <3> QED
      BY <3>1, <3>2 DEF TypeOK
  <2> QED
    BY <1>2, <2>1, <2>2, <2>3 DEF SendLLM, TypeOK, ghosts
<1> QED
  BY <1>1, <1>2

LEMMA StopIdleType ==
    ASSUME TypeOK, NEW a \in Agents, StopIdle(a),
           UNCHANGED <<cp, sending, waiting, micro, toolOf, ghosts>>
    PROVE  TypeOK'
<1>1. End(a)
  BY DEF StopIdle
<1> QED
  BY <1>1, EndType, StreamTypes DEF StopIdle, TypeOK, ghosts

LEMMA SupersededType ==
    ASSUME TypeOK, NEW a \in Agents, Superseded(a),
           UNCHANGED <<cp, sending, waiting, micro, toolOf, ghosts>>
    PROVE  TypeOK'
<1>1. End(a)
  BY DEF Superseded
<1> QED
  BY <1>1, EndType DEF Superseded, TypeOK, ghosts

LEMMA ResumeAbortsType ==
    ASSUME TypeOK, NEW a \in Agents, NEW how \in {"tool", "noop"}, NEW rest \in Seq(Jobs),
           ResumeAborts(a, how, rest)
    PROVE  micro' \in Seq(Jobs) /\ waiting' \in [Agents -> Seq(After)]
<1>1. waiting[a] \in Seq(After) /\ << >> \in Seq(After)
  BY DEF TypeOK
<1>2. \A i \in 1..Len(waiting[a]) : Job("interrupt", a, how, waiting[a][i]) \in Jobs
  BY <1>1, JobType
<1>3. Resumed(a, how) \in Seq(Jobs)
  BY <1>1, <1>2 DEF Resumed
<1> QED
  BY <1>1, <1>3 DEF ResumeAborts, TypeOK

-----------------------------------------------------------------------------
\* Every step keeps the types.

LEMMA HeadJob ==
    ASSUME TypeOK, micro # << >>
    PROVE  /\ 1 \in 1..Len(micro) /\ Head(micro) = micro[1]
           /\ Head(micro) \in Jobs /\ Tail(micro) \in Seq(Jobs)
           /\ Head(micro).on \in Agents \cup {NoAgent}
           /\ Head(micro).after \in After
           /\ Head(micro).after.op \in {"stop", "edit", "content"}
           /\ Head(micro).after.idx \in Nat
<1>1. micro \in Seq(Jobs)
  BY DEF TypeOK
<1>2. Head(micro) \in Jobs /\ Tail(micro) \in Seq(Jobs) /\ 1 \in 1..Len(micro) /\ Head(micro) = micro[1]
  BY <1>1
<1>3. Head(micro).on \in Agents \cup {NoAgent} /\ Head(micro).after \in After
  BY <1>2 DEF Jobs
<1> QED
  BY <1>2, <1>3 DEF After

LEMMA MicrotaskType ==
    ASSUME IInv, Microtask
    PROVE  TypeOK'
<1> DEFINE job == Head(micro)
<1>1. /\ TypeOK
      /\ job \in Jobs /\ Tail(micro) \in Seq(Jobs)
      /\ job.on \in Agents \cup {NoAgent} /\ job.after \in After
      /\ job.after.op \in {"stop", "edit", "content"}
      /\ job.after.idx \in Nat
  BY HeadJob DEF IInv, Microtask
<1>2. CASE RunInterrupt
  <2>1. job.how = "LLM" => job.on \in Agents
    BY HeadJob DEF IInv, Control, JobsOK, Fits, Microtask
  <2>2. /\ pc' \in [Agents -> PCs]
        /\ attempts' \in [Agents -> 0..CHAT_RETRIES]
        /\ idleCut' \in [Agents -> BOOLEAN]
        /\ toolCut' \in [Agents -> BOOLEAN]
        /\ first' \in [Agents -> BOOLEAN]
        /\ cur' \in [Agents -> Calls \cup {NoCall}]
    <3>1. CASE job.how = "LLM"
      BY <1>1, <1>2, <2>1, <3>1, EndType DEF RunInterrupt
    <3>2. CASE job.how # "LLM"
      BY <1>1, <1>2, <3>2 DEF RunInterrupt, TypeOK
    <3> QED
      BY <3>1, <3>2
  <2>3. micro' \in Seq(Jobs)
    <3>1. CASE job.after.op = "stop"
      BY <1>1, <1>2, <3>1 DEF RunInterrupt
    <3>2. CASE job.after.op # "stop"
      <4>1. Job(job.after.op, NoAgent, "noop", job.after) \in Jobs
        BY <1>1, <3>2, JobType
      <4>2. micro' = Append(Tail(micro), Job(job.after.op, NoAgent, "noop", job.after))
        BY <1>2, <3>2 DEF RunInterrupt
      <4> QED
        BY <1>1, <4>1, <4>2
    <3> QED
      BY <3>1, <3>2
  <2>4. stream' \in Stream
    BY <1>2, StreamTypes DEF RunInterrupt
  <2>5. UNCHANGED <<thread, sending, waiting, toolOf, ghosts>>
    BY <1>2 DEF RunInterrupt
  <2> QED
    BY <1>1, <2>2, <2>3, <2>4, <2>5 DEF TypeOK, thread, ghosts
<1>3. CASE RunEdit
  <2> DEFINE idx == job.after.idx
             cut == FirstOf(messages, idx - 1)
  <2>1. cut \in Seq(Message)
    <3>1. idx - 1 \in Int
      BY <1>1
    <3> QED
      BY <1>1, <3>1, FirstOfType DEF TypeOK
  <2>2. Shown(cut, stream) \in Seq(Message) /\ ShownStream(cut, stream) \in Stream
    BY <1>1, <2>1, ShownType, StreamTypes DEF TypeOK
  <2>3. <<Job("send", NoAgent, "noop", Stop)>> \o Tail(micro) \in Seq(Jobs)
    <3>1. Stop \in After
      BY DEF Stop, After
    <3>2. Job("send", NoAgent, "noop", Stop) \in Jobs
      BY <3>1, JobType
    <3> QED
      BY <1>1, <3>2
  <2>4. messages' \in Seq(Message) /\ disk' \in [messages : Seq(Message), cp : Nat] /\ stream' \in Stream
    BY <1>1, <1>3, <2>2 DEF RunEdit, TypeOK
  <2>5. micro' \in Seq(Jobs)
    BY <1>1, <1>3, <2>3 DEF RunEdit
  <2>6. UNCHANGED <<cp, sending, waiting, agent, toolOf, ghosts>>
    BY <1>3 DEF RunEdit
  <2> QED
    BY <1>1, <2>4, <2>5, <2>6 DEF TypeOK, agent, ghosts
<1>4. CASE RunSend
  <2>1. CASE stream.run # "none"
    <3>1. [op |-> "content", idx |-> 0] \in After
      BY DEF After
    <3> QED
      BY <1>1, <1>4, <2>1, <3>1, AbortType DEF RunSend
  <2>2. CASE stream.run = "none"
    <3>1. messages' \in Seq(Message) /\ disk' \in [messages : Seq(Message), cp : Nat]
      <4>1. <<Checkpoint>> \in Seq(Message)
        BY MessageTypes
      <4>2. Store(<<Checkpoint>>) \/ UNCHANGED <<messages, disk>>
        BY <1>4, <2>2 DEF RunSend, DummyCheckpoint
      <4> QED
        BY <1>1, <4>1, <4>2, StoreType DEF TypeOK
    <3>2. /\ sending' = sending + 1
          /\ micro' = Tail(micro)
          /\ UNCHANGED <<cp, stream, waiting, agent, toolOf, ghosts>>
      BY <1>4, <2>2 DEF RunSend
    <3> QED
      BY <1>1, <3>1, <3>2 DEF TypeOK, agent, ghosts
  <2> QED
    BY <2>1, <2>2
<1>5. CASE RunContent
  BY <1>1, <1>5 DEF RunContent, TypeOK, thread, agent, ghosts
<1>6. CASE RunLoop
  <2>1. job.on \in Agents
    BY <1>1, <1>6, HeadJob DEF RunLoop, IInv, Control, JobsOK, Fits, Microtask
  <2>2. NextMessage(job.on) /\ micro' = Tail(micro) /\ UNCHANGED <<thread, sending, waiting, toolOf, ghosts>>
    BY <1>6 DEF RunLoop
  <2> QED
    BY <1>1, <2>1, <2>2, NextMessageType DEF TypeOK, thread, ghosts
<1> QED
  BY <1>2, <1>3, <1>4, <1>5, <1>6 DEF Microtask

LEMMA UserType ==
    ASSUME IInv,
           Send \/ ContentFails \/ StopClick \/ EditClick \/ Reject \/ Jump \/ Touch \/ Dismiss \/ Restart
    PROVE  TypeOK'
<1>1. /\ TypeOK
      /\ messages \in Seq(Message) /\ disk.messages \in Seq(Message)
      /\ cp \in Nat /\ disk.cp \in Nat /\ stream \in Stream
  BY DEF IInv, TypeOK
<1>2. Stop \in After /\ << >> \in Seq(Jobs)
  BY DEF Stop, After
<1>3. CASE Send
  <2> DEFINE kept == FirstOf(messages, cp)
  <2>1. Shown(kept, stream) \in Seq(Message) /\ ShownStream(kept, stream) \in Stream
    <3>1. cp \in Int
      BY <1>1
    <3>2. kept \in Seq(Message)
      BY <1>1, <3>1, FirstOfType
    <3> QED
      BY <1>1, <3>2, ShownType, StreamTypes
  <2>2. /\ messages' \in Seq(Message)
        /\ disk' \in [messages : Seq(Message), cp : Nat]
        /\ stream' \in Stream
    <3>1. CASE cp # 0
      BY <1>1, <1>3, <2>1, <3>1, StoreType DEF Send
    <3>2. CASE cp = 0
      BY <1>1, <1>3, <3>2 DEF Send, TypeOK
    <3> QED
      BY <3>1, <3>2
  <2>3. micro' \in Seq(Jobs)
    BY <1>2, <1>3, JobType DEF Send
  <2>4. UNCHANGED <<cp, sending, waiting, agent, toolOf, ghosts>>
    BY <1>3 DEF Send
  <2> QED
    BY <1>1, <2>2, <2>3, <2>4 DEF TypeOK, agent, ghosts
<1>4. CASE StopClick
  BY <1>2, <1>4, AbortType DEF StopClick
<1>5. CASE EditClick
  <2>1. PICK i \in 1..Len(messages) : Abort([op |-> "edit", idx |-> i], << >>)
    BY <1>5 DEF EditClick
  <2>2. [op |-> "edit", idx |-> i] \in After
    BY <1>1 DEF After
  <2> QED
    BY <1>2, <2>1, <2>2, AbortType
<1>6. CASE Reject
  <2>1. LastCall(messages) \in Calls
    BY <1>1, <1>6, LastToolCall DEF Reject
  <2>2. messages' \in Seq(Message) /\ disk' \in [messages : Seq(Message), cp : Nat]
    BY <1>1, <1>6, RejectedType, StoreType DEF Reject
  <2>3. stream' \in Stream /\ denied' \subseteq Calls
    BY <1>1, <1>6, <2>1, StreamTypes DEF Reject, TypeOK
  <2>4. UNCHANGED <<cp, sending, waiting, micro, agent, toolOf, runs>>
    BY <1>6 DEF Reject
  <2> QED
    BY <1>1, <2>2, <2>3, <2>4 DEF TypeOK, agent
<1>7. CASE Jump
  <2> DEFINE standing == IF cp = 0 THEN Len(messages) ELSE cp
             hist == IF cp = 0 /\ LastKind(messages) # "checkpoint"
                     THEN Append(messages, Checkpoint) ELSE messages
  <2>1. standing \in Nat /\ hist \in Seq(Message)
    BY <1>1, MessageTypes
  <2>2. Shown(hist, stream) \in Seq(Message) /\ ShownStream(hist, stream) \in Stream
    BY <1>1, <2>1, ShownType, StreamTypes
  <2>3. cp' \in Nat
    BY <1>1, <1>7 DEF Jump
  <2>4. messages' = Shown(hist, stream) /\ stream' = ShownStream(hist, stream)
    BY <1>7 DEF Jump
  <2>5. \/ disk' = [messages |-> messages', cp |-> standing]
        \/ disk' = [messages |-> hist, cp |-> 0]
        \/ disk' = disk
    BY <1>7 DEF Jump
  <2>6. UNCHANGED <<sending, waiting, micro, agent, toolOf, ghosts>>
    BY <1>7 DEF Jump
  <2>7. disk' \in [messages : Seq(Message), cp : Nat]
    <3>1. messages' \in Seq(Message) /\ disk \in [messages : Seq(Message), cp : Nat]
      BY <1>1, <2>2, <2>4 DEF TypeOK
    <3> HIDE DEF standing, hist
    <3> QED
      BY <2>1, <2>5, <3>1
  <2> QED
    BY <1>1, <2>2, <2>3, <2>4, <2>6, <2>7 DEF TypeOK, agent, ghosts
<1>8. CASE Touch
  <2>1. Shown(messages, stream) \in Seq(Message) /\ ShownStream(messages, stream) \in Stream
    BY <1>1, ShownType, StreamTypes
  <2>2. disk' \in [messages : Seq(Message), cp : Nat]
    BY <1>1, <1>8, <2>1 DEF Touch, TypeOK
  <2> QED
    BY <1>1, <1>8, <2>1, <2>2 DEF Touch, TypeOK, agent, ghosts
<1>9. CASE Dismiss
  BY <1>1, <1>9, StreamTypes DEF Dismiss, TypeOK, thread, agent, ghosts
<1>12. CASE ContentFails
  BY <1>1, <1>12 DEF ContentFails, TypeOK, thread, agent, ghosts
<1>10. CASE Restart
  <2>1. Idle \in Stream
    BY StreamTypes
  <2>2. Shown(disk.messages, Idle) \in Seq(Message) /\ ShownStream(disk.messages, Idle) \in Stream
    BY <1>1, <2>1, ShownType, StreamTypes
  <2>3. disk' \in [messages : Seq(Message), cp : Nat]
    BY <1>1, <1>10, <2>2 DEF Restart, TypeOK
  <2>4. pc' \in [Agents -> PCs]
    BY <1>1, <1>10 DEF Restart, TypeOK, PCs
  <2>5. /\ attempts' \in [Agents -> 0..CHAT_RETRIES]
        /\ idleCut' \in [Agents -> BOOLEAN] /\ toolCut' \in [Agents -> BOOLEAN]
        /\ first' \in [Agents -> BOOLEAN]
        /\ cur' \in [Agents -> Calls \cup {NoCall}]
        /\ waiting' \in [Agents -> Seq(After)]
    BY <1>10, BoundAssumption DEF Restart
  <2> QED
    BY <1>1, <1>10, <2>2, <2>3, <2>4, <2>5 DEF Restart, TypeOK, ghosts
<1> QED
  BY <1>3, <1>4, <1>5, <1>6, <1>7, <1>8, <1>9, <1>10, <1>12

LEMMA AgentType ==
    ASSUME Control, TypeOK, NEW a \in Agents,
           ContentReady(a) \/ Approve(a) \/ LLMText(a) \/ AgentStep(a)
    PROVE  TypeOK'
<1>1. IInv /\ messages \in Seq(Message) /\ stream \in Stream
  BY DEF IInv, TypeOK
<1>2. CASE ContentReady(a)
  <2>1. Append(messages, Plain("user")) \in Seq(Message)
    BY <1>1, MessageTypes DEF Roles
  <2>2. messages' \in Seq(Message) /\ disk' \in [messages : Seq(Message), cp : Nat]
    BY <1>2, <2>1, StoreType DEF ContentReady
  <2>3. sending' \in Nat /\ cp' \in Nat
    BY <1>2 DEF ContentReady, TypeOK
  <2>4. NextMessage(a) /\ UNCHANGED <<waiting, micro, toolOf, ghosts>>
    BY <1>2 DEF ContentReady
  <2> QED
    BY <2>2, <2>3, <2>4, NextMessageType DEF TypeOK, ghosts
<1>3. CASE Approve(a)
  <2>1. LastCall(messages) \in Calls
    BY <1>1, <1>3, LastToolCall DEF Approve, Approvable, ToolTypes
  <2>2. /\ StartTool(a, LastCall(messages), toolOf[LastCall(messages)], messages, stream, TRUE)
        /\ UNCHANGED <<cp, sending, waiting, attempts, idleCut, toolCut, toolOf, denied>>
    BY <1>3 DEF Approve
  <2> QED
    BY <1>1, <2>1, <2>2, StartToolType DEF TypeOK
<1>4. CASE LLMText(a)
  BY <1>4, StreamTypes DEF LLMText, TypeOK, Running, thread, agent, ghosts
<1>13. CASE PrepareFails(a)
  BY <1>13 DEF PrepareFails, TypeOK, PCs, thread, ghosts
<1>5. CASE Prepared(a)
  <2>1. 1 \in 1..CHAT_RETRIES
    BY BoundAssumption
  <2> QED
    BY <1>5, <2>1, SendLLMType, StopIdleType DEF Prepared
<1>6. CASE RetryTimer(a)
  <2>1. AttemptAfter(a) \in 1..CHAT_RETRIES
    BY <1>6, BoundAssumption DEF RetryTimer, AttemptAfter, Control, LoopsOK, TypeOK
  <2> QED
    BY <1>6, <2>1, SendLLMType, StopIdleType DEF RetryTimer
<1>7. CASE LLMError(a)
  <2>1. UNCHANGED <<cp, sending, waiting, micro, toolOf, ghosts>>
    BY <1>7 DEF LLMError
  <2>2. CASE Superseded(a)
    BY <2>1, <2>2, SupersededType
  <2>3. CASE ~Superseded(a) /\ MayRetry(a)
    <3>1. /\ stream' = On("idle", a)
          /\ pc' = [pc EXCEPT ![a] = "retry"]
          /\ UNCHANGED <<messages, disk, attempts, idleCut, toolCut, first, cur>>
      BY <1>7, <2>3 DEF LLMError
    <3> QED
      BY <2>1, <3>1, StreamTypes DEF TypeOK, PCs, Running, ghosts
  <2>4. CASE ~Superseded(a) /\ ~MayRetry(a)
    <3>1. PICK w \in BOOLEAN : Store(AbortedHistory(w))
      BY <1>7, <2>4 DEF LLMError
    <3>2. messages' \in Seq(Message) /\ disk' \in [messages : Seq(Message), cp : Nat]
      BY <3>1, AbortedHistoryType, StoreType DEF Control
    <3>3. stream' = Failed /\ End(a)
      BY <1>7, <2>4 DEF LLMError
    <3> QED
      BY <2>1, <3>2, <3>3, EndType, StreamTypes DEF TypeOK, ghosts
  <2> QED
    BY <2>2, <2>3, <2>4
<1>8. CASE LLMFinal(a)
  <2>1. UNCHANGED <<cp, sending, waiting, micro, toolOf, ghosts>>
    BY <1>8 DEF LLMFinal
  <2>2. CASE Superseded(a)
    BY <2>1, <2>2, SupersededType
  <2>3. CASE ~Superseded(a)
    <3>1. Append(messages, Plain("assistant")) \in Seq(Message)
      BY <1>1, MessageTypes DEF Roles
    <3>2. Finish(a, Append(messages, Plain("assistant")))
      BY <1>8, <2>3 DEF LLMFinal
    <3>3. End(a)
      BY <3>2 DEF Finish
    <3> QED
      BY <2>1, <3>1, <3>2, <3>3, FinishType, EndType DEF TypeOK, ghosts
  <2> QED
    BY <2>2, <2>3
<1>9. CASE LLMFinalWithTool(a)
  <2>1. PICK c \in Calls, tool \in Tools :
          LET said == Append(messages, Plain("assistant"))
              kept == IF tool.edit THEN Append(said, Checkpoint) ELSE said
          IN
          /\ toolOf' = [toolOf EXCEPT ![c] = tool]
          /\ \/ /\ Store(Append(said, ToolMsg("invalid_params", c)))
                /\ NextMessage(a)
                /\ UNCHANGED <<runs, micro>>
             \/ /\ Store(Append(kept, ToolMsg("tool_request", c)))
                /\ stream' = Awaiting
                /\ End(a)
                /\ UNCHANGED <<runs, micro>>
             \/ /\ StartTool(a, c, tool, kept, On("idle", a), FALSE)
                /\ UNCHANGED <<attempts, idleCut, toolCut>>
    BY <1>9, Zenon DEF LLMFinalWithTool
  <2> DEFINE said == Append(messages, Plain("assistant"))
             kept == IF tool.edit THEN Append(said, Checkpoint) ELSE said
  <2>2. toolOf' \in [Calls -> Tools \cup {NoTool}]
    BY <2>1 DEF TypeOK
  <2>3. UNCHANGED <<cp, sending, waiting, denied>>
    BY <1>9 DEF LLMFinalWithTool
  <2>4. said \in Seq(Message) /\ kept \in Seq(Message)
    BY <1>1, MessageTypes DEF Roles
  <2> HIDE DEF kept, said
  <2>5. CASE /\ Store(Append(said, ToolMsg("invalid_params", c)))
             /\ NextMessage(a)
             /\ UNCHANGED <<runs, micro>>
    <3>1. Append(said, ToolMsg("invalid_params", c)) \in Seq(Message)
      <4>1. ToolMsg("invalid_params", c) \in Message
        BY MessageTypes
      <4> QED
        BY <2>4, <4>1
    <3> QED
      BY <2>2, <2>3, <2>5, <3>1, StoreType, NextMessageType DEF TypeOK
  <2>6. CASE /\ Store(Append(kept, ToolMsg("tool_request", c)))
             /\ stream' = Awaiting
             /\ End(a)
             /\ UNCHANGED <<runs, micro>>
    <3>1. Append(kept, ToolMsg("tool_request", c)) \in Seq(Message)
      BY <2>4, MessageTypes DEF ToolTypes
    <3> QED
      BY <2>2, <2>3, <2>6, <3>1, StoreType, EndType, StreamTypes DEF TypeOK
  <2>7. CASE /\ StartTool(a, c, tool, kept, On("idle", a), FALSE)
             /\ UNCHANGED <<attempts, idleCut, toolCut>>
    <3>1. On("idle", a) \in Stream
      BY StreamTypes DEF Running
    <3>2. /\ messages' \in Seq(Message)
          /\ disk' \in [messages : Seq(Message), cp : Nat]
          /\ stream' \in Stream
          /\ pc' \in [Agents -> PCs]
          /\ first' \in [Agents -> BOOLEAN]
          /\ cur' \in [Agents -> Calls \cup {NoCall}]
          /\ runs' \in [Calls -> Nat]
          /\ micro' = micro
      BY <1>1, <2>4, <2>7, <3>1, StartToolType
    <3> QED
      BY <2>2, <2>3, <2>7, <3>2 DEF TypeOK
  <2> QED
    BY <2>1, <2>5, <2>6, <2>7 DEF said, kept
<1>10. CASE CallToolReturned(a)
  <2>1. micro' \in Seq(Jobs) /\ waiting' \in [Agents -> Seq(After)]
    <3>1. << >> \in Seq(Jobs) /\ "tool" \in {"tool", "noop"}
      OBVIOUS
    <3>2. ResumeAborts(a, "tool", << >>)
      BY <1>10 DEF CallToolReturned
    <3> QED
      BY <3>1, <3>2, ResumeAbortsType
  <2> QED
    BY <1>10, <2>1 DEF CallToolReturned, TypeOK, PCs, ToolPCs, thread, ghosts
<1>11. CASE CallToolThrew(a)
  <2>1. <<Job("loop", a, "noop", Stop)>> \in Seq(Jobs)
    <3>1. Stop \in After
      BY DEF Stop, After
    <3> QED
      BY <3>1, JobType
  <2>2. micro' \in Seq(Jobs) /\ waiting' \in [Agents -> Seq(After)]
    BY <1>11, <2>1, ResumeAbortsType DEF CallToolThrew
  <2>3. cur[a] \in Calls
    BY <1>11 DEF CallToolThrew, Control, LoopsOK, ToolPCs
  <2>4. ToolMsg("tool_error", cur[a]) \in Message
    BY <2>3, MessageTypes DEF ToolTypes
  <2>5. UpdateLatestTool(messages, ToolMsg("tool_error", cur[a])) \in Seq(Message)
    BY <1>1, <2>4, UpdateLatestToolType
  <2>6. messages' \in Seq(Message) /\ disk' \in [messages : Seq(Message), cp : Nat]
    BY <1>11, <2>5, StoreType DEF CallToolThrew
  <2>7. pc' \in [Agents -> PCs]
    BY <1>11 DEF CallToolThrew, TypeOK, PCs, ToolPCs
  <2>8. UNCHANGED <<cp, stream, sending, attempts, idleCut, toolCut, first, cur, toolOf, ghosts>>
    BY <1>11 DEF CallToolThrew
  <2> QED
    BY <2>2, <2>6, <2>7, <2>8 DEF TypeOK, ghosts
<1>12. CASE ToolResult(a)
  <2>1. UNCHANGED <<cp, sending, waiting, micro, toolOf, ghosts>>
    BY <1>12 DEF ToolResult
  <2>2. CASE toolCut[a] /\ ~first[a]
    BY <1>12, <2>1, <2>2, StopIdleType DEF ToolResult
  <2>3. CASE ~(toolCut[a] /\ ~first[a])
    <3>1. cur[a] \in Calls
      BY <1>12 DEF ToolResult, Control, LoopsOK, ToolPCs
    <3>2. \A t \in {"success", "tool_error"} : ToolMsg(t, cur[a]) \in Message
      BY <3>1, MessageTypes DEF ToolTypes
    <3>3. \A t \in {"success", "tool_error"} :
            UpdateLatestTool(messages, ToolMsg(t, cur[a])) \in Seq(Message)
      BY <1>1, <3>2, UpdateLatestToolType
    <3>4. Append(messages, Checkpoint) \in Seq(Message)
      BY <1>1, MessageTypes
    <3>5. messages' \in Seq(Message) /\ disk' \in [messages : Seq(Message), cp : Nat]
      BY <1>12, <2>3, <3>3, <3>4, StoreType DEF ToolResult
    <3>6. NextMessage(a)
      BY <1>12, <2>3 DEF ToolResult
    <3> QED
      BY <2>1, <3>5, <3>6, NextMessageType DEF TypeOK, ghosts
  <2> QED
    BY <2>2, <2>3
<1> QED
  BY <1>2, <1>3, <1>4, <1>5, <1>6, <1>7, <1>8, <1>9, <1>10, <1>11, <1>12, <1>13 DEF AgentStep

LEMMA InitHolds == Init => IInv
<1> SUFFICES ASSUME Init PROVE IInv
  OBVIOUS
<1>1. TypeOK
  <2>1. << >> \in Seq(Message) /\ << >> \in Seq(After) /\ << >> \in Seq(Jobs)
    OBVIOUS
  <2> QED
    BY <2>1, StreamTypes, BoundAssumption DEF Init, TypeOK, PCs
<1>2. StreamOwned /\ LoopsOK /\ NoDeadSpinner /\ CutPlaces
  BY AgentAssumption DEF Init, Idle, StreamOwned, LoopsOK, NoDeadSpinner, CutPlaces, Running, ToolPCs
<1>3. JobsOK
  BY DEF Init, JobsOK
<1> QED
  BY <1>1, <1>2, <1>3 DEF IInv, Control

LEMMA TypeStep == IInv /\ [Next]_vars => TypeOK'
<1> SUFFICES ASSUME IInv, [Next]_vars PROVE TypeOK'
  OBVIOUS
<1>1. CASE Microtask
  BY <1>1, MicrotaskType
<1>2. CASE Send \/ ContentFails \/ StopClick \/ EditClick \/ Reject \/ Jump \/ Touch \/ Dismiss \/ Restart
  BY <1>2, UserType
<1>3. CASE \E a \in Agents : ContentReady(a) \/ Approve(a) \/ LLMText(a) \/ AgentStep(a)
  BY <1>3, AgentType DEF IInv
<1>4. CASE UNCHANGED vars
  BY <1>4 DEF IInv, TypeOK, vars
<1> QED
  BY <1>1, <1>2, <1>3, <1>4 DEF Next

-----------------------------------------------------------------------------
\* Every step keeps the control invariants.

\* The queue after a microtask: what is left of it, and new jobs that fit.
LEMMA JobsKept ==
    ASSUME TypeOK, JobsOK,
           \A k \in 1..Len(micro') :
               \/ \E i \in 2..Len(micro) : micro'[k] = micro[i]
               \/ Fits(micro'[k], pc', stream'.run) /\ micro'[k].how # "LLM",
           \A i \in 2..Len(micro) :
               Fits(micro[i], pc, stream.run) => Fits(micro[i], pc', stream'.run)
    PROVE  JobsOK'
<1> SUFFICES ASSUME NEW k \in 1..Len(micro')
             PROVE  Fits(micro'[k], pc', stream'.run) /\ micro'[k].how # "LLM"
  BY DEF JobsOK
<1>1. CASE \E i \in 2..Len(micro) : micro'[k] = micro[i]
  <2>1. PICK i \in 2..Len(micro) : micro'[k] = micro[i]
    BY <1>1
  <2>2. Len(micro) \in Nat
    BY DEF TypeOK
  <2>3. i \in 1..Len(micro) /\ Len(micro) # 1
    BY <2>2
  <2> QED
    BY <2>1, <2>3 DEF JobsOK
<1>2. CASE ~\E i \in 2..Len(micro) : micro'[k] = micro[i]
  BY <1>2
<1> QED
  BY <1>1, <1>2

LEMMA TailJobs ==
    ASSUME TypeOK, micro # << >>
    PROVE  /\ Len(Tail(micro)) \in Nat
           /\ \A k \in 1..Len(Tail(micro)) : \E i \in 2..Len(micro) : Tail(micro)[k] = micro[i]
<1>1. micro \in Seq(Jobs) /\ Tail(micro) \in Seq(Jobs) /\ Len(Tail(micro)) = Len(micro) - 1
  BY HeadTailProperties DEF TypeOK
<1>2. \A k \in 1..Len(Tail(micro)) : k + 1 \in 2..Len(micro) /\ Tail(micro)[k] = micro[k + 1]
  BY <1>1, HeadTailProperties
<1> QED
  BY <1>1, <1>2

LEMMA NoJobs ==
    ASSUME micro' = << >>
    PROVE  JobsOK'
  BY DEF JobsOK

\* The stream state and the loops are as before, or the stream state is cleared.
LEMMA AbortControl ==
    ASSUME IInv, NEW after, NEW rest \in Seq(Jobs), Abort(after, rest)
    PROVE  /\ (StreamOwned /\ LoopsOK /\ NoDeadSpinner /\ CutPlaces)'
           /\ stream'.run \in {stream.run, "none"}
           /\ pc' = pc
           /\ \/ micro' = rest
              \/ /\ micro' = Append(rest, Job("interrupt", stream.by, Interruptor, after))
                 /\ Fits(Job("interrupt", stream.by, Interruptor, after), pc', stream'.run)
                 /\ Interruptor = "LLM" => stream.run = "LLM"
<1>1. stream' = stream \/ stream' = Idle
  BY DEF Abort
<1>2. /\ pc' = pc /\ attempts' = attempts /\ idleCut' = idleCut
      /\ toolCut' = toolCut /\ cur' = cur
  BY DEF Abort, agent
<1>3. LoopsOK' /\ CutPlaces'
  BY <1>2 DEF IInv, Control, LoopsOK, CutPlaces
<1>4. StreamOwned' /\ NoDeadSpinner'
  BY <1>1, <1>2, AgentAssumption DEF IInv, Control, StreamOwned, NoDeadSpinner, Idle, Running
<1>5. stream'.run \in {stream.run, "none"}
  BY <1>1 DEF Idle
<1>6. Fits(Job("interrupt", stream.by, Interruptor, after), pc', stream'.run)
  BY <1>2 DEF Fits, Job, Interruptor, IInv, Control, StreamOwned, NoDeadSpinner, Running
<1>7. Interruptor = "LLM" => stream.run = "LLM"
  BY DEF Interruptor
<1>8. \/ micro' = rest
      \/ micro' = Append(rest, Job("interrupt", stream.by, Interruptor, after))
  BY DEF Abort
<1> QED
  BY <1>2, <1>3, <1>4, <1>5, <1>6, <1>7, <1>8

\* The loops are as before, and the stream state at most shows a request.
LEMMA StreamKept ==
    ASSUME StreamOwned, LoopsOK, NoDeadSpinner, CutPlaces,
           stream' \in {stream, Awaiting, Idle, Failed},
           UNCHANGED <<pc, attempts, idleCut, toolCut, cur>>
    PROVE  (StreamOwned /\ LoopsOK /\ NoDeadSpinner /\ CutPlaces)'
<1>1. LoopsOK' /\ CutPlaces'
  BY DEF LoopsOK, CutPlaces
<1>2. StreamOwned' /\ NoDeadSpinner'
  BY AgentAssumption DEF StreamOwned, NoDeadSpinner, Awaiting, Idle, Failed, Running
<1> QED
  BY <1>1, <1>2

\* Only the head of the queue is gone.
LEMMA QueueShortened ==
    ASSUME IInv, micro # << >>, micro' = Tail(micro),
           UNCHANGED <<stream, pc, attempts, idleCut, toolCut, cur>>
    PROVE  Control'
<1>1. (StreamOwned /\ LoopsOK /\ NoDeadSpinner /\ CutPlaces)'
  BY StreamKept DEF IInv, Control
<1>2. \A k \in 1..Len(micro') : \E i \in 2..Len(micro) : micro'[k] = micro[i]
  BY TailJobs DEF IInv
<1>3. JobsOK'
  BY <1>2, JobsKept DEF IInv, Control
<1> QED
  BY <1>1, <1>3 DEF Control

\* The loop of a goes on to its next message.
LEMMA NextMessageControl ==
    ASSUME TypeOK, StreamOwned, LoopsOK, NoDeadSpinner, CutPlaces,
           NEW a \in Agents, NextMessage(a), idleCut[a] => pc[a] \in {"prepare", "retry", "dead"}
    PROVE  (StreamOwned /\ LoopsOK /\ NoDeadSpinner /\ CutPlaces)'
<1>1. LoopsOK'
  BY DEF LoopsOK, NextMessage, TypeOK, ToolPCs
<1>2. CutPlaces'
  BY DEF CutPlaces, NextMessage, TypeOK
<1>3. StreamOwned' /\ NoDeadSpinner'
  BY DEF StreamOwned, NoDeadSpinner, NextMessage, TypeOK, On, Running
<1> QED
  BY <1>1, <1>2, <1>3

LEMMA MicrotaskControl ==
    ASSUME IInv, Microtask
    PROVE  Control'
<1> DEFINE job == Head(micro)
<1>1. /\ TypeOK /\ micro # << >> /\ JobsOK
      /\ job = micro[1] /\ job \in Jobs
      /\ Fits(job, pc, stream.run) /\ (job.how = "LLM" => Len(micro) = 1)
  BY HeadJob DEF IInv, Control, JobsOK, Microtask
<1>2. CASE RunInterrupt
  <2>1. stream' = Idle
    BY <1>2 DEF RunInterrupt
  <2>2. StreamOwned' /\ NoDeadSpinner'
    BY <2>1, AgentAssumption DEF StreamOwned, NoDeadSpinner, Idle, Running
  <2>3. CASE job.how = "LLM"
    <3>1. End(job.on) /\ job.on \in Agents /\ Len(micro) = 1
      BY <1>1, <1>2, <2>3 DEF RunInterrupt, Fits
    <3>2. LoopsOK' /\ CutPlaces'
      BY <1>1, <3>1 DEF End, IInv, Control, LoopsOK, CutPlaces, TypeOK, ToolPCs
    <3>3. \A k \in 1..Len(micro') :
              \/ \E i \in 2..Len(micro) : micro'[k] = micro[i]
              \/ Fits(micro'[k], pc', stream'.run) /\ micro'[k].how # "LLM"
      <4>1. Tail(micro) = << >>
        <5>1. Tail(micro) \in Seq(Jobs) /\ Len(Tail(micro)) = 0
          BY <1>1, <3>1, HeadTailProperties DEF TypeOK
        <5> QED
          BY <5>1, EmptySeq
      <4>2. \/ micro' = << >>
            \/ /\ micro' = Append(<< >>, Job(job.after.op, NoAgent, "noop", job.after))
               /\ job.after.op \in {"edit", "content"}
        BY <1>1, <1>2, <4>1, HeadJob DEF RunInterrupt
      <4>3. \A op \in {"edit", "content"} :
              Fits(Job(op, NoAgent, "noop", job.after), pc', stream'.run)
        BY <2>1 DEF Fits, Job, Idle
      <4> QED
        BY <4>2, <4>3 DEF Job
    <3> QED
      BY <1>1, <2>2, <3>1, <3>2, <3>3, JobsKept DEF Control
  <2>4. CASE job.how # "LLM"
    <3>1. UNCHANGED <<pc, attempts, first, cur>>
      BY <1>2, <2>4 DEF RunInterrupt
    <3>2. LoopsOK'
      BY <3>1 DEF IInv, Control, LoopsOK
    <3>3. CutPlaces'
      BY <1>1, <1>2, <2>4, <3>1 DEF RunInterrupt, IInv, Control, CutPlaces, TypeOK, Fits
    <3>4. \A k \in 1..Len(micro') :
              \/ \E i \in 2..Len(micro) : micro'[k] = micro[i]
              \/ Fits(micro'[k], pc', stream'.run) /\ micro'[k].how # "LLM"
      <4>1. \/ micro' = Tail(micro)
            \/ /\ micro' = Append(Tail(micro), Job(job.after.op, NoAgent, "noop", job.after))
               /\ job.after.op \in {"edit", "content"}
        BY <1>1, <1>2, HeadJob DEF RunInterrupt
      <4>2. \A op \in {"edit", "content"} :
              /\ Fits(Job(op, NoAgent, "noop", job.after), pc', stream'.run)
              /\ Job(op, NoAgent, "noop", job.after).how # "LLM"
        BY <2>1 DEF Fits, Job, Idle
      <4>3. Tail(micro) \in Seq(Jobs)
        BY <1>1, HeadJob
      <4> QED
        BY <1>1, <4>1, <4>2, <4>3, TailJobs
    <3>5. \A i \in 2..Len(micro) :
              Fits(micro[i], pc, stream.run) => Fits(micro[i], pc', stream'.run)
      BY <2>1, <3>1 DEF Fits, Idle
    <3> QED
      BY <1>1, <2>2, <3>2, <3>3, <3>4, <3>5, JobsKept DEF Control
  <2> QED
    BY <2>3, <2>4
<1>3. \A op \in {"edit", "send", "content"} : job.op = op => stream.run # "LLM"
  BY <1>1 DEF Fits
<1>4. Tail(micro) \in Seq(Jobs)
  BY <1>1, HeadJob
<1>5. CASE RunEdit
  <2> DEFINE cut == FirstOf(messages, job.after.idx - 1)
             new == Job("send", NoAgent, "noop", Stop)
  <2>1. stream.run # "LLM"
    BY <1>3, <1>5 DEF RunEdit
  <2>2. stream' \in {stream, Awaiting} /\ (stream' # stream => stream.run = "none")
    <3>1. job.after.idx - 1 \in Int
      BY <1>1, HeadJob
    <3>2. cut \in Seq(Message) /\ stream \in Stream
      BY <1>1, <3>1, FirstOfType DEF TypeOK
    <3> QED
      BY <1>5, <3>2, ShownType DEF RunEdit
  <2>3. UNCHANGED <<pc, attempts, idleCut, toolCut, cur>>
    BY <1>5 DEF RunEdit, agent
  <2>4. (StreamOwned /\ LoopsOK /\ NoDeadSpinner /\ CutPlaces)'
    BY <2>2, <2>3, StreamKept DEF IInv, Control
  <2>5. stream'.run # "LLM"
    BY <2>1, <2>2 DEF Awaiting, Idle
  <2>6. \A k \in 1..Len(micro') :
            \/ \E i \in 2..Len(micro) : micro'[k] = micro[i]
            \/ Fits(micro'[k], pc', stream'.run) /\ micro'[k].how # "LLM"
    <3>1. micro' = <<new>> \o Tail(micro) \/ micro' = Tail(micro)
      BY <1>5 DEF RunEdit
    <3>2. Fits(new, pc', stream'.run) /\ new.how # "LLM"
      BY <2>5 DEF Fits, Job
    <3>3. CASE micro' = Tail(micro)
      BY <1>1, <3>3, TailJobs
    <3>4. CASE micro' = <<new>> \o Tail(micro)
      <4>1. \A k \in 1..Len(micro') : micro'[k] = new \/ \E j \in 1..Len(Tail(micro)) : micro'[k] = Tail(micro)[j]
        <5> HIDE DEF new
        <5> SUFFICES ASSUME NEW k \in 1..Len(micro'), k # 1
                     PROVE  k - 1 \in 1..Len(Tail(micro)) /\ micro'[k] = Tail(micro)[k - 1]
          BY <1>4, <3>4
        <5> QED
          BY <1>4, <3>4
      <4> HIDE DEF new
      <4> QED
        BY <1>1, <3>2, <4>1, TailJobs
    <3> QED
      BY <3>1, <3>3, <3>4
  <2>7. \A i \in 2..Len(micro) :
            Fits(micro[i], pc, stream.run) => Fits(micro[i], pc', stream'.run)
    BY <2>3, <2>5 DEF Fits
  <2> QED
    BY <1>1, <2>4, <2>6, <2>7, JobsKept DEF Control
<1>6. CASE RunSend
  <2> DEFINE new == Job("interrupt", stream.by, Interruptor, [op |-> "content", idx |-> 0])
  <2>1. stream.run # "LLM"
    BY <1>3, <1>6 DEF RunSend
  <2>2. CASE stream.run # "none"
    <3>1. Abort([op |-> "content", idx |-> 0], Tail(micro))
      BY <1>6, <2>2 DEF RunSend
    <3>2. /\ (StreamOwned /\ LoopsOK /\ NoDeadSpinner /\ CutPlaces)'
          /\ stream'.run \in {stream.run, "none"} /\ pc' = pc
          /\ \/ micro' = Tail(micro)
             \/ /\ micro' = Append(Tail(micro), new)
                /\ Fits(new, pc', stream'.run)
                /\ Interruptor = "LLM" => stream.run = "LLM"
      BY <1>4, <3>1, AbortControl
    <3>3. stream'.run # "LLM" /\ (micro' # Tail(micro) => Interruptor # "LLM")
      BY <2>1, <3>2
    <3>4. \A k \in 1..Len(micro') :
              \/ \E i \in 2..Len(micro) : micro'[k] = micro[i]
              \/ Fits(micro'[k], pc', stream'.run) /\ micro'[k].how # "LLM"
      <4>1. new.how = Interruptor
        BY DEF Job
      <4> HIDE DEF new
      <4>2. CASE micro' = Tail(micro)
        BY <1>1, <4>2, TailJobs
      <4>3. CASE micro' # Tail(micro)
        <5>1. /\ micro' = Append(Tail(micro), new)
              /\ Fits(new, pc', stream'.run) /\ new.how # "LLM"
          BY <3>2, <3>3, <4>1, <4>3
        <5>2. \A k \in 1..Len(micro') :
                  micro'[k] = new \/ \E j \in 1..Len(Tail(micro)) : micro'[k] = Tail(micro)[j]
          BY <1>4, <5>1
        <5> QED
          BY <1>1, <5>1, <5>2, TailJobs
      <4> QED
        BY <4>2, <4>3
    <3>5. \A i \in 2..Len(micro) :
              Fits(micro[i], pc, stream.run) => Fits(micro[i], pc', stream'.run)
      BY <3>2, <3>3 DEF Fits
    <3> QED
      BY <1>1, <3>2, <3>4, <3>5, JobsKept DEF Control
  <2>3. CASE stream.run = "none"
    <3>1. micro' = Tail(micro) /\ UNCHANGED <<stream, pc, attempts, idleCut, toolCut, cur>>
      BY <1>6, <2>3 DEF RunSend, agent
    <3> QED
      BY <1>1, <1>4, <3>1, QueueShortened
  <2> QED
    BY <2>2, <2>3
<1>7. CASE RunContent
  <2>1. micro' = Tail(micro) /\ UNCHANGED <<stream, pc, attempts, idleCut, toolCut, cur>>
    BY <1>7 DEF RunContent, agent
  <2> QED
    BY <1>1, <1>4, <2>1, QueueShortened
<1>8. CASE RunLoop
  <2>1. job.on \in Agents /\ pc[job.on] \in {"thrown", "prepare"}
    BY <1>1, <1>8 DEF RunLoop, Fits
  <2>2. NextMessage(job.on) /\ micro' = Tail(micro)
    BY <1>8 DEF RunLoop
  <2>3. stream'.run = "idle" /\ pc' = [pc EXCEPT ![job.on] = "prepare"]
    BY <2>2 DEF NextMessage, On
  <2>4. (StreamOwned /\ LoopsOK /\ NoDeadSpinner /\ CutPlaces)'
    <3>1. idleCut[job.on] => pc[job.on] # "thrown"
      BY <2>1 DEF IInv, Control, CutPlaces
    <3>2. pc[job.on] = "prepare" \/ ~idleCut[job.on]
      BY <2>1, <3>1
    <3> QED
      BY <1>1, <2>1, <2>2, <3>2, NextMessageControl DEF IInv, Control
  <2>5. \A i \in 2..Len(micro) :
            Fits(micro[i], pc, stream.run) => Fits(micro[i], pc', stream'.run)
    BY <1>1, <2>1, <2>3 DEF Fits, TypeOK
  <2>6. \A k \in 1..Len(micro') : \E i \in 2..Len(micro) : micro'[k] = micro[i]
    BY <1>1, <2>2, TailJobs
  <2> QED
    BY <1>1, <2>4, <2>5, <2>6, JobsKept DEF Control
<1> QED
  BY <1>2, <1>5, <1>6, <1>7, <1>8 DEF Microtask

\* The loop of a ends, and the stream state is cleared or is another loop's.
LEMMA EndControl ==
    ASSUME TypeOK, StreamOwned, LoopsOK, NoDeadSpinner, CutPlaces,
           NEW a \in Agents, End(a),
           \/ stream' \in {Idle, Failed, Awaiting}
           \/ stream' = stream /\ pc[a] = "llm" /\ stream.run # "LLM"
    PROVE  (StreamOwned /\ LoopsOK /\ NoDeadSpinner /\ CutPlaces)'
<1>1. LoopsOK' /\ CutPlaces'
  BY DEF LoopsOK, CutPlaces, End, TypeOK, ToolPCs
<1>2. CASE stream' \in {Idle, Failed, Awaiting}
  BY <1>1, <1>2, AgentAssumption
     DEF StreamOwned, NoDeadSpinner, Awaiting, Idle, Failed, Running
<1>3. CASE stream' = stream /\ pc[a] = "llm" /\ stream.run # "LLM"
  BY <1>1, <1>3 DEF StreamOwned, NoDeadSpinner, End, TypeOK, ToolPCs, Running
<1> QED
  BY <1>2, <1>3

LEMMA SendLLMControl ==
    ASSUME TypeOK, StreamOwned, LoopsOK, NoDeadSpinner, CutPlaces,
           NEW a \in Agents, NEW n, ~idleCut[a], ~toolCut[a], SendLLM(a, n)
    PROVE  (StreamOwned /\ LoopsOK /\ NoDeadSpinner /\ CutPlaces)'
<1>1. CASE Finish(a, messages)
  BY <1>1, EndControl DEF Finish
<1>2. CASE ~Finish(a, messages)
  <2>1. /\ stream' = On("LLM", a)
        /\ pc' = [pc EXCEPT ![a] = "llm"]
        /\ UNCHANGED <<idleCut, toolCut, cur>>
        /\ attempts' = [attempts EXCEPT ![a] = n]
    BY <1>2 DEF SendLLM
  <2>2. LoopsOK'
    BY <2>1 DEF LoopsOK, TypeOK, ToolPCs
  <2>3. CutPlaces'
    BY <2>1 DEF CutPlaces, TypeOK
  <2>4. StreamOwned' /\ NoDeadSpinner'
    BY <2>1 DEF StreamOwned, NoDeadSpinner, TypeOK, On, Running
  <2> QED
    BY <2>2, <2>3, <2>4
<1> QED
  BY <1>1, <1>2

LEMMA StartToolControl ==
    ASSUME TypeOK, StreamOwned, LoopsOK, NoDeadSpinner, CutPlaces,
           NEW a \in Agents, NEW c \in Calls, NEW tool, NEW msgs, NEW s, NEW pre,
           ~idleCut[a], ~toolCut[a], StartTool(a, c, tool, msgs, s, pre),
           UNCHANGED <<attempts, idleCut, toolCut>>
    PROVE  (StreamOwned /\ LoopsOK /\ NoDeadSpinner /\ CutPlaces)'
<1>1. \/ /\ stream' = On("tool", a)
         /\ pc' = [pc EXCEPT ![a] = "result"] \/ pc' = [pc EXCEPT ![a] = "calling"]
         /\ cur' = [cur EXCEPT ![a] = c]
      \/ /\ stream' = On("idle", a)
         /\ pc' = [pc EXCEPT ![a] = "prepare"]
         /\ cur' = cur
  BY DEF StartTool
<1>2. LoopsOK'
  BY <1>1 DEF LoopsOK, TypeOK, ToolPCs
<1>3. CutPlaces'
  BY <1>1 DEF CutPlaces, TypeOK
<1>4. StreamOwned' /\ NoDeadSpinner'
  BY <1>1 DEF StreamOwned, NoDeadSpinner, TypeOK, ToolPCs, On, Running
<1> QED
  BY <1>2, <1>3, <1>4

\* callTool of agent a returned or threw.
LEMMA ToolWentOn ==
    ASSUME TypeOK, StreamOwned, LoopsOK, NoDeadSpinner, CutPlaces,
           NEW a \in Agents, pc[a] = "calling", NEW at \in {"result", "thrown"},
           pc' = [pc EXCEPT ![a] = at],
           UNCHANGED <<stream, attempts, idleCut, toolCut, cur>>
    PROVE  (StreamOwned /\ LoopsOK /\ NoDeadSpinner /\ CutPlaces)'
<1>1. LoopsOK'
  BY DEF LoopsOK, TypeOK, ToolPCs
<1>2. CutPlaces'
  BY DEF CutPlaces, TypeOK
<1>3. StreamOwned' /\ NoDeadSpinner'
  BY DEF StreamOwned, NoDeadSpinner, TypeOK, ToolPCs, Running
<1> QED
  BY <1>1, <1>2, <1>3

\* The aborts it resumes.
LEMMA ResumedFits ==
    ASSUME TypeOK, NEW a \in Agents, NEW how \in {"tool", "noop"},
           how = "tool" => pc' = [pc EXCEPT ![a] = "result"]
    PROVE  /\ Resumed(a, how) \in Seq(Jobs)
           /\ Resumed(a, how) \o << >> = Resumed(a, how)
           /\ \A i \in 1..Len(Resumed(a, how)) :
                  /\ Fits(Resumed(a, how)[i], pc', stream'.run)
                  /\ Resumed(a, how)[i].how # "LLM"
<1>1. waiting[a] \in Seq(After)
  BY DEF TypeOK
<1>2. \A i \in 1..Len(waiting[a]) : Job("interrupt", a, how, waiting[a][i]) \in Jobs
  BY <1>1, JobType
<1>3. Resumed(a, how) \in Seq(Jobs)
  BY <1>1, <1>2 DEF Resumed
<1>4. ASSUME NEW i \in 1..Len(Resumed(a, how))
      PROVE  /\ Fits(Resumed(a, how)[i], pc', stream'.run)
             /\ Resumed(a, how)[i].how # "LLM"
  <2>1. Resumed(a, how)[i] = Job("interrupt", a, how, waiting[a][i])
    BY <1>1, <1>4 DEF Resumed
  <2>2. how = "tool" => pc'[a] = "result"
    BY DEF TypeOK
  <2> QED
    BY <2>1, <2>2 DEF Fits, Job
<1> QED
  BY <1>3, <1>4

LEMMA UserControl ==
    ASSUME IInv,
           Send \/ ContentFails \/ StopClick \/ EditClick \/ Reject \/ Jump \/ Touch \/ Dismiss \/ Restart
    PROVE  Control'
<1>1. /\ TypeOK /\ StreamOwned /\ LoopsOK /\ NoDeadSpinner /\ CutPlaces
      /\ messages \in Seq(Message) /\ disk.messages \in Seq(Message)
      /\ cp \in Nat /\ stream \in Stream
  BY DEF IInv, Control, TypeOK
<1>2. ASSUME NEW after, Abort(after, << >>)
      PROVE  Control'
  <2> DEFINE new == Job("interrupt", stream.by, Interruptor, after)
  <2>1. << >> \in Seq(Jobs)
    OBVIOUS
  <2>2. /\ (StreamOwned /\ LoopsOK /\ NoDeadSpinner /\ CutPlaces)'
        /\ \/ micro' = << >>
           \/ micro' = Append(<< >>, new) /\ Fits(new, pc', stream'.run)
    BY <1>2, <2>1, AbortControl
  <2> HIDE DEF new
  <2>3. JobsOK'
    BY <2>2 DEF JobsOK
  <2> QED
    BY <2>2, <2>3 DEF Control
<1>3. ASSUME micro' = << >>, stream' \in {stream, Awaiting, Idle},
             UNCHANGED <<pc, attempts, idleCut, toolCut, cur>>
      PROVE  Control'
  BY <1>1, <1>3, StreamKept, NoJobs DEF Control
<1>4. CASE Send
  <2> DEFINE new == Job("send", NoAgent, "noop", Stop)
  <2>1. stream' \in {stream, Awaiting}
    <3>1. FirstOf(messages, cp) \in Seq(Message)
      <4>1. cp \in Int
        BY <1>1
      <4> QED
        BY <1>1, <4>1, FirstOfType
    <3> QED
      BY <1>1, <1>4, <3>1, ShownType DEF Send
  <2>2. UNCHANGED <<pc, attempts, idleCut, toolCut, cur>> /\ stream.run = "none" /\ micro' = <<new>>
    BY <1>4 DEF Send, agent
  <2>3. (StreamOwned /\ LoopsOK /\ NoDeadSpinner /\ CutPlaces)'
    BY <1>1, <2>1, <2>2, StreamKept
  <2>4. Fits(new, pc', stream'.run)
    BY <2>1, <2>2 DEF Fits, Job, Awaiting, Idle
  <2>5. JobsOK'
    <3> HIDE DEF new
    <3> QED
      BY <2>2, <2>4 DEF JobsOK
  <2> QED
    BY <2>3, <2>5 DEF Control
<1>5. CASE StopClick
  BY <1>2, <1>5 DEF StopClick
<1>6. CASE EditClick
  BY <1>2, <1>6 DEF EditClick
<1>7. CASE Reject
  BY <1>3, <1>7 DEF Reject, MayAct, agent
<1>8. CASE Jump
  <2> DEFINE hist == IF cp = 0 /\ LastKind(messages) # "checkpoint"
                     THEN Append(messages, Checkpoint) ELSE messages
  <2>1. hist \in Seq(Message) /\ stream' = ShownStream(hist, stream)
    BY <1>1, <1>8, MessageTypes DEF Jump
  <2>2. stream' \in {stream, Awaiting}
    BY <1>1, <2>1, ShownType
  <2> QED
    BY <1>3, <1>8, <2>2 DEF Jump, MayAct, agent
<1>9. CASE Touch
  BY <1>1, <1>3, <1>9, ShownType DEF Touch, agent
<1>10. CASE Dismiss
  BY <1>3, <1>10 DEF Dismiss, agent
<1>12. CASE ContentFails
  BY <1>3, <1>12 DEF ContentFails, agent
<1>11. CASE Restart
  <2>1. micro' = << >>
    BY <1>11 DEF Restart, MayAct
  <2>2. \A a \in Agents : pc'[a] \in {"unborn", "done"} /\ ~idleCut'[a] /\ ~toolCut'[a]
    BY <1>11 DEF Restart
  <2>3. LoopsOK' /\ CutPlaces'
    BY <2>2 DEF LoopsOK, CutPlaces, ToolPCs
  <2>4. stream' \in {Idle, Awaiting}
    BY <1>1, <1>11, ShownType, StreamTypes DEF Restart
  <2>5. StreamOwned' /\ NoDeadSpinner'
    BY <2>4, AgentAssumption DEF StreamOwned, NoDeadSpinner, Awaiting, Idle, Running
  <2> QED
    BY <2>1, <2>3, <2>5, NoJobs DEF Control
<1> QED
  BY <1>4, <1>5, <1>6, <1>7, <1>8, <1>9, <1>10, <1>11, <1>12

LEMMA AgentControl ==
    ASSUME IInv, NEW a \in Agents,
           ContentReady(a) \/ Approve(a) \/ LLMText(a) \/ AgentStep(a)
    PROVE  Control'
<1> DEFINE Loops == StreamOwned /\ LoopsOK /\ NoDeadSpinner /\ CutPlaces
<1>1. TypeOK /\ StreamOwned /\ LoopsOK /\ NoDeadSpinner /\ CutPlaces
  BY DEF IInv, Control
<1>2. /\ pc[a] \notin {"prepare", "retry", "dead"} => ~idleCut[a]
      /\ pc[a] # "result" => ~toolCut[a]
  BY <1>1 DEF CutPlaces
<1>3. ASSUME micro' = << >>, Loops' PROVE Control'
  BY <1>3, NoJobs DEF Control
<1>4. CASE ContentReady(a)
  <2>1. NextMessage(a) /\ ~idleCut[a] /\ micro' = << >>
    BY <1>2, <1>4 DEF ContentReady
  <2> QED
    BY <1>1, <1>3, <2>1, NextMessageControl
<1>5. CASE Approve(a)
  <2>1. LastCall(messages) \in Calls
    BY <1>1, <1>5, LastToolCall DEF Approve, Approvable, ToolTypes, TypeOK
  <2>2. /\ StartTool(a, LastCall(messages), toolOf[LastCall(messages)], messages, stream, TRUE)
        /\ UNCHANGED <<attempts, idleCut, toolCut>>
        /\ ~idleCut[a] /\ ~toolCut[a] /\ micro = << >>
    BY <1>2, <1>5 DEF Approve, MayAct
  <2>3. micro' = << >>
    BY <2>2 DEF StartTool
  <2> QED
    BY <1>1, <1>3, <2>1, <2>2, <2>3, StartToolControl
<1>6. CASE LLMText(a)
  <2>1. /\ stream' = On("LLM", a) /\ pc[a] = "llm" /\ micro' = << >>
        /\ UNCHANGED <<pc, attempts, idleCut, toolCut, cur>>
    BY <1>6 DEF LLMText, agent
  <2>2. LoopsOK' /\ CutPlaces'
    BY <1>1, <2>1 DEF LoopsOK, CutPlaces
  <2>3. StreamOwned' /\ NoDeadSpinner'
    BY <1>1, <2>1 DEF StreamOwned, NoDeadSpinner, On, Running
  <2> QED
    BY <1>3, <2>1, <2>2, <2>3
<1>15. CASE PrepareFails(a)
  <2>1. /\ pc[a] = "prepare" /\ pc' = [pc EXCEPT ![a] = "dead"] /\ micro' = << >>
        /\ UNCHANGED <<stream, attempts, idleCut, toolCut, cur>>
    BY <1>15 DEF PrepareFails
  <2>2. LoopsOK' /\ CutPlaces'
    BY <1>1, <2>1 DEF LoopsOK, CutPlaces, TypeOK, ToolPCs
  <2>3. StreamOwned' /\ NoDeadSpinner'
    BY <1>1, <2>1 DEF StreamOwned, NoDeadSpinner, TypeOK, ToolPCs, Running
  <2> QED
    BY <1>3, <2>1, <2>2, <2>3
<1>7. CASE Prepared(a)
  <2>1. pc[a] = "prepare" /\ ~toolCut[a] /\ micro' = << >>
    BY <1>2, <1>7 DEF Prepared
  <2>2. CASE idleCut[a]
    BY <1>1, <1>3, <1>7, <2>1, <2>2, EndControl DEF Prepared, StopIdle
  <2>3. CASE ~idleCut[a]
    BY <1>1, <1>3, <1>7, <2>1, <2>3, SendLLMControl DEF Prepared
  <2> QED
    BY <2>2, <2>3
<1>8. CASE RetryTimer(a)
  <2>1. pc[a] = "retry" /\ ~toolCut[a] /\ micro' = << >>
    BY <1>2, <1>8 DEF RetryTimer
  <2>2. CASE idleCut[a]
    BY <1>1, <1>3, <1>8, <2>1, <2>2, EndControl DEF RetryTimer, StopIdle
  <2>3. CASE ~idleCut[a]
    BY <1>1, <1>3, <1>8, <2>1, <2>3, SendLLMControl DEF RetryTimer
  <2> QED
    BY <2>2, <2>3
<1>9. CASE LLMError(a)
  <2>1. pc[a] = "llm" /\ ~idleCut[a] /\ ~toolCut[a] /\ micro' = << >>
    BY <1>2, <1>9 DEF LLMError
  <2>2. CASE Superseded(a)
    BY <1>1, <1>3, <2>1, <2>2, EndControl DEF Superseded
  <2>3. CASE ~Superseded(a) /\ MayRetry(a)
    <3>1. /\ stream' = On("idle", a)
          /\ pc' = [pc EXCEPT ![a] = "retry"]
          /\ UNCHANGED <<attempts, idleCut, toolCut, cur>>
          /\ attempts[a] < CHAT_RETRIES
      BY <1>9, <2>3 DEF LLMError, MayRetry
    <3>2. LoopsOK'
      BY <1>1, <3>1 DEF LoopsOK, TypeOK, ToolPCs
    <3>3. CutPlaces'
      BY <1>1, <2>1, <3>1 DEF CutPlaces, TypeOK
    <3>4. StreamOwned' /\ NoDeadSpinner'
      BY <1>1, <3>1 DEF StreamOwned, NoDeadSpinner, On, Running, TypeOK
    <3> QED
      BY <1>3, <2>1, <3>2, <3>3, <3>4
  <2>4. CASE ~Superseded(a) /\ ~MayRetry(a)
    <3>1. stream' = Failed /\ End(a)
      BY <1>9, <2>4 DEF LLMError
    <3> QED
      BY <1>1, <1>3, <2>1, <3>1, EndControl
  <2> QED
    BY <2>2, <2>3, <2>4
<1>10. CASE LLMFinal(a)
  <2>1. pc[a] = "llm" /\ micro' = << >>
    BY <1>10 DEF LLMFinal
  <2>2. Superseded(a) \/ Finish(a, Append(messages, Plain("assistant")))
    BY <1>10 DEF LLMFinal
  <2> QED
    BY <1>1, <1>3, <2>1, <2>2, EndControl DEF Superseded, Finish
<1>11. CASE LLMFinalWithTool(a)
  <2>1. pc[a] = "llm" /\ ~idleCut[a] /\ ~toolCut[a] /\ micro = << >>
    BY <1>2, <1>11 DEF LLMFinalWithTool
  <2>2. PICK c \in Calls, tool \in Tools :
          \/ NextMessage(a) /\ UNCHANGED micro
          \/ stream' = Awaiting /\ End(a) /\ UNCHANGED micro
          \/ \E kept : StartTool(a, c, tool, kept, On("idle", a), FALSE)
                      /\ UNCHANGED <<attempts, idleCut, toolCut>>
    BY <1>11, Zenon DEF LLMFinalWithTool
  <2>3. CASE NextMessage(a) /\ UNCHANGED micro
    BY <1>1, <1>3, <2>1, <2>3, NextMessageControl
  <2>4. CASE stream' = Awaiting /\ End(a) /\ UNCHANGED micro
    BY <1>1, <1>3, <2>1, <2>4, EndControl
  <2>5. CASE \E kept : StartTool(a, c, tool, kept, On("idle", a), FALSE)
                      /\ UNCHANGED <<attempts, idleCut, toolCut>>
    <3>1. PICK kept : StartTool(a, c, tool, kept, On("idle", a), FALSE)
                      /\ UNCHANGED <<attempts, idleCut, toolCut>>
      BY <2>5
    <3>2. micro' = << >>
      BY <2>1, <3>1 DEF StartTool
    <3> QED
      BY <1>1, <1>3, <2>1, <3>1, <3>2, StartToolControl
  <2> QED
    BY <2>2, <2>3, <2>4, <2>5
<1>12. CASE CallToolReturned(a)
  <2>1. /\ pc[a] = "calling" /\ ~toolCut[a] /\ pc' = [pc EXCEPT ![a] = "result"]
        /\ micro' = Resumed(a, "tool") \o << >>
        /\ UNCHANGED <<stream, attempts, idleCut, toolCut, cur>>
    BY <1>2, <1>12 DEF CallToolReturned, ResumeAborts
  <2>2. Loops'
    BY <1>1, <2>1, ToolWentOn
  <2>3. \A i \in 1..Len(Resumed(a, "tool")) :
            /\ Fits(Resumed(a, "tool")[i], pc', stream'.run)
            /\ Resumed(a, "tool")[i].how # "LLM"
    BY <1>1, <2>1, ResumedFits
  <2>4. micro' = Resumed(a, "tool")
    BY <1>1, <2>1, ResumedFits
  <2> QED
    BY <2>2, <2>3, <2>4 DEF Control, JobsOK
<1>13. CASE CallToolThrew(a)
  <2> DEFINE loop == Job("loop", a, "noop", Stop)
  <2>1. /\ pc[a] = "calling" /\ ~toolCut[a] /\ pc' = [pc EXCEPT ![a] = "thrown"]
        /\ micro' = Resumed(a, "noop") \o <<loop>>
        /\ UNCHANGED <<stream, attempts, idleCut, toolCut, cur>>
    BY <1>2, <1>13 DEF CallToolThrew, ResumeAborts
  <2>2. Loops'
    BY <1>1, <2>1, ToolWentOn
  <2>3. \A i \in 1..Len(Resumed(a, "noop")) :
            /\ Fits(Resumed(a, "noop")[i], pc', stream'.run)
            /\ Resumed(a, "noop")[i].how # "LLM"
    BY <1>1, <2>1, ResumedFits
  <2>4. Fits(loop, pc', stream'.run) /\ loop.how # "LLM"
    BY <1>1, <2>1 DEF Fits, Job, TypeOK
  <2>5. \A i \in 1..Len(micro') :
            micro'[i] = loop \/ \E j \in 1..Len(Resumed(a, "noop")) : micro'[i] = Resumed(a, "noop")[j]
    <3> HIDE DEF loop
    <3> QED
      BY <1>1, <2>1, ResumedFits
  <2>6. JobsOK'
    <3> HIDE DEF loop
    <3> QED
      BY <2>3, <2>4, <2>5 DEF JobsOK
  <2> QED
    BY <2>2, <2>6 DEF Control
<1>14. CASE ToolResult(a)
  <2>1. pc[a] = "result" /\ ~idleCut[a] /\ micro' = << >>
    BY <1>2, <1>14 DEF ToolResult
  <2>2. StopIdle(a) \/ NextMessage(a)
    BY <1>14 DEF ToolResult
  <2> QED
    BY <1>1, <1>3, <2>1, <2>2, NextMessageControl, EndControl DEF StopIdle
<1> QED
  BY <1>4, <1>5, <1>6, <1>7, <1>8, <1>9, <1>10, <1>11, <1>12, <1>13, <1>14, <1>15 DEF AgentStep

LEMMA ControlStep == IInv /\ [Next]_vars => Control'
<1> SUFFICES ASSUME IInv, [Next]_vars PROVE Control'
  OBVIOUS
<1>1. CASE Microtask
  BY <1>1, MicrotaskControl
<1>2. CASE Send \/ ContentFails \/ StopClick \/ EditClick \/ Reject \/ Jump \/ Touch \/ Dismiss \/ Restart
  BY <1>2, UserControl
<1>3. CASE \E a \in Agents : ContentReady(a) \/ Approve(a) \/ LLMText(a) \/ AgentStep(a)
  BY <1>3, AgentControl
<1>4. CASE UNCHANGED vars
  <2>1. (StreamOwned /\ LoopsOK /\ NoDeadSpinner /\ CutPlaces)'
    BY <1>4, StreamKept DEF vars, IInv, Control
  <2>2. JobsOK'
    BY <1>4 DEF vars, IInv, Control, JobsOK
  <2> QED
    BY <2>1, <2>2 DEF Control
<1> QED
  BY <1>1, <1>2, <1>3, <1>4 DEF Next

-----------------------------------------------------------------------------
\* The theorems about control.

\* IInv is an invariant: it holds at first, and every step of Next keeps it.
LEMMA IInvHolds == Spec => []IInv
<1>1. IInv /\ [Next]_vars => IInv'
  BY TypeStep, ControlStep DEF IInv
<1> QED
  BY InitHolds, <1>1, PTL DEF Spec

\* Every variable of the conversation keeps its type, whatever the user, the LLM
\* and the tools do: a tool message always names its call, and no loop attempts an
\* LLM message more than CHAT_RETRIES times.
THEOREM ThreadTypes == Spec => []TypeOK
<1>1. IInv => TypeOK
  BY DEF IInv
<1> QED
  BY IInvHolds, <1>1, PTL

\* The spinner outlives its loop in one case only: whenever the stream state says
\* that an LLM, a tool or an idle loop runs, the loop that holds the interruptor is at
\* a place where it will go on (_setStreamState in _runChatAgent and _runToolCall), or
\* its messages could not be prepared (780).
THEOREM SpinnerIsAlive == Spec => []NoDeadSpinner
<1>1. IInv => NoDeadSpinner
  BY DEF IInv, Control
<1> QED
  BY IInvHolds, <1>1, PTL

-----------------------------------------------------------------------------
\* What an interrupted loop still does.

\* The step is that of one loop, which is not told to stop or is at its flag.
LEMMA LoopSilent ==
    ASSUME TypeOK, CutPlaces, NEW a \in Agents,
           \A b \in Agents \ {a} : pc'[b] = pc[b],
           idleCut[a] => pc'[a] \in {pc[a], "done", "dead"},
           toolCut[a] => pc'[a] \in {pc[a], "done"} \/ (first[a] /\ pc'[a] = "prepare")
    PROVE  \A b \in Agents :
              /\ idleCut[b] => pc'[b] \in {pc[b], "done", "dead"}
              /\ toolCut[b] => pc'[b] \in {pc[b], "done"} \/ (first[b] /\ pc'[b] = "prepare")
OBVIOUS

Silent ==
    \A a \in Agents :
        /\ idleCut[a] => pc'[a] \in {pc[a], "done", "dead"}
        /\ toolCut[a] => \/ pc'[a] \in {pc[a], "done"}
                         \/ first[a] /\ pc'[a] = "prepare"

LEMMA MicrotaskSilent ==
    ASSUME IInv, Microtask
    PROVE  Silent
<1> DEFINE job == Head(micro)
<1>1. /\ TypeOK /\ CutPlaces /\ job \in Jobs /\ Fits(job, pc, stream.run)
  BY HeadJob DEF IInv, Control, JobsOK, Microtask
<1>2. CASE RunInterrupt
  <2>1. pc' = pc \/ (job.on \in Agents /\ pc' = [pc EXCEPT ![job.on] = "done"])
    BY <1>1, <1>2 DEF RunInterrupt, End, Fits
  <2> QED
    BY <1>1, <2>1 DEF Silent, TypeOK
<1>3. CASE RunEdit \/ RunContent
  BY <1>3 DEF RunEdit, RunContent, agent, Silent
<1>4. CASE RunSend
  BY <1>4 DEF RunSend, Abort, agent, Silent
<1>5. CASE RunLoop
  <2>1. /\ job.on \in Agents /\ pc[job.on] \in {"thrown", "prepare"}
        /\ pc' = [pc EXCEPT ![job.on] = "prepare"]
    BY <1>1, <1>5 DEF RunLoop, NextMessage, Fits
  <2>2. pc[job.on] = "thrown" => ~idleCut[job.on] /\ ~toolCut[job.on]
    BY <1>1, <2>1 DEF CutPlaces
  <2> QED
    BY <1>1, <2>1, <2>2 DEF Silent, TypeOK
<1> QED
  BY <1>2, <1>3, <1>4, <1>5 DEF Microtask

LEMMA UserSilent ==
    ASSUME IInv,
           Send \/ ContentFails \/ StopClick \/ EditClick \/ Reject \/ Jump \/ Touch \/ Dismiss \/ Restart
    PROVE  Silent
<1>1. CASE Restart
  <2>1. \A a \in Agents : pc'[a] = "done" \/ pc'[a] = pc[a]
    BY <1>1 DEF Restart
  <2> QED
    BY <2>1 DEF Silent
<1>2. CASE ~Restart
  <2>1. pc' = pc
    BY <1>2, Zenon DEF Send, ContentFails, StopClick, EditClick, Reject, Jump, Touch, Dismiss, Abort, agent
  <2> QED
    BY <2>1 DEF Silent
<1> QED
  BY <1>1, <1>2

LEMMA AgentSilent ==
    ASSUME IInv, NEW a \in Agents,
           ContentReady(a) \/ Approve(a) \/ LLMText(a) \/ AgentStep(a)
    PROVE  Silent
<1>1. TypeOK /\ CutPlaces
  BY DEF IInv, Control
<1>2. CASE pc[a] \notin {"prepare", "retry", "result"} /\ ~LLMText(a)
  <2>1. ~idleCut[a] \/ pc[a] = "dead"
    BY <1>1, <1>2 DEF CutPlaces
  <2>2. pc[a] # "dead"
    BY <1>2 DEF ContentReady, Approve, AgentStep, Prepared, PrepareFails, RetryTimer,
       LLMError, LLMFinal, LLMFinalWithTool, CallToolReturned, CallToolThrew, ToolResult
  <2>3. ~idleCut[a] /\ ~toolCut[a]
    BY <1>1, <1>2, <2>1, <2>2 DEF CutPlaces
  <2>4. pc' = pc \/ \E p : pc' = [pc EXCEPT ![a] = p]
    BY <1>2, Zenon DEF ContentReady, Approve, AgentStep, Prepared, PrepareFails, RetryTimer,
       LLMError, LLMFinal, LLMFinalWithTool, CallToolReturned, CallToolThrew, ToolResult,
       NextMessage, StartTool, StopIdle, SendLLM, Finish, End, Superseded
  <2>5. \A b \in Agents \ {a} : pc'[b] = pc[b]
    BY <1>1, <2>4 DEF TypeOK
  <2> QED
    BY <1>1, <2>3, <2>5, LoopSilent DEF Silent
<1>3. CASE LLMText(a)
  BY <1>3 DEF LLMText, agent, Silent
<1>4. CASE pc[a] = "prepare" /\ ~LLMText(a)
  <2>1. Prepared(a) \/ PrepareFails(a)
    BY <1>4 DEF ContentReady, Approve, AgentStep, RetryTimer,
       LLMError, LLMFinal, LLMFinalWithTool, CallToolReturned, CallToolThrew, ToolResult
  <2>2. ~toolCut[a]
    BY <1>1, <1>4 DEF CutPlaces
  <2>3. \E p : pc' = [pc EXCEPT ![a] = p] /\ (idleCut[a] => p \in {"done", "dead"})
    BY <2>1, Zenon DEF Prepared, PrepareFails, StopIdle, SendLLM, Finish, End
  <2> QED
    BY <1>1, <2>2, <2>3, LoopSilent DEF Silent, TypeOK
<1>5. CASE pc[a] = "retry" /\ ~LLMText(a)
  <2>1. RetryTimer(a)
    BY <1>5 DEF ContentReady, Approve, AgentStep, Prepared, PrepareFails,
       LLMError, LLMFinal, LLMFinalWithTool, CallToolReturned, CallToolThrew, ToolResult
  <2>2. ~toolCut[a]
    BY <1>1, <1>5 DEF CutPlaces
  <2>3. \E p : pc' = [pc EXCEPT ![a] = p] /\ (idleCut[a] => p \in {"done", "dead"})
    BY <2>1, Zenon DEF RetryTimer, StopIdle, SendLLM, Finish, End
  <2> QED
    BY <1>1, <2>2, <2>3, LoopSilent DEF Silent, TypeOK
<1>6. CASE pc[a] = "result" /\ ~LLMText(a)
  <2>1. ToolResult(a)
    BY <1>6 DEF ContentReady, Approve, AgentStep, Prepared, PrepareFails, RetryTimer,
       LLMError, LLMFinal, LLMFinalWithTool, CallToolReturned, CallToolThrew
  <2>2. ~idleCut[a]
    BY <1>1, <1>6 DEF CutPlaces
  <2>3. \E p : /\ pc' = [pc EXCEPT ![a] = p]
               /\ toolCut[a] => p = "done" \/ (first[a] /\ p = "prepare")
    BY <2>1, Zenon DEF ToolResult, StopIdle, NextMessage, End
  <2> QED
    BY <1>1, <2>2, <2>3, LoopSilent DEF Silent, TypeOK
<1> QED
  BY <1>2, <1>3, <1>4, <1>5, <1>6

LEMMA SilentStep == IInv /\ [Next]_vars => [Silent]_vars
<1> SUFFICES ASSUME IInv, Next PROVE Silent
  OBVIOUS
<1> QED
  BY MicrotaskSilent, UserSilent, AgentSilent DEF Next

\* A loop whose interruptor was called comes to its end with its next step, wherever
\* it waits: it sends no further message and starts no further tool, but for a loop
\* interrupted in the call it was approved for (abortRunning, _runChatAgent 763, 791, 858).
THEOREM InterruptedStaysSilent == Spec => InterruptedIsSilent
<1>1. IInv /\ [Next]_vars => [Silent]_vars
  BY SilentStep
<1> QED
  BY IInvHolds, <1>1, PTL DEF Spec, InterruptedIsSilent, Silent

-----------------------------------------------------------------------------
\* How histories derive from one another.

\* How the histories of one step come from those before: no call is asked for anew,
\* and calls that it had not are of X; a history that opens with a checkpoint keeps it.
Derived(new, old, X) ==
    /\ \A i \in 1..Len(new) :
        /\ new[i].kind = "tool_request" => i <= Len(old) /\ new[i] = old[i]
        /\ new[i].call \in X \cup {NoCall} \/ (i <= Len(old) /\ new[i].call = old[i].call)
    /\ old # << >> /\ old[1] = Checkpoint => new # << >> /\ new[1] = Checkpoint

LEMMA DerivedSelf ==
    ASSUME NEW msgs \in Seq(Message), NEW X
    PROVE  Derived(msgs, msgs, X)
BY DEF Derived

LEMMA DerivedTwice ==
    ASSUME NEW a \in Seq(Message), NEW b \in Seq(Message), NEW c \in Seq(Message), NEW X,
           Derived(b, a, X), Derived(c, b, X)
    PROVE  Derived(c, a, X)
<1>1. ASSUME NEW i \in 1..Len(c)
      PROVE  /\ c[i].kind = "tool_request" => i <= Len(a) /\ c[i] = a[i]
             /\ c[i].call \in X \cup {NoCall} \/ (i <= Len(a) /\ c[i].call = a[i].call)
  <2>1. /\ c[i].kind = "tool_request" => i <= Len(b) /\ c[i] = b[i]
        /\ c[i].call \in X \cup {NoCall} \/ (i <= Len(b) /\ c[i].call = b[i].call)
    BY DEF Derived
  <2>2. i <= Len(b) =>
        /\ b[i].kind = "tool_request" => i <= Len(a) /\ b[i] = a[i]
        /\ b[i].call \in X \cup {NoCall} \/ (i <= Len(a) /\ b[i].call = a[i].call)
    BY DEF Derived
  <2> QED
    BY <2>1, <2>2
<1>2. a # << >> /\ a[1] = Checkpoint => c # << >> /\ c[1] = Checkpoint
  BY DEF Derived
<1> QED
  BY <1>1, <1>2 DEF Derived

LEMMA AppendDerived ==
    ASSUME NEW msgs \in Seq(Message), NEW m \in Message, NEW X,
           m.kind # "tool_request", m.call \in X \cup {NoCall}
    PROVE  Derived(Append(msgs, m), msgs, X)
BY DEF Derived

LEMMA PlainDerived ==
    ASSUME NEW msgs \in Seq(Message), NEW k \in Roles, NEW X
    PROVE  Derived(Append(msgs, Plain(k)), msgs, X)
<1>1. Plain(k) \in Message /\ Plain(k).kind = k /\ Plain(k).call = NoCall
  BY MessageTypes DEF Plain
<1>2. k # "tool_request"
  BY DEF Roles
<1> QED
  BY <1>1, <1>2, AppendDerived

\* The last message is a tool message, and another kind of it, or that of a call of
\* X, takes its place.
LEMMA ReplaceDerived ==
    ASSUME NEW msgs \in Seq(Message), LastKind(msgs) \in ToolTypes, NEW m \in Message, NEW X,
           m.kind # "tool_request", m.call \in X \/ m.call = LastCall(msgs)
    PROVE  Derived(ReplaceLast(msgs, m), msgs, X)
<1>1. msgs # << >> /\ Len(msgs) \in 1..Len(msgs) /\ LastCall(msgs) = msgs[Len(msgs)].call
  BY LastToolCall, LastMessage
<1>2. /\ Len(ReplaceLast(msgs, m)) = Len(msgs)
      /\ \A i \in 1..Len(msgs) : ReplaceLast(msgs, m)[i] = IF i = Len(msgs) THEN m ELSE msgs[i]
  BY <1>1 DEF ReplaceLast
<1>3. msgs[Len(msgs)] # Checkpoint
  BY <1>1 DEF LastKind, ToolTypes, Checkpoint, Plain
<1>4. \A i \in 1..Len(msgs) :
        /\ ReplaceLast(msgs, m)[i].kind = "tool_request" => ReplaceLast(msgs, m)[i] = msgs[i]
        /\ ReplaceLast(msgs, m)[i].call \in X \cup {NoCall} \/ ReplaceLast(msgs, m)[i].call = msgs[i].call
  BY <1>1, <1>2
<1>5. msgs[1] = Checkpoint => ReplaceLast(msgs, m)[1] = Checkpoint /\ ReplaceLast(msgs, m) # << >>
  <2>1. Len(msgs) # 1 \/ msgs[1] # Checkpoint
    BY <1>3
  <2>2. 1 \in 1..Len(msgs) /\ Len(ReplaceLast(msgs, m)) # 0
    BY <1>1, <1>2
  <2>3. ReplaceLast(msgs, m) # << >>
    BY <2>2
  <2> QED
    BY <1>2, <2>1, <2>2, <2>3
<1> QED
  BY <1>2, <1>4, <1>5 DEF Derived

LEMMA UpdateDerived ==
    ASSUME NEW msgs \in Seq(Message), NEW k \in ToolTypes \ {"tool_request"}, NEW c \in Calls, NEW X,
           c \in X \/ (LastKind(msgs) \in ToolTypes /\ LastCall(msgs) = c)
    PROVE  Derived(UpdateLatestTool(msgs, ToolMsg(k, c)), msgs, X)
<1>1. ToolMsg(k, c) \in Message /\ ToolMsg(k, c).kind # "tool_request" /\ ToolMsg(k, c).call = c
  BY MessageTypes DEF ToolMsg
<1>2. CASE LastKind(msgs) \in ToolTypes
  BY <1>1, <1>2, ReplaceDerived DEF UpdateLatestTool
<1>3. CASE LastKind(msgs) \notin ToolTypes
  BY <1>1, <1>3, AppendDerived DEF UpdateLatestTool
<1> QED
  BY <1>2, <1>3

\* A request at the end of a history is no request any more when it is rejected.
LEMMA RejectedDerived ==
    ASSUME NEW msgs \in Seq(Message), NEW X
    PROVE  Derived(Rejected(msgs), msgs, X)
<1>1. CASE LastKind(msgs) \in ToolTypes
  <2>1. LastCall(msgs) \in Calls
    BY <1>1, LastToolCall
  <2>2. /\ ToolMsg("rejected", LastCall(msgs)) \in Message
        /\ ToolMsg("rejected", LastCall(msgs)).kind # "tool_request"
        /\ ToolMsg("rejected", LastCall(msgs)).call = LastCall(msgs)
    BY <2>1, MessageTypes DEF ToolMsg, ToolTypes
  <2> QED
    BY <1>1, <2>2, ReplaceDerived DEF Rejected
<1>2. CASE LastKind(msgs) \notin ToolTypes
  BY <1>2, DerivedSelf DEF Rejected
<1> QED
  BY <1>1, <1>2

LEMMA ShownDerived ==
    ASSUME NEW msgs \in Seq(Message), NEW s, NEW X
    PROVE  Derived(Shown(msgs, s), msgs, X)
<1>1. CASE Orphaned(msgs, s)
  <2>1. LastKind(msgs) \in ToolTypes
    BY <1>1 DEF Orphaned, ToolTypes
  <2>2. LastCall(msgs) \in Calls
    BY <2>1, LastToolCall
  <2>3. /\ ToolMsg("rejected", LastCall(msgs)) \in Message
        /\ ToolMsg("rejected", LastCall(msgs)).kind # "tool_request"
        /\ ToolMsg("rejected", LastCall(msgs)).call = LastCall(msgs)
    BY <2>2, MessageTypes DEF ToolMsg, ToolTypes
  <2> QED
    BY <1>1, <2>1, <2>3, ReplaceDerived DEF Shown
<1>2. CASE ~Orphaned(msgs, s)
  BY <1>2, DerivedSelf DEF Shown
<1> QED
  BY <1>1, <1>2

LEMMA FirstOfDerived ==
    ASSUME NEW msgs \in Seq(Message), NEW n \in Nat \ {0}, NEW X
    PROVE  Derived(FirstOf(msgs, n), msgs, X)
<1>1. CASE n < Len(msgs)
  <2>1. /\ Len(SubSeq(msgs, 1, n)) = n /\ SubSeq(msgs, 1, n) # << >>
        /\ \A i \in 1..n : SubSeq(msgs, 1, n)[i] = msgs[i]
    BY <1>1
  <2> QED
    BY <1>1, <2>1 DEF Derived, FirstOf
<1>2. CASE ~(n < Len(msgs))
  BY <1>2, DerivedSelf DEF FirstOf
<1> QED
  BY <1>1, <1>2

\* The calls that ran.
Ran == {c \in Calls : runs[c] # 0}

LEMMA AbortedDerived ==
    ASSUME TypeOK, StreamOwned, LoopsOK, NoDeadSpinner, CurrentRan, NEW w \in BOOLEAN
    PROVE  Derived(AbortedHistory(w), messages, Ran)
<1> DEFINE closed ==
          CASE stream.run = "LLM" ->
                 messages \o <<Plain("assistant")>>
                          \o (IF w THEN <<Plain("interrupted_streaming_tool")>> ELSE << >>)
            [] stream.run = "tool" -> UpdateLatestTool(messages, ToolMsg("rejected", cur[stream.by]))
            [] stream.run = "awaiting_user" -> Rejected(messages)
            [] OTHER -> messages
<1>1. messages \in Seq(Message)
  BY DEF TypeOK
<1>2. closed \in Seq(Message) /\ Derived(closed, messages, Ran)
  <2>1. CASE stream.run = "LLM"
    <3> DEFINE said == Append(messages, Plain("assistant"))
    <3>1. said \in Seq(Message) /\ Derived(said, messages, Ran)
      BY <1>1, PlainDerived, MessageTypes DEF Roles
    <3>2. CASE w
      <4>1. closed = Append(said, Plain("interrupted_streaming_tool"))
        BY <1>1, <2>1, <3>2, MessageTypes DEF Roles
      <4>2. closed \in Seq(Message) /\ Derived(closed, said, Ran)
        <5> HIDE DEF said, closed
        <5> QED
          BY <3>1, <4>1, PlainDerived, MessageTypes DEF Roles
      <4> HIDE DEF said, closed
      <4> QED
        BY <1>1, <3>1, <4>2, DerivedTwice
    <3>3. CASE ~w
      <4>1. closed = said
        BY <1>1, <2>1, <3>3, MessageTypes DEF Roles
      <4> QED
        BY <3>1, <4>1
    <3> QED
      BY <3>2, <3>3
  <2>2. CASE stream.run = "tool"
    <3>1. cur[stream.by] \in Calls
      BY <2>2 DEF StreamOwned, LoopsOK, NoDeadSpinner, Running
    <3>2. cur[stream.by] \in Ran
      BY <2>2, <3>1, CallAssumption DEF StreamOwned, CurrentRan, Ran, Running
    <3>3. ToolMsg("rejected", cur[stream.by]) \in Message
      BY <3>1, MessageTypes DEF ToolTypes
    <3>4. "rejected" \in ToolTypes \ {"tool_request"}
      BY DEF ToolTypes
    <3> QED
      BY <1>1, <2>2, <3>1, <3>2, <3>3, <3>4, UpdateLatestToolType, UpdateDerived
  <2>3. CASE stream.run = "awaiting_user"
    BY <1>1, <2>3, RejectedType, RejectedDerived
  <2>4. CASE stream.run \notin {"LLM", "tool", "awaiting_user"}
    BY <1>1, <2>4, DerivedSelf
  <2> QED
    BY <2>1, <2>2, <2>3, <2>4
<1>3. Append(closed, Checkpoint) \in Seq(Message) /\ Derived(Append(closed, Checkpoint), closed, Ran)
  <2> HIDE DEF closed
  <2> QED
    BY <1>2, PlainDerived, MessageTypes DEF Checkpoint, Roles
<1>4. Derived(Append(closed, Checkpoint), messages, Ran)
  <2> HIDE DEF closed
  <2> QED
    BY <1>1, <1>2, <1>3, DerivedTwice
<1> QED
  BY <1>4 DEF AbortedHistory

-----------------------------------------------------------------------------
\* How a step changes the histories, but for a call that the LLM makes and a restart.
Tame ==
    /\ Derived(messages', messages, Ran)
    /\ disk'.messages = disk.messages \/ Derived(disk'.messages, messages, Ran)

LEMMA KeptTame ==
    ASSUME TypeOK, UNCHANGED <<messages, disk>>
    PROVE  Tame
BY DerivedSelf DEF Tame, TypeOK

LEMMA StoreTame ==
    ASSUME TypeOK, NEW msgs, Derived(msgs, messages, Ran), Store(msgs)
    PROVE  Tame
BY DEF Tame, Store

LEMMA AbortTame ==
    ASSUME IInv, CurrentRan, NEW after, NEW rest, Abort(after, rest)
    PROVE  Tame
<1>1. PICK w \in BOOLEAN : Store(AbortedHistory(w))
  BY DEF Abort
<1> QED
  BY <1>1, AbortedDerived, StoreTame DEF IInv, Control

LEMMA MicrotaskTame ==
    ASSUME IInv, OpensOK, CurrentRan, Microtask
    PROVE  Tame
<1>1. TypeOK /\ messages \in Seq(Message) /\ micro \in Seq(Jobs) /\ micro # << >>
  BY DEF IInv, TypeOK, Microtask
<1>2. CASE RunInterrupt
  BY <1>1, <1>2, KeptTame DEF RunInterrupt, thread
<1>3. CASE RunEdit
  <2> DEFINE idx == Head(micro).after.idx
             cut == FirstOf(messages, idx - 1)
  <2>1. CASE idx \in 1..Len(messages) /\ messages[idx].kind = "user"
    <3>1. messages[1] = Checkpoint
      BY <1>1, <2>1 DEF OpensOK, Opens
    <3>2. idx # 1
      BY <2>1, <3>1 DEF Checkpoint, Plain
    <3>3. idx - 1 \in Nat \ {0} /\ idx - 1 \in Int
      BY <2>1, <3>2
    <3>4. cut \in Seq(Message) /\ Derived(cut, messages, Ran)
      <4> HIDE DEF idx
      <4> QED
        BY <1>1, <3>3, FirstOfType, FirstOfDerived
    <3>5. Shown(cut, stream) \in Seq(Message) /\ Derived(Shown(cut, stream), cut, Ran)
      <4> HIDE DEF cut
      <4> QED
        BY <1>1, <3>4, ShownType, ShownDerived DEF TypeOK
    <3>6. Derived(Shown(cut, stream), messages, Ran)
      <4> HIDE DEF cut
      <4> QED
        BY <1>1, <3>4, <3>5, DerivedTwice
    <3>7. /\ messages' = Shown(cut, stream)
          /\ disk' = IF Orphaned(cut, stream) THEN [messages |-> messages', cp |-> cp] ELSE disk
      BY <1>3, <2>1 DEF RunEdit
    <3> QED
      BY <3>6, <3>7 DEF Tame
  <2>2. CASE ~(idx \in 1..Len(messages) /\ messages[idx].kind = "user")
    <3>1. UNCHANGED <<messages, disk>>
      BY <1>3, <2>2 DEF RunEdit
    <3> QED
      BY <1>1, <3>1, KeptTame
  <2> QED
    BY <2>1, <2>2
<1>4. CASE RunSend
  <2>1. CASE stream.run # "none"
    <3>1. Abort([op |-> "content", idx |-> 0], Tail(micro))
      BY <1>4, <2>1 DEF RunSend
    <3> QED
      BY <3>1, AbortTame
  <2>2. CASE stream.run = "none"
    <3>1. DummyCheckpoint
      BY <1>4, <2>2 DEF RunSend
    <3>2. CASE messages = << >>
      <4>1. <<Checkpoint>> = Append(messages, Checkpoint)
        BY <3>2
      <4>2. Derived(Append(messages, Checkpoint), messages, Ran)
        BY <1>1, PlainDerived DEF Checkpoint, Roles
      <4> QED
        BY <1>1, <3>1, <3>2, <4>1, <4>2, StoreTame DEF DummyCheckpoint
    <3>3. CASE messages # << >>
      BY <1>1, <3>1, <3>3, KeptTame DEF DummyCheckpoint
    <3> QED
      BY <3>2, <3>3
  <2> QED
    BY <2>1, <2>2
<1>5. CASE RunContent
  BY <1>1, <1>5, KeptTame DEF RunContent, thread
<1>6. CASE RunLoop
  BY <1>1, <1>6, KeptTame DEF RunLoop, thread
<1> QED
  BY <1>2, <1>3, <1>4, <1>5, <1>6 DEF Microtask

LEMMA UserTame ==
    ASSUME IInv, CurrentRan,
           Send \/ ContentFails \/ StopClick \/ EditClick \/ Reject \/ Jump \/ Touch \/ Dismiss
    PROVE  Tame
<1>1. TypeOK /\ messages \in Seq(Message) /\ cp \in Nat /\ stream \in Stream
  BY DEF IInv, TypeOK
<1>2. CASE Send
  <2>1. CASE cp # 0
    <3> DEFINE kept == FirstOf(messages, cp)
    <3>1. cp \in Nat \ {0} /\ cp \in Int
      BY <1>1, <2>1
    <3>2. kept \in Seq(Message) /\ Derived(kept, messages, Ran)
      BY <1>1, <3>1, FirstOfType, FirstOfDerived
    <3>3. Shown(kept, stream) \in Seq(Message) /\ Derived(Shown(kept, stream), kept, Ran)
      <4> HIDE DEF kept
      <4> QED
        BY <1>1, <3>2, ShownType, ShownDerived
    <3>4. Derived(Shown(kept, stream), messages, Ran)
      <4> HIDE DEF kept
      <4> QED
        BY <1>1, <3>2, <3>3, DerivedTwice
    <3>5. Store(Shown(kept, stream))
      BY <1>2, <2>1 DEF Send
    <3> QED
      BY <1>1, <3>4, <3>5, StoreTame
  <2>2. CASE cp = 0
    BY <1>1, <1>2, <2>2, KeptTame DEF Send
  <2> QED
    BY <2>1, <2>2
<1>3. CASE StopClick
  BY <1>3, AbortTame DEF StopClick
<1>4. CASE EditClick
  BY <1>4, AbortTame DEF EditClick
<1>5. CASE Reject
  BY <1>1, <1>5, RejectedDerived, StoreTame DEF Reject
<1>6. CASE Jump
  <2> DEFINE hist == IF cp = 0 /\ LastKind(messages) # "checkpoint"
                     THEN Append(messages, Checkpoint) ELSE messages
  <2>1. hist \in Seq(Message) /\ Derived(hist, messages, Ran)
    BY <1>1, DerivedSelf, PlainDerived, MessageTypes DEF Checkpoint, Roles
  <2>2. Shown(hist, stream) \in Seq(Message) /\ Derived(Shown(hist, stream), hist, Ran)
    <3> HIDE DEF hist
    <3> QED
      BY <1>1, <2>1, ShownType, ShownDerived
  <2>3. Derived(Shown(hist, stream), messages, Ran)
    <3> HIDE DEF hist
    <3> QED
      BY <1>1, <2>1, <2>2, DerivedTwice
  <2>4. /\ messages' = Shown(hist, stream)
        /\ disk'.messages \in {messages', hist, disk.messages}
    BY <1>6 DEF Jump
  <2> HIDE DEF hist
  <2> QED
    BY <2>1, <2>3, <2>4 DEF Tame
<1>7. CASE Touch
  <2>1. Derived(Shown(messages, stream), messages, Ran)
    BY <1>1, ShownDerived
  <2> QED
    BY <1>7, <2>1 DEF Touch, Tame
<1>8. CASE Dismiss
  BY <1>1, <1>8, KeptTame DEF Dismiss, thread
<1>9. CASE ContentFails
  BY <1>1, <1>9, KeptTame DEF ContentFails, thread
<1> QED
  BY <1>2, <1>3, <1>4, <1>5, <1>6, <1>7, <1>8, <1>9

\* A call that is approved is that of the last message.
LEMMA ApproveTame ==
    ASSUME IInv, NEW a \in Agents, Approve(a)
    PROVE  Tame
<1> DEFINE c == LastCall(messages)
<1>1. TypeOK /\ messages \in Seq(Message) /\ stream \in Stream
  BY DEF IInv, TypeOK
<1>2. LastKind(messages) \in ToolTypes /\ c \in Calls
  BY <1>1, LastToolCall DEF Approve, Approvable, ToolTypes
<1>3. StartTool(a, c, toolOf[c], messages, stream, TRUE)
  BY DEF Approve
<1>4. \A k \in {"running_now", "tool_error"} :
        /\ ToolMsg(k, c) \in Message /\ k \in ToolTypes \ {"tool_request"}
  BY <1>2, MessageTypes DEF ToolTypes
<1> DEFINE Updated(k) == UpdateLatestTool(messages, ToolMsg(k, c))
<1>5. \A k \in {"running_now", "tool_error"} :
        Updated(k) \in Seq(Message) /\ Derived(Updated(k), messages, Ran)
  <2> HIDE DEF c
  <2>1. LastCall(messages) = c
    BY DEF c
  <2> QED
    BY <1>1, <1>2, <1>4, <2>1, UpdateLatestToolType, UpdateDerived
<1>6. Derived(Shown(Updated("running_now"), stream), messages, Ran)
  <2> HIDE DEF Updated
  <2>1. Shown(Updated("running_now"), stream) \in Seq(Message)
    BY <1>1, <1>5, ShownType
  <2>2. Derived(Shown(Updated("running_now"), stream), Updated("running_now"), Ran)
    BY <1>5, ShownDerived
  <2> QED
    BY <1>1, <1>5, <2>1, <2>2, DerivedTwice
<1>7. Store(Shown(Updated("running_now"), stream)) \/ Store(Updated("tool_error"))
  BY <1>3 DEF StartTool
<1> HIDE DEF Updated
<1> QED
  BY <1>1, <1>5, <1>6, <1>7, StoreTame

LEMMA AgentTame ==
    ASSUME IInv, CurrentRan, NEW a \in Agents,
           ContentReady(a) \/ Approve(a) \/ LLMText(a) \/ (AgentStep(a) /\ ~LLMFinalWithTool(a))
    PROVE  Tame
<1>1. TypeOK /\ messages \in Seq(Message) /\ StreamOwned /\ LoopsOK /\ NoDeadSpinner
  BY DEF IInv, TypeOK, Control
<1>2. \A k \in Roles : Append(messages, Plain(k)) \in Seq(Message) /\ Derived(Append(messages, Plain(k)), messages, Ran)
  BY <1>1, PlainDerived, MessageTypes
<1>3. Derived(Append(messages, Checkpoint), messages, Ran)
  BY <1>2 DEF Checkpoint, Roles
<1>4. ASSUME SendLLM(a, attempts[a] + 1) \/ SendLLM(a, 1) \/ StopIdle(a) PROVE Tame
  <2>1. UNCHANGED <<messages, disk>> \/ Finish(a, messages)
    BY <1>4 DEF SendLLM, StopIdle
  <2> QED
    BY <1>1, <1>3, <2>1, KeptTame, StoreTame DEF Finish
<1>5. \A k \in ToolTypes \ {"tool_request"} : pc[a] \in ToolPCs =>
        Derived(UpdateLatestTool(messages, ToolMsg(k, cur[a])), messages, Ran)
  <2>1. pc[a] \in ToolPCs => cur[a] \in Calls /\ cur[a] \in Ran
    BY <1>1, CallAssumption DEF LoopsOK, CurrentRan, Ran
  <2> QED
    BY <1>1, <2>1, UpdateDerived
<1>6. CASE ContentReady(a)
  BY <1>1, <1>2, <1>6, StoreTame DEF ContentReady, Roles
<1>7. CASE Approve(a)
  BY <1>7, ApproveTame
<1>8. CASE LLMText(a)
  BY <1>1, <1>8, KeptTame DEF LLMText, thread
<1>9. CASE Prepared(a)
  BY <1>4, <1>9 DEF Prepared
<1>16. CASE PrepareFails(a)
  BY <1>1, <1>16, KeptTame DEF PrepareFails, thread
<1>10. CASE RetryTimer(a)
  BY <1>4, <1>10 DEF RetryTimer, AttemptAfter
<1>11. CASE LLMError(a)
  <2>1. UNCHANGED <<messages, disk>> \/ \E w \in BOOLEAN : Store(AbortedHistory(w))
    BY <1>11 DEF LLMError, Superseded
  <2> QED
    BY <1>1, <2>1, KeptTame, StoreTame, AbortedDerived
<1>12. CASE LLMFinal(a)
  <2> DEFINE said == Append(messages, Plain("assistant"))
  <2>1. said \in Seq(Message) /\ Derived(said, messages, Ran)
    BY <1>2 DEF Roles
  <2>2. Append(said, Checkpoint) \in Seq(Message) /\ Derived(Append(said, Checkpoint), said, Ran)
    <3> HIDE DEF said
    <3> QED
      BY <2>1, PlainDerived, MessageTypes DEF Checkpoint, Roles
  <2>3. UNCHANGED <<messages, disk>> \/ Store(Append(said, Checkpoint))
    BY <1>12 DEF LLMFinal, Superseded, Finish
  <2> HIDE DEF said
  <2>4. Derived(Append(said, Checkpoint), messages, Ran)
    BY <1>1, <2>1, <2>2, DerivedTwice
  <2> QED
    BY <1>1, <2>3, <2>4, KeptTame, StoreTame
<1>13. CASE CallToolReturned(a)
  BY <1>1, <1>13, KeptTame DEF CallToolReturned, thread
<1>14. CASE CallToolThrew(a)
  BY <1>1, <1>5, <1>14, StoreTame DEF CallToolThrew, ToolPCs, ToolTypes
<1>15. CASE ToolResult(a)
  <2>1. \/ UNCHANGED <<messages, disk>> \/ Store(Append(messages, Checkpoint))
        \/ \E k \in {"success", "tool_error"} : Store(UpdateLatestTool(messages, ToolMsg(k, cur[a])))
    BY <1>15 DEF ToolResult, StopIdle
  <2>2. pc[a] \in ToolPCs
    BY <1>15 DEF ToolResult, ToolPCs
  <2>3. {"success", "tool_error"} \subseteq ToolTypes \ {"tool_request"}
    BY DEF ToolTypes
  <2> QED
    BY <1>1, <1>3, <1>5, <2>1, <2>2, <2>3, KeptTame, StoreTame
<1> QED
  BY <1>6, <1>7, <1>8, <1>9, <1>10, <1>11, <1>12, <1>13, <1>14, <1>15, <1>16 DEF AgentStep

-----------------------------------------------------------------------------
\* The call that a loop is in ran, and a restart leaves no loop in one.
LEMMA CurrentKept ==
    ASSUME TypeOK, CurrentRan,
           \A c \in Calls : runs[c] # 0 => runs'[c] # 0,
           \A b \in Agents : cur'[b] \in {cur[b], NoCall} \/ (cur'[b] \in Calls /\ runs'[cur'[b]] # 0)
    PROVE  CurrentRan'
BY DEF CurrentRan, TypeOK

\* After the history of a step, no call is asked for that was not before.
LEMMA AskedOnceKept ==
    ASSUME NEW old \in Seq(Message), NEW new \in Seq(Message), NEW ok \in SUBSET Calls, NEW now, NEW X,
           AskedOnce(old, ok), Derived(new, old, X), X \cap ok = {},
           \A i \in 1..Len(new) : new[i].kind = "tool_request" /\ new[i].call \in ok => new[i].call \in now
    PROVE  AskedOnce(new, now)
<1> SUFFICES ASSUME NEW i \in 1..Len(new), new[i].kind = "tool_request"
             PROVE  /\ new[i].call \in now
                    /\ \A j \in 1..Len(new) : new[j].call = new[i].call => j = i
  BY DEF AskedOnce
<1>1. i <= Len(old) /\ new[i] = old[i]
  BY DEF Derived
<1>2. /\ old[i].call \in ok
      /\ \A j \in 1..Len(old) : old[j].call = old[i].call => j = i
  BY <1>1 DEF AskedOnce
<1>3. ASSUME NEW j \in 1..Len(new), new[j].call = new[i].call PROVE j = i
  <2>1. new[j].call \notin X \cup {NoCall}
    BY <1>1, <1>2, <1>3, CallAssumption
  <2>2. j <= Len(old) /\ new[j].call = old[j].call
    BY <2>1 DEF Derived
  <2> QED
    BY <1>1, <1>2, <1>3, <2>2
<1> QED
  BY <1>1, <1>2, <1>3

LEMMA MentionsKept ==
    ASSUME NEW old \in Seq(Message), NEW new \in Seq(Message), NEW X, NEW c \in Calls,
           Derived(new, old, X), Mentions(new, c)
    PROVE  Mentions(old, c) \/ c \in X
BY CallAssumption DEF Mentions, Derived

\* A call is asked for.
Asks(msgs, c) == \E i \in 1..Len(msgs) : msgs[i].kind = "tool_request" /\ msgs[i].call = c

\* Once its message is a request no more, the call of the last message is not asked for.
LEMMA NoLongerAsked ==
    ASSUME NEW old \in Seq(Message), NEW new \in Seq(Message), NEW ok, NEW X,
           AskedOnce(old, ok), Derived(new, old, X), old # << >>,
           Len(old) <= Len(new), new[Len(old)].kind # "tool_request"
    PROVE  ~Asks(new, LastCall(old))
<1> SUFFICES ASSUME NEW i \in 1..Len(new), new[i].kind = "tool_request", new[i].call = LastCall(old)
             PROVE  FALSE
  BY DEF Asks
<1>1. i \in 1..Len(old) /\ old[i] = new[i]
  BY DEF Derived
<1>2. Len(old) \in 1..Len(old) /\ old[Len(old)].call = LastCall(old)
  BY LastMessage
<1>3. i = Len(old)
  BY <1>1, <1>2 DEF AskedOnce
<1> QED
  BY <1>1, <1>3

\* A step that makes no call and changes the histories as Tame says, from those of
\* memory or, as a restart does, from those on the disk: a call that ceases to be
\* untouched was in the history, and is not asked for any more.
LEMMA CallsKept ==
    ASSUME TypeOK, TypeOK', CallsOK, UNCHANGED toolOf,
           NEW h \in {messages, disk.messages}, Derived(messages', h, Ran),
           disk'.messages = disk.messages \/ Derived(disk'.messages, h, Ran),
           RunsAtMostOnce', CurrentRan',
           \A c \in Untouched \ Untouched' :
              Mentions(messages, c) /\ ~Asks(messages', c) /\ ~Asks(disk'.messages, c)
    PROVE  CallsOK'
<1>1. /\ messages \in Seq(Message) /\ messages' \in Seq(Message) /\ h \in Seq(Message)
      /\ disk.messages \in Seq(Message) /\ disk'.messages \in Seq(Message)
  BY DEF TypeOK
<1>2. Untouched \in SUBSET Calls /\ Ran \cap Untouched = {} /\ AskedOnce(h, Untouched)
  BY DEF Untouched, Ran, CallsOK
<1>3. \E g \in {messages, disk.messages} : Derived(disk'.messages, g, Ran)
  BY <1>1, DerivedSelf
<1>4. \A g \in {messages, disk.messages} : AskedOnce(g, Untouched)
  BY DEF CallsOK
<1>5. \A new \in {messages', disk'.messages}, i \in 1..Len(messages') \cup 1..Len(disk'.messages) :
        i \in 1..Len(new) /\ new[i].kind = "tool_request" /\ new[i].call \in Untouched => new[i].call \in Untouched'
  BY DEF Asks
<1>6. AskedOnce(messages', Untouched')
  BY <1>1, <1>2, <1>5, AskedOnceKept
<1>7. AskedOnce(disk'.messages, Untouched')
  <2>1. PICK g \in {messages, disk.messages} : Derived(disk'.messages, g, Ran)
    BY <1>3
  <2> QED
    BY <1>1, <1>2, <1>4, <1>5, <2>1, AskedOnceKept
<1>8. NotMade'
  <2> SUFFICES ASSUME NEW c \in Calls, toolOf[c] = NoTool
               PROVE  c \in Untouched' /\ ~Mentions(messages', c) /\ ~Mentions(disk'.messages, c)
    BY DEF NotMade
  <2>1. c \in Untouched /\ ~Mentions(messages, c) /\ ~Mentions(disk.messages, c)
    BY DEF CallsOK, NotMade
  <2>2. c \in Untouched' /\ c \notin Ran
    BY <1>2, <2>1
  <2> QED
    BY <1>1, <1>3, <2>1, <2>2, MentionsKept
<1> QED
  BY <1>6, <1>7, <1>8 DEF CallsOK

\* The LLM makes call c: it is appended to what the history became, kept, and run or
\* not; only what is no request may run at once.
LEMMA CallMade ==
    ASSUME TypeOK, TypeOK', CallsOK, NEW c \in Calls, toolOf[c] = NoTool,
           \A d \in Calls : toolOf'[d] = NoTool => d # c /\ toolOf[d] = NoTool,
           NEW kept \in Seq(Message), Derived(kept, messages, {}),
           NEW k \in ToolTypes \cup {"invalid_params"},
           messages' = Append(kept, ToolMsg(k, c)), disk'.messages = messages',
           RunsAtMostOnce', CurrentRan',
           Untouched' = Untouched \/ (k # "tool_request" /\ Untouched' = Untouched \ {c})
    PROVE  CallsOK'
<1> DEFINE new == Append(kept, ToolMsg(k, c))
<1>1. messages \in Seq(Message) /\ ToolMsg(k, c) \in Message /\ ToolMsg(k, c).kind = k /\ ToolMsg(k, c).call = c
  BY MessageTypes DEF TypeOK, ToolMsg
<1>2. /\ Len(new) = Len(kept) + 1 /\ new[Len(kept) + 1] = ToolMsg(k, c)
      /\ \A i \in 1..Len(kept) : new[i] = kept[i]
  BY <1>1
<1>3. c \in Untouched /\ ~Mentions(messages, c) /\ Untouched \in SUBSET Calls
  BY DEF CallsOK, NotMade, Untouched
<1>4. ~Mentions(kept, c)
  BY <1>1, <1>3, MentionsKept
<1>5. AskedOnce(kept, Untouched)
  BY <1>1, <1>3, AskedOnceKept DEF CallsOK
<1>6. /\ \A d \in Untouched : d # c => d \in Untouched'
      /\ k = "tool_request" => c \in Untouched'
  BY <1>3
<1> HIDE DEF new
<1>7. AskedOnce(new, Untouched')
  <2> SUFFICES ASSUME NEW i \in 1..Len(new), new[i].kind = "tool_request"
               PROVE  /\ new[i].call \in Untouched'
                      /\ \A j \in 1..Len(new) : new[j].call = new[i].call => j = i
    BY DEF AskedOnce
  <2>1. CASE i = Len(kept) + 1
    <3>1. new[i].call = c /\ c \in Untouched'
      BY <1>1, <1>2, <1>6, <2>1
    <3>2. \A j \in 1..Len(kept) : new[j].call # c
      BY <1>2, <1>4 DEF Mentions
    <3> QED
      BY <1>2, <2>1, <3>1, <3>2
  <2>2. CASE i \in 1..Len(kept)
    <3>1. new[i] = kept[i] /\ kept[i].call # c
      BY <1>2, <1>4, <2>2 DEF Mentions
    <3>2. kept[i].call \in Untouched /\ \A j \in 1..Len(kept) : kept[j].call = kept[i].call => j = i
      BY <1>5, <2>2, <3>1 DEF AskedOnce
    <3>3. \A j \in 1..Len(new) : new[j].call = new[i].call => j \in 1..Len(kept)
      BY <1>1, <1>2, <3>1
    <3> QED
      BY <1>2, <1>6, <3>1, <3>2, <3>3
  <2> QED
    BY <1>2, <2>1, <2>2
<1>8. ASSUME NEW d \in Calls, toolOf'[d] = NoTool
      PROVE  d \in Untouched' /\ ~Mentions(new, d)
  <2>1. d # c /\ d \in Untouched /\ ~Mentions(messages, d)
    BY <1>8 DEF CallsOK, NotMade
  <2>2. ~Mentions(kept, d)
    BY <1>1, <2>1, MentionsKept
  <2>3. \A i \in 1..Len(new) : new[i].call # d
    BY <1>1, <1>2, <2>1, <2>2 DEF Mentions
  <2> QED
    BY <1>6, <2>1, <2>3 DEF Mentions
<1>9. NotMade'
  BY <1>8 DEF NotMade, new
<1> QED
  BY <1>7, <1>9 DEF CallsOK, new

\* Steps that start no call and turn none down.
LEMMA CalmCalls ==
    ASSUME TypeOK, TypeOK', CallsOK, Tame, UNCHANGED <<toolOf, ghosts>>,
           \A b \in Agents : cur'[b] \in {cur[b], NoCall}
    PROVE  CallsOK'
<1>1. UNCHANGED <<toolOf, runs, denied>> /\ Untouched' = Untouched
  BY DEF ghosts, Untouched
<1>2. RunsAtMostOnce' /\ CurrentRan'
  BY <1>1, CurrentKept DEF CallsOK, RunsAtMostOnce
<1> QED
  BY <1>1, <1>2, CallsKept DEF Tame

\* The call of the last message is turned down, which is a request no more.
LEMMA DeniedCalls ==
    ASSUME TypeOK, TypeOK', CallsOK, Tame, UNCHANGED <<toolOf, runs, cur>>,
           LastKind(messages) \in ToolTypes, denied' = denied \cup {LastCall(messages)},
           Len(messages) <= Len(messages'), messages'[Len(messages)].kind # "tool_request",
           disk'.messages = messages'
    PROVE  CallsOK'
<1>1. messages \in Seq(Message) /\ messages' \in Seq(Message) /\ messages # << >>
  BY LastToolCall DEF TypeOK
<1>2. RunsAtMostOnce' /\ CurrentRan'
  BY CurrentKept DEF CallsOK, RunsAtMostOnce
<1>3. Mentions(messages, LastCall(messages))
  BY <1>1, LastMessage DEF Mentions
<1>4. ~Asks(messages', LastCall(messages))
  BY <1>1, NoLongerAsked DEF CallsOK, Tame
<1>5. \A c \in Untouched \ Untouched' : c = LastCall(messages)
  BY DEF Untouched
<1>6. \A c \in Untouched \ Untouched' :
        Mentions(messages, c) /\ ~Asks(messages', c) /\ ~Asks(disk'.messages, c)
  BY <1>3, <1>4, <1>5
<1> QED
  BY <1>2, <1>6, CallsKept DEF Tame

LEMMA RejectedLast ==
    ASSUME NEW msgs \in Seq(Message), LastKind(msgs) \in ToolTypes
    PROVE  Len(Rejected(msgs)) = Len(msgs) /\ Rejected(msgs)[Len(msgs)].kind = "rejected"
BY LastToolCall DEF Rejected, ReplaceLast, ToolMsg

LEMMA AbortCalls ==
    ASSUME IInv, TypeOK', CallsOK, NEW after, NEW rest, Abort(after, rest)
    PROVE  CallsOK'
<1>1. TypeOK /\ messages \in Seq(Message) /\ Tame /\ UNCHANGED <<toolOf, runs, cur>>
  BY AbortTame DEF IInv, TypeOK, CallsOK, Abort, agent
<1>2. CASE TurnedDown = {}
  <2>1. denied' = denied
    BY <1>2 DEF Abort
  <2> QED
    BY <1>1, <2>1, CalmCalls DEF ghosts
<1>3. CASE TurnedDown # {}
  <2>1. /\ stream.run = "awaiting_user" /\ LastKind(messages) \in ToolTypes
        /\ denied' = denied \cup {LastCall(messages)}
    BY <1>3 DEF TurnedDown, Abort
  <2>2. messages' = Append(Rejected(messages), Checkpoint) /\ disk'.messages = messages'
    BY <2>1 DEF Abort, Store, AbortedHistory
  <2>3. Rejected(messages) \in Seq(Message) /\ Len(messages) \in 1..Len(messages)
    BY <1>1, <2>1, RejectedType, LastToolCall
  <2>4. Len(messages) <= Len(messages') /\ messages'[Len(messages)].kind = "rejected"
    BY <1>1, <2>1, <2>2, <2>3, RejectedLast, MessageTypes
  <2> QED
    BY <1>1, <2>1, <2>2, <2>4, DeniedCalls
<1> QED
  BY <1>2, <1>3

LEMMA MicrotaskCalls ==
    ASSUME IInv, TypeOK', OpensOK, CallsOK, Microtask
    PROVE  CallsOK'
<1>1. TypeOK /\ Tame /\ micro \in Seq(Jobs) /\ micro # << >> /\ JobsOK
  BY MicrotaskTame DEF IInv, TypeOK, CallsOK, Microtask, Control
<1>2. CASE RunInterrupt
  <2>1. UNCHANGED <<toolOf, ghosts>> /\ (cur' = cur \/ \E b \in Agents \cup {NoAgent} : cur' = [cur EXCEPT ![b] = NoCall])
    <3>1. Head(micro) \in Jobs
      BY <1>1
    <3>2. Head(micro).on \in Agents \cup {NoAgent}
      BY <3>1 DEF Jobs
    <3> QED
      BY <1>2, <3>2 DEF RunInterrupt, End
  <2> QED
    BY <1>1, <2>1, CalmCalls DEF TypeOK
<1>3. CASE RunEdit
  BY <1>1, <1>3, CalmCalls DEF RunEdit, agent
<1>4. CASE RunSend
  <2>1. CASE stream.run # "none"
    BY <1>4, <2>1, AbortCalls DEF RunSend
  <2>2. CASE stream.run = "none"
    BY <1>1, <1>4, <2>2, CalmCalls DEF RunSend, agent
  <2> QED
    BY <2>1, <2>2
<1>5. CASE RunContent
  BY <1>1, <1>5, CalmCalls DEF RunContent, agent
<1>6. CASE RunLoop
  <2>1. UNCHANGED <<toolOf, ghosts>> /\ cur' = [cur EXCEPT ![Head(micro).on] = NoCall]
    BY <1>6 DEF RunLoop, NextMessage
  <2> QED
    BY <1>1, <2>1, CalmCalls DEF TypeOK
<1> QED
  BY <1>2, <1>3, <1>4, <1>5, <1>6 DEF Microtask

LEMMA UserCalls ==
    ASSUME IInv, TypeOK', CallsOK,
           Send \/ ContentFails \/ StopClick \/ EditClick \/ Reject \/ Jump \/ Touch \/ Dismiss \/ Restart
    PROVE  CallsOK'
<1>1. TypeOK /\ messages \in Seq(Message) /\ CurrentRan
  BY DEF IInv, TypeOK, CallsOK
<1>2. CASE Send \/ ContentFails \/ Jump \/ Touch \/ Dismiss
  <2>1. UNCHANGED <<toolOf, ghosts, cur>>
    BY <1>2 DEF Send, ContentFails, Jump, Touch, Dismiss, agent
  <2>2. Tame
    BY <1>1, <1>2, UserTame
  <2> QED
    BY <1>1, <2>1, <2>2, CalmCalls
<1>3. CASE StopClick
  BY <1>3, AbortCalls DEF StopClick
<1>4. CASE EditClick
  BY <1>4, AbortCalls DEF EditClick
<1>5. CASE Reject
  <2>1. /\ LastKind(messages) \in ToolTypes /\ denied' = denied \cup {LastCall(messages)}
        /\ messages' = Rejected(messages) /\ disk'.messages = messages'
        /\ UNCHANGED <<toolOf, runs, cur>>
    BY <1>5 DEF Reject, Store, agent
  <2>2. Len(messages) <= Len(messages') /\ messages'[Len(messages)].kind # "tool_request"
    BY <1>1, <2>1, RejectedLast
  <2>3. Tame
    BY <1>1, <1>5, UserTame
  <2> QED
    BY <1>1, <2>1, <2>2, <2>3, DeniedCalls
<1>6. CASE Restart
  <2>1. /\ UNCHANGED <<toolOf, runs, denied>> /\ \A b \in Agents : cur'[b] = NoCall
        /\ messages' = Shown(disk.messages, Idle) /\ disk'.messages = messages'
    BY <1>1, <1>6 DEF Restart, ghosts, TypeOK
  <2>2. Derived(messages', disk.messages, Ran)
    BY <1>1, <2>1, ShownDerived DEF TypeOK
  <2>3. Untouched' = Untouched /\ RunsAtMostOnce' /\ CurrentRan'
    BY <1>1, <2>1, CurrentKept DEF Untouched, CallsOK, RunsAtMostOnce
  <2> QED
    BY <1>1, <2>1, <2>2, <2>3, CallsKept
<1> QED
  BY <1>2, <1>3, <1>4, <1>5, <1>6

\* A call that is started is counted.
LEMMA StartedCalls ==
    ASSUME TypeOK, CallsOK, NEW a \in Agents, NEW c \in Calls, runs[c] = 0,
           runs' = [runs EXCEPT ![c] = @ + 1], cur' = [cur EXCEPT ![a] = c], UNCHANGED denied
    PROVE  RunsAtMostOnce' /\ CurrentRan' /\ Untouched' = Untouched \ {c}
<1>1. /\ \A d \in Calls : runs'[d] = IF d = c THEN 1 ELSE runs[d]
      /\ \A b \in Agents : cur'[b] = IF b = a THEN c ELSE cur[b]
  BY DEF TypeOK
<1>2. RunsAtMostOnce'
  BY <1>1 DEF CallsOK, RunsAtMostOnce
<1>3. CurrentRan'
  BY <1>1, CurrentKept DEF CallsOK
<1>4. Untouched' = Untouched \ {c}
  BY <1>1 DEF Untouched
<1> QED
  BY <1>2, <1>3, <1>4

\* The call of a request at the end of the history.
LEMMA ApprovableCall ==
    ASSUME TypeOK, CallsOK, Approvable
    PROVE  /\ messages # << >> /\ LastCall(messages) \in Calls
           /\ LastCall(messages) \in Untouched /\ Mentions(messages, LastCall(messages))
<1>1. messages \in Seq(Message) /\ LastKind(messages) \in ToolTypes
  BY DEF TypeOK, Approvable, ToolTypes
<1>2. /\ messages # << >> /\ LastCall(messages) \in Calls
      /\ Len(messages) \in 1..Len(messages) /\ LastCall(messages) = messages[Len(messages)].call
      /\ messages[Len(messages)].kind = "tool_request"
  BY <1>1, LastToolCall, LastMessage DEF Approvable
<1> QED
  BY <1>2 DEF CallsOK, AskedOnce, Mentions

LEMMA ApproveCalls ==
    ASSUME IInv, TypeOK', CallsOK, NEW a \in Agents, Approve(a)
    PROVE  CallsOK'
<1> DEFINE c == LastCall(messages)
           updated == UpdateLatestTool(messages, ToolMsg("running_now", c))
<1>1. /\ TypeOK /\ messages \in Seq(Message) /\ Tame /\ Approvable
      /\ LastKind(messages) \in ToolTypes /\ messages # << >> /\ c \in Calls
      /\ c \in Untouched /\ Mentions(messages, c)
  BY ApproveTame, ApprovableCall DEF IInv, TypeOK, CallsOK, Approve, Approvable, ToolTypes
<1>2. UNCHANGED <<toolOf, denied>>
  BY DEF Approve
<1>3. StartTool(a, c, toolOf[c], messages, stream, TRUE)
  BY DEF Approve
<1>4. CASE UNCHANGED <<runs, cur>>
  BY <1>1, <1>2, <1>4, CalmCalls DEF ghosts
<1>5. CASE /\ Store(Shown(updated, stream)) /\ runs' = [runs EXCEPT ![c] = @ + 1]
           /\ cur' = [cur EXCEPT ![a] = c]
  <2>1. RunsAtMostOnce' /\ CurrentRan' /\ Untouched' = Untouched \ {c}
    BY <1>1, <1>2, <1>5, StartedCalls DEF Untouched
  <2>2. messages' = Shown(updated, stream) /\ disk'.messages = messages'
    BY <1>5 DEF Store
  <2>3. /\ updated = ReplaceLast(messages, ToolMsg("running_now", c))
        /\ updated \in Seq(Message) /\ Len(updated) = Len(messages)
        /\ updated[Len(messages)] = ToolMsg("running_now", c)
    <3>1. ToolMsg("running_now", c) \in Message
      BY <1>1, MessageTypes DEF ToolTypes
    <3> QED
      BY <1>1, <3>1, UpdateLatestToolType DEF UpdateLatestTool, ReplaceLast
  <2>4. Len(messages') = Len(messages) /\ messages'[Len(messages)].kind \in {"running_now", "rejected"}
    BY <1>1, <2>2, <2>3 DEF Shown, ReplaceLast, ToolMsg
  <2>5. ~Asks(messages', c)
    <3>1. messages' \in Seq(Message) /\ AskedOnce(messages, Untouched) /\ Derived(messages', messages, Ran)
      BY <1>1 DEF TypeOK, CallsOK, Tame
    <3>2. messages'[Len(messages)].kind # "tool_request" /\ Len(messages) <= Len(messages')
      BY <1>1, <2>4
    <3> QED
      BY <1>1, <3>1, <3>2, NoLongerAsked
  <2> HIDE DEF c
  <2>6. \A d \in Untouched \ Untouched' :
          Mentions(messages, d) /\ ~Asks(messages', d) /\ ~Asks(disk'.messages, d)
    BY <1>1, <2>1, <2>2, <2>5
  <2> QED
    BY <1>1, <1>2, <2>1, <2>6, CallsKept DEF Tame
<1> QED
  BY <1>3, <1>4, <1>5 DEF StartTool

\* Loop a, and no other, may drop its call.
DropsCall(a) == cur' = cur \/ cur' = [cur EXCEPT ![a] = NoCall]

LEMMA AgentDrops ==
    ASSUME NEW a \in Agents,
           ContentReady(a) \/ LLMText(a) \/ (AgentStep(a) /\ ~LLMFinalWithTool(a))
    PROVE  UNCHANGED <<toolOf, ghosts>> /\ DropsCall(a)
<1>1. CASE ContentReady(a)
  BY <1>1 DEF ContentReady, NextMessage, DropsCall
<1>2. CASE LLMText(a)
  BY <1>2 DEF LLMText, agent, DropsCall
<1>3. ASSUME SendLLM(a, attempts[a] + 1) \/ SendLLM(a, 1) \/ StopIdle(a) PROVE DropsCall(a)
  BY <1>3 DEF SendLLM, StopIdle, Finish, End, DropsCall
<1>4. CASE Prepared(a)
  BY <1>3, <1>4 DEF Prepared
<1>11. CASE PrepareFails(a)
  BY <1>11 DEF PrepareFails, DropsCall
<1>5. CASE RetryTimer(a)
  BY <1>3, <1>5 DEF RetryTimer, AttemptAfter
<1>6. CASE LLMError(a)
  BY <1>6 DEF LLMError, Superseded, End, DropsCall
<1>7. CASE LLMFinal(a)
  BY <1>7 DEF LLMFinal, Superseded, Finish, End, DropsCall
<1>8. CASE CallToolReturned(a)
  BY <1>8 DEF CallToolReturned, DropsCall
<1>9. CASE CallToolThrew(a)
  BY <1>9 DEF CallToolThrew, DropsCall
<1>10. CASE ToolResult(a)
  BY <1>10 DEF ToolResult, StopIdle, End, NextMessage, DropsCall
<1> QED
  BY <1>1, <1>2, <1>4, <1>5, <1>6, <1>7, <1>8, <1>9, <1>10, <1>11 DEF AgentStep

\* The LLM makes a call: what the history becomes.
LEMMA MadeHistory ==
    ASSUME TypeOK, NEW a \in Agents, LLMFinalWithTool(a)
    PROVE  \E c \in Calls, tool \in Tools, k \in ToolTypes \cup {"invalid_params"}, kept \in Seq(Message) :
              /\ toolOf[c] = NoTool /\ toolOf' = [toolOf EXCEPT ![c] = tool]
              /\ Derived(kept, messages, {})
              /\ messages' = Append(kept, ToolMsg(k, c)) /\ disk'.messages = messages'
              /\ \/ UNCHANGED runs /\ DropsCall(a)
                 \/ /\ k = "running_now"
                    /\ runs' = [runs EXCEPT ![c] = @ + 1] /\ cur' = [cur EXCEPT ![a] = c]
<1>1. messages \in Seq(Message)
  BY DEF TypeOK
<1> DEFINE said == Append(messages, Plain("assistant"))
           Kept(tool) == IF tool.edit THEN Append(said, Checkpoint) ELSE said
<1>2. PICK c \in Calls, tool \in Tools :
        /\ toolOf[c] = NoTool /\ toolOf' = [toolOf EXCEPT ![c] = tool]
        /\ \/ /\ Store(Append(said, ToolMsg("invalid_params", c)))
              /\ NextMessage(a) /\ UNCHANGED runs
           \/ /\ Store(Append(Kept(tool), ToolMsg("tool_request", c)))
              /\ End(a) /\ UNCHANGED runs
           \/ StartTool(a, c, tool, Kept(tool), On("idle", a), FALSE)
  BY DEF LLMFinalWithTool
<1> DEFINE kept == Kept(tool)
<1>3. /\ said \in Seq(Message) /\ Derived(said, messages, {})
      /\ LastKind(said) \notin ToolTypes
  BY <1>1, PlainDerived, MessageTypes DEF Roles, Plain, LastKind, ToolTypes
<1>4. /\ kept \in Seq(Message) /\ Derived(kept, messages, {})
      /\ LastKind(kept) \notin ToolTypes
  <2> HIDE DEF said
  <2>1. /\ Append(said, Checkpoint) \in Seq(Message) /\ Derived(Append(said, Checkpoint), said, {})
        /\ LastKind(Append(said, Checkpoint)) \notin ToolTypes
    BY <1>3, PlainDerived, MessageTypes DEF Roles, Plain, Checkpoint, LastKind, ToolTypes
  <2>2. Derived(Append(said, Checkpoint), messages, {})
    BY <1>1, <1>3, <2>1, DerivedTwice
  <2>3. CASE tool.edit
    BY <2>1, <2>2, <2>3
  <2>4. CASE ~tool.edit
    BY <1>3, <2>4
  <2> QED
    BY <2>3, <2>4
<1> HIDE DEF kept, said, Kept
<1>5. ASSUME NEW k \in ToolTypes \cup {"invalid_params"}, NEW ms \in {kept, said},
             Store(Append(ms, ToolMsg(k, c))),
             \/ UNCHANGED runs /\ DropsCall(a)
             \/ /\ k = "running_now"
                /\ runs' = [runs EXCEPT ![c] = @ + 1] /\ cur' = [cur EXCEPT ![a] = c]
      PROVE  \E t \in Tools, l \in ToolTypes \cup {"invalid_params"}, m \in Seq(Message) :
              /\ toolOf[c] = NoTool /\ toolOf' = [toolOf EXCEPT ![c] = t]
              /\ Derived(m, messages, {})
              /\ messages' = Append(m, ToolMsg(l, c)) /\ disk'.messages = messages'
              /\ \/ UNCHANGED runs /\ DropsCall(a)
                 \/ /\ l = "running_now"
                    /\ runs' = [runs EXCEPT ![c] = @ + 1] /\ cur' = [cur EXCEPT ![a] = c]
  <2>1. messages' = Append(ms, ToolMsg(k, c)) /\ disk'.messages = messages'
    BY <1>5 DEF Store
  <2>2. ms \in Seq(Message) /\ Derived(ms, messages, {})
    BY <1>3, <1>4
  <2> QED
    BY <1>2, <1>5, <2>1, <2>2
<1>6. CASE /\ Store(Append(said, ToolMsg("invalid_params", c)))
           /\ NextMessage(a) /\ UNCHANGED runs
  BY <1>5, <1>6 DEF NextMessage, DropsCall
<1>7. CASE /\ Store(Append(kept, ToolMsg("tool_request", c)))
           /\ End(a) /\ UNCHANGED runs
  BY <1>5, <1>7 DEF End, DropsCall, ToolTypes
<1>8. CASE StartTool(a, c, tool, kept, On("idle", a), FALSE)
  <2>1. \A k \in ToolTypes : UpdateLatestTool(kept, ToolMsg(k, c)) = Append(kept, ToolMsg(k, c))
    BY <1>4 DEF UpdateLatestTool
  <2>2. CASE Store(UpdateLatestTool(kept, ToolMsg("tool_error", c))) /\ UNCHANGED <<runs, cur>>
    BY <1>5, <2>1, <2>2 DEF DropsCall, ToolTypes
  <2>3. CASE /\ Store(Shown(UpdateLatestTool(kept, ToolMsg("running_now", c)), On("idle", a)))
             /\ runs' = [runs EXCEPT ![c] = @ + 1] /\ cur' = [cur EXCEPT ![a] = c]
    <3>1. Store(Append(kept, ToolMsg("running_now", c))) /\ "running_now" \in ToolTypes
      BY <2>1, <2>3 DEF Store, Shown, Orphaned, On, ToolTypes
    <3> QED
      BY <1>5, <2>3, <3>1
  <2> QED
    BY <1>8, <2>2, <2>3 DEF StartTool
<1> QED
  BY <1>2, <1>6, <1>7, <1>8 DEF kept

LEMMA MakesCalls ==
    ASSUME IInv, TypeOK', CallsOK, NEW a \in Agents, LLMFinalWithTool(a)
    PROVE  CallsOK'
<1>1. TypeOK /\ messages \in Seq(Message) /\ CurrentRan
  BY DEF IInv, TypeOK, CallsOK
<1>2. PICK c \in Calls, tool \in Tools, k \in ToolTypes \cup {"invalid_params"}, kept \in Seq(Message) :
        /\ toolOf[c] = NoTool /\ toolOf' = [toolOf EXCEPT ![c] = tool]
        /\ Derived(kept, messages, {})
        /\ messages' = Append(kept, ToolMsg(k, c)) /\ disk'.messages = messages'
        /\ \/ UNCHANGED runs /\ DropsCall(a)
           \/ /\ k = "running_now"
              /\ runs' = [runs EXCEPT ![c] = @ + 1] /\ cur' = [cur EXCEPT ![a] = c]
  BY <1>1, MadeHistory
<1>3. \A d \in Calls : toolOf'[d] = NoTool => d # c /\ toolOf[d] = NoTool
  BY <1>1, <1>2, ToolAssumption DEF TypeOK
<1>4. c \in Untouched /\ runs[c] = 0 /\ UNCHANGED denied
  BY <1>2 DEF CallsOK, NotMade, Untouched, LLMFinalWithTool
<1>5. /\ RunsAtMostOnce' /\ CurrentRan'
      /\ Untouched' = Untouched \/ (k # "tool_request" /\ Untouched' = Untouched \ {c})
  <2>1. CASE UNCHANGED runs /\ DropsCall(a)
    BY <1>1, <1>4, <2>1, CurrentKept DEF CallsOK, RunsAtMostOnce, Untouched, DropsCall, TypeOK
  <2>2. CASE /\ k = "running_now"
             /\ runs' = [runs EXCEPT ![c] = @ + 1] /\ cur' = [cur EXCEPT ![a] = c]
    BY <1>1, <1>4, <2>2, StartedCalls
  <2> QED
    BY <1>2, <2>1, <2>2
<1> QED
  BY <1>1, <1>2, <1>3, <1>5, CallMade

LEMMA CallsStep == IInv /\ OpensOK /\ CallsOK /\ [Next]_vars => CallsOK'
<1> SUFFICES ASSUME IInv, OpensOK, CallsOK, [Next]_vars PROVE CallsOK'
  OBVIOUS
<1>1. TypeOK /\ TypeOK'
  BY TypeStep DEF IInv
<1>2. CASE Microtask
  BY <1>1, <1>2, MicrotaskCalls
<1>3. CASE Send \/ ContentFails \/ StopClick \/ EditClick \/ Reject \/ Jump \/ Touch \/ Dismiss \/ Restart
  BY <1>1, <1>3, UserCalls
<1>4. CASE \E a \in Agents : ContentReady(a) \/ Approve(a) \/ LLMText(a) \/ AgentStep(a)
  <2>1. PICK a \in Agents : ContentReady(a) \/ Approve(a) \/ LLMText(a) \/ AgentStep(a)
    BY <1>4
  <2>2. CASE Approve(a)
    BY <1>1, <2>2, ApproveCalls
  <2>3. CASE LLMFinalWithTool(a)
    BY <1>1, <2>3, MakesCalls
  <2>4. CASE ContentReady(a) \/ LLMText(a) \/ (AgentStep(a) /\ ~LLMFinalWithTool(a))
    <3>1. UNCHANGED <<toolOf, ghosts>> /\ DropsCall(a)
      BY <2>4, AgentDrops
    <3>2. Tame
      BY <2>4, AgentTame DEF CallsOK
    <3>3. \A b \in Agents : cur'[b] \in {cur[b], NoCall}
      BY <1>1, <3>1 DEF DropsCall, TypeOK
    <3> QED
      BY <1>1, <3>1, <3>2, <3>3, CalmCalls
  <2> QED
    BY <2>1, <2>2, <2>3, <2>4
<1>5. CASE UNCHANGED vars
  BY <1>5 DEF vars, CallsOK, Untouched, NotMade, CurrentRan, RunsAtMostOnce, AskedOnce, Mentions
<1> QED
  BY <1>2, <1>3, <1>4, <1>5 DEF Next

-----------------------------------------------------------------------------
\* Histories open with a checkpoint.

\* A history that is there stays, unless the window restarts.
LEMMA OpensKept ==
    ASSUME OpensOK, messages # << >>, Tame
    PROVE  OpensOK'
<1>1. messages[1] = Checkpoint
  BY DEF OpensOK, Opens
<1>2. messages' # << >> /\ messages'[1] = Checkpoint
  BY <1>1 DEF Tame, Derived
<1>3. Opens(disk'.messages)
  BY <1>1 DEF Tame, Derived, OpensOK, Opens
<1> QED
  BY <1>2, <1>3 DEF OpensOK, Opens

LEMMA MadeOpens ==
    ASSUME IInv, OpensOK, messages # << >>, NEW a \in Agents, LLMFinalWithTool(a)
    PROVE  OpensOK'
<1>1. TypeOK /\ messages[1] = Checkpoint
  BY DEF IInv, OpensOK, Opens
<1>2. PICK c \in Calls, k \in ToolTypes \cup {"invalid_params"}, kept \in Seq(Message) :
        /\ Derived(kept, messages, {})
        /\ messages' = Append(kept, ToolMsg(k, c)) /\ disk'.messages = messages'
  BY <1>1, MadeHistory
<1>3. kept # << >> /\ kept[1] = Checkpoint /\ ToolMsg(k, c) \in Message
  BY <1>1, <1>2, MessageTypes DEF Derived
<1>4. messages' # << >> /\ messages'[1] = Checkpoint
  BY <1>2, <1>3
<1> QED
  BY <1>2, <1>4 DEF OpensOK, Opens

\* While there is no history, the user sends or the window restarts, and the first
\* thing a send does is to add a checkpoint.
LEMMA EmptyOpens ==
    ASSUME IInv, OpensOK, messages = << >>, Next
    PROVE  OpensOK'
<1>1. /\ TypeOK /\ Opens(disk.messages) /\ stream.run = "none" /\ sending = 0
      /\ (\A a \in Agents : ~Alive(a)) /\ (\A i \in 1..Len(micro) : micro[i].op = "send")
  BY DEF IInv, OpensOK, Quiet
<1>2. LastKind(messages) = "none" /\ Shown(messages, stream) = messages /\ ShownStream(messages, stream) = stream
  BY DEF LastKind, Shown, ShownStream, Orphaned
<1>3. CASE Microtask
  <2>1. micro # << >> /\ micro \in Seq(Jobs)
    BY <1>1, <1>3 DEF Microtask, TypeOK
  <2>2. Head(micro).op = "send"
    BY <1>1, <2>1
  <2>3. RunSend
    BY <1>3, <2>2 DEF Microtask, RunInterrupt, RunEdit, RunContent, RunLoop
  <2>4. Store(<<Checkpoint>>)
    BY <1>1, <2>3 DEF RunSend, DummyCheckpoint
  <2> QED
    BY <2>4 DEF Store, OpensOK, Opens
<1>4. CASE Send
  <2>1. FirstOf(messages, cp) = messages
    BY <1>1 DEF FirstOf, TypeOK
  <2>2. /\ messages' = messages /\ (disk' = disk \/ disk'.messages = messages) /\ stream' = stream
        /\ micro' = <<Job("send", NoAgent, "noop", Stop)>> /\ sending' = sending /\ pc' = pc
    BY <1>2, <1>4, <2>1 DEF Send, Store, agent
  <2>3. \A i \in 1..Len(micro') : micro'[i].op = "send"
    BY <2>2 DEF Job
  <2> QED
    BY <1>1, <2>2, <2>3 DEF OpensOK, Opens, Quiet, Alive
<1>5. CASE Dismiss
  BY <1>1, <1>5 DEF Dismiss, Idle, thread, agent, OpensOK, Opens, Quiet, Alive
<1>6. CASE Restart
  <2>1. disk.messages \in Seq(Message) /\ messages' = Shown(disk.messages, Idle) /\ disk'.messages = messages'
    BY <1>1, <1>6 DEF Restart, TypeOK
  <2>2. Derived(messages', disk.messages, {})
    BY <2>1, ShownDerived
  <2>3. CASE disk.messages # << >>
    BY <1>1, <2>1, <2>2, <2>3 DEF Derived, OpensOK, Opens
  <2>4. CASE disk.messages = << >>
    <3>1. messages' = << >> /\ stream'.run = "none"
      BY <1>6, <2>1, <2>4 DEF Restart, Shown, ShownStream, Orphaned, LastKind, Idle
    <3>2. sending' = 0 /\ micro' = << >> /\ \A a \in Agents : ~Alive(a)'
      BY <1>1, <1>6 DEF Restart, MayAct, Alive
    <3> QED
      BY <2>1, <3>1, <3>2 DEF OpensOK, Opens, Quiet
  <2> QED
    BY <2>3, <2>4
<1>12. ~ContentFails
  <2>1. ~(sending > 0)
    BY <1>1
  <2> QED
    BY <2>1, Zenon DEF ContentFails
<1>7. \A i : i \notin 1..Len(messages)
  OBVIOUS
<1>8. ~StopClick /\ ~EditClick /\ ~Reject
  BY <1>1, <1>7 DEF StopClick, EditClick, Reject
<1>9. ~Jump
  BY <1>7, Zenon DEF Jump
<1>10. ~Touch
  BY <1>2 DEF Touch
<1>11. ASSUME NEW a \in Agents PROVE ~(ContentReady(a) \/ Approve(a) \/ LLMText(a) \/ AgentStep(a))
  <2>1. sending = 0 /\ pc[a] \in {"unborn", "done", "dead"}
    BY <1>1 DEF Alive
  <2>2. ~ContentReady(a)
    <3>1. ~(sending > 0)
      BY <2>1
    <3> QED
      BY <3>1, Zenon DEF ContentReady
  <2>3. ~Approve(a)
    BY <1>2 DEF Approve, Approvable
  <2>4. ~LLMText(a)
    BY <2>1 DEF LLMText
  <2>5. ~AgentStep(a)
    BY <2>1 DEF AgentStep, Prepared, PrepareFails, RetryTimer,
       LLMError, LLMFinal, LLMFinalWithTool, CallToolReturned, CallToolThrew, ToolResult
  <2> QED
    BY <2>2, <2>3, <2>4, <2>5
<1> QED
  BY <1>3, <1>4, <1>5, <1>6, <1>8, <1>9, <1>10, <1>11, <1>12 DEF Next

LEMMA OpensStep == IInv /\ OpensOK /\ CallsOK /\ [Next]_vars => OpensOK'
<1> SUFFICES ASSUME IInv, OpensOK, CallsOK, [Next]_vars PROVE OpensOK'
  OBVIOUS
<1>1. CASE messages = << >> /\ Next
  BY <1>1, EmptyOpens
<1>2. CASE Restart
  <2>1. disk.messages \in Seq(Message) /\ messages' = Shown(disk.messages, Idle) /\ disk'.messages = messages'
    BY <1>2 DEF Restart, IInv, TypeOK
  <2>2. Derived(messages', disk.messages, {})
    BY <2>1, ShownDerived
  <2>3. CASE disk.messages # << >>
    BY <2>1, <2>2, <2>3 DEF Derived, OpensOK, Opens
  <2>4. CASE disk.messages = << >>
    <3>1. messages' = << >> /\ stream'.run = "none"
      BY <1>2, <2>1, <2>4 DEF Restart, Shown, ShownStream, Orphaned, LastKind, Idle
    <3>2. sending' = 0 /\ micro' = << >> /\ \A a \in Agents : ~Alive(a)'
      BY <1>2 DEF Restart, MayAct, Alive
    <3> QED
      BY <2>1, <3>1, <3>2 DEF OpensOK, Opens, Quiet
  <2> QED
    BY <2>3, <2>4
<1>3. CASE messages # << >> /\ ~Restart /\ Next
  <2>1. CurrentRan
    BY DEF CallsOK
  <2>2. CASE \E a \in Agents : LLMFinalWithTool(a)
    BY <1>3, <2>2, MadeOpens
  <2>3. CASE ~\E a \in Agents : LLMFinalWithTool(a)
    BY <1>3, <2>1, <2>3, MicrotaskTame, UserTame, AgentTame, OpensKept DEF Next
  <2> QED
    BY <2>2, <2>3
<1>4. CASE UNCHANGED vars
  BY <1>4 DEF vars, OpensOK, Opens, Quiet, Alive
<1> QED
  BY <1>1, <1>2, <1>3, <1>4

-----------------------------------------------------------------------------
\* Aborts that wait for the interruptor of a tool.

\* A loop that is not in callTool has none, and may go on.
LEMMA OtherLoopMoves ==
    ASSUME NoAbortForgotten, NEW a \in Agents, pc[a] # "calling", UNCHANGED waiting,
           \A b \in Agents \ {a} : pc'[b] = pc[b]
    PROVE  NoAbortForgotten'
BY DEF NoAbortForgotten

LEMMA AbortWaits ==
    ASSUME TypeOK, NoAbortForgotten, NEW after, NEW rest, Abort(after, rest)
    PROVE  NoAbortForgotten'
<1>1. pc' = pc
  BY DEF Abort, agent
<1>2. CASE MustWait
  BY <1>1, <1>2 DEF Abort, MustWait, NoAbortForgotten, TypeOK
<1>3. CASE ~MustWait
  BY <1>1, <1>3 DEF Abort, NoAbortForgotten
<1> QED
  BY <1>2, <1>3

LEMMA MicrotaskWaits ==
    ASSUME IInv, NoAbortForgotten, Microtask
    PROVE  NoAbortForgotten'
<1> DEFINE job == Head(micro)
<1>1. TypeOK /\ micro # << >> /\ micro \in Seq(Jobs)
  BY DEF IInv, TypeOK, Microtask
<1>2. Fits(job, pc, stream.run)
  BY <1>1 DEF IInv, Control, JobsOK
<1>3. CASE RunInterrupt
  <2>1. CASE job.how = "LLM"
    <3>1. job.on \in Agents /\ pc[job.on] = "llm"
      BY <1>2, <2>1 DEF Fits
    <3>2. UNCHANGED waiting /\ pc' = [pc EXCEPT ![job.on] = "done"]
      BY <1>3, <2>1 DEF RunInterrupt, End
    <3>3. \A b \in Agents \ {job.on} : pc'[b] = pc[b]
      BY <1>1, <3>2 DEF TypeOK
    <3> HIDE DEF job
    <3> QED
      BY <3>1, <3>2, <3>3, OtherLoopMoves
  <2>2. CASE job.how # "LLM"
    BY <1>3, <2>2 DEF RunInterrupt, NoAbortForgotten
  <2> QED
    BY <2>1, <2>2
<1>4. CASE RunLoop
  <2>1. job.on \in Agents /\ pc[job.on] \in {"thrown", "prepare"}
    BY <1>2, <1>4 DEF Fits, RunLoop
  <2>2. UNCHANGED waiting /\ pc' = [pc EXCEPT ![job.on] = "prepare"]
    BY <1>4 DEF RunLoop, NextMessage
  <2>3. \A b \in Agents \ {job.on} : pc'[b] = pc[b]
    BY <1>1, <2>2 DEF TypeOK
  <2> HIDE DEF job
  <2> QED
    BY <2>1, <2>2, <2>3, OtherLoopMoves
<1>5. CASE RunSend
  <2>1. CASE stream.run # "none"
    BY <1>1, <1>5, <2>1, AbortWaits DEF RunSend
  <2>2. CASE stream.run = "none"
    BY <1>5, <2>2 DEF RunSend, agent, NoAbortForgotten
  <2> QED
    BY <2>1, <2>2
<1>6. CASE RunEdit \/ RunContent
  BY <1>6 DEF RunEdit, RunContent, agent, NoAbortForgotten
<1> QED
  BY <1>3, <1>4, <1>5, <1>6 DEF Microtask

LEMMA UserWaits ==
    ASSUME TypeOK, NoAbortForgotten,
           Send \/ ContentFails \/ StopClick \/ EditClick \/ Reject \/ Jump \/ Touch \/ Dismiss \/ Restart
    PROVE  NoAbortForgotten'
<1>1. CASE StopClick \/ EditClick
  BY <1>1, AbortWaits DEF StopClick, EditClick
<1>2. CASE Restart
  BY <1>2 DEF Restart, NoAbortForgotten
<1>3. CASE Send \/ ContentFails \/ Reject \/ Jump \/ Touch \/ Dismiss
  <2>1. UNCHANGED <<waiting, pc>>
    BY <1>3, Zenon DEF Send, ContentFails, Reject, Jump, Touch, Dismiss, agent
  <2> QED
    BY <2>1 DEF NoAbortForgotten
<1> QED
  BY <1>1, <1>2, <1>3

LEMMA AgentWaits ==
    ASSUME TypeOK, NoAbortForgotten, NEW a \in Agents,
           ContentReady(a) \/ Approve(a) \/ LLMText(a) \/ AgentStep(a)
    PROVE  NoAbortForgotten'
<1>1. CASE CallToolReturned(a) \/ CallToolThrew(a)
  <2>1. waiting' = [waiting EXCEPT ![a] = << >>] /\ \A b \in Agents \ {a} : pc'[b] = pc[b]
    BY <1>1 DEF CallToolReturned, CallToolThrew, ResumeAborts, TypeOK
  <2> QED
    BY <2>1 DEF NoAbortForgotten, TypeOK
<1>2. CASE ~(CallToolReturned(a) \/ CallToolThrew(a))
  <2>1. UNCHANGED waiting
    BY <1>2, Zenon DEF ContentReady, Approve, LLMText, AgentStep, Prepared, PrepareFails, RetryTimer, LLMError, LLMFinal,
       LLMFinalWithTool, ToolResult
  <2>2. CASE LLMText(a)
    BY <2>1, <2>2 DEF LLMText, agent, NoAbortForgotten
  <2>3. CASE ~LLMText(a)
    <3>1. pc[a] # "calling"
      BY <1>2, <2>3 DEF ContentReady, Approve, AgentStep, Prepared, PrepareFails, RetryTimer, LLMError, LLMFinal,
         LLMFinalWithTool, ToolResult
    <3>2. pc' = pc \/ \E p : pc' = [pc EXCEPT ![a] = p]
      BY <1>2, <2>3, Zenon DEF ContentReady, Approve, AgentStep, Prepared, PrepareFails, RetryTimer, LLMError, LLMFinal,
         LLMFinalWithTool, ToolResult, NextMessage, StartTool, StopIdle, SendLLM, Finish, End, Superseded
    <3>3. \A b \in Agents \ {a} : pc'[b] = pc[b]
      BY <3>2 DEF TypeOK
    <3> QED
      BY <2>1, <3>1, <3>3, OtherLoopMoves
  <2> QED
    BY <2>2, <2>3
<1> QED
  BY <1>1, <1>2

LEMMA WaitingStep == IInv /\ NoAbortForgotten /\ [Next]_vars => NoAbortForgotten'
<1> SUFFICES ASSUME IInv, NoAbortForgotten, [Next]_vars PROVE NoAbortForgotten'
  OBVIOUS
<1>1. TypeOK
  BY DEF IInv
<1>2. CASE Next
  BY <1>1, <1>2, MicrotaskWaits, UserWaits, AgentWaits DEF Next
<1>3. CASE UNCHANGED vars
  BY <1>3 DEF vars, NoAbortForgotten
<1> QED
  BY <1>2, <1>3

-----------------------------------------------------------------------------
\* Calls turned down.

\* Only what is approved or just made is started, and neither was turned down.
LEMMA DeniedStep == IInv /\ CallsOK /\ [Next]_vars => [\A c \in denied : runs'[c] = runs[c]]_vars
<1> SUFFICES ASSUME IInv, CallsOK, Next, NEW c \in denied PROVE runs'[c] = runs[c]
  BY DEF vars
<1>1. TypeOK /\ c \in Calls
  BY DEF IInv, TypeOK
<1>2. CASE Microtask
  BY <1>2, Zenon DEF Microtask, RunInterrupt, RunEdit, RunSend, RunContent, RunLoop, Abort, ghosts
<1>3. CASE Send \/ ContentFails \/ StopClick \/ EditClick \/ Reject \/ Jump \/ Touch \/ Dismiss \/ Restart
  BY <1>3, Zenon DEF Send, ContentFails, StopClick, EditClick, Reject, Jump, Touch, Dismiss, Restart, Abort, ghosts
<1>4. CASE \E a \in Agents : ContentReady(a) \/ Approve(a) \/ LLMText(a) \/ AgentStep(a)
  <2>1. PICK a \in Agents : ContentReady(a) \/ Approve(a) \/ LLMText(a) \/ AgentStep(a)
    BY <1>4
  <2>2. CASE Approve(a)
    <3>0. Approvable
      BY <2>2 DEF Approve
    <3>1. LastCall(messages) \in Untouched
      BY <1>1, <3>0, ApprovableCall
    <3>2. LastCall(messages) # c
      BY <3>1 DEF Untouched
    <3>3. runs' = runs \/ runs' = [runs EXCEPT ![LastCall(messages)] = @ + 1]
      BY <2>2, Zenon DEF Approve, StartTool
    <3> QED
      BY <1>1, <3>2, <3>3 DEF TypeOK
  <2>3. CASE LLMFinalWithTool(a)
    <3>1. PICK d \in Calls : /\ toolOf[d] = NoTool
                             /\ runs' = runs \/ runs' = [runs EXCEPT ![d] = @ + 1]
      BY <2>3, Zenon DEF LLMFinalWithTool, StartTool
    <3>2. d \in Untouched
      BY <3>1 DEF CallsOK, NotMade
    <3> QED
      BY <1>1, <3>1, <3>2 DEF TypeOK, Untouched
  <2>4. CASE ContentReady(a) \/ LLMText(a) \/ (AgentStep(a) /\ ~LLMFinalWithTool(a))
    BY <2>4, AgentDrops DEF ghosts
  <2> QED
    BY <2>1, <2>2, <2>3, <2>4
<1> QED
  BY <1>2, <1>3, <1>4 DEF Next

-----------------------------------------------------------------------------
\* The theorems about histories, calls and aborts.

LEMMA HistoryInit == Init => OpensOK /\ CallsOK /\ NoAbortForgotten
<1> SUFFICES ASSUME Init PROVE OpensOK /\ CallsOK /\ NoAbortForgotten
  OBVIOUS
<1>1. OpensOK
  BY DEF Init, OpensOK, Opens, Quiet, Alive, Idle
<1>2. CallsOK
  BY DEF Init, CallsOK, AskedOnce, NotMade, CurrentRan, RunsAtMostOnce, Untouched, Mentions
<1>3. NoAbortForgotten
  BY DEF Init, NoAbortForgotten
<1> QED
  BY <1>1, <1>2, <1>3

LEMMA HistoryHolds == Spec => [](IInv /\ OpensOK /\ CallsOK)
<1>1. Init => IInv /\ OpensOK /\ CallsOK
  BY InitHolds, HistoryInit
<1>2. IInv /\ OpensOK /\ CallsOK /\ [Next]_vars => (IInv /\ OpensOK /\ CallsOK)'
  BY TypeStep, ControlStep, OpensStep, CallsStep DEF IInv
<1> QED
  BY <1>1, <1>2, PTL DEF Spec

\* A jump always finds a checkpoint: the first message of a history, in memory and
\* on disk, is one, whatever edits, sends, aborts and restarts truncated it to
\* (_addUserMessageAndStreamResponse, _getCheckpointBeforeMessage).
THEOREM HistoryOpensWithCheckpoint == Spec => []EveryMessageHasCheckpoint
<1>1. OpensOK => EveryMessageHasCheckpoint
  BY DEF OpensOK, Opens, EveryMessageHasCheckpoint
<1> QED
  BY HistoryHolds, <1>1, PTL

\* No call is started a second time, whoever approves its request and however often:
\* a request in a history is of a call that did not run (_runToolCall, called by the
\* loop and by approveLatestToolRequest).
THEOREM CallsRunOnce == Spec => []RunsAtMostOnce
<1>1. CallsOK => RunsAtMostOnce
  BY DEF CallsOK
<1> QED
  BY HistoryHolds, <1>1, PTL

\* What the user turned down, by the reject button or by aborting while the thread
\* awaited the answer, is never started (rejectLatestToolRequest, abortRunning).
THEOREM RejectedCallsNeverRun == Spec => DeniedNeverRuns
<1>1. IInv /\ OpensOK /\ CallsOK /\ [Next]_vars => [\A c \in denied : runs'[c] = runs[c]]_vars
  BY DeniedStep
<1> QED
  BY HistoryHolds, <1>1, PTL DEF Spec, DeniedNeverRuns

\* An abort that waits for the interruptor of a tool is resumed when the tool returns
\* or throws, and until then the tool is being called (abortRunning, _runToolCall).
THEOREM AbortsAreRemembered == Spec => []NoAbortForgotten
<1>1. Init => IInv /\ NoAbortForgotten
  BY InitHolds, HistoryInit
<1>2. IInv /\ NoAbortForgotten /\ [Next]_vars => (IInv /\ NoAbortForgotten)'
  BY TypeStep, ControlStep, WaitingStep DEF IInv
<1> QED
  BY <1>1, <1>2, PTL DEF Spec

=============================================================================
