# Verification of genRTL

genRTL is a fork of Visual Studio Code (built the way VSCodium builds it) with
an AI assistant for hardware designers. The program's own logic is the
assistant, `src/vscode/src/vs/workbench/contrib/genrtl-ai/`: services in the
renderer (`browser/`, `common/`) and their counterparts in the main process
(`electron-main/`), about 17,000 lines of TypeScript beside a React user
interface. Everything else in the repository is the vendored editor, build
scripts and documents. Paths below are relative to that directory.

The repository has no test of this code, and its documents under `docs/`
(ORCHESTRATOR, DIFFCARD) describe designs that are not in the source. The models
are translated from the source alone.

Contents: [1 Inventory](#1-inventory) · [2 Plan](#2-plan) ·
[3 Models](#3-the-models-and-the-code) · [4 Runs](#4-runs) ·
[5 Fairness](#5-fairness) · [6 Proofs](#6-proofs) ·
[7 What the models show](#7-what-the-models-show) ·
[8 Limits](#8-what-is-only-model-checked-and-what-is-not-modelled)

## 1. Inventory

The renderer is one JavaScript thread: concurrency comes from `await`, from
callbacks of IPC, from timers and from the user. The main process is another
such thread, and the two exchange messages in order.

| Component | State | Operations | Talks to | Hard behaviour | Correct when |
|---|---|---|---|---|---|
| **Chat threads and the agent loop** (`browser/chatThreadService.ts`) | message history, current checkpoint, `streamState` with an interruptor, what is stored; local variables of every live `_runChatAgent` | send, stop, edit a message, approve, reject, jump to a checkpoint, reload; per loop: prepare, send to the LLM, retry, call a tool, take its result | LLM transport, tools, MCP, edit service | several loops of one thread overwrite one `streamState`; aborts wait for an interruptor that comes later or not at all; retries with timers; reloads in the middle of a tool | the busy state always has a live loop behind it; an interrupted loop ends with its next step; no tool call runs twice or after it was denied; the thread does not stay busy |
| **Chat checkpoints** (same file) | file snapshots in checkpoint messages | add before and after edits, restore on a jump | edit service | which of several checkpoints holds the version of a file | standing on a checkpoint every file holds what it held there; a jump away and back loses nothing |
| **LLM transport** (`common/sendLLMMessageService.ts`, `electron-main/sendLLMMessageChannel.ts`, `llmMessage/`) | hooks per request; running requests with their aborters; the stream of the provider | send, abort, deliver an event; reload of the window | chat, apply, autocomplete, commit messages | events under way when a request is aborted; aborts of requests that ended; a provider that ends without a word | text only grows, one end per request, after it only the `onAbort` of the client's own aborts; an abort stops the provider and is forgotten |
| **Edit application and diff zones** (`browser/editCodeService.ts`) | zones over files with the code they had, stream state of each, the undo stacks | Apply as a rewrite or as search/replace blocks, instant edits of the tools, accept/reject a diff or all, undo, redo, stop | LLM transport, text models, undo service, tools, command bar | a stream writes while the user types, accepts, rejects or undoes; failures undo "the last thing"; retries | what is shown as streaming has an edit behind it; a stop stops and gives the text back; a rejection gives back what was there |
| **Line diffs** (`browser/helpers/findDiffs.ts`, parts of the edit service) | line ranges of zones and diffs | realign on a change, find diffs, accept or reject one | edit service | boundaries: first and last line, deletions at the end | a zone covers the lines it was made for; accepting or rejecting one diff decides that diff and touches nothing else; a zone is gone when nothing is left to decide |
| **Tools** (`browser/toolsService.ts`) | none of its own | validate, call, turn results into text | edit service, terminal, files | a check before an `await` and an edit after it | the agent loop sees a result, an error or an interruption |
| **Terminal tools** (`browser/terminalToolService.ts`) | terminals by id, temporary ones; the calls that await a shell | create, run a command with a timeout, interrupt, kill | terminal service | ids chosen before an await; terminals that get ready late or never, or exit under a command; exits handled later, by a title that may have changed; a timeout beside an end | every call returns; no hidden terminal outlives its command; a terminal is listed until its exit is handled |
| **MCP servers** (`common/mcpService.ts`, `electron-main/mcpChannel.ts`) | config file, clients by server, refresh locks, shown status | refresh, toggle, call a tool, close | chat, settings | two refreshes at once; a toggle during a refresh | the tools a window offers are those of the client that calls reach, and it is connected; locks are freed |
| **Settings store** (`common/genrtlSettingsService.ts`) | settings in memory, encrypted copy | set, derive, store, read back | all services | a slow store overtaken by a later one; a change before the first read; a read that completes what was stored | the last change is what a restart comes back with; a selection is always one that is offered; synced features follow |
| **Model refresh** (`common/refreshModelService.ts`) | a state and a timer per local provider | start, poll, stop | settings, transport | a new start while an old one polls | one polling chain per provider |
| **Autocomplete** (`browser/autocompleteService.ts`) | LRU cache of completions, pending requests | type, debounce, send, evict, accept, abort | transport | typing during the debounce; eviction of pending entries | pending requests are bounded; no request outlives its entry; every call returns |
| **Command bar** (`browser/genrtlCommandBarService.ts`) | per file: sorted zones and diffs, current index, stream state | derive from events; next/previous; accept and reject keys | edit service | events while zones are deleted | the index points at a diff |
| **Commit messages** (`browser/genrtlSCMService.ts`) | current run, its request id, the loading key; a delayer and a throttler | generate, abort | transport, git | a new run while an aborted one ends; a run held back when the user aborts | an open request is the one abort reaches; the button does not stay at loading |
| **Text models** (`common/genrtlModelService.ts`) | model references by path | initialise, save | edit service, tools | two callers at once | one reference per file |
| **Pure algorithms** (`llmMessage/extractGrammar.ts`, `common/helpers/extractCodeFromResult.ts`, `browser/convertToLLMMessageService.ts`) | none | parse a streamed answer; convert and trim a history | transport, edit service | a tag or fence cut by the end of the stream | a prefix parses to a prefix |

User interface, telemetry, onboarding, updates, prompts and tables, extension
transfer and the build are listed in `PROJECT.json` with the reason for leaving
them out. How the parts interact:

```
 user ──► SidebarChat ──► chatThreadService ──► toolsService ──► editCodeService ◄── Apply button, keys
                               │    ▲               │  │                │  ▲
                               │    └── results ────┘  └─► terminal, MCP│  └── undo stack
                               ▼                                       ▼
                         LLMMessageService  ◄──── autocomplete, commit messages
                               │  ▲  (hooks)
                     calls ▼   │  │  ▲ events            ── renderer / main process ──
                         LLMMessageChannel ──► provider stream
```

The hazards of each part, at the line where they bite, are in `PROJECT.json`.

## 2. Plan

Order: first what the user trusts most (the agent loop), then what it rests on
(the transport), then what writes to the user's files, then the rest.

| # | Modules | State |
|---|---|---|
| 1 | `ChatThread` (+ `MCChatThread`, `ChatThreadProofs`): one conversation and all its loops | checked, invariants proved |
| 2 | `LLMRequests` (abstract), `LLMTransport` (+ `MCLLMTransport`, `LLMProofs`): the transport implements what its clients assume | checked, refinement proved |
| 3 | `EditApply` (+ `MCEditApply`, `EditApplyProofs`): streams, tools, undo, accept and reject on files | checked, invariants proved |
| 4 | `ChatCheckpoints` (+ `ChatCheckpointsProofs`): snapshots of files in the history, a jump there and back | checked, invariants proved |
| 5 | `McpServers` (+ `McpServersProofs`): windows and main process, refresh locks, toggles, the config file | checked, invariants proved |
| 6 | `LineDiffs` (+ `MCLineDiffs`, `LineDiffsProofs`): lines of a zone under realignment, `findDiffs`, accept and reject of one diff | checked, invariants and action properties proved |
| 7 | `Autocomplete` (+ `LLMProofs`): the debounce, the pending bound, the LRU eviction, over `LLMRequests` | checked, invariants proved |
| 8 | `TerminalTools` (+ `MCTerminalTools`), `SettingsStore` (+ proofs) | checked, invariants proved |
| 9 | `CommitMessages` (+ `LLMProofs`), over `LLMRequests` | checked, invariants proved |
| 10 | what is left: the list of threads, Ctrl+K zones, matching of completions, stream parsers over short token sequences | not started, section 8 |

Compositions. `LLMRequests` states what the LLM service promises. `LLMTransport`
implements it (`Promise == INSTANCE LLMRequests`, `KeepsPromise`); `Autocomplete` and
`CommitMessages` are clients that take its actions as the service's steps
(`LLM` and `RunService`, instances of `LLMRequests`); `ChatThread` and `EditApply` assume the same
promise of the callbacks of their requests. `ChatCheckpoints` and `LineDiffs` look
closer at one aspect of `ChatThread` and `EditApply`: the contents of files, and
lines.

Every safety property the passing runs check is proved (section 6). What would be
worth proving next comes with the modules of row 10.

## 3. The models and the code

General conventions. A step is one macrotask (a click, an IPC answer, a timer)
with the microtasks it resumes, or, where their order matters (`ChatThread`),
one microtask at a time from a queue that must be empty before the next
macrotask. Texts, parameters and results are dropped; what the control flow asks
about them is kept. Every bound is a CONSTANT that appears in guards of *user*
operations only, so the program itself is never cut off in the middle.

### ChatThread — `browser/chatThreadService.ts`

| Model | Code |
|---|---|
| `messages`, `cp`, `disk` | `thread.messages`, `state.currCheckpointIdx` (0 for null), what `_storeAllThreads` wrote |
| `stream` | `streamState[threadId]`: `run` is `isRunning`, `by` the loop whose interruptor it holds, `err` the error shown |
| `pc[a]`, `attempts`, `idleCut`, `toolCut`, `first`, `cur` | where the invocation `a` of `_runChatAgent`/`_runToolCall` is, `nAttempts`, `interruptedWhenIdle`, `interrupted`, whether it runs `callThisToolFirst`, its call |
| `sending`, `waiting`, `micro` | sends awaiting their content, aborts awaiting an interruptor, resumed continuations that have not run |
| `runs`, `denied` | history variables: starts of each call, calls the user turned down |
| `Send`, `ContentReady`, `StopClick`, `EditClick`, `Approve`, `Reject`, `Jump`, `Touch`, `Dismiss`, `Restart` | the user's operations; `Touch` is any state change that makes `_setState` refresh an orphaned tool message |
| `Prepared`, `PrepareFails`, `SendLLM`, `LLMText`, `LLMError`, `RetryTimer`, `LLMFinal`, `LLMFinalWithTool` | the attempt loop of `_runChatAgent` |
| `StartTool`, `CallToolReturned`, `CallToolThrew`, `ToolResult` | `_runToolCall` |
| `Microtask` (`RunInterrupt`, `RunEdit`, `RunSend`, `RunContent`, `RunLoop`) | the continuations after each `await` of an already settled promise |

`PrepareFails` and `ContentFails` are the awaits that reject with nobody to catch it: a
loop whose messages could not be prepared is `"dead"`, and its stream state stays.
Tools are records of what `_runToolCall` asks: are the parameters valid, is it
an MCP tool, does it edit a file, does it need approval.

### LLMRequests and LLMTransport — `common/sendLLMMessageService.ts`, `electron-main/`

`LLMRequests` is what every client may assume: a request is refused or opened, text
only grows, then one of final, error, abort, or the reload of the window, and nothing
after but its own `onAbort`: `abort` calls that hook whatever became of the request, and
the hook is never cleared (`LateAbort`, `late`). `LLMTransport` has the hooks of the renderer (`hooks`), one FIFO
queue each way (`toMain`, `toRenderer`), the main process's
`_infoOfRunningRequest` (`info`), the promise of `sendLLMMessage` (`provider`),
aborts that await it (`aborting`) and `_didAbort`. A client is called before its hooks
are cleared, so one that throws at its end (the `onError` of the edit service always
does) leaves them installed; the ghost `threw` names those requests. It implements
`LLMRequests` with `phase`, `shown` and `late` as they are (`KeepsPromise`).

### EditApply — `browser/editCodeService.ts`

| Model | Code |
|---|---|
| `files[u].text` | the file, as the set of changes in it: edits of the LLM and what the user typed |
| `files[u].zone` | the `DiffZone` over the whole file: its edit, its `originalCode`, and whether it is the object the stream holds (a zone restored from a snapshot is another object) |
| `files[u].past`, `.future` | the undo stack: typed elements, and elements of `_addToHistory` with their snapshots |
| `pc[e]`, `job[e]` | the Apply or tool call `e`: awaiting the save, request open (`waiting`, `writing`, `broken`), `stuck` (request closed, promise pending), done; its file, the text it was shown, `nMessagesSent` |
| `shown[e]` | `_streamState.isStreaming` of the zone object the stream holds |
| `Ask`, `Apply`, `ToolEdit`, `ToolEditFails` | `callBeforeApplyOrEdit`, `startApplying`, `instantlyRewriteFile`, `instantlyApplySearchReplaceBlocks` |
| `WriteoverText`, `WriteoverFinal`, `FastText`, `FastSecondBlock`, `FastNotFound`, `FastFinal`, `FastFinalFails`, `FastFinalNotFound`, `FastFinalThrows`, `LLMError` | the callbacks of the two streams, by outcome |
| `Type`, `AcceptFile`, `RejectFile`, `AcceptDiff`, `RejectDiff`, `Undo`, `Redo`, `Stop` | the user |

`auto` is `autoAcceptLLMChanges` at that moment. An undo that restores a snapshot
stops streams (`StoppedByUndo`), as `_restoreVoidFileSnapshot` does.
`WriteoverFinal` writes over the lines the zone object remembers; when the zone
was deleted meanwhile those lines are no longer kept up to date, and the model
lets anything of the file survive beside the new text.

### ChatCheckpoints — `browser/chatThreadService.ts`

| Model | Code |
|---|---|
| `messages`, `cp` | the history, where a checkpoint has `snap` (`genRTLFileSnapshotOfURI`) and `mods` (`userModifications`); `currCheckpointIdx` |
| `content`, `models` | the version of each file, a new one at every change; the files that have a text model |
| `turn`, `target`, `noted` | where the turn is, the file of the edit the agent asked for, whether the checkpoint before it was added |
| `Send`, `EditMessage`, `EndTurn`, `AbortTool`, `Ask`, `Approve`, `Reject`, `ToolEdit`, `ToolFails`, `Type`, `Jump` | the operations that add checkpoints, cut the history or change files |

Snapshots are versions, since the code only copies them. Three ghosts say what may be
expected: `loose` (files changed since their last snapshot), `sure` of a checkpoint
(the files whose content it can give back) and `missed`.

### LineDiffs — `browser/helpers/findDiffs.ts`, `browser/editCodeService.ts`

`lines` is the file, `zone` has `startLine`, `endLine` and the lines of
`originalCode`, `diffs` is `_diffOfId`. `diffLines` is the external diff: any shortest
script, where a script (`Scripts`) says of each old line which new line it is kept as, if
any. `findDiffs` is what the code's loop over the script yields: a streak (`StreakAfter`)
between each kept line and the next, if it has lines. Both are stated by what they are
and not by recursion over the lines, so that they can be proved about. `Type` replaces a
range of lines and realigns the zone (`Realigned`), `acceptDiff` rewrites the original
(`Accepted`), `rejectDiff` rewrites the file through a range of positions (`RejectEdit`,
`ApplyEdit`: an edit can join two lines, so a line is a sequence of characters).
`ApplyEdit` and `Valid` are what the text model of the editor does with a range
(`vs/editor/common/model/textModel.ts`). `inside` is a ghost: the lines that belong to the
zone; `astray` that the code led it astray (section 7).

### McpServers — `common/mcpService.ts`, `electron-main/mcpChannel.ts`

| Model | Code |
|---|---|
| `config`, `readable` | the config file and whether it parses |
| `shown`, `isOn`, `saved`, `reading`, `storing` | per window: `mcpServerOfName`, `mcpUserStateOfName` in memory and as stored, refreshes that await the file, setters that await the store |
| `toMain`, `toWindow` | channel calls of a window; events broadcast to every window |
| `clientOf`, `known`, `locked`, `tasks`, `open` | `infoOfClientId`, its keys, `_refreshingServerNames`, awaited creations and closings, connections |
| `EditConfig`, `ReadConfig`, `Toggle`, `Stored`, `Deliver`, `Reload` | the window |
| `ReceiveRefresh`, `ReceiveToggleOn`, `ReceiveToggleOff`, `Closed`, `Created`, `ToggledOn` | the main process |

Tools stand for the client that listed them; `spare` is a ghost, the clients a switch
makes and the channel does not keep. Two assumptions: `client.close` does not reject,
and entries of the config file are objects.

### Autocomplete — `browser/autocompleteService.ts`

`cache` is `_autocompletionsOfDocument`: ids are given as completions are put into the
map, so the order of the map is that of the ids and a cache is a set of them. `status` and `promise` are those
of an `Autocompletion` and its `llmPromise`; `debouncing` the calls that await the
pause, `latest` whether `_lastCompletionStart` is still theirs. `GoOn` is a call from the
pause to its next await: it cancels, sends, stores and evicts (`TooMany`, `Evicted`),
each eviction through the dispose callback (`Disposed`). `Answer`, `Fail` and `Timeout`
settle the promise.

### TerminalTools — `browser/terminalToolService.ts`

| Model | Code |
|---|---|
| `persistent`, `temporary` | the two tables of the service |
| `open`, `ready`, `titleId`, `typed` | the terminals that live, whose process is ready, the id in their title (0 for none), what their shell was given and did not finish |
| `watched`, `misnamed` | terminals whose `onExit` handler did not run yet; history: those whose handler ran under another title than the first's |
| `call` | where each tool call is and what it knows: its listener, its `resolveReason`, whether its inactivity timer was just set anew (`fresh`) |
| `OpenPersistent`, `PersistentOpened`, `CreateFails`, `killPersistentTerminal` | opening (the id is taken before an await and used after it) and killing |
| `RunTemporary`, `TemporaryCreated`, `RunPersistent`, `ListenFor`, `Send`, `Timeout`, `Return`, `ReadThrows`, `Interrupt` | `runCommand` from await to await |
| `Ready`, `Rename`, `Exit`, `OnExit`, `Relaunch`, `Prints`, `CommandFinished` | the terminals (`terminalInstance.ts`) and their shells |

A terminal has no title until its process is ready, and `sendText` waits for that, for
ever if the terminal dies before. `onExit` fires after a flush, so `OnExit` is a step
after `Exit` or the closing by a tool; it runs `HandleExit`, which reads the title of
that moment. A shell that fails at its launch with injected shell integration fires it too and
is launched again, and the handler does not run a second time (`Relaunch`). Output sets the timer of a temporary
command anew (`Prints`). `IdOfTitle` is the parser of titles as it works (a title
with a number has no id).

### SettingsStore — `common/genrtlSettingsService.ts`

`state` has the models that are `listed` and `hidden`, whether genrtlSaaS has its key
(`keyed`), what the features selected and the sync switches; what is offered follows
from the first three (`Offered`). A model is of genrtlSaaS or of a provider that is
filled in, and default, custom or autodetected. `writes` are the setters that await
`_storeState`, `stored` the storage, `read` what a starting window found. A setter (key,
adding, deleting, hiding and autodetecting models, selection, switch, reset) validates
and shows at once, and its hooks run when it is stored (`Follow`). `Restored` is what
`readAndInitializeState` makes of what it read: an empty key becomes the default key,
the default models are merged in, SCM without a model gets that of Chat, and any other
feature without one its default. `broken` is a ghost that names the accidents the
properties except: a change before the settings were read, an encryption that failed, a
reload that cut hooks off.

### CommitMessages — `browser/genrtlSCMService.ts`

`run` is the active run of the throttler, named by its `requestId`; `queued` and
`delayed` say that the throttler and the delayer hold a task; `current`,
`llmRequestId` and `loading` are the service's fields. Where a run is follows from the
phase of its request. The actions are the two commands, the timer, git and the answer;
what follows the end of a run (`NextOrIdle`) happens in the same step, as in the code's
microtasks.

## 4. Runs

| Run | Instance | Checks |
|---|---|---|
| `chat_safety` | 2 loops, 2 calls, all five kinds of tools, all user operations, 2 attempts, user acts below 7 messages; 634k states | `TypeOK`, `NoDeadSpinner`, `InterruptedIsSilent`, `EveryMessageHasCheckpoint`, `NoAbortForgotten`, `RunsAtMostOnce`, `DeniedNeverRuns` |
| `chat_liveness` | 2 loops, 1 call, 3 tools, below 5 messages | `BusyEnds`, `AbortsComplete` |
| `llm_transport` | 2 requests, texts up to 2; 229k states | `HooksOfOpen`, `KeepsPromise`, `AbortedIsForgotten` |
| `edit_apply` | 2 files, 2 edits of every mode, both values of auto accept, 3 as `N_RETRIES`, undo stacks below 2 for the user; 227k states | `TypeOK`, `SpinnerIsLive`, `UndoReachesStream`, `StopRestores`, `StopWorks` |
| `chat_checkpoints` | 2 files, one with a text model, below 7 messages, 2 changes of files; 1.7M states | `StandsExactly`, `RoundTrip` |
| `mcp_servers` | 1 window over its reloads, 2 servers, 2 user actions; 465k states | `LockHasOwner`, `StoredIsOpen`, `OfferedIsStored`, `LocksFreed` |
| `line_diffs` | files of up to 4 lines over two characters, zones of up to 2, one change by hand, every decision; 33k states up to symmetry of the characters | `ZoneTracks`, `LiveWhileDifferent`, `RejectRestores`, `AcceptSettlesOne` |
| `autocomplete` | 2 documents, 4 requests, cache of 3, 2 pending; 30k states | `PendingBounded`, `NoOrphanRequest`, `EveryCallReturns` |
| `terminal_tools` | 3 calls, two of which may open a terminal; one terminal is renamed and launched again; 57k states | `FirstUntilExit`, `NoHiddenLeft`, `CallsSettle` |
| `settings_store` | 3 models (a default and a custom one of genrtlSaaS, an autodetected one with FIM), 3 changes; 85k states | `TypeOK`, `StoredIsShown`, `SyncedIsSame`, `ChangesSettle` |
| `commit_messages` | 5 triggers, any number of aborts; 15k states | `RequestIsCurrent`, `LoadingHasWork`, `LoadingEnds` |
| `edit_fast_apply_stuck` | 1 file | refuted, see 7 |

What they say:

* `NoDeadSpinner` (chat): while the sidebar is busy, which blocks the submit
  button, a loop stands at the matching place, whatever older loops write; the one
  exception is a loop that died as its messages were prepared (section 7).
* `InterruptedIsSilent`: the next step of a loop that an interruptor told to stop is its
  end. The exception is the loop of a call that the user approved (763): interrupted in
  that call, it goes on to a message. MCP calls and tools that throw have no
  interruptor, so their loops are not told.
* `EveryMessageHasCheckpoint`: a jump always finds a checkpoint.
* `NoAbortForgotten`, `AbortsComplete`: an abort waits only for an interruptor
  that still comes, and it comes.
* `RunsAtMostOnce`, `DeniedNeverRuns`: over approvals, rejections, aborts, edits,
  reloads and late results no call is started twice or after a denial.
* `BusyEnds`: the conversation does not stay busy, except behind such a dead loop.
* `KeepsPromise` (transport): text only grows and a request has one end, after which
  nothing calls the client but its own late aborts, also where the hooks of an ended
  request stayed. `HooksOfOpen`: hooks are those of the open requests and of requests
  whose client threw at its end. `AbortedIsForgotten`: an aborted request leaves
  `_infoOfRunningRequest`.
* `SpinnerIsLive` (edits): a file shown as streaming has an Apply that is not
  over. `UndoReachesStream`: undoing far enough reaches the start of each stream
  that still writes. `StopRestores`: a stop of a stream nothing was done on top
  of gives back the text at the click. `StopWorks`: a stop takes the sweep off the
  file even if what it undid was something else.
* `StandsExactly` (checkpoints): standing on a checkpoint, by whatever jumps, every
  file holds what it held when the checkpoint was added. Excepted are the files
  the code has no snapshot of for that moment: those changed beside the agent's
  recorded edits, and those between an edit and its next snapshot. `RoundTrip`:
  jumping away from the end of a thread and back gives back all that was there,
  what the user typed included.
* `LockHasOwner`, `LocksFreed` (MCP): no refresh lock is left behind, though calls
  that skip a locked name unlock it. `StoredIsOpen`: the client tool calls reach is
  connected until its closing settles. `OfferedIsStored`: once the events on their
  way have arrived, the tools a window offers are those of that client.
* `ZoneTracks` (lines): a zone covers the lines it was made for and what replaced
  them, unless one of the three cases of section 7 led it astray: a change that contains
  it, a rejection that is not written, one that joins lines. `LiveWhileDifferent`: it is there exactly as long as there is something to
  decide. `AcceptSettlesOne`, `RejectRestores`: a decision settles one diff, and, but
  for the last two of these cases, writes its original lines in its place.
* `PendingBounded`, `NoOrphanRequest`, `EveryCallReturns` (autocomplete): no more
  than two requests of a document are pending, each belongs to an entry of the
  cache, and each call of the editor returns.
* `FirstUntilExit` (terminals): the first persistent terminal is listed until its exit is
  handled, and longer only if that happened under another title.
  `NoHiddenLeft`: a hidden terminal does not outlive its command. `CallsSettle`: every tool call returns, except one whose
  terminal never gets ready for its text and a temporary command that never stops
  printing.
* `TypeOK` (settings): once they are read, every feature has a model that is offered
  to it or none if there is none. `StoredIsShown`: a reload would come back with what
  is shown; if the key of genrtlSaaS was emptied, what is shown is what was stored, and
  the reload gives the key back. `SyncedIsSame`: a synced feature has the model of Chat. `ChangesSettle`:
  the hooks of changes come to an end.
* `RequestIsCurrent`, `LoadingHasWork`, `LoadingEnds` (commit messages): an open
  request is the one abort reaches; the loading button has work behind it; it does
  not stay, unless a request never ends (section 5).
* `TypeOK` of `ChatThread` and `EditApply` also bounds the retries (`attempts`,
  `sent`). The types of `LLMTransport`, `TerminalTools` and `CommitMessages` are
  proved (section 6) rather than checked; those of `ChatCheckpoints`, `McpServers`,
  `Autocomplete` and `LineDiffs` are the first conjunct of one of their invariants.

Bounds. Two loops, requests, edits or servers are what the hazards need: each of
them is about an old one and a newer one (one that wakes up late, one that was
orphaned). Two calls let one be denied while another runs. Seven messages let a
conversation contain two turns with a tool, and the guards bound the user only:
loops and answers go on beyond. `MaxPending` and `MaxAborts` of one still let an
abort meet another operation of every other kind; the theorems of section 6 hold
for every bound. `N_RETRIES` is 3 where the code has 4, and `CHAT_RETRIES` 2 where
it has 3: one retry that is followed by another message and one that is the last.
For `edit_apply`, the same run with undo stacks below 3 (3.7 million states, more
than 4 minutes) finds no violation either. `Opened` holds one of two files: the
user works on one while edits happen in both. Two changes of files let one file be
changed by the agent and by hand. Two actions on MCP servers let a toggle, an edit of
the file or a reload cross any other; with three actions (19 million states), and with
four on one server (1.1 million), nothing else is found. Four requests fill a cache of
three with two pending and evict. Three terminal calls let two open at once, one be
killed and opened anew, or two run in the terminal of the first; with calls of every kind
(1.9 million states) the invariants hold too. `Renamed` and `Relaunched` hold the first terminal, and a rename chooses between the name of the first terminal and
one without an id, which is all that the handler tells apart. Three changes of settings
let the key, a list and a selection change together before a reload; with four (1.35
million states, 5 minutes) nothing else is found. Zones of two lines in files of four have a line
before, a line behind and every diff of one or two lines; with codes of three and no
typing (61 thousand states) nothing else is found. Five triggers let two runs be held
back and aborted. Symmetry is over identities that occur in no ordering (agents, calls,
edits), and in no run with liveness.

The runs do not check for deadlock where the system may rest: a conversation whose
agents, calls and message bound are used up, a file nobody works on, servers nobody
switches, a window nobody types in.

Each property of a passing run has a mutant of a mapped definition in
`PROJECT.json` (an attempt too many, hooks that stay, an undo that does not abort, the
newest snapshot instead of the nearest ...) that violates it.

## 5. Fairness

`ChatThread`: weak fairness of the microtask queue, of the reading of a message's
content, and of each loop's next step. The queue is run by the JavaScript engine;
a loop's next step is a promise that settles, a timer that fires, or an answer.
That an LLM request ends is an assumption about the transport: `fetch` and the
stream end or fail, except for the path where a JSON answer without choices is never
reported (section 7). That a preparation or the reading of a message rejects is one of the
outcomes, and `BusyEnds` names what the first leaves behind. That a tool returns is the tool's own
promise; terminal commands have a timeout (`CallsSettle`), and MCP calls depend on their
server. The user is never fair. With two tool calls at most, `BusyEnds` says that no
interleaving of aborts and retries keeps the conversation busy; it does not say
that an LLM stops calling tools, which nothing in the code bounds.

`LLMTransport`: weak fairness of delivery both ways, of the provider and of the
continuation of an abort, for `AbortedIsForgotten`; the two queues are
the IPC channels of Electron, which lose nothing while the window lives.

`McpServers` (`LocksFreed`): the windows' queues and reads go on, and a creation or a
closing settles, one way or the other: connections have timeouts of their own in the MCP
client, and closing is local.

`Autocomplete` (`EveryCallReturns`): only the two timers, the pause and the timeout of a
request. The LLM owes no answer.

`TerminalTools` (`CallsSettle`): the next step of each call, which is a creation that
settles, a wait for command detection that has a timeout, a text that is sent to a
process that is ready, or a timer that nothing set anew. No shell has to get ready, to finish a command or to stop printing:
the property excepts calls that wait for the first and the last of these for ever.

`SettingsStore` (`ChangesSettle`): the encryption answers or fails, and the settings are
read. `CommitMessages` (`LoadingEnds`): the timer fires, git ends, the request ends,
which it does not for a JSON answer without choices (section 7).

`EditApply`, `ChatCheckpoints` and `LineDiffs` state safety only.

## 6. Proofs

`ChatThreadProofs` (3112 obligations) proves, for every set of agents, calls and
tools and every value of the bounds:

* `ThreadTypes`: `Spec => []TypeOK`
* `SpinnerIsAlive`: `Spec => []NoDeadSpinner`
* `InterruptedStaysSilent`: `Spec => InterruptedIsSilent`
* `HistoryOpensWithCheckpoint`: `Spec => []EveryMessageHasCheckpoint`
* `CallsRunOnce`: `Spec => []RunsAtMostOnce`
* `RejectedCallsNeverRun`: `Spec => DeniedNeverRuns`
* `AbortsAreRemembered`: `Spec => []NoAbortForgotten`

The inductive invariant is `IInv == TypeOK /\ Control`. `NoDeadSpinner` is not inductive, nor
is `CutPlaces`, where the interrupted loops are, from which `InterruptedIsSilent` follows
step by step: a continuation in the microtask queue is
about to move a loop or to clear the stream state, so `Control` also says that each
queued continuation still fits the place of its loop (`JobsOK`, `Fits`), that the
interruptor of an LLM request is alone in the queue, that the stream state names a
loop exactly while it is busy (`StreamOwned`), and that a loop in a tool has a call
and one that waits to retry an attempt left (`LoopsOK`). The proof has a lemma per
shared operator, one step per action under `TypeStep` and `ControlStep`, and the
usual three facts.

Two more invariants rest on it. `OpensOK` is behind the checkpoint: what was stored
opens with one too (a reload brings it back), and while there is no message no loop
runs and only a send, which adds the checkpoint first, is queued, so nothing can add
another first message; truncations keep the message they cut after. `CallsOK` is
behind the two about calls: a request in a history, in memory or on disk, is of a call
that did not run and was not turned down, and no other message of that history
mentions the call; a call that was not made yet is mentioned nowhere; the call of a
loop has run. The disk is in it because a reload brings back what a cut had
taken out of the memory only. Every truncation, replacement and append of the
code gives a history `Derived` from the old one, so most actions are one case.
`NoAbortForgotten` is inductive with `IInv`.

`LLMProofs` (1724 obligations, with those below about clients of the service) proves

* `HooksMatch`: `Spec => []HooksOfOpen`
* `TransportTypes`: `Spec => []TypeOK`
* `ShownHasArrived`: `Spec => []ShownArrived`
* `TransportKeepsPromise`: `Spec => KeepsPromise`, the refinement of `LLMRequests`.

Its invariant adds that the events under way carry growing texts
(`EventsGrow`), between what was handed over and what arrived (`EventsBetween`,
`ShownArrived`): without it a late event could shrink the text. Hooks that a throwing
client leaves are harmless because no event comes after the end of a request: it is
sent once (`SentOnce`), its end is the last of its events (`EventsSent`), and once the
client knows it none is on its way (`EndKnown`). Every step then maps to a step of
`LLMRequests` or to a stutter.

`EditApplyProofs` (2784 obligations) proves, for every set of files, edits and modes,
every number of tries and every depth of the undo stacks:

* `EditTypes`: `Spec => []TypeOK`
* `SweepIsAlive`: `Spec => []SpinnerIsLive`
* `StreamStaysUndoable`: `Spec => []UndoReachesStream`
* `StopGivesTextBack`: `Spec => StopRestores`
* `StopEndsSweep`: `Spec => StopWorks`

The invariant is `IInv == TypeOK /\ HasJob /\ ShownIsAlive`. `SpinnerIsLive` is about
the zones that are in a file; an undo or a redo puts zones back, so `ShownIsAlive`
speaks of every zone object that says it streams, in a file or not. `HasJob` says
that an edit under way has its variables; without it a stream would write to no file.
The proof first shows that each operator on one file (`Undone`, `Redone`, `Finished`
...) leaves a file, then has a lemma per group of actions. `UndoReachesStream` is
inductive with `IInv`: of the operators on one file only `Undone` takes an element
off the stack, and when that element is the start of a stream, `StoppedByUndo` contains
the stream (`ReachUndone`).

`StopWorks` follows from `IInv` step by step. `StopRestores` is about what an element
of the undo stack recorded long ago, so it needs `StacksOK`: no snapshot on the stacks
holds a zone of its own edit, so an undo or redo never brings a streaming zone back;
a file that shows one has its start as the last start on the stack and nothing but
typing to redo; and while a stream is not over, what its start would restore is the
text the LLM was shown (`PromptKept`).

`McpServersProofs` (1554 obligations) proves, for every set of windows and servers,

* `LocksHaveOwners`: `Spec => []LockHasOwner`
* `StoredClientsAreOpen`: `Spec => []StoredIsOpen`
* `OfferedToolsReachTheirClient`: `Spec => []OfferedIsStored`

None is inductive. A task that settles frees the names of its *call*, so the tasks of
one call must share their names, and a toggle, which takes no lock, must free none
(`TasksOfCall`). A closing may hit a client that was stored meanwhile unless
clients are of the call that makes them: `OwnServer` and `NotYetMade` say that a client is
kept for its own server and that the client of a creation under way is nowhere yet, and
`SwitchedOff` that a switch took its client out before it closes it.
`OfferedIsStored` speaks of windows with no event on its way about a server;
`BeliefsOK` says what holds before: the last such event is right about the client kept,
and where there is none, what is shown is. It needs `SpareInv`: the client of a switch,
which the channel does not keep, is open, and is never closed or made again.

`ChatCheckpointsProofs` (2672 obligations) proves, for every set of files, every set of
open ones, every number of changes and every length of the thread,

* `JumpsGiveBack`: `Spec => []StandsExactly`
* `JumpsComeBack`: `Spec => []RoundTrip`

`Gives(ms, i, k, f)` says that the snapshot of file `f` in checkpoint `k` is the one a
jump to message `i` restores: the newest up to `i`, or else the oldest after it. The
code looks at the files with a snapshot between the two ends of the jump only, so that a
jump is right about the others is what has to be shown. `Stands`: wherever the thread
stands, every file, those the last jump left alone included, is as `Gives` says.
`Consistent`: what a checkpoint is sure of
is what `Gives` says, and a file no snapshot holds did not change. `Turns`: at the end
of the thread a file is as its newest snapshot unless it changed since (`EndHolds`), and
a checkpoint that ends the thread has a snapshot of all that was recorded. `LastMods`
and `EndKept` are about the last checkpoint, the only one that also keeps the user's
modifications. `StandsExactly` alone is not inductive: it says nothing of the files whose
snapshots lie beyond the checkpoint it speaks of, which the next jump restores or, when
a send cuts the thread there, forgets. The main lemmas say that a jump back
(`JumpedBack`) and forward (`JumpedForward`) end in what `Gives` says, and what a cut
(`ThreadCut`) and an append (`QuietAdded`, `NoteAdded`) do to it.

`TerminalToolsProofs` (598 obligations) proves, for every set of calls,

* `TerminalTypeCorrect`: `Spec => []TypeOK`
* `FirstTerminalUntilExit`: `Spec => []FirstUntilExit`
* `NoHiddenTerminalIsLeft`: `Spec => []NoHiddenLeft`

with an invariant that says where each call is (`CreatesWithId`, `RunsSomewhere`,
`NotBefore`), that a terminal with commands is open (`TypedIsOpen`) and that a terminal
is listed under the id its call took (`ListedById`), which is what its title names once
it is ready. That a free id exists is a
pigeonhole argument, and that the least one exists is `LeastNat`.

`SettingsStoreProofs` (810 obligations) proves, for every set of models, whichever are
managed, default or autodetected, and every number of changes,

* `SelectionsAreOffered`: `Spec => []TypeOK`
* `StoredStateIsShown`: `Spec => []StoredIsShown`
* `SyncedFeaturesAreSame`: `Spec => []SyncedIsSame`

The last two speak of quiet moments, so the invariant says what they become on the way
there: the last setter under way carries the newest state, or what is stored is what is
shown or was read and completed (`NewestWrite`), and a feature that is synced and
differs from Chat has a hook ahead of it in the queue (`HooksAhead`). That completing
what was read changes nothing but the key rests on what every stored state has: the
default models stay listed (no setter deletes one), and selections are valid
(`ValidStates`).

`LLMProofs` also proves, for every number of triggers of a commit message,

* `CommitTypes`: `CommitSpec => []CommitTypeOK`
* `OpenRequestIsCurrent`: `CommitSpec => []RequestIsCurrent`
* `LoadingIsWork`: `CommitSpec => []LoadingHasWork`

The invariant is the three together with `Paid`: each run, and each task that waits,
has a trigger of its own.

And for every set of documents, every number of requests and waiting calls, and every
size of the cache that is not below the number of pending requests,

* `PendingStaysBounded`: `AutoSpec => []PendingBounded`
* `DroppedRequestsAreAborted`: `AutoSpec => []NoOrphanRequest`

`PendingBounded` is not inductive. A completion is in one cache only (`OneDocument`),
and one that was not made yet is in none, though its status is already pending
(`NotMadeYet`). The oldest pending completion is cancelled before a new one is made, so
there is room for one more (`Bounded`); whatever leaves a cache then, cancelled or
evicted, leaves all of them (`Dropped`), and its request is aborted in the same step if
it was open (`DisposedFacts`), which is what `NoOrphanRequest` needs.

`LLMProofs` extends `LLMTransport`, `CommitMessages` and `Autocomplete` together: three
specifications with constants and variables of their own, which is why the clients'
names carry a prefix (`CommitSpec`, `AutoSpec`, `runPhase`, `llmPhase`). The
assumptions are the named ASSUMEs of the three modules.

`LineDiffsProofs` (3476 obligations) proves, for every set of characters, every size of
the file, the zone and its original code, and every shortest script,

* `ZonesKeepTheirLines`: `Spec => []ZoneTracks`
* `ZonesLiveWhileDifferent`: `Spec => []LiveWhileDifferent`
* `RejectingRestores`: `Spec => RejectRestores`
* `AcceptingSettlesOne`: `Spec => AcceptSettlesOne`

Most of it is about the operators. *Scripts*: a script that keeps as many lines as can be
has a diff unless the texts are equal (`NoDiffsEqual`), and has none if they are
(`EqualNoDiffs`, since then everything can be kept). Accepting a diff patches the
original. A script of the old text widens to one of the patched text that also keeps the
lines the diff adds (`WidenedFacts`); any script of the patched text narrows to one of the
old text that keeps at most those fewer (`NarrowedFacts`). So `Most` grows by exactly what
the diff adds (`PatchedMost`), which is `AcceptSettlesOne`; and the diffs of the widened
script are the others of the books (`PatchedSettled`), so that the books are
empty exactly when the patched original is the code (`AcceptedLast`, `AcceptedFacts`).
*Edits*: what an edit of positions does to each line, and that each of the code's four
ranges for a rejection, at the ends of the file too, replaces exactly the lines of
the diff, unless it joins lines (`RejectFacts`), as that of an insertion at the end of
the zone does. *Zones*: for each case of
`_realignAllDiffAreasLines`, the realigned zone holds the lines that were in it or
replaced one that was (`RealignFacts`), which is what the ghost marks (`MarkedFacts`).
The invariant is then short: the zone begins in the file and neither it nor its original
is empty (`StateOK`), the diffs are computed from the lines of now and the zone is live
while there are some (`Booked`), and unless it went astray it holds its lines (`Held`).
`LiveWhileDifferent` alone is not inductive: acceptDiff decides from the diffs, not
from the texts.

The assumptions are the named ASSUMEs of the modules: the model values are not
members of the sets they stand beside, tools and operations are what they say,
sets of calls, windows and servers are finite, and the bounds are natural numbers.

## 7. What the models show

One run is refuted by TLC, with the line it disagrees with in `PROJECT.json`
`findings`: `edit_fast_apply_stuck`. A second search/replace block makes the callbacks
of a fast apply throw (`startLine` is read before its `const`,
`editCodeService.ts:1846`), and the file streams for ever.

Met while modelling. Each is in the models as the code has it, so the properties hold
in its presence; lines are of the file named in the heading.

`chatThreadService.ts`

* Rejecting a tool request (534) ends the turn without the checkpoint that every other
  end adds, although "a checkpoint appears ... before every user message" (94). So the
  walk of a jump over that turn can take a snapshot of another moment: "we need to revert
  anything that happened between to+1 and from" (1119) fails for it. The same walk may
  undo files that did not change since the target, against 1121.
* Aborting a tool that the user approved (763) does not end its loop, which sends
  another LLM message.
* `prepareLLMChatMessages` (780) rejects when a workspace folder cannot be read
  (`convertToLLMMessageService.ts:585`, `directoryStrService.ts:455`), and nothing
  catches it: the conversation stays busy (`'idle'`: "nothing is running now, but the chat
  should still appear like it's going", 160) with no loop, until the user stops it.
* A loop interrupted while idle (791) clears the stream state of a newer loop, whose
  answer is then dropped.
* Two submits before the first content is read (1239) start two loops. A send whose
  content cannot be read (1250) is dropped without a word.
* A message the LLM service refuses (no model) ends the loop with the error
  overwritten by `{ isRunning: undefined }` (833).
* A jump to a checkpoint is not stored (1811), so a reload forgets it. After a tool
  throws while an abort waits, the call gets a second tool message. An MCP call has
  no interruptor, so an abort leaves its loop alive beside newer ones.

`sendLLMMessageChannel.ts`, `sendLLMMessage.impl.ts`

* An abort in the main process waits for the whole answer before it calls the aborter
  (channel 121), so it never stops a request.
* A JSON answer without choices is never reported (impl 225).
* `_infoOfRunningRequest` keeps every request that ends by itself. Hooks of `onAbort` are
  never cleared, and `abort` (service 150) calls them again for a request that ended or
  was aborted.
* Hooks are cleared after the client was called (service 79-86), so those of a client that
  throws stay; the `onError` of the edit service always throws (1474, 1761).

`editCodeService.ts`

* The original code of an Apply is read before the earlier zones are rejected (1282),
  so rejecting the new zone brings the rejected edit back.
* Restoring a snapshot of one file stops the streams of every file, where the
  comment says "in this uri" (691); a failing `edit_file` does the same, since it undoes.
* An error of the LLM undoes the *last* element of the stack: if the user typed
  meanwhile, or auto accept is on, the edit stays in the file, and since only
  undoing the start of the stream rejects the promise, the promise stays pending.
* A character typed before the first text arrives and a Stop: the undo takes back
  the typing, the zone has no diffs left and is deleted as if the user had undone
  everything, and the request goes on without anything that shows it.
* The keys that accept or reject a file work while it streams and orphan the
  stream, which goes on writing.
* Rejecting an insertion at the end of a zone (2232-2236) deletes up to the next line
  break too few or too many: before other text it joins that text to the line above
  ("if it was an insertion, need to delete all the lines", 2224), and rejecting again
  does not converge. `LineDiffs` marks such a state `astray` and does not follow it.
* A change that contains a zone makes the zone one line longer than the change (912-915,
  against 911). A rejection whose text the file already has is not written (648), though
  its zone was realigned.

`mcpChannel.ts`, `mcpService.ts`, `terminalToolService.ts`

* A server that is toggled on makes a client the channel does not keep (channel 272):
  its tools are offered and cannot be called. At startup every server counts as added,
  so a server the user switched off is on again (service 277). States of removed servers
  stay (settings 657-664). A refresh that skips a name shows a reloaded window "loading"
  until something else refreshes it (channel 137).
* "When exit, remove" (terminal 81) holds for the first persistent terminal only:
  `Number.isInteger` of a string (64) is false, so no title with a number has an id.
  And for that one only under its own title: a terminal has no title until its process is
  ready, so one that fails before stays listed, as does one that the user renamed; one
  that is launched again has no handler left for its exit. And the handler takes off
  whatever has that name by then, since `onExit` fires after a flush (`terminalInstance.ts`
  1655-1715): kill the terminal, open a new one before that, and the new one, which is open,
  leaves the list.
* `sendText` (terminal 318) awaits a process that is ready: a call whose terminal dies
  before never settles by itself. A temporary command that keeps printing never times
  out (331-343).
* Two opens that race get the same id (166-169). The answer of an earlier command in a
  persistent terminal is taken for that of the next (306-312).

`genrtlSettingsService.ts`

* Changing the Chat model overwrites the models of Apply and SCM also when they are not
  synced (541-542, against 497). A reload between a store and its hooks leaves them
  unsynced. A change before the settings are read replaces the stored state by defaults
  with that change (423). Windows overwrite each other's storage. An emptied key of
  genrtlSaaS comes back at a reload (374-376), and with it the models it offers.
* `_onDidChangeState` carries no type, so the listener in `refreshModelService.ts:137`
  never starts a refresh.

`genrtlSCMService.ts`

* Abort (124) cancels the delayer, not what the throttler holds back. Generate, abort
  while git works, generate again, abort again: the second run still starts when the
  first ends, sends, and writes the input box, with the button at "generate". A trigger
  from the command palette while a run is active runs with that button too.

`genrtlCommandBarService.ts`: deleted zones stay in `sortedDiffZoneIds`, because
`_getDiffZoneChanges` (258-266) looks them up after they were deleted.

## 8. What is only model-checked, and what is not modelled

Only model-checked: liveness (`BusyEnds`, `AbortsComplete`, `AbortedIsForgotten`,
`LocksFreed`, `EveryCallReturns`, `CallsSettle`, `ChangesSettle`, `LoadingEnds`), which is
out of TLAPS's reach. Every invariant and action property that a passing run
checks is a theorem.

Left out of `ChatThread`: the list of threads (new, switch, duplicate, delete),
staging selections, links. Left out of `LLMTransport`: the listing of models, which uses
the same channel with hooks of its own. Left out of `EditApply` and `LineDiffs`: Ctrl+K
zones, several zones in one file, the zones that track blocks of a fast apply, files
without a model, and the save that follows an edit. Left out of `McpServers`:
`closeAllMCPServers`, which nothing calls, and what tool calls carry. Left out of
`Autocomplete`: which completion matches what was typed, and the shaping of its text.
Left out of `TerminalTools`: the text of results, and the reconnection of terminals after
a reload. Left out of `SettingsStore`: setters that store as the modelled ones do, the keys
of other providers (which offer and take away models as hiding does), where an added model
is put among the others, the model of Ctrl+K, default models of another version, the
migration of old settings, and other windows.
Left out of `CommitMessages`: the four git commands behind one step.

Not modelled: the refresh of models (every listing answers an error in this fork), the
command bar (derived from the events of the edit service), text models (one map),
message conversion, the stream grammars and code extraction (they are about characters,
which TLC can enumerate only for trivially short texts), prompts and tables. The
remaining components are listed with their reasons in `PROJECT.json`: user interface,
file I/O, text or tables, and the vendored editor, which is most of the repository's
code and none of its own logic.
