----------------------------- MODULE McpServers -----------------------------
(***************************************************************************)
(* The MCP servers: MCPService in every window (common/mcpService.ts),     *)
(* which reads the config file and shows the servers, and the one          *)
(* MCPChannel of the main process (electron-main/mcpChannel.ts), which     *)
(* holds the connections, serves every window and broadcasts its events to *)
(* all of them.                                                            *)
(*                                                                         *)
(* A client is named by the call that made it and its server.  The tools a *)
(* window offers to the LLM stand for the client that listed them.         *)
(***************************************************************************)
EXTENDS Naturals, Sequences, FiniteSets, SequencesExt

CONSTANTS
    Windows, Servers,
    None,          \* no client
    MaxActions     \* bound: edits of the file, toggles and reloads

ASSUME McpAssumption ==
    /\ IsFiniteSet(Windows) /\ IsFiniteSet(Servers)
    /\ MaxActions \in Nat
    /\ None \notin (Nat \X Servers)

VARIABLES
    config,     \* servers of the config file
    readable,   \* whether the file parses
    shown,      \* state.mcpServerOfName of a window
    isOn,       \* mcpUserStateOfName of a window's settings
    saved,      \* and as stored
    reading,    \* runs of _refreshMCPServers that await the file
    storing,    \* awaited _storeState calls of a window, in order
    toMain,     \* channel.call messages of a window
    toWindow,   \* emitter events on their way to a window
    clientOf,   \* infoOfClientId[s]._client
    known,      \* keys of infoOfClientId
    locked,     \* _refreshingServerNames
    tasks,      \* awaited creations and closings of the main process
    open,       \* connected clients
    spare,      \* ghost: clients made by a switch, which the channel does not keep
    calls,      \* calls the main process received
    actions     \* edits, toggles and reloads so far

file == <<config, readable>>
window == <<shown, isOn, saved, reading, storing>>
main == <<clientOf, known, locked, tasks, open, spare, calls>>
vars == <<file, window, toMain, toWindow, main, actions>>

-----------------------------------------------------------------------------
\* Clients of the calls so far.
Clients == (1..calls) \X Servers

Shown(status, tools) == [status |-> status, tools |-> tools]
Absent == Shown("absent", None)
Loading == Shown("loading", None)
States ==
    {Shown(st, None) : st \in {"absent", "loading", "error", "offline"}}
        \cup {Shown(st, c) : st \in {"success", "offline"}, c \in Clients}

\* A refresh of a window: what was added and removed, and the file it read.
Refreshes == [config : SUBSET Servers, added : SUBSET Servers, removed : SUBSET Servers]
Toggles == [server : Servers, isOn : BOOLEAN]

Refresh(c, a, r) == [config |-> c, added |-> a, removed |-> r]
Event(s, new) == [server |-> s, new |-> new]

\* An awaited closing or creation of server s for a call, which changes names.
Task(n, s, kind, step, on, c, names) ==
    [call |-> n, server |-> s, kind |-> kind, step |-> step, isOn |-> on, client |-> c, names |-> names]

Init ==
    /\ config \in SUBSET Servers /\ readable = TRUE
    /\ shown = [w \in Windows |-> [s \in Servers |-> Absent]]
    /\ isOn = [w \in Windows |-> [s \in Servers |-> TRUE]]
    /\ saved = [s \in Servers |-> TRUE]
    /\ reading = [w \in Windows |-> 1]
    /\ storing = [w \in Windows |-> << >>]
    /\ toMain = [w \in Windows |-> << >>]
    /\ toWindow = [w \in Windows |-> << >>]
    /\ clientOf = [s \in Servers |-> None]
    /\ known = {} /\ locked = {} /\ tasks = {} /\ open = {} /\ spare = {}
    /\ calls = 0 /\ actions = 0

\* What the user does, up to the bound.
Acts == actions < MaxActions /\ actions' = actions + 1

-----------------------------------------------------------------------------
\* A window.

\* The config file is written: the watcher of every window starts a refresh.
EditConfig ==
    /\ Acts
    /\ \E c \in SUBSET Servers : config' = c
    /\ \E ok \in BOOLEAN : readable' = ok
    /\ reading' = [w \in Windows |-> reading[w] + 1]
    /\ UNCHANGED <<shown, isOn, saved, storing, toMain, toWindow, main>>

\* _setMCPUserStateOfName: the settings change at once, then _storeState awaits
\* the encryption, which answers in order.
Store(w, on, then, arg) ==
    /\ isOn' = [isOn EXCEPT ![w] = on]
    /\ storing' = [storing EXCEPT ![w] = Append(@, [then |-> then, arg |-> arg, value |-> on])]

Added(w) == {s \in config : shown[w][s] = Absent}

\* _refreshMCPServers up to the store of the servers added to the settings.
ReadConfig(w) ==
    /\ reading[w] > 0
    /\ reading' = [reading EXCEPT ![w] = @ - 1]
    /\ IF ~readable
       THEN UNCHANGED <<isOn, storing>>
       ELSE LET added == Added(w)
                removed == {s \in Servers : shown[w][s] # Absent} \ config
            IN Store(w, [s \in Servers |-> s \in added \/ isOn[w][s]], "remove",
                     Refresh(config, added, removed))
    /\ UNCHANGED <<file, shown, saved, toMain, toWindow, main, actions>>

\* toggleServerIsOn up to its store; the switch of a failed server is disabled.
Toggle(w, s) ==
    /\ Acts
    /\ shown[w][s].status \notin {"absent", "error"}
    /\ shown' = [shown EXCEPT ![w][s] = Loading]
    /\ LET on == ~isOn[w][s] IN
       Store(w, [isOn[w] EXCEPT ![s] = on], "toggle", [server |-> s, isOn |-> on])
    /\ UNCHANGED <<file, saved, reading, toMain, toWindow, main>>

\* A store completes and the code behind it runs.
Stored(w) ==
    /\ storing[w] # << >>
    /\ saved' = Head(storing[w]).value
    /\ UNCHANGED <<file, reading, toWindow, main, actions>>

\* The names removed from the file leave the settings in a copy, which
\* _setMCPUserStateOfName merges into the old ones: they stay.
RemoveStates(w) ==
    /\ Stored(w)
    /\ Head(storing[w]).then = "remove"
    /\ storing' = [storing EXCEPT ![w] =
           Append(Tail(@), [then |-> "refresh", arg |-> Head(@).arg, value |-> isOn[w]])]
    /\ UNCHANGED <<shown, isOn, toMain>>

SendRefresh(w) ==
    /\ Stored(w)
    /\ Head(storing[w]).then = "refresh"
    /\ LET r == Head(storing[w]).arg IN
       /\ shown' = [shown EXCEPT ![w] = [s \in Servers |-> IF s \in r.config THEN Loading ELSE @[s]]]
       /\ toMain' = [toMain EXCEPT ![w] = Append(@, [op |-> "refresh", arg |-> r, isOn |-> isOn[w]])]
    /\ storing' = [storing EXCEPT ![w] = Tail(@)]
    /\ UNCHANGED isOn

SendToggle(w) ==
    /\ Stored(w)
    /\ Head(storing[w]).then = "toggle"
    /\ toMain' = [toMain EXCEPT ![w] =
           Append(@, [op |-> "toggle", arg |-> Head(storing[w]).arg, isOn |-> isOn[w]])]
    /\ storing' = [storing EXCEPT ![w] = Tail(@)]
    /\ UNCHANGED <<shown, isOn>>

\* onAdd, onUpdate and onDelete: _setMCPServerState.
Deliver(w) ==
    /\ toWindow[w] # << >>
    /\ LET e == Head(toWindow[w]) IN shown' = [shown EXCEPT ![w][e.server] = e.new]
    /\ toWindow' = [toWindow EXCEPT ![w] = Tail(@)]
    /\ UNCHANGED <<file, isOn, saved, reading, storing, toMain, main, actions>>

\* The window reloads: it starts from the stored settings and no server, while
\* the main process goes on.
Reload(w) ==
    /\ Acts
    /\ shown' = [shown EXCEPT ![w] = [s \in Servers |-> Absent]]
    /\ isOn' = [isOn EXCEPT ![w] = saved]
    /\ reading' = [reading EXCEPT ![w] = 1]
    /\ storing' = [storing EXCEPT ![w] = << >>]
    /\ toWindow' = [toWindow EXCEPT ![w] = << >>]
    /\ UNCHANGED <<file, saved, toMain, main>>

-----------------------------------------------------------------------------
\* The main process.

Fire(events) == toWindow' = [w \in Windows |-> toWindow[w] \o events]
Deleted(names) == SetToSeq({Event(s, Absent) : s \in names})

\* Mutant: the names are unlocked once no call at all is under way.
FreedTogether(names, left, n, now) == IF left # {} THEN now ELSE now \ names

\* The end of call n, once nothing of it is awaited any more: it unlocks all of
\* its names, those it skipped included.
Freed(names, left, n, now) == IF \E t \in left : t.call = n THEN now ELSE now \ names

\* _refreshMCPServers: names that are being refreshed are skipped, the others
\* are locked and run to their first await.  Nothing is awaited to close a
\* server that has no client.
ReceiveRefresh(w) ==
    /\ toMain[w] # << >> /\ Head(toMain[w]).op = "refresh"
    /\ LET r == Head(toMain[w]).arg
           on == Head(toMain[w]).isOn
           n == calls + 1
           names == r.config \cup r.removed
           taken == names \ locked
           closing == {s \in taken \ r.added : clientOf[s] # None}
           gone == (taken \ r.added) \ closing
           created == (taken \ closing) \ r.removed
           kind(s) == CASE s \in r.removed -> "remove" [] s \in r.added -> "add" [] OTHER -> "update"
           begun == {Task(n, s, kind(s), "closing", on[s], clientOf[s], names) : s \in closing}
                        \cup {Task(n, s, kind(s), "creating", on[s], <<n, s>>, names) : s \in created}
       IN
       /\ tasks' = tasks \cup begun
       /\ locked' = Freed(names, begun, n, locked \cup taken)
       /\ known' = known \ gone
       /\ Fire(Deleted(gone))
       /\ calls' = n
    /\ toMain' = [toMain EXCEPT ![w] = Tail(@)]
    /\ UNCHANGED <<file, window, clientOf, open, spare, actions>>

\* _toggleMCPServer(s, true): a second client is made from the entry of the
\* first.  For a server it does not know the channel throws.
ReceiveToggleOn(w) ==
    /\ toMain[w] # << >> /\ Head(toMain[w]).op = "toggle" /\ Head(toMain[w]).arg.isOn
    /\ LET s == Head(toMain[w]).arg.server
           n == calls + 1 IN
       /\ tasks' = IF s \in known
                   THEN tasks \cup {Task(n, s, "toggle", "creating", TRUE, <<n, s>>, {})} ELSE tasks
       /\ calls' = n
    /\ toMain' = [toMain EXCEPT ![w] = Tail(@)]
    /\ UNCHANGED <<file, window, toWindow, clientOf, known, locked, open, spare, actions>>

\* Mutant: the closed client stays in infoOfClientId.
KeepClient(s) == clientOf

WithoutClient(s) == [clientOf EXCEPT ![s] = None]

\* _toggleMCPServer(s, false): the closing is not awaited.
ReceiveToggleOff(w) ==
    /\ toMain[w] # << >> /\ Head(toMain[w]).op = "toggle" /\ ~Head(toMain[w]).arg.isOn
    /\ LET s == Head(toMain[w]).arg.server
           n == calls + 1
           c == clientOf[s] IN
       /\ IF s \in known
          THEN /\ tasks' = IF c = None THEN tasks
                           ELSE tasks \cup {Task(n, s, "off", "closing", FALSE, c, {})}
               /\ clientOf' = WithoutClient(s)
               /\ Fire(<<Event(s, Shown("offline", None))>>)
          ELSE UNCHANGED <<tasks, clientOf, toWindow>>
       /\ calls' = n
    /\ toMain' = [toMain EXCEPT ![w] = Tail(@)]
    /\ UNCHANGED <<file, window, known, locked, open, spare, actions>>

\* Mutant: the windows hear nothing of a removed server.
NoDeletion(s) == UNCHANGED toWindow

FireDelete(s) == Fire(Deleted({s}))

\* client.close() settles.  A refresh forgets the server, whatever it holds by
\* now, and an updated one is connected again.
Closed(t) ==
    /\ t.step = "closing"
    /\ open' = open \ {t.client}
    /\ IF t.kind = "off"
       THEN /\ tasks' = tasks \ {t}
            /\ UNCHANGED <<toWindow, clientOf, known, locked>>
       ELSE /\ tasks' = (tasks \ {t}) \cup
                {[t EXCEPT !.step = "creating", !.client = <<t.call, t.server>>] : k \in {t.kind} \cap {"update"}}
            /\ clientOf' = WithoutClient(t.server)
            /\ known' = known \ {t.server}
            /\ FireDelete(t.server)
            /\ locked' = Freed(t.names, tasks', t.call, locked)
    /\ UNCHANGED <<file, window, toMain, spare, calls, actions>>

\* Mutant: what a failed creation throws goes through Promise.all.
FreedOnSuccess(t, ok) == IF ok THEN Freed(t.names, tasks \ {t}, t.call, locked) ELSE locked

FreedAfter(t, ok) == Freed(t.names, tasks \ {t}, t.call, locked)

NewServer(t, ok) ==
    IF ok THEN Shown(IF t.isOn THEN "success" ELSE "offline", t.client) ELSE Shown("error", None)

\* _createClient settles: connected or failed, the server is stored and shown.
Created(t, ok) ==
    /\ t.step = "creating" /\ t.kind # "toggle"
    /\ tasks' = tasks \ {t}
    /\ open' = IF ok THEN open \cup {t.client} ELSE open
    /\ clientOf' = [clientOf EXCEPT ![t.server] = IF ok THEN t.client ELSE None]
    /\ known' = known \cup {t.server}
    /\ Fire(<<Event(t.server, NewServer(t, ok))>>)
    /\ locked' = FreedAfter(t, ok)
    /\ UNCHANGED <<file, window, toMain, spare, calls, actions>>

\* The client of a toggle is shown but not stored; a failure is only logged.
ToggledOn(t, ok) ==
    /\ t.kind = "toggle"
    /\ tasks' = tasks \ {t}
    /\ IF ok
       THEN /\ open' = open \cup {t.client}
            /\ spare' = spare \cup {t.client}
            /\ Fire(<<Event(t.server, NewServer(t, ok))>>)
       ELSE UNCHANGED <<open, spare, toWindow>>
    /\ UNCHANGED <<file, window, toMain, clientOf, known, locked, calls, actions>>

-----------------------------------------------------------------------------
Process(w) ==
    \/ ReadConfig(w) \/ RemoveStates(w) \/ SendRefresh(w) \/ SendToggle(w) \/ Deliver(w)
    \/ ReceiveRefresh(w) \/ ReceiveToggleOn(w) \/ ReceiveToggleOff(w)

Settles(t) == Closed(t) \/ \E ok \in BOOLEAN : Created(t, ok) \/ ToggledOn(t, ok)

Next ==
    \/ EditConfig
    \/ \E w \in Windows : Process(w) \/ Reload(w) \/ \E s \in Servers : Toggle(w, s)
    \/ \E t \in tasks : Settles(t)

\* Messages are delivered, files read, and every connection is made, refused or
\* closed (the client of the MCP library times out).
Fairness ==
    /\ \A w \in Windows : WF_vars(Process(w))
    /\ WF_vars(\E t \in tasks : Settles(t))

Spec == Init /\ [][Next]_vars
FairSpec == Spec /\ Fairness

-----------------------------------------------------------------------------
\* Types; a task creates the client of its call, and only a shown success or
\* offline server has tools.
TypeOK ==
    /\ config \in SUBSET Servers /\ readable \in BOOLEAN
    /\ shown \in [Windows -> [Servers -> States]]
    /\ isOn \in [Windows -> [Servers -> BOOLEAN]] /\ saved \in [Servers -> BOOLEAN]
    /\ reading \in [Windows -> Nat]
    /\ clientOf \in [Servers -> Clients \cup {None}]
    /\ known \subseteq Servers /\ locked \subseteq Servers
    /\ open \subseteq Clients /\ spare \subseteq open
    /\ calls \in Nat /\ actions \in 0..MaxActions
    /\ \A t \in tasks :
        /\ t.call \in 1..calls /\ t.server \in Servers /\ t.client \in Clients
        /\ t.step = "creating" => t.client = <<t.call, t.server>>

\* A locked name belongs to a refresh that is still under way: no lock is left
\* behind, though calls that skip a name unlock it (mcpChannel.ts:158-160).
LockHasOwner ==
    \A s \in locked : \E t \in tasks : s \in t.names

\* The client the channel keeps for tool calls is connected until its closing settles:
\* closings, creations and switches of several calls on one server overlap.
StoredIsOpen ==
    \A s \in Servers : clientOf[s] # None =>
        clientOf[s] \in open

InFlight(w, s) == \E i \in DOMAIN toWindow[w] : toWindow[w][i].server = s

\* Once the events on their way have arrived, the tools a window offers are those
\* of the client that tool calls reach (or of a connected one that a switch made),
\* whatever reloads, refreshes and switches crossed them.
OfferedIsStored ==
    TypeOK /\ \A w \in Windows, s \in Servers :
        LET c == shown[w][s].tools IN
        (c # None /\ ~InFlight(w, s)) =>
            IF c \in spare THEN c \in open ELSE c = clientOf[s]

\* Every lock is released.
LocksFreed == \A s \in Servers : (s \in locked) ~> (s \notin locked)
=============================================================================
