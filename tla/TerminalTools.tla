--------------------------- MODULE TerminalTools ----------------------------
(***************************************************************************)
(* The terminals of the agent (browser/terminalToolService.ts) under tool  *)
(* calls from several chat threads: opening and killing persistent         *)
(* terminals, and commands in them or in a temporary terminal of their     *)
(* own, with their timeouts and interrupts.                                *)
(*                                                                         *)
(* A terminal is named after the call that created it.  What a terminal    *)
(* does by itself is that of contrib/terminal: its process gets ready or   *)
(* not, a closed one tells its onExit listeners later.  The shell and its  *)
(* command detection are external: the shell runs what was typed in order, *)
(* and every command may never finish.                                     *)
(***************************************************************************)
EXTENDS Naturals, Sequences, FiniteSets

CONSTANTS
    Calls,      \* tool calls, each made once
    None,
    May,        \* bound: call -> what it may be: open, kill, temporary, persistent
    Renamed,    \* bound: calls whose terminals the user renames
    Relaunched  \* bound: and whose terminals are launched again

ASSUME CallsAssumption == IsFiniteSet(Calls) /\ None \notin Calls

VARIABLES
    persistent,    \* persistentTerminalInstanceOfId
    temporary,     \* temporaryTerminalInstanceOfId: the calls with an entry
    open,          \* terminals that were created and neither exited nor were disposed
    ready,         \* terminals whose ptyProcessReady is resolved
    watched,       \* terminals whose onExit handler did not run yet
    titleId,       \* terminal -> the id its title names, 0 if none does
    misnamed,      \* history: terminals whose handler ran under another title than the first's
    typed,         \* terminal -> the commands of its shell that did not finish
    call           \* call -> what runCommand or createPersistentTerminal is at

tables == <<persistent, temporary>>
shells == <<open, ready, typed>>
exits == <<watched, titleId, misnamed>>
vars == <<persistent, temporary, open, ready, watched, titleId, misnamed, typed, call>>

Ids == 1..Cardinality(Calls)

-----------------------------------------------------------------------------
Idle == [at |-> "idle", kind |-> None, id |-> 0, terminal |-> None, listens |-> FALSE,
         reason |-> None, interrupted |-> FALSE, fresh |-> FALSE]

Init ==
    /\ persistent = [i \in Ids |-> None]
    /\ temporary = {}
    /\ open = {} /\ ready = {} /\ watched = {} /\ misnamed = {}
    /\ titleId = [c \in Calls |-> 0]
    /\ typed = [c \in Calls |-> << >>]
    /\ call = [c \in Calls |-> Idle]

Listed == {i \in Ids : persistent[i] # None}

\* getValidNewTerminalId
NewId == CHOOSE i \in Ids : i \notin Listed /\ \A j \in 1..(i - 1) : j \in Listed

\* Mutant: no title has an id, not even the one without a number.
NoIdOfTitle(t) == None

\* idOfPersistentTerminalName of a title: Number.isInteger of a string is false, so
\* only the name without a number has an id.
IdOfTitle(t) == IF titleId[t] = 1 THEN 1 ELSE None

\* Terminals end, by dispose or by themselves; what is typed is lost with the shell.
Closed(terminals) ==
    /\ open' = open \ terminals
    /\ typed' = [t \in Calls |-> IF t \in terminals THEN << >> ELSE typed[t]]
    /\ UNCHANGED <<ready, exits>>

Delisted(ids) == persistent' = [i \in Ids |-> IF i \in ids THEN None ELSE persistent[i]]

\* The onExit handler of t, which runs once: whatever the id in its title now lists is
\* taken from the list.
HandleExit(t) ==
    /\ watched' = watched \ {t}
    /\ Delisted({IdOfTitle(t)})
    /\ misnamed' = IF titleId[t] = 1 THEN misnamed ELSE misnamed \cup {t}
    /\ UNCHANGED <<temporary, titleId>>

Settled == {"answered", "failed"}
Moves(c, at) == call' = [call EXCEPT ![c].at = at]

\* runCommand is over, and with it its locals.
Returns(c, at) ==
    call' = [call EXCEPT ![c] =
        [Idle EXCEPT !.at = at, !.kind = call[c].kind, !.interrupted = call[c].interrupted]]

-----------------------------------------------------------------------------
\* createPersistentTerminal: the id is taken before the terminal is there ...
OpenPersistent(c) ==
    /\ call[c].at = "idle" /\ "open" \in May[c]
    /\ call' = [call EXCEPT ![c] = [Idle EXCEPT !.at = "creating", !.kind = "open", !.id = NewId]]
    /\ UNCHANGED <<tables, shells, exits>>

\* A terminal is created without a title; its process may not have started.
Created(c) ==
    /\ open' = open \cup {c}
    /\ watched' = watched \cup {c}
    /\ UNCHANGED <<ready, typed, titleId, misnamed>>

\* ... and listed when it is.
PersistentOpened(c) ==
    /\ call[c].at = "creating" /\ call[c].kind = "open"
    /\ Created(c)
    /\ persistent' = [persistent EXCEPT ![call[c].id] = c]
    /\ Moves(c, "answered")
    /\ UNCHANGED temporary

CreateFails(c) ==
    /\ call[c].at = "creating"
    /\ Moves(c, "failed")
    /\ UNCHANGED <<tables, shells, exits>>

killPersistentTerminal(c, id) ==
    /\ call[c].at = "idle" /\ "kill" \in May[c]
    /\ IF id \in Listed
       THEN /\ call' = [call EXCEPT ![c] = [Idle EXCEPT !.at = "answered", !.kind = "kill"]]
            /\ Closed({persistent[id]})
            /\ Delisted({id})
       ELSE /\ call' = [call EXCEPT ![c] = [Idle EXCEPT !.at = "failed", !.kind = "kill"]]
            /\ UNCHANGED <<persistent, shells, exits>>
    /\ UNCHANGED temporary

-----------------------------------------------------------------------------
\* runCommand in a terminal of its own.
RunTemporary(c) ==
    /\ call[c].at = "idle" /\ "temporary" \in May[c]
    /\ call' = [call EXCEPT ![c] = [Idle EXCEPT !.at = "creating", !.kind = "temporary"]]
    /\ UNCHANGED <<tables, shells, exits>>

TemporaryCreated(c) ==
    /\ call[c].at = "creating" /\ call[c].kind = "temporary"
    /\ Created(c)
    /\ temporary' = temporary \cup {c}
    /\ call' = [call EXCEPT ![c].at = "capability", ![c].terminal = c]
    /\ UNCHANGED persistent

\* runCommand in a persistent terminal.
RunPersistent(c, id) ==
    /\ call[c].at = "idle" /\ "persistent" \in May[c]
    /\ call' = [call EXCEPT ![c] =
            IF id \in Listed
            THEN [Idle EXCEPT !.at = "capability", !.kind = "persistent", !.id = id, !.terminal = persistent[id]]
            ELSE [Idle EXCEPT !.at = "failed", !.kind = "persistent", !.id = id]]
    /\ UNCHANGED <<tables, shells, exits>>

\* The awaits of focusActiveInstance and of _waitForCommandDetectionCapability, between
\* which nothing is read: it is there, or not within ten seconds.
ListenFor(c, found) ==
    /\ call[c].at = "capability"
    /\ call' = [call EXCEPT ![c].at = "sending", ![c].listens = found]
    /\ UNCHANGED <<tables, shells, exits>>

\* Only a shell that lives takes the text.
IsTyped(c) == call[c].terminal \in open

\* sendText, which awaits ptyProcessReady; then the timer starts.
Send(c) ==
    /\ call[c].at = "sending" /\ call[c].terminal \in ready
    /\ typed' = IF IsTyped(c) THEN [typed EXCEPT ![call[c].terminal] = Append(@, c)] ELSE typed
    /\ call' = [call EXCEPT ![c].at = "waiting", ![c].fresh = call[c].kind = "temporary"]
    /\ UNCHANGED <<tables, open, ready, exits>>

\* The shell of t finishes a command, and onCommandFinished resolves all that listen.
CommandFinished(t) ==
    /\ typed[t] # << >>
    /\ typed' = [typed EXCEPT ![t] = Tail(@)]
    /\ call' = [c \in Calls |->
            IF call[c].terminal = t /\ call[c].listens /\ call[c].at \in {"sending", "waiting"} /\ call[c].reason = None
            THEN [call[c] EXCEPT !.reason = "done"] ELSE call[c]]
    /\ UNCHANGED <<tables, open, ready, exits>>

\* The timer of a temporary command, MAX_TERMINAL_INACTIVE_TIME after the last output:
\* output starts it anew.
Waiting(c) == call[c].at = "waiting" /\ call[c].reason = None

Prints(c) ==
    /\ Waiting(c) /\ call[c].kind = "temporary" /\ ~call[c].fresh /\ c \in open
    /\ call' = [call EXCEPT ![c].fresh = TRUE]
    /\ UNCHANGED <<tables, shells, exits>>

TimePasses(c) ==
    /\ Waiting(c) /\ call[c].fresh
    /\ call' = [call EXCEPT ![c].fresh = FALSE]
    /\ UNCHANGED <<tables, shells, exits>>

\* Mutant: only a command that can hear of its end is given up.
TimersOfListeners(c) == Waiting(c) /\ call[c].listens

\* A timer is set beside every command.
HasTimer(c) == Waiting(c)

\* MAX_TERMINAL_BG_COMMAND_TIME after the send, or that of inactivity.
Timeout(c) ==
    /\ HasTimer(c) /\ ~call[c].fresh
    /\ call' = [call EXCEPT ![c].reason = "timeout"]
    /\ UNCHANGED <<tables, shells, exits>>

\* readTerminal finds the id listed, or the temporary terminal.
CanRead(c) == IF call[c].kind = "persistent" THEN call[c].id \in Listed ELSE c \in temporary

\* Mutant: a command that finished leaves its terminal for the user to look at.
ClosedOnTimeout(c) == IF call[c].kind = "temporary" /\ call[c].reason = "timeout" THEN {c} ELSE {}

\* The terminal of a temporary command is interrupted with its result.
ClosedAtEnd(c) == IF call[c].kind = "temporary" THEN {c} ELSE {}

\* Promise.any resolved: the result, read from the terminal if the time was up.
Return(c) ==
    /\ call[c].at = "waiting" /\ call[c].reason # None
    /\ call[c].reason = "timeout" => CanRead(c)
    /\ Returns(c, "answered")
    /\ Closed(ClosedAtEnd(c))
    /\ temporary' = temporary \ ClosedAtEnd(c)
    /\ UNCHANGED persistent

\* readTerminal throws for a terminal it does not find, and may for one that exited
\* (its xterm is disposed); one that still runs was rendered by then.
ReadThrows(c) ==
    /\ call[c].at = "waiting" /\ call[c].reason = "timeout"
    /\ ~CanRead(c) \/ call[c].terminal \notin open
    /\ Returns(c, "failed")
    /\ UNCHANGED <<tables, shells, exits>>

\* interrupt, which the chat calls when the user aborts the running tool.
Interrupt(c) ==
    /\ call[c].at \in {"capability", "sending", "waiting"} /\ ~call[c].interrupted
    /\ call' = [call EXCEPT ![c].interrupted = TRUE]
    /\ Closed({call[c].terminal})
    /\ Delisted(IF call[c].kind = "persistent" THEN {call[c].id} ELSE {})
    /\ temporary' = temporary \ {c}

-----------------------------------------------------------------------------
\* The terminals.

\* The process is ready, and the terminal gets the title it was created with.
Ready(t) ==
    /\ t \in open \ ready
    /\ ready' = ready \cup {t}
    /\ titleId' = [titleId EXCEPT ![t] = call[t].id]
    /\ UNCHANGED <<tables, open, typed, watched, misnamed, call>>

\* The user gives it the name of the agent's first terminal, or one without an id.
Rename(t) ==
    /\ t \in Renamed \cap ready \cap open
    /\ \E id \in {0, 1} : titleId' = [titleId EXCEPT ![t] = id]
    /\ UNCHANGED <<tables, shells, watched, misnamed, call>>

\* The user closes a terminal, or its shell ends.
Exit(t) ==
    /\ t \in open
    /\ Closed({t})
    /\ UNCHANGED <<tables, call>>

\* What xterm has not parsed is flushed, and onExit fires.
OnExit(t) ==
    /\ t \in watched \ open
    /\ HandleExit(t)
    /\ UNCHANGED <<shells, call>>

\* A shell that failed while it was launched, with the shell integration that was
\* injected: onExit fires, and the terminal is launched again without it.
Relaunch(t) ==
    /\ t \in Relaunched \cap open \cap watched
    /\ HandleExit(t)
    /\ ready' = ready \ {t}
    /\ typed' = [typed EXCEPT ![t] = << >>]
    /\ UNCHANGED <<open, call>>

-----------------------------------------------------------------------------
Step(c) ==
    \/ PersistentOpened(c) \/ CreateFails(c) \/ TemporaryCreated(c)
    \/ \E found \in BOOLEAN : ListenFor(c, found)
    \/ Send(c) \/ TimePasses(c) \/ Timeout(c) \/ Return(c) \/ ReadThrows(c)

Terminal(t) ==
    \/ CommandFinished(t) \/ Prints(t) \/ Ready(t) \/ Rename(t) \/ Exit(t) \/ OnExit(t) \/ Relaunch(t)

Next ==
    \E c \in Calls :
        \/ OpenPersistent(c) \/ RunTemporary(c)
        \/ \E id \in Ids : killPersistentTerminal(c, id) \/ RunPersistent(c, id)
        \/ Step(c) \/ Interrupt(c) \/ Terminal(c)

\* Awaits are resumed and timers run down; no shell has to get ready, to finish a command
\* or to stop printing.
Fairness == \A c \in Calls : WF_vars(Step(c))

Spec == Init /\ [][Next]_vars /\ Fairness

-----------------------------------------------------------------------------
\* Types; only a shell that is open has commands left.
TypeOK ==
    /\ persistent \in [Ids -> Calls \cup {None}]
    /\ temporary \subseteq Calls /\ open \subseteq Calls /\ ready \subseteq Calls
    /\ watched \subseteq Calls /\ misnamed \subseteq Calls
    /\ titleId \in [Calls -> Ids \cup {0}]
    /\ \A t \in Calls : typed[t] \in Seq(Calls) /\ (typed[t] # << >> => t \in open)
    /\ \A c \in Calls : call[c].at \in Settled \cup {"idle", "creating", "capability", "sending", "waiting"}

\* The agent's first terminal is listed for the LLM until its exit is handled, whatever
\* else was opened under its name (the onExit handler); and longer only if its exit was
\* handled under another title: before its process was ready, or after a rename.
FirstUntilExit == 1 \in Listed => persistent[1] \in watched \cup misnamed

\* When a temporary command has its result, or was interrupted, its hidden terminal is
\* closed: nobody else could do that.
NoHiddenLeft ==
    \A c \in Calls : call[c].kind = "temporary" /\ (call[c].interrupted \/ call[c].at \in Settled)
        => c \notin open

\* Every tool call gets its result or an error, also when its terminal is closed or
\* shares its shell with a command that does not end; except one whose terminal never
\* gets ready for its text, and a temporary command that never stops printing.
Unsent(c) == call[c].at = "sending" /\ call[c].terminal \notin ready
Printed(c) == Waiting(c) /\ call[c].fresh
CallsSettle ==
    \A c \in Calls :
        \/ []<>(Unsent(c) \/ Printed(c))
        \/ call[c].at # "idle" ~> call[c].at \in Settled
=============================================================================
