---------------------------- MODULE LLMRequests ----------------------------
(***************************************************************************)
(* What ILLMMessageService promises the code that sends an LLM message     *)
(* (chat, apply, autocomplete, commit messages): text that only grows,     *)
(* then at most one end, and after it nothing but the onAbort of the       *)
(* client's own abort, which is called again however often it aborts.      *)
(***************************************************************************)
EXTENDS Naturals

CONSTANTS
    Requests,    \* the messages that may be sent
    MaxText      \* bound: the length of an answer

VARIABLES
    phase,   \* where the request is, as its client knows from the callbacks
    shown,   \* length of the text that onText and onFinalMessage handed over
    late     \* requests whose onAbort was called after their end

vars == <<phase, shown, late>>

Phases == {"new", "open", "refused", "final", "error", "aborted", "lost"}

Init ==
    /\ phase = [r \in Requests |-> "new"]
    /\ shown = [r \in Requests |-> 0]
    /\ late = {}

\* sendLLMMessage returns null after calling onError, or an id.
Send(r) ==
    /\ phase[r] = "new"
    /\ \E p \in {"refused", "open"} : phase' = [phase EXCEPT ![r] = p]
    /\ UNCHANGED <<shown, late>>

\* onText is handed the text so far, which never shrinks.
Text(r) ==
    /\ phase[r] = "open"
    /\ \E n \in shown[r]..MaxText : shown' = [shown EXCEPT ![r] = n]
    /\ UNCHANGED <<phase, late>>

\* onFinalMessage, onError or onAbort: each of them at most once, one of them only.
Final(r) ==
    /\ phase[r] = "open"
    /\ phase' = [phase EXCEPT ![r] = "final"]
    /\ \E n \in shown[r]..MaxText : shown' = [shown EXCEPT ![r] = n]
    /\ UNCHANGED late

Error(r) ==
    /\ phase[r] = "open"
    /\ phase' = [phase EXCEPT ![r] = "error"]
    /\ UNCHANGED <<shown, late>>

Abort(r) ==
    /\ phase[r] = "open"
    /\ phase' = [phase EXCEPT ![r] = "aborted"]
    /\ UNCHANGED <<shown, late>>

\* The client aborts a request that is over: its onAbort is called all the same.
LateAbort(r) ==
    /\ phase[r] \in {"final", "error", "aborted"}
    /\ late' = late \cup {r}
    /\ UNCHANGED <<phase, shown>>

\* The client's window is reloaded.
Reload ==
    /\ phase' = [r \in Requests |-> IF phase[r] = "new" THEN "new" ELSE "lost"]
    /\ UNCHANGED <<shown, late>>

Next ==
    \/ Reload
    \/ \E r \in Requests : Send(r) \/ Text(r) \/ Final(r) \/ Error(r) \/ Abort(r) \/ LateAbort(r)

Spec == Init /\ [][Next]_vars
=============================================================================
