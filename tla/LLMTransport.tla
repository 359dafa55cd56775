---------------------------- MODULE LLMTransport ----------------------------
(***************************************************************************)
(* How an LLM message travels: LLMMessageService in the renderer           *)
(* (common/sendLLMMessageService.ts), the channel in the main process      *)
(* (electron-main/sendLLMMessageChannel.ts), sendLLMMessage                *)
(* (electron-main/llmMessage/sendLLMMessage.ts) and the one provider, the  *)
(* SaaS backend (sendLLMMessage.impl.ts).                                  *)
(*                                                                         *)
(* The two processes exchange messages in order, one queue each way.  The  *)
(* text of an answer is its length.                                        *)
(***************************************************************************)
EXTENDS Naturals, Sequences

CONSTANTS
    Requests,    \* request ids, generateUuid()
    MaxText,     \* bound: the length of an answer
    MaxQueue,    \* bound: the client calls while fewer calls are on their way
    MaxAborts    \* bound: and aborts while fewer aborts of the request wait

ASSUME BoundsAssumption == MaxText \in Nat /\ MaxQueue \in Nat /\ MaxAborts \in Nat

VARIABLES
    phase,       \* what the client was told, as in LLMRequests
    shown,       \* the text it was handed
    late,        \* requests whose onAbort was called after their end
    hooks,       \* requests with onText, onFinalMessage and onError hooks
    toMain,      \* channel.call messages on their way to the main process
    toRenderer,  \* emitter events on their way to the renderer
    info,        \* keys of _infoOfRunningRequest
    provider,    \* the promise of sendLLMMessage: none, running, ended
    text,        \* the text the provider received so far
    aborting,    \* _callAbort invocations that await waitForSend
    didAbort,    \* requests whose _didAbort was set
    threw        \* history: requests whose client threw when it was told their end

client == <<phase, shown, late, hooks, threw>>
main == <<info, provider, text, aborting, didAbort>>
vars == <<phase, shown, late, hooks, threw, toMain, toRenderer, info, provider, text, aborting, didAbort>>

Calls == [op : {"send", "abort"}, id : Requests]
Events == [event : {"text", "final", "error"}, id : Requests, len : 0..MaxText]

Init ==
    /\ phase = [r \in Requests |-> "new"]
    /\ shown = [r \in Requests |-> 0]
    /\ late = {}
    /\ hooks = {}
    /\ threw = {}
    /\ toMain = << >>
    /\ toRenderer = << >>
    /\ info = {}
    /\ provider = [r \in Requests |-> "none"]
    /\ text = [r \in Requests |-> 0]
    /\ aborting = [r \in Requests |-> 0]
    /\ didAbort = {}

Call(op, r) == toMain' = Append(toMain, [op |-> op, id |-> r])

-----------------------------------------------------------------------------
\* The renderer.

\* No model selected, or no messages: onError is called and null is returned.
Refuse(r) ==
    /\ phase[r] = "new"
    /\ phase' = [phase EXCEPT ![r] = "refused"]
    /\ UNCHANGED <<shown, late, hooks, threw, toMain, toRenderer, main>>

Send(r) ==
    /\ phase[r] = "new"
    /\ Len(toMain) < MaxQueue
    /\ phase' = [phase EXCEPT ![r] = "open"]
    /\ hooks' = hooks \cup {r}
    /\ Call("send", r)
    /\ UNCHANGED <<shown, late, threw, toRenderer, main>>

\* _clearChannelHooks, which leaves the onAbort hook.  Mutant: the others stay too.
KeepHooks(r) == UNCHANGED <<hooks, threw>>

ClearHooks(r) ==
    /\ hooks' = hooks \ {r}
    /\ threw' = threw \ {r}

\* abort(requestId), of any id the client was given: autocomplete also aborts
\* requests that ended long ago.  The onAbort hook is called at once, and again
\* for a request that is over.
Abort(r) ==
    /\ phase[r] \notin {"new", "refused", "lost"}
    /\ Len(toMain) < MaxQueue /\ aborting[r] < MaxAborts
    /\ phase' = [phase EXCEPT ![r] = IF @ = "open" THEN "aborted" ELSE @]
    /\ late' = IF phase[r] = "open" THEN late ELSE late \cup {r}
    /\ Call("abort", r)
    /\ ClearHooks(r)
    /\ UNCHANGED <<shown, toRenderer, main>>

\* An event arrives; without hooks it is dropped.  The end of a request clears them
\* after its client was called: if that throws (editCodeService 1474, 1761), they stay.
Deliver ==
    /\ toRenderer # << >>
    /\ LET e == Head(toRenderer)
           heard == e.id \in hooks
       IN
       /\ shown' = [shown EXCEPT ![e.id] = IF heard /\ e.event # "error" THEN e.len ELSE @]
       /\ phase' = [phase EXCEPT ![e.id] = IF heard /\ e.event # "text" THEN e.event ELSE @]
       /\ \/ e.event = "text" /\ UNCHANGED <<hooks, threw>>
          \/ e.event # "text" /\ ClearHooks(e.id)
          \/ e.event # "text" /\ heard /\ threw' = threw \cup {e.id} /\ UNCHANGED hooks
    /\ toRenderer' = Tail(toRenderer)
    /\ UNCHANGED <<late, toMain, main>>

\* The window is reloaded: its hooks and the events on their way to it are lost,
\* the main process goes on.
Reload ==
    /\ phase' = [r \in Requests |-> IF phase[r] = "new" THEN "new" ELSE "lost"]
    /\ hooks' = {} /\ threw' = {}
    /\ toRenderer' = << >>
    /\ UNCHANGED <<shown, late, toMain, main>>

-----------------------------------------------------------------------------
\* The main process.

\* onText, onFinalMessage and onError of sendLLMMessage.
Emit(event, r, n) ==
    toRenderer' = IF r \in didAbort THEN toRenderer
                  ELSE Append(toRenderer, [event |-> event, id |-> r, len |-> n])

\* _callSendLLMMessage: sendLLMMessage runs up to the provider's fetch.
ReceiveSend ==
    /\ toMain # << >> /\ Head(toMain).op = "send"
    /\ LET r == Head(toMain).id IN
       /\ info' = info \cup {r}
       /\ provider' = [provider EXCEPT ![r] = "running"]
    /\ toMain' = Tail(toMain)
    /\ UNCHANGED <<client, toRenderer, text, aborting, didAbort>>

\* _callAbort, up to its await.
ReceiveAbort ==
    /\ toMain # << >> /\ Head(toMain).op = "abort"
    /\ LET r == Head(toMain).id IN
       aborting' = [aborting EXCEPT ![r] = IF r \in info THEN @ + 1 ELSE @]
    /\ toMain' = Tail(toMain)
    /\ UNCHANGED <<client, toRenderer, info, provider, text, didAbort>>

\* Mutant: the abort stays in _infoOfRunningRequest.
NotForgotten(r) == UNCHANGED info

Forget(r) == info' = info \ {r}

\* The rest of it, after waitForSend: abortRef.current() and the deletion.
AbortGoesOn(r) ==
    /\ aborting[r] > 0
    /\ provider[r] = "ended"
    /\ aborting' = [aborting EXCEPT ![r] = @ - 1]
    /\ didAbort' = didAbort \cup {r}
    /\ Forget(r)
    /\ UNCHANGED <<client, toMain, toRenderer, provider, text>>

-----------------------------------------------------------------------------
\* The provider, which sendLLMMessage awaits to its end.

Running(r) == provider[r] = "running"
Ends(r) == provider' = [provider EXCEPT ![r] = "ended"]

TextEmitted(r, n) == Emit("text", r, n)

\* One event of the stream.
ProviderText(r) ==
    /\ Running(r)
    /\ \E n \in text[r]..MaxText :
          /\ n > text[r]
          /\ text' = [text EXCEPT ![r] = n]
          /\ TextEmitted(r, n)
    /\ UNCHANGED <<client, toMain, info, provider, aborting, didAbort>>

\* [DONE], the end of a stream that carried something, or an answer that was not
\* streamed.
ProviderFinal(r) ==
    /\ Running(r)
    /\ \E n \in text[r]..MaxText :
          /\ text' = [text EXCEPT ![r] = n]
          /\ Emit("final", r, n)
    /\ Ends(r)
    /\ UNCHANGED <<client, toMain, info, aborting, didAbort>>

\* No connection, a bad status, an unknown content type, an empty stream, an
\* exception.
ProviderError(r) ==
    /\ Running(r)
    /\ Emit("error", r, text[r])
    /\ Ends(r)
    /\ UNCHANGED <<client, toMain, info, text, aborting, didAbort>>

\* A JSON answer without choices, or a fetch that was aborted: nothing is called.
ProviderSilent(r) ==
    /\ Running(r)
    /\ text[r] = 0 \/ r \in didAbort
    /\ Ends(r)
    /\ UNCHANGED <<client, toMain, toRenderer, info, text, aborting, didAbort>>

ProviderEnds(r) == ProviderFinal(r) \/ ProviderError(r) \/ ProviderSilent(r)

-----------------------------------------------------------------------------
ClientStep(r) == Refuse(r) \/ Send(r) \/ Abort(r)
MainStep(r) == AbortGoesOn(r) \/ ProviderText(r) \/ ProviderEnds(r)

Next ==
    \/ Deliver \/ Reload \/ ReceiveSend \/ ReceiveAbort
    \/ \E r \in Requests : ClientStep(r) \/ MainStep(r)

\* The channel delivers, promises settle, and a fetch ends: with an answer, or with
\* the time limits of the platform.  Clients owe nothing.
Fairness ==
    /\ WF_vars(Deliver) /\ WF_vars(ReceiveSend) /\ WF_vars(ReceiveAbort)
    /\ \A r \in Requests : WF_vars(AbortGoesOn(r)) /\ WF_vars(ProviderEnds(r))

Spec == Init /\ [][Next]_vars /\ Fairness

-----------------------------------------------------------------------------
\* Properties.

TypeOK ==
    /\ phase \in [Requests -> {"new", "open", "refused", "final", "error", "aborted", "lost"}]
    /\ shown \in [Requests -> 0..MaxText]
    /\ late \subseteq Requests
    /\ hooks \subseteq Requests
    /\ threw \subseteq Requests
    /\ toMain \in Seq(Calls)
    /\ toRenderer \in Seq(Events)
    /\ info \subseteq Requests
    /\ provider \in [Requests -> {"none", "running", "ended"}]
    /\ text \in [Requests -> 0..MaxText]
    /\ aborting \in [Requests -> Nat]
    /\ didAbort \subseteq Requests

\* The service keeps the promise of LLMRequests: whatever is on its way when a
\* request is aborted or the window reloads, also where hooks of an ended request
\* stay, text only grows and a request has one end, after which only the client's
\* own aborts call it back.
Promise == INSTANCE LLMRequests WITH phase <- phase, shown <- shown, late <- late
KeepsPromise == Promise!Spec

\* Every open request has its hooks, and no other request has any but those whose
\* client threw when it was told their end and did not abort them since.
HooksOfOpen ==
    /\ hooks = {r \in Requests : phase[r] = "open"} \cup threw
    /\ \A r \in threw : phase[r] \in {"final", "error"}

\* The main process forgets a request that was aborted.
AbortedIsForgotten == \A r \in Requests : phase[r] = "aborted" ~> r \notin info

-----------------------------------------------------------------------------
\* The inductive invariant behind KeepsPromise: the events on their way carry
\* growing texts, between what was handed over and what arrived.
EventsGrow ==
    \A i, j \in 1..Len(toRenderer) :
        i < j /\ toRenderer[i].id = toRenderer[j].id => toRenderer[i].len <= toRenderer[j].len
EventsBetween ==
    \A i \in 1..Len(toRenderer) :
        /\ shown[toRenderer[i].id] <= toRenderer[i].len
        /\ toRenderer[i].len <= text[toRenderer[i].id]
ShownArrived == \A r \in Requests : shown[r] <= text[r]

\* Hooks that stay are never called again: a request is sent once, its end is the
\* last of its events, and once its client knows the end none is on its way.
SentOnce ==
    \A i \in 1..Len(toMain) : toMain[i].op = "send" =>
        /\ phase[toMain[i].id] # "new" /\ provider[toMain[i].id] = "none"
        /\ \A j \in 1..Len(toMain) : toMain[j].op = "send" /\ toMain[j].id = toMain[i].id => j = i
NewUnsent == \A r \in Requests : phase[r] = "new" => provider[r] = "none"
EventsSent ==
    \A i \in 1..Len(toRenderer) :
        /\ provider[toRenderer[i].id] # "none"
        /\ toRenderer[i].event # "text" =>
              /\ provider[toRenderer[i].id] = "ended"
              /\ \A j \in 1..Len(toRenderer) : toRenderer[j].id = toRenderer[i].id => j <= i
EndKnown ==
    \A r \in Requests : phase[r] \in {"final", "error"} =>
        /\ provider[r] = "ended"
        /\ \A i \in 1..Len(toRenderer) : toRenderer[i].id # r

IInv ==
    /\ TypeOK /\ HooksOfOpen /\ EventsGrow /\ EventsBetween /\ ShownArrived
    /\ SentOnce /\ NewUnsent /\ EventsSent /\ EndKnown

=============================================================================
