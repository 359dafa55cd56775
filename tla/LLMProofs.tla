----------------------------- MODULE LLMProofs ------------------------------
(***************************************************************************)
(* Proofs about the LLM service and two of its clients, each for every     *)
(* value of its constants:                                                 *)
(*   - LLMTransport implements LLMRequests, for every set of requests and  *)
(*     every bound;                                                        *)
(*   - the safety properties of CommitMessages;                            *)
(*   - the safety properties of Autocomplete.                              *)
(*                                                                         *)
(* The three are separate specifications (Spec, CommitSpec and AutoSpec)   *)
(* with constants and variables of their own; they are extended together   *)
(* and share only the promise of the service.                              *)
(***************************************************************************)
EXTENDS LLMTransport, CommitMessages, Autocomplete,
        TLAPS, SequenceTheorems, FiniteSetTheorems

-----------------------------------------------------------------------------
(***************************************************************************)
(* LLMTransport.                                                           *)
(***************************************************************************)

Lengths == [Requests -> 0..MaxText]

\* EventsGrow and EventsBetween of a queue q, of handed-over texts sh and of
\* received texts tx.
Growing(q) ==
    \A i, j \in 1..Len(q) : i < j /\ q[i].id = q[j].id => q[i].len <= q[j].len
Between(q, sh, tx) ==
    \A i \in 1..Len(q) : sh[q[i].id] <= q[i].len /\ q[i].len <= tx[q[i].id]

-----------------------------------------------------------------------------
\* Lemmas about the queue of events.

LEMMA QueueTypes ==
    ASSUME NEW q \in Seq(Events), NEW i \in 1..Len(q)
    PROVE  q[i].id \in Requests /\ q[i].len \in Nat
<1>1. q[i] \in Events
  OBVIOUS
<1> QED
  BY <1>1, BoundsAssumption DEF Events

\* The text of r grows to n, and an event that carries n joins the queue.
LEMMA EmitGrown ==
    ASSUME NEW q \in Seq(Events), NEW sh \in Lengths, NEW tx \in Lengths,
           Growing(q), Between(q, sh, tx), \A x \in Requests : sh[x] <= tx[x],
           NEW r \in Requests, NEW n \in tx[r]..MaxText,
           NEW event \in {"text", "final", "error"}
    PROVE  LET e == [event |-> event, id |-> r, len |-> n]
               ty == [tx EXCEPT ![r] = n]
           IN  /\ Append(q, e) \in Seq(Events)
               /\ ty \in Lengths
               /\ Growing(Append(q, e)) /\ Between(Append(q, e), sh, ty)
               /\ Growing(q) /\ Between(q, sh, ty)
               /\ \A x \in Requests : sh[x] <= ty[x]
<1> DEFINE e == [event |-> event, id |-> r, len |-> n]
           ty == [tx EXCEPT ![r] = n]
           p == Append(q, e)
<1>1. tx[r] \in Nat /\ MaxText \in Nat /\ n \in 0..MaxText /\ tx[r] <= n
  BY BoundsAssumption DEF Lengths
<1>2. e \in Events /\ e.id = r /\ e.len = n
  BY <1>1 DEF Events
<1>3. ty \in Lengths
  BY <1>1 DEF Lengths
<1>4. p \in Seq(Events) /\ Len(p) = Len(q) + 1 /\ p[Len(q) + 1] = e
      /\ \A i \in 1..Len(q) : p[i] = q[i]
  BY <1>2, AppendProperties
<1>5. \A x \in Requests : tx[x] \in Nat /\ sh[x] \in Nat /\ ty[x] \in Nat /\ tx[x] <= ty[x]
  <2> SUFFICES ASSUME NEW x \in Requests
               PROVE  tx[x] \in Nat /\ sh[x] \in Nat /\ ty[x] \in Nat /\ tx[x] <= ty[x]
    OBVIOUS
  <2>1. tx[x] \in 0..MaxText /\ sh[x] \in 0..MaxText /\ ty[x] = IF x = r THEN n ELSE tx[x]
    BY DEF Lengths
  <2> QED
    BY <1>1, <2>1
<1>6. \A i \in 1..Len(q) : q[i].id \in Requests /\ q[i].len \in Nat
  BY QueueTypes
<1>7. \A x \in Requests : sh[x] <= ty[x]
  <2> SUFFICES ASSUME NEW x \in Requests
               PROVE  sh[x] <= ty[x]
    OBVIOUS
  <2> HIDE DEF ty
  <2> QED
    BY <1>5
<1>8. Between(q, sh, ty)
  BY <1>5, <1>6 DEF Between
<1>9. \A i \in 1..Len(q) : q[i].id = r => q[i].len <= n
  BY <1>1, <1>6 DEF Between
<1>10. Growing(p)
  <2> SUFFICES ASSUME NEW i \in 1..Len(p), NEW j \in 1..Len(p), i < j, p[i].id = p[j].id
               PROVE  p[i].len <= p[j].len
    BY DEF Growing
  <2>1. Len(q) \in Nat
    OBVIOUS
  <2>2. i \in 1..Len(q)
    BY <1>4, <2>1
  <2>3. CASE j = Len(p)
    BY <1>2, <1>4, <1>9, <2>1, <2>2, <2>3
  <2>4. CASE j # Len(p)
    <3>1. j \in 1..Len(q)
      BY <1>4, <2>1, <2>4
    <3> QED
      BY <1>4, <2>2, <3>1 DEF Growing
  <2> QED
    BY <2>3, <2>4
<1>11. Between(p, sh, ty)
  <2> SUFFICES ASSUME NEW i \in 1..Len(p)
               PROVE  sh[p[i].id] <= p[i].len /\ p[i].len <= ty[p[i].id]
    BY DEF Between
  <2>1. Len(q) \in Nat
    OBVIOUS
  <2>2. CASE i = Len(p)
    <3>1. p[i].id = r /\ p[i].len = n
      BY <1>2, <1>4, <2>2
    <3>2. ty[r] = n /\ sh[r] <= n
      BY <1>1, <1>5 DEF Lengths
    <3> QED
      BY <1>1, <3>1, <3>2
  <2>3. CASE i # Len(p)
    <3>1. i \in 1..Len(q)
      BY <1>4, <2>1, <2>3
    <3> QED
      BY <1>4, <1>8, <3>1 DEF Between
  <2> QED
    BY <2>2, <2>3
<1> QED
  BY <1>3, <1>4, <1>7, <1>8, <1>10, <1>11

\* The first event of the queue is delivered; its text may be handed over.
LEMMA DeliverGrown ==
    ASSUME NEW q \in Seq(Events), q # << >>, NEW sh \in Lengths, NEW tx \in Lengths,
           Growing(q), Between(q, sh, tx), \A x \in Requests : sh[x] <= tx[x],
           NEW si \in {sh, [sh EXCEPT ![Head(q).id] = Head(q).len]}
    PROVE  /\ Head(q) \in Events /\ sh[Head(q).id] <= Head(q).len
           /\ Tail(q) \in Seq(Events)
           /\ si \in Lengths
           /\ Growing(Tail(q)) /\ Between(Tail(q), si, tx)
           /\ \A x \in Requests : si[x] <= tx[x]
<1> DEFINE h == Head(q)
           p == Tail(q)
<1>1. Len(q) \in Nat \ {0} /\ h = q[1] /\ h \in Events
  BY EmptySeq
<1>2. p \in Seq(Events) /\ Len(p) = Len(q) - 1 /\ \A i \in 1..Len(p) : p[i] = q[i + 1]
  BY HeadTailProperties
<1>3. h.id \in Requests /\ h.len \in 0..MaxText
  BY <1>1 DEF Events
<1>4. sh[h.id] <= h.len /\ h.len <= tx[h.id]
  BY <1>1 DEF Between
<1>5. si \in Lengths
  BY <1>3 DEF Lengths
<1>6. \A i \in 1..Len(q) : q[i].id \in Requests /\ q[i].len \in Nat
  BY QueueTypes
<1>7. \A x \in Requests : /\ sh[x] \in Nat /\ tx[x] \in Nat
                         /\ si[x] = IF si # sh /\ x = h.id THEN h.len ELSE sh[x]
  <2> SUFFICES ASSUME NEW x \in Requests
               PROVE  /\ sh[x] \in Nat /\ tx[x] \in Nat
                      /\ si[x] = IF si # sh /\ x = h.id THEN h.len ELSE sh[x]
    OBVIOUS
  <2>1. sh[x] \in 0..MaxText /\ tx[x] \in 0..MaxText
    BY DEF Lengths
  <2>2. si # sh => si = [sh EXCEPT ![h.id] = h.len]
    OBVIOUS
  <2> QED
    BY <2>1, <2>2, BoundsAssumption DEF Lengths
<1>8. \A x \in Requests : si[x] <= tx[x]
  BY <1>4, <1>7
<1>9. Growing(p)
  BY <1>1, <1>2 DEF Growing
<1>10. Between(p, si, tx)
  <2> SUFFICES ASSUME NEW i \in 1..Len(p)
               PROVE  si[p[i].id] <= p[i].len /\ p[i].len <= tx[p[i].id]
    BY DEF Between
  <2>1. i + 1 \in 1..Len(q) /\ 1 \in 1..Len(q) /\ 1 < i + 1 /\ p[i] = q[i + 1]
    BY <1>1, <1>2
  <2>2. sh[p[i].id] <= p[i].len /\ p[i].len <= tx[p[i].id] /\ p[i].id \in Requests
    BY <1>6, <2>1 DEF Between
  <2>3. p[i].id = h.id => h.len <= p[i].len
    BY <1>1, <2>1 DEF Growing
  <2> QED
    BY <1>7, <2>2, <2>3
<1> QED
  BY <1>1, <1>2, <1>4, <1>5, <1>8, <1>9, <1>10

-----------------------------------------------------------------------------
\* The inductive invariant, in two parts: what the queues carry, and the order of
\* sending, answering and ending.
Core == TypeOK /\ HooksOfOpen /\ EventsGrow /\ EventsBetween /\ ShownArrived
Order == SentOnce /\ NewUnsent /\ EventsSent /\ EndKnown

LEMMA Parts == IInv <=> Core /\ Order
  BY DEF IInv, Core, Order

LEMMA InitHolds == Init => IInv
<1>1. Init => Core
  BY BoundsAssumption DEF Init, Core, TypeOK, HooksOfOpen, EventsGrow, EventsBetween, ShownArrived
<1>2. Init => Order
  BY DEF Init, Order, SentOnce, NewUnsent, EventsSent, EndKnown
<1> QED
  BY <1>1, <1>2, Parts

\* The part of Core about texts, in the terms of the lemmas above.
LEMMA Pipeline ==
    /\ EventsGrow <=> Growing(toRenderer)
    /\ EventsBetween <=> Between(toRenderer, shown, text)
  BY DEF EventsGrow, EventsBetween, Growing, Between

\* A step of the provider: the text of r grows to n, and the end or a part of the
\* answer may be sent.
LEMMA ProviderStep ==
    ASSUME Core, NEW r \in Requests, NEW n \in text[r]..MaxText,
           NEW event \in {"text", "final", "error"},
           text' = [text EXCEPT ![r] = n],
           toRenderer' = toRenderer \/ Emit(event, r, n),
           UNCHANGED <<phase, shown, late, hooks, threw, toMain, info, aborting, didAbort>>,
           provider' \in [Requests -> {"none", "running", "ended"}]
    PROVE  Core'
<1>1. /\ toRenderer \in Seq(Events) /\ shown \in Lengths /\ text \in Lengths
      /\ Growing(toRenderer) /\ Between(toRenderer, shown, text)
      /\ \A x \in Requests : shown[x] <= text[x]
  BY Pipeline DEF Core, TypeOK, ShownArrived, Lengths
<1> DEFINE e == [event |-> event, id |-> r, len |-> n]
<1>2. toRenderer' \in {toRenderer, Append(toRenderer, e)}
  BY DEF Emit
<1>3. /\ toRenderer' \in Seq(Events) /\ text' \in Lengths
      /\ Growing(toRenderer') /\ Between(toRenderer', shown, text')
      /\ \A x \in Requests : shown[x] <= text'[x]
  <2>1. /\ Append(toRenderer, e) \in Seq(Events)
        /\ [text EXCEPT ![r] = n] \in Lengths
        /\ Growing(Append(toRenderer, e))
        /\ Between(Append(toRenderer, e), shown, [text EXCEPT ![r] = n])
        /\ Growing(toRenderer) /\ Between(toRenderer, shown, [text EXCEPT ![r] = n])
        /\ \A x \in Requests : shown[x] <= [text EXCEPT ![r] = n][x]
    BY <1>1, EmitGrown
  <2> QED
    BY <1>1, <1>2, <2>1
<1>4. TypeOK'
  BY <1>3 DEF Core, TypeOK, Lengths
<1>5. EventsGrow' /\ EventsBetween'
  BY <1>3 DEF EventsGrow, EventsBetween, Growing, Between
<1>6. ShownArrived' /\ HooksOfOpen'
  BY <1>3 DEF Core, ShownArrived, HooksOfOpen
<1> QED
  BY <1>4, <1>5, <1>6 DEF Core

\* What Deliver does, given the invariant.
LEMMA DeliverStep ==
    ASSUME Core, Order, Deliver
    PROVE  /\ Core'
           /\ Promise!Next \/ UNCHANGED <<phase, shown, late>>
<1> DEFINE e == Head(toRenderer)
           heard == e.id \in hooks
<1>1. /\ toRenderer \in Seq(Events) /\ shown \in Lengths /\ text \in Lengths
      /\ Growing(toRenderer) /\ Between(toRenderer, shown, text)
      /\ \A x \in Requests : shown[x] <= text[x]
  BY Pipeline DEF Core, TypeOK, ShownArrived, Lengths
<1>2. toRenderer # << >> /\ toRenderer' = Tail(toRenderer) /\ UNCHANGED <<late, toMain, main>>
  BY DEF Deliver
<1>3. shown' = [shown EXCEPT ![e.id] = IF heard /\ e.event # "error" THEN e.len ELSE @]
  BY DEF Deliver
<1>4. phase' = [phase EXCEPT ![e.id] = IF heard /\ e.event # "text" THEN e.event ELSE @]
  BY DEF Deliver
<1>5. \/ e.event = "text" /\ UNCHANGED <<hooks, threw>>
      \/ e.event # "text" /\ hooks' = hooks \ {e.id} /\ threw' = threw \ {e.id}
      \/ e.event # "text" /\ heard /\ hooks' = hooks /\ threw' = threw \cup {e.id}
  BY DEF Deliver, ClearHooks
<1>6. e \in Events /\ e.id \in Requests /\ e.len \in 0..MaxText
      /\ e.event \in {"text", "final", "error"}
  BY <1>1, <1>2, DeliverGrown DEF Events
<1>7. shown' = IF heard /\ e.event # "error" THEN [shown EXCEPT ![e.id] = e.len] ELSE shown
  BY <1>1, <1>3, <1>6 DEF Lengths
<1>8. /\ phase \in [Requests -> Promise!Phases]
      /\ hooks = {x \in Requests : phase[x] = "open"} \cup threw
      /\ threw \subseteq Requests /\ \A x \in threw : phase[x] \in {"final", "error"}
      /\ heard => phase[e.id] = "open"
  <2>1. 1 \in 1..Len(toRenderer) /\ e = toRenderer[1]
    BY <1>1, <1>2, EmptySeq
  <2>2. phase[e.id] \notin {"final", "error"}
    BY <1>6, <2>1 DEF Order, EndKnown
  <2> QED
    BY <2>2 DEF Core, TypeOK, HooksOfOpen, Promise!Phases
<1>9. phase' = IF heard /\ e.event # "text" THEN [phase EXCEPT ![e.id] = e.event] ELSE phase
  BY <1>4, <1>6, <1>8
<1>10. /\ shown[e.id] <= e.len
       /\ toRenderer' \in Seq(Events) /\ shown' \in Lengths
       /\ Growing(toRenderer') /\ Between(toRenderer', shown', text)
       /\ \A x \in Requests : shown'[x] <= text[x]
  BY <1>1, <1>2, <1>7, DeliverGrown
<1>11. Core'
  <2>1. phase' \in [Requests -> Promise!Phases]
    BY <1>6, <1>8, <1>9 DEF Promise!Phases
  <2>2. /\ hooks' = {x \in Requests : phase'[x] = "open"} \cup threw'
        /\ threw' \subseteq Requests
        /\ \A x \in threw' : phase'[x] \in {"final", "error"}
    BY <1>5, <1>6, <1>8, <1>9
  <2>3. TypeOK'
    BY <1>2, <1>10, <2>1, <2>2 DEF Core, TypeOK, Lengths, main, Promise!Phases
  <2>4. EventsGrow' /\ EventsBetween' /\ ShownArrived'
    BY <1>2, <1>10 DEF EventsGrow, EventsBetween, ShownArrived, Growing, Between, main
  <2> QED
    BY <2>2, <2>3, <2>4 DEF Core, HooksOfOpen
<1>12. Promise!Next \/ UNCHANGED <<phase, shown, late>>
  <2>1. CASE ~heard
    BY <1>2, <1>7, <1>9, <2>1
  <2>2. CASE heard
    <3>1. phase[e.id] = "open" /\ e.len \in shown[e.id]..MaxText
      BY <1>1, <1>6, <1>8, <1>10, <2>2 DEF Lengths
    <3>2. CASE e.event = "text"
      <4>1. Promise!Text(e.id)
        BY <1>2, <1>7, <1>9, <2>2, <3>1, <3>2 DEF Promise!Text
      <4> QED
        BY <1>6, <4>1 DEF Promise!Next
    <3>3. CASE e.event = "final"
      <4>1. Promise!Final(e.id)
        BY <1>2, <1>7, <1>9, <2>2, <3>1, <3>3 DEF Promise!Final
      <4> QED
        BY <1>6, <4>1 DEF Promise!Next
    <3>4. CASE e.event = "error"
      <4>1. Promise!Error(e.id)
        BY <1>2, <1>7, <1>9, <2>2, <3>1, <3>4 DEF Promise!Error
      <4> QED
        BY <1>6, <4>1 DEF Promise!Next
    <3> QED
      BY <1>6, <3>2, <3>3, <3>4
  <2> QED
    BY <2>1, <2>2
<1> QED
  BY <1>11, <1>12

\* Every step keeps what the queues carry and is a step or a stutter of LLMRequests.
LEMMA CoreStep ==
    ASSUME Core, Order, [Next]_vars
    PROVE  Core' /\ (Promise!Next \/ UNCHANGED <<phase, shown, late>>)
<1> USE DEF client, main
<1>1. CASE UNCHANGED vars
  BY <1>1 DEF vars, Core, TypeOK, HooksOfOpen, EventsGrow, EventsBetween, ShownArrived
<1>2. CASE Deliver
  BY <1>2, DeliverStep
<1>3. CASE Reload
  <2>1. Promise!Reload
    BY <1>3 DEF Reload, Promise!Reload
  <2>2. Core'
    BY <1>3 DEF Reload, Core, TypeOK, HooksOfOpen, EventsGrow, EventsBetween, ShownArrived
  <2> QED
    BY <2>1, <2>2 DEF Promise!Next
<1>4. CASE ReceiveSend
  <2>1. Head(toMain) \in Calls /\ Tail(toMain) \in Seq(Calls)
    BY <1>4, HeadTailProperties DEF ReceiveSend, Core, TypeOK
  <2>2. Head(toMain).id \in Requests
    BY <2>1 DEF Calls
  <2> QED
    BY <1>4, <2>1, <2>2
    DEF ReceiveSend, Core, TypeOK, HooksOfOpen, EventsGrow, EventsBetween, ShownArrived
<1>5. CASE ReceiveAbort
  <2>1. Head(toMain) \in Calls /\ Tail(toMain) \in Seq(Calls)
    BY <1>5, HeadTailProperties DEF ReceiveAbort, Core, TypeOK
  <2>2. Head(toMain).id \in Requests
    BY <2>1 DEF Calls
  <2>3. aborting' \in [Requests -> Nat]
    <3>1. \A x \in Requests : aborting[x] \in Nat /\ aborting[x] + 1 \in Nat
      BY DEF Core, TypeOK
    <3> QED
      BY <1>5, <2>2, <3>1 DEF ReceiveAbort, Core, TypeOK
  <2> QED
    BY <1>5, <2>1, <2>3
    DEF ReceiveAbort, Core, TypeOK, HooksOfOpen, EventsGrow, EventsBetween, ShownArrived
<1>6. CASE \E r \in Requests : ClientStep(r)
  <2> PICK r \in Requests : ClientStep(r)
    BY <1>6
  <2>1. \A op \in {"send", "abort"} : Call(op, r) => toMain' \in Seq(Calls)
    BY AppendProperties DEF Call, Calls, Core, TypeOK
  <2>2. CASE Refuse(r)
    <3>1. Promise!Send(r)
      BY <2>2 DEF Refuse, Promise!Send
    <3>2. Core'
      BY <2>2 DEF Refuse, Core, TypeOK, HooksOfOpen, EventsGrow, EventsBetween, ShownArrived
    <3> QED
      BY <3>1, <3>2 DEF Promise!Next
  <2>3. CASE Send(r)
    <3>1. Promise!Send(r)
      BY <2>3 DEF Send, Promise!Send
    <3>2. toMain' \in Seq(Calls)
      BY <2>1, <2>3 DEF Send
    <3>3. Core'
      BY <2>3, <3>2 DEF Send, Core, TypeOK, HooksOfOpen, EventsGrow, EventsBetween, ShownArrived
    <3> QED
      BY <3>1, <3>3 DEF Promise!Next
  <2>4. CASE Abort(r)
    <3>1. toMain' \in Seq(Calls)
      BY <2>1, <2>4 DEF Abort
    <3>2. Core'
      BY <2>4, <3>1
      DEF Abort, ClearHooks, Core, TypeOK, HooksOfOpen, EventsGrow, EventsBetween, ShownArrived
    <3>3. CASE phase[r] = "open"
      <4>1. Promise!Abort(r)
        BY <2>4, <3>3 DEF Abort, Core, TypeOK, Promise!Abort
      <4> QED
        BY <3>2, <4>1 DEF Promise!Next
    <3>4. CASE phase[r] # "open"
      <4>1. Promise!LateAbort(r)
        BY <2>4, <3>4 DEF Abort, Core, TypeOK, Promise!LateAbort
      <4> QED
        BY <3>2, <4>1 DEF Promise!Next
    <3> QED
      BY <3>3, <3>4
  <2> QED
    BY <2>2, <2>3, <2>4 DEF ClientStep
<1>7. CASE \E r \in Requests : MainStep(r)
  <2> PICK r \in Requests : MainStep(r)
    BY <1>7
  <2>1. UNCHANGED <<phase, shown, late>>
    BY DEF MainStep, AbortGoesOn, ProviderText, ProviderEnds, ProviderFinal,
           ProviderError, ProviderSilent
  <2>2. text[r] \in 0..MaxText /\ text[r] \in text[r]..MaxText
        /\ [text EXCEPT ![r] = text[r]] = text
        /\ MaxText \in Nat
    BY BoundsAssumption DEF Core, TypeOK
  <2>3. CASE AbortGoesOn(r)
    <3>1. /\ aborting[r] \in Nat \ {0} /\ aborting' = [aborting EXCEPT ![r] = aborting[r] - 1]
          /\ didAbort' = didAbort \cup {r} /\ info' = info \ {r}
          /\ UNCHANGED <<phase, shown, late, hooks, threw, toMain, toRenderer, provider, text>>
      BY <2>3 DEF AbortGoesOn, Forget, client, Core, TypeOK
    <3>2. TypeOK'
      <4>1. aborting' \in [Requests -> Nat]
        BY <3>1 DEF Core, TypeOK
      <4> QED
        BY <3>1, <4>1 DEF Core, TypeOK
    <3>3. HooksOfOpen' /\ EventsGrow' /\ EventsBetween' /\ ShownArrived'
      BY <3>1 DEF Core, HooksOfOpen, EventsGrow, EventsBetween, ShownArrived
    <3> QED
      BY <2>1, <3>2, <3>3 DEF Core
  <2>4. CASE ProviderText(r)
    <3>1. PICK n \in text[r]..MaxText : text' = [text EXCEPT ![r] = n] /\ Emit("text", r, n)
      BY <2>4 DEF ProviderText, TextEmitted
    <3>2. provider' \in [Requests -> {"none", "running", "ended"}]
      BY <2>4 DEF ProviderText, Core, TypeOK
    <3> QED
      BY <2>1, <2>4, <3>1, <3>2, ProviderStep DEF ProviderText
  <2>5. CASE ProviderFinal(r)
    <3>1. PICK n \in text[r]..MaxText : text' = [text EXCEPT ![r] = n] /\ Emit("final", r, n)
      BY <2>5 DEF ProviderFinal
    <3>2. provider' \in [Requests -> {"none", "running", "ended"}]
      BY <2>5 DEF ProviderFinal, Ends, Core, TypeOK
    <3> QED
      BY <2>1, <2>5, <3>1, <3>2, ProviderStep DEF ProviderFinal
  <2>6. CASE ProviderError(r)
    <3>1. text' = [text EXCEPT ![r] = text[r]] /\ Emit("error", r, text[r])
      BY <2>2, <2>6 DEF ProviderError
    <3>2. provider' \in [Requests -> {"none", "running", "ended"}]
      BY <2>6 DEF ProviderError, Ends, Core, TypeOK
    <3> QED
      BY <2>1, <2>2, <2>6, <3>1, <3>2, ProviderStep DEF ProviderError
  <2>7. CASE ProviderSilent(r)
    BY <2>7
    DEF ProviderSilent, Ends, Core, TypeOK, HooksOfOpen, EventsGrow, EventsBetween, ShownArrived
  <2> QED
    BY <2>1, <2>3, <2>4, <2>5, <2>6, <2>7 DEF MainStep, ProviderEnds
<1> QED
  BY <1>1, <1>2, <1>3, <1>4, <1>5, <1>6, <1>7 DEF Next

\* A step that emits at most one event of a request the provider works on, its end
\* only when the provider ends, keeps the order.
LEMMA EmitKeepsOrder ==
    ASSUME Core, Order, NEW r \in Requests, provider[r] = "running",
           NEW e \in Events, e.id = r,
           toRenderer' \in {toRenderer, Append(toRenderer, e)},
           provider' \in {provider, [provider EXCEPT ![r] = "ended"]},
           e.event = "text" \/ provider'[r] = "ended",
           UNCHANGED <<phase, toMain>>
    PROVE  Order'
<1>1. /\ toRenderer \in Seq(Events) /\ toMain \in Seq(Calls)
      /\ provider \in [Requests -> {"none", "running", "ended"}]
  BY DEF Core, TypeOK
<1>2. /\ \A i \in 1..Len(toRenderer) : toRenderer[i].id \in Requests
      /\ \A i \in 1..Len(toMain) : toMain[i].id \in Requests
  <2>1. \A i \in 1..Len(toMain) : toMain[i] \in Calls
    BY <1>1
  <2> QED
    BY <1>1, <2>1, QueueTypes DEF Calls
<1>3. /\ \A x \in Requests : x # r => provider'[x] = provider[x]
      /\ provider'[r] \in {"running", "ended"}
  BY <1>1
<1>4. SentOnce'
  BY <1>2, <1>3 DEF Order, SentOnce
<1>5. NewUnsent'
  BY <1>3 DEF Order, NewUnsent
<1>6. EndKnown' /\ EventsSent'
  <2>1. Len(toRenderer) \in Nat
    BY <1>1
  <2>2. \A i \in 1..Len(toRenderer) : toRenderer[i].id = r => toRenderer[i].event = "text"
    BY DEF Order, EventsSent
  <2>3. CASE toRenderer' = toRenderer
    BY <1>2, <1>3, <2>2, <2>3 DEF Order, EndKnown, EventsSent
  <2>4. CASE toRenderer' = Append(toRenderer, e)
    <3>1. /\ Len(toRenderer') = Len(toRenderer) + 1 /\ toRenderer'[Len(toRenderer) + 1] = e
          /\ \A i \in 1..Len(toRenderer) : toRenderer'[i] = toRenderer[i]
      BY <1>1, <2>4, AppendProperties
    <3>2. \A i \in 1..Len(toRenderer') : i = Len(toRenderer) + 1 \/ i \in 1..Len(toRenderer)
      BY <2>1, <3>1
    <3>3. EndKnown'
      <4> SUFFICES ASSUME NEW x \in Requests, phase[x] \in {"final", "error"}
                   PROVE  /\ provider'[x] = "ended"
                          /\ \A i \in 1..Len(toRenderer') : toRenderer'[i].id # x
        BY DEF EndKnown
      <4>1. provider[x] = "ended" /\ \A i \in 1..Len(toRenderer) : toRenderer[i].id # x
        BY DEF Order, EndKnown
      <4>2. x # r
        BY <4>1
      <4> QED
        BY <1>3, <3>1, <3>2, <4>1, <4>2
    <3>4. EventsSent'
      <4> SUFFICES ASSUME NEW i \in 1..Len(toRenderer')
                   PROVE  /\ provider'[toRenderer'[i].id] # "none"
                          /\ toRenderer'[i].event # "text" =>
                                /\ provider'[toRenderer'[i].id] = "ended"
                                /\ \A j \in 1..Len(toRenderer') :
                                      toRenderer'[j].id = toRenderer'[i].id => j <= i
        BY DEF EventsSent
      <4>1. CASE i = Len(toRenderer) + 1
        BY <1>3, <2>1, <3>1, <4>1
      <4>2. CASE i \in 1..Len(toRenderer)
        <5>1. /\ provider[toRenderer[i].id] # "none"
              /\ toRenderer[i].event # "text" =>
                    /\ provider[toRenderer[i].id] = "ended"
                    /\ \A j \in 1..Len(toRenderer) : toRenderer[j].id = toRenderer[i].id => j <= i
          BY <4>2 DEF Order, EventsSent
        <5> QED
          BY <1>2, <1>3, <2>2, <3>1, <3>2, <4>2, <5>1
      <4> QED
        BY <3>2, <4>1, <4>2
    <3> QED
      BY <3>3, <3>4
  <2> QED
    BY <2>3, <2>4
<1> QED
  BY <1>4, <1>5, <1>6 DEF Order

LEMMA DeliverKeepsOrder ==
    ASSUME Core, Order, Deliver
    PROVE  Order'
<1> DEFINE e == Head(toRenderer)
<1>1. /\ toRenderer # << >> /\ toRenderer' = Tail(toRenderer) /\ UNCHANGED <<toMain, provider>>
      /\ phase' = [phase EXCEPT ![e.id] =
                      IF e.id \in hooks /\ e.event # "text" THEN e.event ELSE @]
  BY DEF Deliver, main
<1>2. /\ toRenderer \in Seq(Events) /\ toMain \in Seq(Calls)
      /\ phase \in [Requests -> {"new", "open", "refused", "final", "error", "aborted", "lost"}]
  BY DEF Core, TypeOK
<1>3. Len(toRenderer) \in Nat \ {0} /\ e = toRenderer[1] /\ e \in Events
  BY <1>1, <1>2, EmptySeq
<1>4. /\ Len(toRenderer') = Len(toRenderer) - 1
      /\ \A i \in 1..Len(toRenderer') : toRenderer'[i] = toRenderer[i + 1]
  BY <1>1, <1>2, HeadTailProperties
<1>5. \A i \in 1..Len(toRenderer') : i + 1 \in 1..Len(toRenderer)
  BY <1>3, <1>4
<1>6. e.id \in Requests /\ e.event \in {"text", "final", "error"}
  BY <1>3 DEF Events
<1>7. \A x \in Requests : phase'[x] # phase[x] =>
          x = e.id /\ e.event # "text" /\ phase'[x] = e.event
  BY <1>1, <1>2
<1>8. SentOnce'
  <2>1. \A i \in 1..Len(toMain) : toMain[i] \in Calls
    BY <1>2
  <2>2. \A i \in 1..Len(toMain) : toMain[i].id \in Requests
    BY <2>1 DEF Calls
  <2> QED
    BY <1>1, <1>6, <1>7, <2>2 DEF Order, SentOnce
<1>9. NewUnsent'
  BY <1>1, <1>6, <1>7 DEF Order, NewUnsent
<1>10. EventsSent'
  <2> SUFFICES ASSUME NEW i \in 1..Len(toRenderer')
               PROVE  /\ provider[toRenderer'[i].id] # "none"
                      /\ toRenderer'[i].event # "text" =>
                            /\ provider[toRenderer'[i].id] = "ended"
                            /\ \A j \in 1..Len(toRenderer') :
                                  toRenderer'[j].id = toRenderer'[i].id => j <= i
    BY <1>1 DEF EventsSent
  <2>1. toRenderer'[i] = toRenderer[i + 1] /\ i + 1 \in 1..Len(toRenderer)
    BY <1>4, <1>5
  <2>2. \A j \in 1..Len(toRenderer') : toRenderer[j + 1].id = toRenderer[i + 1].id
                                       /\ toRenderer[i + 1].event # "text" => j + 1 <= i + 1
    BY <1>5, <2>1 DEF Order, EventsSent
  <2>3. \A j \in 1..Len(toRenderer') :
            toRenderer'[j].id = toRenderer'[i].id /\ toRenderer'[i].event # "text" => j <= i
    <3> SUFFICES ASSUME NEW j \in 1..Len(toRenderer'), toRenderer'[j].id = toRenderer'[i].id,
                        toRenderer'[i].event # "text"
                 PROVE  j <= i
      OBVIOUS
    <3>1. j + 1 <= i + 1 /\ i \in Nat /\ j \in Nat
      BY <1>3, <1>4, <2>1, <2>2
    <3> QED
      BY <3>1
  <2>4. /\ provider[toRenderer[i + 1].id] # "none"
        /\ toRenderer[i + 1].event # "text" => provider[toRenderer[i + 1].id] = "ended"
    BY <2>1 DEF Order, EventsSent
  <2> QED
    BY <2>1, <2>3, <2>4
<1>11. EndKnown'
  <2> SUFFICES ASSUME NEW x \in Requests, phase'[x] \in {"final", "error"}
               PROVE  /\ provider[x] = "ended"
                      /\ \A i \in 1..Len(toRenderer') : toRenderer'[i].id # x
    BY <1>1 DEF EndKnown
  <2>1. CASE phase'[x] = phase[x]
    BY <1>4, <1>5, <2>1 DEF Order, EndKnown
  <2>2. CASE phase'[x] # phase[x]
    <3>1. /\ provider[x] = "ended"
          /\ \A j \in 1..Len(toRenderer) : toRenderer[j].id = x => j <= 1
      BY <1>3, <1>7, <2>2 DEF Order, EventsSent
    <3> QED
      BY <1>4, <1>5, <3>1
  <2> QED
    BY <2>1, <2>2
<1> QED
  BY <1>8, <1>9, <1>10, <1>11 DEF Order

\* The main process takes the first message; of a send, the provider begins.
LEMMA ReceiveKeepsOrder ==
    ASSUME Core, Order, ReceiveSend \/ ReceiveAbort
    PROVE  Order'
<1> DEFINE r == Head(toMain).id
<1>1. /\ toMain # << >> /\ toMain' = Tail(toMain) /\ UNCHANGED <<phase, toRenderer>>
      /\ \/ Head(toMain).op = "send" /\ provider' = [provider EXCEPT ![r] = "running"]
         \/ provider' = provider
  BY DEF ReceiveSend, ReceiveAbort, client
<1>2. /\ toRenderer \in Seq(Events) /\ toMain \in Seq(Calls)
      /\ provider \in [Requests -> {"none", "running", "ended"}]
  BY DEF Core, TypeOK
<1>3. Len(toMain) \in Nat \ {0} /\ Head(toMain) = toMain[1] /\ \A i \in 1..Len(toMain) : toMain[i] \in Calls
  BY <1>1, <1>2, EmptySeq
<1>4. \A i \in 1..Len(toMain) : toMain[i].id \in Requests
  BY <1>3 DEF Calls
<1>5. /\ Len(toMain') = Len(toMain) - 1
      /\ \A i \in 1..Len(toMain') : toMain'[i] = toMain[i + 1]
  BY <1>1, <1>2, HeadTailProperties
<1>6. \A i \in 1..Len(toMain') : i + 1 \in 1..Len(toMain) /\ i + 1 # 1
  BY <1>3, <1>5
<1>7. \A i \in 1..Len(toRenderer) : toRenderer[i].id \in Requests
  BY <1>2, QueueTypes
<1>8. /\ r \in Requests
      /\ \A x \in Requests : x # r => provider'[x] = provider[x]
      /\ provider'[r] # provider[r] =>
            Head(toMain).op = "send" /\ provider'[r] = "running" /\ provider[r] = "none" /\ phase[r] # "new"
  BY <1>1, <1>2, <1>3, <1>4 DEF Order, SentOnce
<1>9. SentOnce'
  <2> SUFFICES ASSUME NEW i \in 1..Len(toMain'), toMain'[i].op = "send"
               PROVE  /\ phase[toMain'[i].id] # "new" /\ provider'[toMain'[i].id] = "none"
                      /\ \A j \in 1..Len(toMain') :
                            toMain'[j].op = "send" /\ toMain'[j].id = toMain'[i].id => j = i
    BY <1>1 DEF SentOnce
  <2>1. toMain'[i] = toMain[i + 1] /\ i + 1 \in 1..Len(toMain) /\ toMain[i + 1].op = "send"
    BY <1>5, <1>6
  <2>2. /\ phase[toMain[i + 1].id] # "new" /\ provider[toMain[i + 1].id] = "none"
        /\ \A j \in 1..Len(toMain) :
              toMain[j].op = "send" /\ toMain[j].id = toMain[i + 1].id => j = i + 1
    BY <2>1 DEF Order, SentOnce
  <2>3. Head(toMain).op = "send" => toMain[i + 1].id # r
    BY <1>3, <1>6, <2>2
  <2>4. \A j \in 1..Len(toMain') :
            toMain'[j].op = "send" /\ toMain'[j].id = toMain'[i].id => j = i
    <3> SUFFICES ASSUME NEW j \in 1..Len(toMain'), toMain'[j].op = "send", toMain'[j].id = toMain'[i].id
                 PROVE  j = i
      OBVIOUS
    <3>1. j + 1 = i + 1
      BY <1>5, <1>6, <2>1, <2>2
    <3> QED
      BY <3>1
  <2> QED
    BY <1>4, <1>8, <2>1, <2>2, <2>3, <2>4
<1>10. NewUnsent'
  BY <1>1, <1>8 DEF Order, NewUnsent
<1>11. EventsSent'
  BY <1>1, <1>7, <1>8 DEF Order, EventsSent
<1>12. EndKnown'
  BY <1>1, <1>8 DEF Order, EndKnown
<1> QED
  BY <1>9, <1>10, <1>11, <1>12 DEF Order

LEMMA ClientKeepsOrder ==
    ASSUME Core, Order, NEW r \in Requests, ClientStep(r)
    PROVE  Order'
<1>1. /\ toMain \in Seq(Calls)
      /\ phase \in [Requests -> {"new", "open", "refused", "final", "error", "aborted", "lost"}]
  BY DEF Core, TypeOK
<1>2. UNCHANGED <<toRenderer, provider>>
  BY DEF ClientStep, Refuse, Send, Abort, main
<1>3. \A x \in Requests : phase'[x] = phase[x] \/ phase'[x] \in {"refused", "open", "aborted"}
  BY <1>1 DEF ClientStep, Refuse, Send, Abort
<1>4. /\ NewUnsent' /\ EventsSent' /\ EndKnown'
  <2>1. NewUnsent'
    BY <1>2, <1>3 DEF Order, NewUnsent
  <2>2. EventsSent'
    BY <1>2 DEF Order, EventsSent
  <2>3. EndKnown'
    BY <1>2, <1>3 DEF Order, EndKnown
  <2> QED
    BY <2>1, <2>2, <2>3
<1>5. \A i \in 1..Len(toMain) : toMain[i].id \in Requests
  <2>1. \A i \in 1..Len(toMain) : toMain[i] \in Calls
    BY <1>1
  <2> QED
    BY <2>1 DEF Calls
<1>6. SentOnce'
  <2>1. CASE Refuse(r)
    BY <1>2, <1>3, <1>5, <2>1 DEF Refuse, Order, SentOnce
  <2>2. CASE \E op \in {"send", "abort"} : Call(op, r) /\ (op = "send" => Send(r))
    <3> PICK op \in {"send", "abort"} : Call(op, r) /\ (op = "send" => Send(r))
      BY <2>2
    <3> DEFINE c == [op |-> op, id |-> r]
    <3>1. /\ Len(toMain) \in Nat /\ Len(toMain') = Len(toMain) + 1
          /\ toMain'[Len(toMain) + 1] = c
          /\ \A i \in 1..Len(toMain) : toMain'[i] = toMain[i]
      BY <1>1, AppendProperties DEF Call, Calls
    <3>2. \A i \in 1..Len(toMain') : i = Len(toMain) + 1 \/ i \in 1..Len(toMain)
      BY <3>1
    <3>3. op = "send" => /\ phase[r] = "new" /\ phase'[r] = "open" /\ provider[r] = "none"
                         /\ \A i \in 1..Len(toMain) : toMain[i].op = "send" => toMain[i].id # r
      BY <1>1 DEF Send, Order, SentOnce, NewUnsent
    <3> SUFFICES ASSUME NEW i \in 1..Len(toMain'), toMain'[i].op = "send"
                 PROVE  /\ phase'[toMain'[i].id] # "new" /\ provider'[toMain'[i].id] = "none"
                        /\ \A j \in 1..Len(toMain') :
                              toMain'[j].op = "send" /\ toMain'[j].id = toMain'[i].id => j = i
      BY DEF SentOnce
    <3>4. CASE i = Len(toMain) + 1
      <4>1. c.op = "send" /\ op = "send" /\ toMain'[i] = c /\ c.id = r
        BY <3>1, <3>4
      <4> QED
        BY <1>2, <3>1, <3>2, <3>3, <3>4, <4>1
    <3>5. CASE i \in 1..Len(toMain)
      <4>1. /\ toMain'[i] = toMain[i]
            /\ phase[toMain[i].id] # "new" /\ provider[toMain[i].id] = "none"
            /\ \A j \in 1..Len(toMain) :
                  toMain[j].op = "send" /\ toMain[j].id = toMain[i].id => j = i
        BY <3>1, <3>5 DEF Order, SentOnce
      <4>2. phase'[toMain[i].id] # "new"
        <5>1. toMain[i].id \in Requests
          BY <1>5, <3>5
        <5> QED
          BY <1>3, <4>1, <5>1
      <4>3. c.op = "send" => toMain[i].id # c.id
        BY <3>1, <3>3, <3>5, <4>1
      <4> QED
        BY <1>2, <3>1, <3>2, <4>1, <4>2, <4>3
    <3> QED
      BY <3>2, <3>4, <3>5
  <2> QED
    BY <2>1, <2>2 DEF ClientStep, Send, Abort
<1> QED
  BY <1>4, <1>6 DEF Order

LEMMA MainKeepsOrder ==
    ASSUME Core, Order, NEW r \in Requests, MainStep(r)
    PROVE  Order'
<1>1. CASE AbortGoesOn(r)
  BY <1>1 DEF AbortGoesOn, client, Order, SentOnce, NewUnsent, EventsSent, EndKnown
<1>2. CASE ProviderText(r) \/ ProviderEnds(r)
  <2>1. text[r] \in 0..MaxText /\ MaxText \in Nat /\ provider[r] = "running"
    BY <1>2, BoundsAssumption
    DEF Core, TypeOK, ProviderText, ProviderEnds, ProviderFinal, ProviderError, ProviderSilent, Running
  <2>2. \A n \in text[r]..MaxText, k \in {"text", "final", "error"} :
            [event |-> k, id |-> r, len |-> n] \in Events
    BY <2>1 DEF Events
  <2>3. PICK n \in text[r]..MaxText, k \in {"text", "final", "error"} :
            /\ toRenderer' \in {toRenderer, Append(toRenderer, [event |-> k, id |-> r, len |-> n])}
            /\ \/ k = "text" /\ provider' \in {provider, [provider EXCEPT ![r] = "ended"]}
               \/ provider' = [provider EXCEPT ![r] = "ended"]
            /\ UNCHANGED <<phase, toMain>>
    <3>1. CASE ProviderText(r)
      BY <3>1 DEF ProviderText, TextEmitted, Emit, client
    <3>2. CASE ProviderFinal(r)
      BY <3>2 DEF ProviderFinal, Emit, Ends, client
    <3>3. CASE ProviderError(r)
      BY <2>1, <3>3 DEF ProviderError, Emit, Ends, client
    <3>4. CASE ProviderSilent(r)
      BY <2>1, <3>4 DEF ProviderSilent, Ends, client
    <3> QED
      BY <1>2, <3>1, <3>2, <3>3, <3>4 DEF ProviderEnds
  <2> DEFINE e == [event |-> k, id |-> r, len |-> n]
  <2>4. e \in Events /\ e.id = r /\ e.event = k
    BY <2>2
  <2>5. e.event = "text" \/ provider'[r] = "ended"
    BY <2>3, <2>4 DEF Core, TypeOK
  <2>6. provider' \in {provider, [provider EXCEPT ![r] = "ended"]}
    BY <2>3
  <2> HIDE DEF e
  <2>7. toRenderer' \in {toRenderer, Append(toRenderer, e)}
    BY <2>3 DEF e
  <2> QED
    BY <2>1, <2>3, <2>4, <2>5, <2>6, <2>7, EmitKeepsOrder
<1> QED
  BY <1>1, <1>2 DEF MainStep

LEMMA OrderStep ==
    ASSUME Core, Order, [Next]_vars
    PROVE  Order'
<1>1. CASE UNCHANGED vars
  BY <1>1 DEF vars, Order, SentOnce, NewUnsent, EventsSent, EndKnown
<1>2. CASE Reload
  <2>1. /\ phase' = [x \in Requests |-> IF phase[x] = "new" THEN "new" ELSE "lost"]
        /\ toRenderer' = << >> /\ UNCHANGED <<toMain, provider>>
    BY <1>2 DEF Reload, main
  <2>2. \A i \in 1..Len(toMain) : toMain[i].id \in Requests
    <3>1. \A i \in 1..Len(toMain) : toMain[i] \in Calls
      BY DEF Core, TypeOK
    <3> QED
      BY <3>1 DEF Calls
  <2>3. SentOnce' /\ NewUnsent'
    BY <2>1, <2>2 DEF Order, SentOnce, NewUnsent
  <2>4. EventsSent' /\ EndKnown'
    BY <2>1 DEF EventsSent, EndKnown
  <2> QED
    BY <2>3, <2>4 DEF Order
<1> QED
  BY <1>1, <1>2, DeliverKeepsOrder, ReceiveKeepsOrder, ClientKeepsOrder, MainKeepsOrder DEF Next

LEMMA StepHolds ==
    ASSUME IInv, [Next]_vars
    PROVE  IInv' /\ (Promise!Next \/ UNCHANGED <<phase, shown, late>>)
<1>1. Core /\ Order
  BY Parts
<1>2. Core' /\ Order' /\ (Promise!Next \/ UNCHANGED <<phase, shown, late>>)
  BY <1>1, CoreStep, OrderStep
<1> QED
  BY <1>2, Parts DEF IInv, Core, Order

LEMMA IInvHolds == Spec => []IInv
  BY InitHolds, StepHolds, PTL DEF Spec

-----------------------------------------------------------------------------
\* For every set of requests, the hooks installed in the renderer are those of the
\* requests that are open, so the listeners on the channel never miss a client that
\* waits, and of those whose client threw when it was told their end
\* (sendLLMMessageService 79-86) and did not abort them since.
THEOREM HooksMatch == Spec => []HooksOfOpen
<1>1. IInv => HooksOfOpen
  BY DEF IInv
<1> QED
  BY <1>1, IInvHolds, PTL

\* No message or event names a request that is not one (the tables of
\* _clearChannelHooks and of _infoOfRunningRequest), and no text has another length
\* than one an answer can have.
THEOREM TransportTypes == Spec => []TypeOK
<1>1. IInv => TypeOK
  BY DEF IInv
<1> QED
  BY <1>1, IInvHolds, PTL

\* No client is handed more text than the provider has said: what is shown of a
\* request, whatever events are on their way, lost or dropped, has arrived.
THEOREM ShownHasArrived == Spec => []ShownArrived
<1>1. IInv => ShownArrived
  BY DEF IInv
<1> QED
  BY <1>1, IInvHolds, PTL

\* LLMTransport implements LLMRequests: whatever is on its way when a request is
\* aborted or the window reloads, and whichever hooks a client that throws leaves
\* behind, the text handed to a client only grows, its request has one end, and
\* after that end nothing calls it but the onAbort of its own aborts.
THEOREM TransportKeepsPromise == Spec => KeepsPromise
<1>1. Init => Promise!Init
  BY DEF Init, Promise!Init
<1>2. IInv /\ [Next]_vars => [Promise!Next]_<<phase, shown, late>>
  BY StepHolds
<1> QED
  BY <1>1, <1>2, IInvHolds, PTL DEF Spec, KeepsPromise, Promise!Spec, Promise!vars

-----------------------------------------------------------------------------
(***************************************************************************)
(* CommitMessages.                                                         *)
(***************************************************************************)

\* Every run, and every task that waits for one, has a trigger of its own.
Paid ==
    /\ started <= asked
    /\ delayed \/ queued => started + 1 <= asked
    /\ delayed /\ queued => started + 2 <= asked

CommitMain == RequestIsCurrent /\ LoadingHasWork

CommitInv == CommitTypeOK /\ Paid /\ CommitMain

\* What NextOrIdle and Begin may do, said once for all the actions that end a run.
LEMMA NextRun ==
    ASSUME CommitInv, NEW busy \in BOOLEAN, NEW id \in 0..started, NextOrIdle(busy, id)
    PROVE  /\ queued' = FALSE
           /\ started' \in {started, started + 1}
           /\ ~queued => started' = started
           /\ run' \in 0..started' /\ current' \in 0..started'
           /\ loading' \in BOOLEAN
           /\ loading' => busy
           /\ loading' /\ queued => run' # 0 /\ run' = current'
  <1>1. started \in Nat BY DEF CommitInv, CommitTypeOK
  <1>2. queued' = FALSE BY DEF NextOrIdle
  <1>3. CASE queued
    <2>1. PICK n : n = started + 1 BY <1>1
    <2>2. /\ started' = n /\ current' = n
          /\ \/ run' = n /\ loading' = busy
             \/ run' = 0 /\ loading' = FALSE
      BY <1>3, <2>1 DEF NextOrIdle, Begin
    <2>3. n # 0 /\ n \in 0..n /\ 0 \in 0..n BY <1>1, <2>1
    <2>4. CASE run' = n /\ loading' = busy
      BY <1>2, <1>3, <2>1, <2>2, <2>3, <2>4, Zenon
    <2>5. CASE run' = 0 /\ loading' = FALSE
      BY <1>2, <1>3, <2>1, <2>2, <2>3, <2>5, Zenon
    <2> QED BY <2>2, <2>4, <2>5
  <1>4. CASE ~queued
    <2>1. /\ run' = 0 /\ loading' = busy /\ current' = id /\ started' = started
      BY <1>4 DEF NextOrIdle
    <2>2. 0 \in 0..started BY <1>1
    <2> QED BY <1>2, <1>4, <2>1, <2>2, Zenon
  <1> QED BY <1>3, <1>4

LEMMA CommitInitHolds == ASSUME CommitInit PROVE CommitInv
  <1>1. MaxAsks \in Nat BY CommitAssumption
  <1>2. CommitTypeOK
    <2>1. /\ runPhase \in [Runs -> RunService!Phases]
          /\ run \in 0..started /\ current \in 0..started /\ llmRequestId \in 0..started
          /\ asked \in 0..MaxAsks /\ started \in 0..asked
      BY <1>1 DEF CommitInit, RunService!Phases
    <2>2. loading \in BOOLEAN /\ delayed \in BOOLEAN /\ queued \in BOOLEAN /\ ~queued
      BY Zenon DEF CommitInit
    <2> QED BY <2>1, <2>2 DEF CommitTypeOK
  <1>3. Paid BY DEF CommitInit, Paid
  <1>4. CommitMain BY DEF CommitInit, CommitMain, RequestIsCurrent, LoadingHasWork
  <1> QED BY <1>2, <1>3, <1>4 DEF CommitInv

\* Once no request is open, what follows the end of a run keeps the invariant.
LEMMA RunEnds ==
    ASSUME CommitInv, NEW busy \in BOOLEAN, NEW id \in 0..started, NextOrIdle(busy, id),
           runPhase' \in [Runs -> RunService!Phases],
           \A r \in Runs : runPhase'[r] # "open",
           llmRequestId' \in 0..started, asked' = asked,
           delayed' \in BOOLEAN, delayed' => delayed,
           busy => delayed' \/ queued
    PROVE  CommitInv'
  <1>1. started \in Nat /\ asked \in Nat /\ asked \in 0..MaxAsks
    BY CommitAssumption DEF CommitInv, CommitTypeOK
  <1>2. /\ queued' = FALSE
        /\ started' \in {started, started + 1}
        /\ ~queued => started' = started
        /\ run' \in 0..started' /\ current' \in 0..started'
        /\ loading' \in BOOLEAN
        /\ loading' => busy
        /\ loading' /\ queued => run' # 0 /\ run' = current'
    BY NextRun
  <1>3. Paid'
    <2>1. CASE queued
      <3>1. started + 1 <= asked /\ (delayed => started + 2 <= asked)
        BY <2>1 DEF CommitInv, Paid
      <3>2. ~queued' BY <1>2, Zenon
      <3>3. started' \in {started, started + 1} BY <1>2
      <3>4. started' <= asked BY <1>1, <3>1, <3>3
      <3>5. CASE delayed
        <4>1. started + 2 <= asked BY <3>1, <3>5, Zenon
        <4>2. ASSUME started' = started PROVE started' + 1 <= asked
          BY <1>1, <3>4, <4>1, <4>2
        <4>3. ASSUME started' = started + 1 PROVE started' + 1 <= asked
          BY <1>1, <4>1, <4>3
        <4>4. started' + 1 <= asked BY <3>3, <4>2, <4>3
        <4> QED BY <3>2, <3>4, <4>4 DEF Paid
      <3>6. CASE ~delayed
        <4>1. ~delayed' BY <3>6
        <4> QED BY <3>2, <3>4, <4>1 DEF Paid
      <3> QED BY <3>5, <3>6
    <2>2. CASE ~queued
      BY <1>1, <1>2, <2>2 DEF CommitInv, Paid
    <2> QED BY <2>1, <2>2
  <1>4. started' \in 0..asked' /\ started <= started'
    BY <1>1, <1>2, <1>3 DEF Paid
  <1>5. llmRequestId' \in 0..started'
    BY <1>1, <1>2, <1>4
  <1>6. CommitTypeOK'
    <2>1. queued' \in BOOLEAN /\ ~queued' /\ asked' \in 0..MaxAsks
      BY <1>1, <1>2, Zenon
    <2> QED BY <1>2, <1>4, <1>5, <2>1 DEF CommitTypeOK
  <1>7. RequestIsCurrent'
    BY DEF RequestIsCurrent
  <1>8. LoadingHasWork'
    <2>1. ASSUME loading', ~delayed' PROVE run' # 0 /\ run' = current'
      BY <1>2, <2>1
    <2> QED BY <2>1 DEF LoadingHasWork, IsCurrent
  <1> QED BY <1>3, <1>6, <1>7, <1>8 DEF CommitInv, CommitMain

LEMMA CommitStep == ASSUME CommitInv, [CommitNext]_commitVars PROVE CommitInv'
  <1> USE CommitAssumption
  <1>0. /\ CommitTypeOK /\ Paid /\ RequestIsCurrent /\ LoadingHasWork
        /\ run \in 0..started /\ current \in 0..started /\ llmRequestId \in 0..started
        /\ started \in Nat /\ asked \in Nat /\ MaxAsks \in Nat /\ started <= MaxAsks
        /\ runPhase \in [Runs -> RunService!Phases]
        /\ delayed \in BOOLEAN /\ queued \in BOOLEAN /\ loading \in BOOLEAN
    BY DEF CommitInv, CommitMain, CommitTypeOK
  <1>9. run # 0 => run \in Runs
    BY <1>0 DEF Runs
  <1>1. CASE Generate
    <2>1. CommitTypeOK' BY <1>0, <1>1 DEF CommitTypeOK, Generate
    <2>2. Paid' BY <1>0, <1>1 DEF Paid, Generate
    <2>3. CommitMain' BY <1>0, <1>1 DEF CommitMain, Generate, RequestIsCurrent, LoadingHasWork
    <2> QED BY <2>1, <2>2, <2>3 DEF CommitInv
  <1>2. CASE DelayOver
    <2>1. CASE run = 0
      <3>1. \A r \in Runs : runPhase'[r] # "open"
        BY <1>0, <1>2, <2>1 DEF DelayOver, RequestIsCurrent, Runs
      <3>2. ~queued BY <1>0, <2>1 DEF CommitTypeOK
      <3>3. /\ started' = started + 1 /\ current' = started + 1
            /\ run' \in {0, started + 1} /\ loading' \in BOOLEAN
            /\ loading' => run' = started + 1
            /\ ~delayed' /\ delayed /\ delayed' \in BOOLEAN
            /\ UNCHANGED <<runPhase, queued, llmRequestId, asked>>
        BY <1>0, <1>2, <2>1 DEF DelayOver, Begin
      <3>4. Paid' BY <1>0, <3>2, <3>3 DEF Paid
      <3>5. started' \in 0..asked' BY <1>0, <3>2, <3>3 DEF Paid
      <3>6. CommitTypeOK' BY <1>0, <3>2, <3>3, <3>5 DEF CommitTypeOK
      <3>7. CommitMain' BY <1>0, <3>1, <3>3 DEF CommitMain, RequestIsCurrent,
                                                LoadingHasWork, IsCurrent
      <3> QED BY <3>4, <3>6, <3>7 DEF CommitInv
    <2>2. CASE run # 0
      <3>1. /\ queued' = TRUE /\ delayed' = FALSE /\ delayed
            /\ UNCHANGED <<runPhase, loading, run, current, llmRequestId, started, asked>>
        BY <1>2, <2>2 DEF DelayOver
      <3>2. CommitTypeOK' BY <1>0, <2>2, <3>1 DEF CommitTypeOK
      <3>3. Paid' BY <1>0, <3>1 DEF Paid
      <3>4. CommitMain' BY <1>0, <3>1 DEF CommitMain, RequestIsCurrent, LoadingHasWork
      <3> QED BY <3>2, <3>3, <3>4 DEF CommitInv
    <2> QED BY <2>1, <2>2
  <1>3. BusyAfter \in BOOLEAN /\ (BusyAfter /\ run # 0 => delayed \/ queued)
    BY <1>0 DEF BusyAfter, LoadingHasWork, IsCurrent
  <1>4. CASE GitEnds
    <2>1. \A r \in Runs : runPhase'[r] # "open"
      BY <1>0, <1>4 DEF GitEnds, AwaitsGit, RequestIsCurrent
    <2> QED BY <1>0, <1>3, <1>4, <2>1, RunEnds DEF GitEnds, AwaitsGit, Over
  <1>5. CASE GitDone
    <2>1. ASSUME runPhase' = [runPhase EXCEPT ![run] = "open"], llmRequestId' = run,
                 UNCHANGED <<loading, queued, run, current, started>>
          PROVE  CommitInv'
      <3>1. run \in Runs /\ run = current /\ runPhase[run] = "new"
            /\ UNCHANGED <<delayed, asked>>
        BY <1>5, <1>9 DEF GitDone, AwaitsGit, IsCurrent
      <3>2. runPhase' \in [Runs -> RunService!Phases]
        BY <1>0, <2>1 DEF RunService!Phases
      <3>3. CommitTypeOK' BY <1>0, <2>1, <3>1, <3>2 DEF CommitTypeOK
      <3>4. Paid' BY <1>0, <2>1, <3>1 DEF Paid
      <3>5. RequestIsCurrent' BY <1>0, <2>1, <3>1 DEF RequestIsCurrent
      <3>6. LoadingHasWork' BY <1>0, <2>1, <3>1 DEF LoadingHasWork, IsCurrent
      <3> QED BY <3>3, <3>4, <3>5, <3>6 DEF CommitInv, CommitMain
    <2>2. ASSUME runPhase' = [runPhase EXCEPT ![run] = "refused"], llmRequestId' = 0, Over
          PROVE  CommitInv'
      <3>1. \A r \in Runs : runPhase'[r] # "open"
        BY <1>0, <1>5, <2>2 DEF GitDone, AwaitsGit, RequestIsCurrent
      <3>2. runPhase' \in [Runs -> RunService!Phases]
        BY <1>0, <2>2 DEF RunService!Phases
      <3> QED BY <1>0, <1>3, <1>5, <2>2, <3>1, <3>2, RunEnds DEF GitDone, AwaitsGit, Over
    <2> QED BY <1>5, <2>1, <2>2 DEF GitDone
  <1>6. CASE LLMAnswers
    <2>1. PICK end \in {"final", "error"} : runPhase' = [runPhase EXCEPT ![run] = end]
      BY <1>6 DEF LLMAnswers, RunService!Final, RunService!Error
    <2>2. \A r \in Runs : runPhase'[r] # "open"
      BY <1>0, <2>1 DEF RequestIsCurrent
    <2>3. runPhase' \in [Runs -> RunService!Phases]
      BY <1>0, <2>1 DEF RunService!Phases
    <2> QED BY <1>0, <1>3, <1>6, <2>2, <2>3, RunEnds DEF LLMAnswers, AwaitsLLM, Over
  <1>7. CASE abort
    <2>1. CASE llmRequestId # 0 /\ runPhase[llmRequestId] = "open"
      <3>1. runPhase' = [runPhase EXCEPT ![llmRequestId] = "aborted"]
        BY <1>7, <2>1 DEF abort, RunService!Abort
      <3>2. \A r \in Runs : runPhase'[r] # "open"
        BY <1>0, <3>1 DEF RequestIsCurrent
      <3>3. runPhase' \in [Runs -> RunService!Phases]
        BY <1>0, <3>1 DEF RunService!Phases
      <3>4. 0 \in 0..started BY <1>0
      <3> QED BY <1>0, <1>7, <2>1, <3>2, <3>3, <3>4, RunEnds DEF abort
    <2>2. CASE ~(llmRequestId # 0 /\ runPhase[llmRequestId] = "open")
      <3>1. /\ loading' = FALSE /\ current' = 0 /\ delayed' = FALSE
            /\ UNCHANGED <<runPhase, queued, run, started, llmRequestId, asked>>
        BY <1>7, <2>2 DEF abort
      <3>2. \A r \in Runs : runPhase[r] # "open"
        BY <1>0, <2>2 DEF RequestIsCurrent, Runs
      <3>3. CommitTypeOK'
        <4>1. loading' \in BOOLEAN /\ delayed' \in BOOLEAN BY <3>1, Zenon
        <4>2. 0 \in 0..started BY <1>0
        <4> QED BY <1>0, <3>1, <4>1, <4>2 DEF CommitTypeOK
      <3>4. Paid' BY <1>0, <3>1 DEF Paid
      <3>5. CommitMain' BY <1>0, <3>1, <3>2 DEF CommitMain, RequestIsCurrent, LoadingHasWork
      <3> QED BY <3>3, <3>4, <3>5 DEF CommitInv
    <2> QED BY <2>1, <2>2
  <1>8. CASE UNCHANGED commitVars
    BY <1>0, <1>8 DEF commitVars, CommitInv, CommitTypeOK, Paid, CommitMain,
                      RequestIsCurrent, LoadingHasWork,
        IsCurrent
  <1> QED BY <1>1, <1>2, <1>4, <1>5, <1>6, <1>7, <1>8 DEF CommitNext

LEMMA CommitAlways == CommitSpec => []CommitInv
  <1>1. CommitInit => CommitInv BY CommitInitHolds
  <1>2. CommitInv /\ [CommitNext]_commitVars => CommitInv' BY CommitStep
  <1> QED BY <1>1, <1>2, PTL DEF CommitSpec

\* Whatever the order of triggers, aborts, git and answers, there are never more
\* runs than triggers, and a task is held back only behind a run (Throttler).
THEOREM CommitTypes == CommitSpec => []CommitTypeOK
  <1>1. CommitInv => CommitTypeOK BY DEF CommitInv
  <1> QED BY <1>1, CommitAlways, PTL

\* An open request is always the one that abort would reach (line 121): no aborted
\* run sends later (line 87).
THEOREM OpenRequestIsCurrent == CommitSpec => []RequestIsCurrent
  <1>1. CommitInv => RequestIsCurrent BY DEF CommitInv, CommitMain
  <1> QED BY <1>1, CommitAlways, PTL

\* The loading button always has work behind it that will take it away (line 106).
THEOREM LoadingIsWork == CommitSpec => []LoadingHasWork
  <1>1. CommitInv => LoadingHasWork BY DEF CommitInv, CommitMain
  <1> QED BY <1>1, CommitAlways, PTL

-----------------------------------------------------------------------------
(***************************************************************************)
(* Autocomplete.                                                           *)
(***************************************************************************)

\* A completion is in the cache of one document only, and one that is not made
\* yet counts as pending.
OneDocument == \A d, e \in Documents : d # e => cache[d] \cap cache[e] = {}
NotMadeYet == \A r \in Ids : r > made => status[r] = "pending"

\* The second part of PendingBounded.
Bounded == \A d \in Documents : Cardinality(Pending(d)) <= MAX_PENDING_REQUESTS

\* The inductive invariant of Autocomplete: a request is dropped from the cache of its
\* document only together with its entry, so nothing is left to look for elsewhere.
AutoInv == AutoTypeOK /\ OneDocument /\ NotMadeYet /\ Bounded /\ NoOrphanRequest

\* The assumption, its parts.
LEMMA Constants ==
    /\ MaxRequests \in Nat
    /\ MAX_CACHE_SIZE \in Nat \ {0} /\ MAX_PENDING_REQUESTS \in Nat \ {0}
    /\ MAX_PENDING_REQUESTS <= MAX_CACHE_SIZE
BY AutocompleteAssumption

\* A set of natural numbers that is not empty has a least element: of the intervals
\* up to its elements one is minimal.
LEMMA LeastNat ==
    ASSUME NEW T \in SUBSET Nat, T # {}
    PROVE  \E x \in T : \A y \in T : x <= y
<1> DEFINE U == {1..n : n \in T}
<1>1. IsWellFoundedOn(StrictSubsetOrdering(Nat), FiniteSubsetsOf(Nat))
  BY FS_StrictSubsetOrderingWellFounded
<1>2. U \subseteq FiniteSubsetsOf(Nat) /\ U # {}
  <2>1. \A n \in Nat : IsFiniteSet(1..n)
    BY FS_Interval
  <2>2. \A n \in T : 1..n \in SUBSET Nat /\ IsFiniteSet(1..n)
    BY <2>1, SMT
  <2> QED
    BY <2>2 DEF FiniteSubsetsOf
<1>3. PICK u \in U : \A v \in U : ~ (<<v, u>> \in StrictSubsetOrdering(Nat))
  <2> HIDE DEF U
  <2> QED
    BY <1>1, <1>2, WFMin
<1>4. PICK x \in T : u = 1..x
  BY <1>3
<1>5. ASSUME NEW y \in T PROVE x <= y
  <2> SUFFICES ASSUME y < x PROVE FALSE
    BY SMT
  <2>1. 1..y \in U /\ 1..y \subseteq Nat /\ 1..x \subseteq Nat
    BY SMT
  <2>2. x \in 1..x /\ x \notin 1..y /\ 1..y \subseteq 1..x
    BY SMT
  <2>3. <<1..y, 1..x>> \in StrictSubsetOrdering(Nat)
    BY <2>1, <2>2 DEF StrictSubsetOrdering
  <2> QED
    BY <2>1, <2>3, <1>3, <1>4
<1> QED
  BY <1>5

LEMMA OldestIsIn ==
    ASSUME NEW S \in SUBSET Nat, S # {}
    PROVE  Oldest(S) \in S
BY LeastNat DEF Oldest, Min

\* Caches are finite sets of completions.
LEMMA CacheFacts ==
    ASSUME AutoTypeOK, NEW d \in Documents, NEW ids \in SUBSET cache[d]
    PROVE  /\ IsFiniteSet(ids) /\ Cardinality(ids) \in Nat
              /\ Cardinality(ids) <= Cardinality(cache[d])
           /\ ids \subseteq Nat /\ ids \subseteq Ids /\ made + 1 \notin ids
           /\ ids # {} => Oldest(ids) \in ids
<1>1. made \in Nat /\ made <= MaxRequests /\ cache[d] \subseteq 1..made /\ MaxRequests \in Nat
  BY Constants DEF AutoTypeOK, Completions
<1>2. IsFiniteSet(cache[d])
  <2>1. IsFiniteSet(1..made)
    BY <1>1, FS_Interval
  <2> QED
    BY <1>1, <2>1, FS_Subset
<1>3. IsFiniteSet(ids) /\ Cardinality(ids) \in Nat /\ Cardinality(ids) <= Cardinality(cache[d])
  BY <1>2, FS_Subset, FS_CardinalityType
<1>4. ids \subseteq Nat /\ ids \subseteq Ids /\ made + 1 \notin ids
  <2>1. 1..made \subseteq Nat /\ 1..made \subseteq 1..MaxRequests /\ made + 1 \notin 1..made
    BY <1>1
  <2>2. ids \subseteq 1..made
    BY <1>1
  <2> QED
    BY <2>1, <2>2 DEF Ids
<1> QED
  BY <1>3, <1>4, OldestIsIn

LEMMA PendingFacts ==
    ASSUME AutoInv, NEW d \in Documents
    PROVE  /\ Pending(d) \subseteq cache[d] /\ IsFiniteSet(Pending(d))
              /\ Cardinality(Pending(d)) \in Nat
           /\ Pending(d) # {} => Oldest(Pending(d)) \in Pending(d)
           /\ Cardinality(Pending(d)) <= MAX_PENDING_REQUESTS
<1>1. Pending(d) \in SUBSET cache[d]
  BY DEF Pending
<1> QED
  BY <1>1, CacheFacts DEF AutoInv, Bounded

-----------------------------------------------------------------------------
\* Whatever shrinks the caches and aborts what leaves them while it is pending keeps
\* the invariant: Answer, Fail and Timeout settle r, whose entry may stay if it is
\* no longer pending.
LEMMA Shrinks ==
    ASSUME AutoInv, made' = made,
           debouncing' \in Seq([doc : Documents, latest : BOOLEAN]),
           llmPhase' \in [Ids -> LLM!Phases],
           status' \in [Ids -> {"pending", "finished", "error"}],
           promise' \in [Ids -> {"none", "pending", "resolved", "rejected"}],
           cache' \in [Documents -> SUBSET Nat],
           \A d \in Documents : cache'[d] \subseteq cache[d],
           \A r \in Ids : status'[r] = "pending" => status[r] = "pending",
           \A r \in Ids : r > made => status'[r] = status[r],
           \A r \in Ids : llmPhase'[r] = "open" <=> InCache(r)' /\ status'[r] = "pending"
    PROVE  AutoInv'
<1>1. AutoTypeOK'
  <2>1. cache' \in [Documents -> SUBSET (1..made)]
    BY DEF AutoInv, AutoTypeOK, Completions
  <2>2. ASSUME NEW d \in Documents PROVE Cardinality(cache'[d]) <= MAX_CACHE_SIZE
    <3>1. cache'[d] \in SUBSET cache[d] /\ cache[d] \in SUBSET cache[d]
      OBVIOUS
    <3>2. Cardinality(cache'[d]) <= Cardinality(cache[d])
          /\ Cardinality(cache'[d]) \in Nat /\ Cardinality(cache[d]) \in Nat
      BY <3>1, CacheFacts DEF AutoInv
    <3> QED
      BY <3>2, Constants DEF AutoInv, AutoTypeOK
  <2> QED
    BY <2>1, <2>2 DEF AutoInv, AutoTypeOK, Completions
<1>2. OneDocument'
  BY DEF AutoInv, OneDocument
<1>5. NotMadeYet'
  BY DEF AutoInv, NotMadeYet
<1>3. ASSUME NEW d \in Documents PROVE Cardinality(Pending(d)') <= MAX_PENDING_REQUESTS
  <2>1. Pending(d)' \subseteq Pending(d)
    <3>1. cache[d] \in SUBSET cache[d]
      OBVIOUS
    <3>2. AutoTypeOK
      BY DEF AutoInv
    <3>3. cache[d] \subseteq Ids
      BY ONLY <3>1, <3>2, CacheFacts
    <3> QED
      BY <3>3 DEF Pending
  <2>2. Cardinality(Pending(d)') <= Cardinality(Pending(d)) /\ Cardinality(Pending(d)') \in Nat
    BY <2>1, PendingFacts, FS_Subset, FS_CardinalityType
  <2> QED
    BY <2>2, PendingFacts, Constants
<1>4. Bounded'
  <2>1. \A d \in Documents : Cardinality(Pending(d)') <= MAX_PENDING_REQUESTS
    BY <1>3
  <2> QED
    BY <2>1 DEF Bounded
<1> QED
  BY <1>1, <1>2, <1>4, <1>5 DEF AutoInv, NoOrphanRequest

\* What the cache drops while it is pending is aborted, nothing else changes its phase.
LEMMA DisposedFacts ==
    ASSUME AutoInv, NEW ids
    PROVE  /\ Disposed(ids) \in [Ids -> LLM!Phases]
           /\ RejectedAll(ids) \in [Ids -> {"none", "pending", "resolved", "rejected"}]
           /\ \A r \in Ids : Disposed(ids)[r] = "open" <=> llmPhase[r] = "open" /\ r \notin ids
<1>1. llmPhase \in [Ids -> LLM!Phases]
      /\ promise \in [Ids -> {"none", "pending", "resolved", "rejected"}]
  BY DEF AutoInv, AutoTypeOK
<1> QED
  BY <1>1 DEF Disposed, RejectedAll, LLM!Phases

LEMMA SequenceFacts ==
    ASSUME NEW S, NEW s \in Seq(S)
    PROVE  /\ Len(s) \in Nat /\ s \in [1..Len(s) -> S]
           /\ s # << >> => Head(s) \in S /\ Tail(s) \in Seq(S)
OBVIOUS

LEMMA TailOfCalls ==
    ASSUME AutoTypeOK, debouncing # << >>
    PROVE  Tail(debouncing) \in Seq([doc : Documents, latest : BOOLEAN]) /\ First.doc \in Documents
<1>1. Head(debouncing) \in [doc : Documents, latest : BOOLEAN]
  BY SequenceFacts DEF AutoTypeOK
<1> QED
  BY <1>1, SequenceFacts DEF AutoTypeOK, First

\* Nothing but the calls that wait changes.
LEMMA Kept ==
    ASSUME AutoInv, UNCHANGED <<llmPhase, status, promise, cache, made>>,
           debouncing' \in Seq([doc : Documents, latest : BOOLEAN])
    PROVE  AutoInv'
BY DEF AutoInv, AutoTypeOK, OneDocument, NotMadeYet, Bounded, NoOrphanRequest, Pending,
       InCache, Completions

LEMMA TypeStep == ASSUME AutoInv, NEW d \in Documents, Type(d) PROVE AutoInv'
<1>1. debouncing' \in Seq([doc : Documents, latest : BOOLEAN])
  <2> DEFINE n == Len(debouncing)
             s(b) == [i \in 1..n + 1 |-> IF i = n + 1 THEN [doc |-> d, latest |-> TRUE]
                                         ELSE [debouncing[i] EXCEPT !.latest = @ /\ b]]
  <2>1. PICK b \in BOOLEAN : debouncing' = s(b)
    BY DEF Type
  <2>2. n \in Nat /\ debouncing \in [1..n -> [doc : Documents, latest : BOOLEAN]]
    BY SequenceFacts DEF AutoInv, AutoTypeOK
  <2>3. ASSUME NEW i \in 1..n + 1 PROVE s(b)[i] \in [doc : Documents, latest : BOOLEAN]
    <3>1. CASE i = n + 1
      BY <3>1
    <3>2. CASE i # n + 1
      <4>1. debouncing[i] \in [doc : Documents, latest : BOOLEAN]
        BY <2>2, <3>2
      <4>2. (debouncing[i].latest /\ b) \in BOOLEAN
        OBVIOUS
      <4>3. s(b)[i] = [debouncing[i] EXCEPT !.latest = debouncing[i].latest /\ b]
        BY <3>2, Zenon
      <4> QED
        BY <4>1, <4>2, <4>3, Zenon
    <3> QED
      BY <3>1, <3>2
  <2>4. s(b) \in [1..n + 1 -> [doc : Documents, latest : BOOLEAN]]
    BY <2>3
  <2>5. s(b) \in Seq([doc : Documents, latest : BOOLEAN])
    BY <2>2, <2>4
  <2> QED
    BY <2>1, <2>5
<1>2. UNCHANGED <<llmPhase, status, promise, cache, made>>
  BY DEF Type
<1> QED
  BY <1>1, <1>2, Kept

-----------------------------------------------------------------------------
\* What leaves the cache of d leaves all caches.
StillIn(r, d, gone) == r \in cache[d] \ gone \/ \E e \in Documents \ {d} : r \in cache[e]

LEMMA Dropped ==
    ASSUME AutoInv, NEW d \in Documents, NEW gone \in SUBSET cache[d],
           NEW r \in Ids
    PROVE  /\ Disposed(gone)[r] = "open" <=> StillIn(r, d, gone) /\ status[r] = "pending"
           /\ llmPhase[r] = "open" => r <= made
<1>1. cache \in [Documents -> SUBSET Completions] /\ made \in Nat
  BY Constants DEF AutoInv, AutoTypeOK
<1>2. Disposed(gone)[r] = "open" <=> llmPhase[r] = "open" /\ r \notin gone
  BY DisposedFacts
<1>4. \A e \in Documents \ {d} : r \in gone => r \notin cache[e]
  BY DEF AutoInv, OneDocument
<1>5. llmPhase[r] = "open" <=> (\E e \in Documents : r \in cache[e]) /\ status[r] = "pending"
  BY DEF AutoInv, NoOrphanRequest, InCache
<1>6. llmPhase[r] = "open" => r <= made
  BY <1>1, <1>5 DEF Completions
<1> QED
  BY <1>2, <1>4, <1>5, <1>6 DEF StillIn

LEMMA CancelledFacts ==
    ASSUME AutoInv, NEW d \in Documents
    PROVE  /\ TooMany(d) \subseteq Pending(d)
           /\ IsFiniteSet(Pending(d) \ TooMany(d))
           /\ Cardinality(Pending(d) \ TooMany(d)) \in Nat
           /\ Cardinality(Pending(d) \ TooMany(d)) + 1 <= MAX_PENDING_REQUESTS
<1>1. /\ IsFiniteSet(Pending(d)) /\ Cardinality(Pending(d)) \in Nat
      /\ Cardinality(Pending(d)) <= MAX_PENDING_REQUESTS
  BY PendingFacts
<1>2. MAX_PENDING_REQUESTS \in Nat \ {0}
  BY Constants
<1>3. CASE Cardinality(Pending(d)) >= MAX_PENDING_REQUESTS
  <2>1. Pending(d) # {}
    BY <1>2, <1>3, FS_EmptySet
  <2>2. Oldest(Pending(d)) \in Pending(d) /\ TooMany(d) = {Oldest(Pending(d))}
    BY <1>3, <2>1, PendingFacts DEF TooMany
  <2>3. /\ IsFiniteSet(Pending(d) \ {Oldest(Pending(d))})
        /\ Cardinality(Pending(d) \ {Oldest(Pending(d))}) = Cardinality(Pending(d)) - 1
    BY <1>1, <2>2, FS_RemoveElement
  <2>4. Cardinality(Pending(d)) # 0
    BY <1>2, <1>3
  <2> QED
    BY <1>1, <1>2, <2>2, <2>3, <2>4
<1>4. CASE ~(Cardinality(Pending(d)) >= MAX_PENDING_REQUESTS)
  <2>1. TooMany(d) = {} /\ Pending(d) \ TooMany(d) = Pending(d)
    BY <1>4 DEF TooMany
  <2> QED
    BY <1>1, <1>2, <1>4, <2>1
<1> QED
  BY <1>3, <1>4

LEMMA EvictedFacts ==
    ASSUME AutoInv, NEW d \in Documents, NEW kept \in SUBSET cache[d]
    PROVE  /\ Evicted(kept) \subseteq kept
           /\ IsFiniteSet(kept \ Evicted(kept))
           /\ Cardinality(kept \ Evicted(kept)) \in Nat
           /\ Cardinality(kept \ Evicted(kept)) + 1 <= MAX_CACHE_SIZE
<1>1. /\ IsFiniteSet(kept) /\ Cardinality(kept) \in Nat
         /\ Cardinality(kept) <= Cardinality(cache[d])
      /\ kept # {} => Oldest(kept) \in kept
  BY CacheFacts DEF AutoInv
<1>2. MAX_CACHE_SIZE \in Nat \ {0}
  BY Constants
<1>3. Cardinality(kept) <= MAX_CACHE_SIZE
  <2>1. cache[d] \in SUBSET cache[d]
    OBVIOUS
  <2>2. Cardinality(cache[d]) \in Nat
    BY <2>1, CacheFacts DEF AutoInv
  <2> QED
    BY <1>1, <1>2, <2>2 DEF AutoInv, AutoTypeOK
<1>4. CASE Cardinality(kept) >= MAX_CACHE_SIZE
  <2>1. kept # {}
    BY <1>2, <1>4, FS_EmptySet
  <2>2. Oldest(kept) \in kept /\ Evicted(kept) = {Oldest(kept)}
    BY <1>1, <1>4, <2>1 DEF Evicted
  <2>3. /\ IsFiniteSet(kept \ {Oldest(kept)})
        /\ Cardinality(kept \ {Oldest(kept)}) = Cardinality(kept) - 1
    BY <1>1, <2>2, FS_RemoveElement
  <2>4. Cardinality(kept) # 0
    BY <1>2, <1>4
  <2> QED
    BY <1>1, <1>2, <1>3, <2>2, <2>3, <2>4
<1>5. CASE ~(Cardinality(kept) >= MAX_CACHE_SIZE)
  <2>1. Evicted(kept) = {} /\ kept \ Evicted(kept) = kept
    BY <1>5 DEF Evicted
  <2> QED
    BY <1>1, <1>2, <1>5, <2>1
<1> QED
  BY <1>4, <1>5

-----------------------------------------------------------------------------
\* A call that goes on without a new completion only cancels.
LEMMA Cancels ==
    ASSUME AutoInv, NEW d \in Documents,
           debouncing' \in Seq([doc : Documents, latest : BOOLEAN]),
           llmPhase' = Disposed(TooMany(d)), promise' = RejectedAll(TooMany(d)),
           cache' = [cache EXCEPT ![d] = cache[d] \ TooMany(d)],
           UNCHANGED <<status, made>>
    PROVE  AutoInv'
<1> DEFINE gone == TooMany(d)
<1>1. gone \in SUBSET cache[d]
  BY CancelledFacts, PendingFacts
<1> HIDE DEF gone
<1>2. llmPhase' = Disposed(gone) /\ promise' = RejectedAll(gone)
      /\ cache' = [cache EXCEPT ![d] = cache[d] \ gone]
  BY DEF gone
<1>3. cache' \in [Documents -> SUBSET Nat] /\ \A e \in Documents : cache'[e] \subseteq cache[e]
  <2>1. cache \in [Documents -> SUBSET Completions] /\ Completions \subseteq Nat
    BY DEF AutoInv, AutoTypeOK, Completions
  <2> QED
    BY <1>2, <2>1
<1>4. \A r \in Ids : llmPhase'[r] = "open" <=> InCache(r)' /\ status'[r] = "pending"
  <2> SUFFICES ASSUME NEW r \in Ids
               PROVE  llmPhase'[r] = "open" <=> InCache(r)' /\ status'[r] = "pending"
    OBVIOUS
  <2>1. cache \in [Documents -> SUBSET Completions]
    BY DEF AutoInv, AutoTypeOK
  <2>2. InCache(r)' <=> StillIn(r, d, gone)
    BY <1>2, <2>1 DEF InCache, StillIn
  <2>3. Disposed(gone)[r] = "open" <=> StillIn(r, d, gone) /\ status[r] = "pending"
    BY <1>1, Dropped
  <2> QED
    BY <1>2, <2>2, <2>3
<1>5. llmPhase' \in [Ids -> LLM!Phases]
      /\ promise' \in [Ids -> {"none", "pending", "resolved", "rejected"}]
  BY <1>2, DisposedFacts
<1>6. status \in [Ids -> {"pending", "finished", "error"}]
  BY DEF AutoInv, AutoTypeOK
<1> QED
  BY <1>3, <1>4, <1>5, <1>6, Shrinks

\* What GoOn does when it makes the completion new: gone leave, rest stay.
Enters(d, new, gone, rest) ==
    \/ /\ llmPhase' = [Disposed(gone) EXCEPT ![new] = "open"]
       /\ promise' = [RejectedAll(gone) EXCEPT ![new] = "pending"]
       /\ cache' = [cache EXCEPT ![d] = rest \cup {new}]
       /\ UNCHANGED status
    \/ /\ llmPhase' = [Disposed(gone) EXCEPT ![new] = "refused"]
       /\ promise' = [RejectedAll(gone) EXCEPT ![new] = "rejected"]
       /\ status' = [status EXCEPT ![new] = "error"]
       /\ cache' = [cache EXCEPT ![d] = rest]

\* A new completion takes the place that the cancelled and the evicted leave.
LEMMA Makes ==
    ASSUME AutoInv, NEW d \in Documents, NEW gone, NEW rest, NEW new,
           new = made + 1, new \in Ids,
           gone = TooMany(d) \cup Evicted(cache[d] \ TooMany(d)),
           rest = (cache[d] \ TooMany(d)) \ Evicted(cache[d] \ TooMany(d)),
           made' = new, debouncing' \in Seq([doc : Documents, latest : BOOLEAN]),
           Enters(d, new, gone, rest)
    PROVE  AutoInv'
<1>1. /\ gone \in SUBSET cache[d] /\ rest = cache[d] \ gone
      /\ IsFiniteSet(rest) /\ Cardinality(rest) \in Nat /\ Cardinality(rest) + 1 <= MAX_CACHE_SIZE
      /\ {r \in rest : status[r] = "pending"} \subseteq Pending(d) \ TooMany(d)
  <2>1. TooMany(d) \subseteq cache[d] /\ (cache[d] \ TooMany(d)) \in SUBSET cache[d]
    BY CancelledFacts, PendingFacts
  <2>2. /\ Evicted(cache[d] \ TooMany(d)) \subseteq cache[d]
        /\ IsFiniteSet(rest) /\ Cardinality(rest) \in Nat /\ Cardinality(rest) + 1 <= MAX_CACHE_SIZE
    BY <2>1, EvictedFacts
  <2> QED
    BY <2>1, <2>2 DEF Pending
<1>2. /\ made \in Nat /\ new \in Nat /\ made <= MaxRequests /\ new <= MaxRequests
         /\ MaxRequests \in Nat
      /\ cache \in [Documents -> SUBSET (1..made)] /\ \A e \in Documents : new \notin cache[e]
      /\ status \in [Ids -> {"pending", "finished", "error"}]
  BY Constants DEF AutoInv, AutoTypeOK, Completions, Ids
<1>3. PICK added \in {{}, {new}} :
        /\ cache' = [cache EXCEPT ![d] = rest \cup added]
        /\ status' \in [Ids -> {"pending", "finished", "error"}]
        /\ \A r \in Ids \ {new} : status'[r] = status[r]
        /\ llmPhase' \in [Ids -> LLM!Phases]
        /\ promise' \in [Ids -> {"none", "pending", "resolved", "rejected"}]
        /\ \A r \in Ids \ {new} : llmPhase'[r] = Disposed(gone)[r]
        /\ llmPhase'[new] = "open" <=> added = {new} /\ status'[new] = "pending"
  <2>1. /\ Disposed(gone) \in [Ids -> LLM!Phases]
        /\ RejectedAll(gone) \in [Ids -> {"none", "pending", "resolved", "rejected"}]
    BY DisposedFacts
  <2>2. "open" \in LLM!Phases /\ "refused" \in LLM!Phases
    BY DEF LLM!Phases
  <2>3. status[new] = "pending"
    BY <1>2 DEF AutoInv, NotMadeYet
  <2>4. CASE llmPhase' = [Disposed(gone) EXCEPT ![new] = "open"]
             /\ promise' = [RejectedAll(gone) EXCEPT ![new] = "pending"]
             /\ cache' = [cache EXCEPT ![d] = rest \cup {new}] /\ UNCHANGED status
    BY <1>2, <2>1, <2>2, <2>3, <2>4
  <2>5. CASE llmPhase' = [Disposed(gone) EXCEPT ![new] = "refused"]
             /\ promise' = [RejectedAll(gone) EXCEPT ![new] = "rejected"]
             /\ status' = [status EXCEPT ![new] = "error"]
             /\ cache' = [cache EXCEPT ![d] = rest]
    <3>1. rest \cup {} = rest
      OBVIOUS
    <3> QED
      BY <1>2, <2>1, <2>2, <2>5, <3>1
  <2> QED
    BY <2>4, <2>5 DEF Enters
<1>4. /\ cache'[d] = rest \cup added /\ \A e \in Documents \ {d} : cache'[e] = cache[e]
      /\ cache' \in [Documents -> SUBSET (1..new)]
  <2>1. 1..made \subseteq 1..new /\ new \in 1..new
    BY <1>2
  <2>2. rest \cup added \subseteq 1..new
    BY <1>1, <1>2, <2>1
  <2> QED
    BY <1>2, <1>3, <2>1, <2>2
<1>5. Cardinality(rest \cup added) <= MAX_CACHE_SIZE
  <2>1. new \notin rest
    BY <1>1, <1>2
  <2>2. Cardinality(rest \cup {new}) = Cardinality(rest) + 1
    BY <1>1, <2>1, FS_AddElement
  <2>3. CASE added = {new}
    BY <1>1, <2>2, <2>3
  <2>4. CASE added = {}
    <3>1. Cardinality(rest \cup added) = Cardinality(rest)
      BY <2>4, Zenon
    <3>2. MAX_CACHE_SIZE \in Nat
      BY Constants
    <3> QED
      BY <1>1, <3>1, <3>2
  <2> QED
    BY <1>3, <2>3, <2>4
<1>6. AutoTypeOK'
  <2>1. \A e \in Documents : Cardinality(cache'[e]) <= MAX_CACHE_SIZE
    BY <1>4, <1>5 DEF AutoInv, AutoTypeOK
  <2>2. made' \in 0..MaxRequests /\ Completions' = 1..new
    BY <1>2 DEF Completions
  <2> QED
    BY <1>3, <1>4, <2>1, <2>2 DEF AutoTypeOK
<1>7. OneDocument'
  <2>1. \A e \in Documents \ {d} : cache'[e] \cap cache'[d] = {}
    BY <1>1, <1>2, <1>4 DEF AutoInv, OneDocument
  <2> QED
    BY <1>4, <2>1 DEF AutoInv, OneDocument
<1>8. NotMadeYet'
  BY <1>2, <1>3 DEF AutoInv, NotMadeYet
<1>9. Bounded'
  <2>1. ASSUME NEW e \in Documents \ {d} PROVE Cardinality(Pending(e)') <= MAX_PENDING_REQUESTS
    <3>1. \A r \in cache[e] : r \in Ids \ {new}
      BY <1>2 DEF Ids
    <3>2. Pending(e)' = Pending(e)
      BY <1>3, <1>4, <3>1 DEF Pending
    <3> QED
      BY <3>2 DEF AutoInv, Bounded
  <2>2. Cardinality(Pending(d)') <= MAX_PENDING_REQUESTS
    <3> DEFINE P == Pending(d) \ TooMany(d)
    <3>1. IsFiniteSet(P) /\ Cardinality(P) \in Nat /\ Cardinality(P) + 1 <= MAX_PENDING_REQUESTS
      BY CancelledFacts
    <3>2. Pending(d)' \subseteq P \cup {new}
      <4>1. \A r \in rest : r \in Ids \ {new}
        BY <1>1, <1>2 DEF Ids
      <4> QED
        BY <1>1, <1>3, <1>4, <4>1 DEF Pending
    <3> HIDE DEF P
    <3>3. IsFiniteSet(P \cup {new}) /\ Cardinality(P \cup {new}) \in Nat
          /\ Cardinality(P \cup {new}) <= Cardinality(P) + 1
      <4>1. IsFiniteSet(P \cup {new})
            /\ Cardinality(P \cup {new}) \in {Cardinality(P), Cardinality(P) + 1}
        BY <3>1, FS_AddElement
      <4> QED
        BY <3>1, <4>1
    <3>4. Cardinality(Pending(d)') <= Cardinality(P \cup {new}) /\ Cardinality(Pending(d)') \in Nat
      BY <3>2, <3>3, FS_Subset, FS_CardinalityType
    <3> QED
      BY <3>1, <3>3, <3>4, Constants
  <2> QED
    BY <2>1, <2>2 DEF Bounded
<1>10. NoOrphanRequest'
  <2> SUFFICES ASSUME NEW r \in Ids
               PROVE  llmPhase'[r] = "open" <=> InCache(r)' /\ status'[r] = "pending"
    BY DEF NoOrphanRequest
  <2>1. CASE r = new
    <3>1. (\E e \in Documents : r \in cache'[e]) <=> added = {new}
      BY <1>1, <1>2, <1>4, <2>1
    <3>2. llmPhase'[r] = "open" <=> added = {new} /\ status'[r] = "pending"
      BY <1>3, <2>1
    <3> QED
      BY <3>1, <3>2 DEF InCache
  <2>2. CASE r # new
    <3>1. InCache(r)' <=> StillIn(r, d, gone)
      BY <1>1, <1>2, <1>4, <2>2 DEF InCache, StillIn
    <3>2. llmPhase'[r] = Disposed(gone)[r] /\ status'[r] = status[r]
      BY <1>3, <2>2
    <3>3. Disposed(gone)[r] = "open" <=> StillIn(r, d, gone) /\ status[r] = "pending"
      <4>1. AutoInv /\ gone \in SUBSET cache[d] /\ d \in Documents /\ r \in Ids
        BY <1>1
      <4> QED
        BY ONLY <4>1, Dropped
    <3> QED
      BY <3>1, <3>2, <3>3
  <2> QED
    BY <2>1, <2>2
<1> QED
  BY <1>6, <1>7, <1>8, <1>9, <1>10 DEF AutoInv

LEMMA GoOnStep == ASSUME AutoInv, GoOn PROVE AutoInv'
<1> DEFINE d == First.doc
           kept == cache[d] \ TooMany(d)
<1>1. d \in Documents /\ debouncing' \in Seq([doc : Documents, latest : BOOLEAN])
  BY TailOfCalls DEF GoOn, AutoInv
<1>2. CASE /\ llmPhase' = Disposed(TooMany(d)) /\ promise' = RejectedAll(TooMany(d))
           /\ cache' = [cache EXCEPT ![d] = kept] /\ UNCHANGED <<status, made>>
  <2> HIDE DEF d
  <2> QED
    BY <1>1, <1>2, Cancels
<1>3. ASSUME ~(/\ llmPhase' = Disposed(TooMany(d)) /\ promise' = RejectedAll(TooMany(d))
               /\ cache' = [cache EXCEPT ![d] = kept] /\ UNCHANGED <<status, made>>)
      PROVE  AutoInv'
  <2> DEFINE new == made + 1
             gone == TooMany(d) \cup Evicted(kept)
             rest == kept \ Evicted(kept)
  <2>1. new \in Ids /\ made' = new /\ Enters(d, new, gone, rest)
    BY <1>3, Zenon DEF GoOn, Enters
  <2>2. /\ new = made + 1
        /\ gone = TooMany(d) \cup Evicted(cache[d] \ TooMany(d))
        /\ rest = (cache[d] \ TooMany(d)) \ Evicted(cache[d] \ TooMany(d))
    OBVIOUS
  <2>3. AutoInv
    OBVIOUS
  <2> HIDE DEF d, new, gone, rest
  <2> QED
    BY ONLY <1>1, <2>1, <2>2, <2>3, Makes
<1> QED
  BY <1>2, <1>3

-----------------------------------------------------------------------------
\* A request that ends stays in the cache as a finished entry, or leaves it.
LEMMA AnswerStep == ASSUME AutoInv, NEW r \in Ids, Answer(r) PROVE AutoInv'
<1>1. /\ llmPhase \in [Ids -> LLM!Phases] /\ status \in [Ids -> {"pending", "finished", "error"}]
      /\ promise \in [Ids -> {"none", "pending", "resolved", "rejected"}]
      /\ cache \in [Documents -> SUBSET Nat]
         /\ debouncing \in Seq([doc : Documents, latest : BOOLEAN])
  BY DEF AutoInv, AutoTypeOK, Completions
<1>2. /\ llmPhase[r] = "open" /\ llmPhase' = [llmPhase EXCEPT ![r] = "final"]
      /\ status' = [status EXCEPT ![r] = "finished"]
      /\ promise' = [promise EXCEPT ![r] = IF @ = "pending" THEN "resolved" ELSE @]
      /\ UNCHANGED <<cache, debouncing, made>>
  BY DEF Answer, LLM!Final
<1>3. r <= made /\ made \in Nat
  <2>1. \E d \in Documents : r \in cache[d]
    BY <1>2 DEF AutoInv, NoOrphanRequest, InCache
  <2> QED
    BY <2>1 DEF AutoInv, AutoTypeOK, Completions
<1>4. "final" \in LLM!Phases
  BY DEF LLM!Phases
<1>5. \A q \in Ids : llmPhase'[q] = "open" <=> InCache(q)' /\ status'[q] = "pending"
  BY <1>1, <1>2 DEF AutoInv, NoOrphanRequest, InCache
<1>6. promise' \in [Ids -> {"none", "pending", "resolved", "rejected"}]
  BY <1>1, <1>2
<1> QED
  BY <1>1, <1>2, <1>3, <1>4, <1>5, <1>6, Shrinks DEF Ids

LEMMA FailStep == ASSUME AutoInv, NEW r \in Ids, Fail(r) PROVE AutoInv'
<1>1. /\ llmPhase \in [Ids -> LLM!Phases] /\ status \in [Ids -> {"pending", "finished", "error"}]
      /\ promise \in [Ids -> {"none", "pending", "resolved", "rejected"}]
      /\ cache \in [Documents -> SUBSET Nat]
         /\ debouncing \in Seq([doc : Documents, latest : BOOLEAN])
  BY DEF AutoInv, AutoTypeOK, Completions
<1>2. /\ llmPhase[r] = "open" /\ llmPhase' = [llmPhase EXCEPT ![r] = "error"]
      /\ status' = [status EXCEPT ![r] = "error"]
      /\ promise' = [promise EXCEPT ![r] = IF @ = "pending" THEN "rejected" ELSE @]
      /\ cache' = [d \in Documents |-> cache[d] \ {r}]
      /\ UNCHANGED <<debouncing, made>>
  BY DEF Fail, LLM!Error, Deleted
<1>3. r <= made /\ made \in Nat
  <2>1. \E d \in Documents : r \in cache[d]
    BY <1>2 DEF AutoInv, NoOrphanRequest, InCache
  <2> QED
    BY <2>1 DEF AutoInv, AutoTypeOK, Completions
<1>4. "error" \in LLM!Phases
  BY DEF LLM!Phases
<1>5. \A q \in Ids : llmPhase'[q] = "open" <=> InCache(q)' /\ status'[q] = "pending"
  BY <1>1, <1>2 DEF AutoInv, NoOrphanRequest, InCache
<1>6. promise' \in [Ids -> {"none", "pending", "resolved", "rejected"}]
  BY <1>1, <1>2
<1> QED
  BY <1>1, <1>2, <1>3, <1>4, <1>5, <1>6, Shrinks DEF Ids

LEMMA TimeoutStep == ASSUME AutoInv, NEW r \in Ids, Timeout(r) PROVE AutoInv'
<1>1. /\ llmPhase \in [Ids -> LLM!Phases] /\ status \in [Ids -> {"pending", "finished", "error"}]
      /\ promise \in [Ids -> {"none", "pending", "resolved", "rejected"}]
      /\ cache \in [Documents -> SUBSET Nat]
         /\ debouncing \in Seq([doc : Documents, latest : BOOLEAN])
  BY DEF AutoInv, AutoTypeOK, Completions
<1>2. /\ promise' = [promise EXCEPT ![r] = "rejected"]
      /\ cache' = [d \in Documents |-> cache[d] \ {r}]
      /\ llmPhase' = IF InCache(r) THEN Disposed({r}) ELSE llmPhase
      /\ UNCHANGED <<status, debouncing, made>>
  BY DEF Timeout, DeleteEntry, Deleted
<1>3. llmPhase' \in [Ids -> LLM!Phases]
      /\ \A q \in Ids : llmPhase'[q] = "open" <=> llmPhase[q] = "open" /\ q # r
  <2>1. ~InCache(r) => llmPhase[r] # "open"
    BY DEF AutoInv, NoOrphanRequest
  <2> QED
    BY <1>1, <1>2, <2>1, DisposedFacts
<1>4. \A q \in Ids : llmPhase'[q] = "open" <=> InCache(q)' /\ status'[q] = "pending"
  BY <1>1, <1>2, <1>3 DEF AutoInv, NoOrphanRequest, InCache
<1> QED
  BY <1>1, <1>2, <1>3, <1>4, Shrinks

LEMMA GiveUpStep == ASSUME AutoInv, GiveUp PROVE AutoInv'
BY TailOfCalls, Kept DEF GiveUp, AutoInv

LEMMA AutoStep == ASSUME AutoInv, [AutoNext]_autoVars PROVE AutoInv'
<1>1. CASE UNCHANGED autoVars
  <2>1. debouncing' \in Seq([doc : Documents, latest : BOOLEAN])
    BY <1>1 DEF autoVars, AutoInv, AutoTypeOK
  <2> QED
    BY <1>1, <2>1, Kept DEF autoVars
<1>2. CASE AutoNext
  BY <1>2, GiveUpStep, GoOnStep, TypeStep, AnswerStep, FailStep, TimeoutStep DEF AutoNext
<1> QED
  BY <1>1, <1>2

LEMMA AutoInitHolds == ASSUME AutoInit PROVE AutoInv
<1>1. Cardinality({}) = 0 /\ \A d \in Documents : cache[d] = {} /\ Pending(d) = {}
  BY FS_EmptySet DEF AutoInit, Pending
<1>2. AutoTypeOK
  <2>1. /\ << >> \in Seq([doc : Documents, latest : BOOLEAN])
        /\ "new" \in LLM!Phases
    BY DEF LLM!Phases
  <2> QED
    BY <1>1, <2>1, Constants DEF AutoInit, AutoTypeOK, Completions
<1>3. Bounded
  BY <1>1, Constants DEF Bounded
<1> QED
  BY <1>1, <1>2, <1>3 DEF AutoInv, AutoInit, OneDocument, NotMadeYet, NoOrphanRequest, InCache

LEMMA AutoAlways == AutoSpec => []AutoInv
<1>1. AutoInit => AutoInv
  BY AutoInitHolds
<1>2. AutoInv /\ [AutoNext]_autoVars => AutoInv'
  BY AutoStep
<1> QED
  BY <1>1, <1>2, PTL DEF AutoSpec

\* However keystrokes, pauses, answers, failures and timeouts interleave, no document has
\* more than MAX_PENDING_REQUESTS completions whose request is open, and no cache more
\* than MAX_CACHE_SIZE entries: the cancellation before a completion is made, and the
\* eviction of LRUCache.set, each make room for the one that comes.
THEOREM PendingStaysBounded == AutoSpec => []PendingBounded
<1>1. AutoInv => PendingBounded
  BY DEF AutoInv, Bounded, PendingBounded
<1> QED
  BY <1>1, AutoAlways, PTL

\* A request is open exactly as long as a cache holds its completion as pending: every
\* way out of a cache (cancelled, evicted, timed out, failed) goes through the dispose
\* callback that aborts it, and no entry waits for a request that ended.
THEOREM DroppedRequestsAreAborted == AutoSpec => []NoOrphanRequest
<1>1. AutoInv => NoOrphanRequest
  BY DEF AutoInv
<1> QED
  BY <1>1, AutoAlways, PTL
=============================================================================
