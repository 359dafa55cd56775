---------------------------- MODULE Autocomplete ----------------------------
(***************************************************************************)
(* AutocompleteService (browser/autocompleteService.ts): calls of the      *)
(* editor that wait for the typing to pause, requests to the LLM, and the  *)
(* cache of completions of each document, over the LLM service of          *)
(* LLMRequests.                                                            *)
(*                                                                         *)
(* Text is left out: a keystroke either matches a completion of the cache, *)
(* and then changes nothing, or it starts a call.  Ids are given as        *)
(* completions are put into the map, so that the order of the map, and of  *)
(* keyOrder, is that of the ids: a cache is a set of them.                 *)
(*                                                                         *)
(* Names that every module has carry a prefix (AutoSpec): LLMProofs        *)
(* extends this module beside the other modules of the LLM service.        *)
(***************************************************************************)
EXTENDS Naturals, Sequences, FiniteSetsExt

CONSTANTS
    Documents,
    MaxRequests,            \* bound: how many completions are made
    MAX_CACHE_SIZE,
    MAX_PENDING_REQUESTS,
    MaxWaiting              \* bound: keystrokes while fewer calls wait for a pause

ASSUME AutocompleteAssumption ==
    /\ MaxRequests \in Nat
    /\ MAX_CACHE_SIZE \in Nat \ {0} /\ MAX_PENDING_REQUESTS \in Nat \ {0}
    /\ MAX_PENDING_REQUESTS <= MAX_CACHE_SIZE
    /\ MaxWaiting \in Nat

VARIABLES
    llmPhase,   \* of the requests, as in LLMRequests
    status,     \* of an Autocompletion: pending, finished or error
    promise,    \* its llmPromise: none, pending, resolved, rejected
    cache,      \* _autocompletionsOfDocument: document -> ids
    debouncing, \* calls that await the pause, oldest first
    made        \* _autocompletionId

autoVars == <<llmPhase, status, promise, cache, debouncing, made>>

\* Ids of completions and of their requests.
Ids == 1..MaxRequests

\* A late onAbort rejects a promise that is settled: nothing follows from it.
LLM == INSTANCE LLMRequests WITH
    Requests <- Ids, phase <- llmPhase, shown <- [r \in Ids |-> 0], MaxText <- 0, late <- {}

-----------------------------------------------------------------------------
Completions == 1..made
InCache(r) == \E d \in Documents : r \in cache[d]
Pending(d) == {r \in cache[d] : status[r] = "pending"}
Oldest(ids) == Min(ids)

AutoInit ==
    /\ llmPhase = [r \in Ids |-> "new"]
    /\ status = [r \in Ids |-> "pending"]
    /\ promise = [r \in Ids |-> "none"]
    /\ cache = [d \in Documents |-> {}]
    /\ debouncing = << >>
    /\ made = 0

\* A keystroke that no completion of the cache matches.  latest stands for
\* _lastCompletionStart = thisTime: calls of one millisecond share their time.
Type(d) ==
    /\ Len(debouncing) < MaxWaiting
    /\ \E sameTime \in BOOLEAN :
        debouncing' = [i \in 1..Len(debouncing) + 1 |->
            IF i = Len(debouncing) + 1 THEN [doc |-> d, latest |-> TRUE]
            ELSE [debouncing[i] EXCEPT !.latest = @ /\ sameTime]]
    /\ UNCHANGED <<llmPhase, status, promise, cache, made>>

-----------------------------------------------------------------------------
\* The dispose callback of the cache aborts the requests of the completions it
\* drops; aborting a request that ended changes nothing for its client.
Disposed(ids) == [r \in Ids |->
    IF r \in ids /\ llmPhase[r] = "open" THEN "aborted" ELSE llmPhase[r]]
\* onAbort rejects the promise: the calls that await it return.
RejectedAll(ids) == [r \in Ids |->
    IF r \in ids /\ promise[r] = "pending" THEN "rejected" ELSE promise[r]]

\* Mutant: one request more is let through.
TooManyLate(d) ==
    IF Cardinality(Pending(d)) > MAX_PENDING_REQUESTS THEN {Oldest(Pending(d))} ELSE {}

\* The oldest pending completion, if there are too many.
TooMany(d) == IF Cardinality(Pending(d)) >= MAX_PENDING_REQUESTS THEN {Oldest(Pending(d))} ELSE {}

\* LRUCache.set of a new key: the first key of a full cache.
Evicted(ids) == IF Cardinality(ids) >= MAX_CACHE_SIZE THEN {Oldest(ids)} ELSE {}

First == Head(debouncing)

\* The timer of the oldest call fires after more typing.
GiveUp ==
    /\ debouncing # << >> /\ ~First.latest
    /\ debouncing' = Tail(debouncing)
    /\ UNCHANGED <<llmPhase, status, promise, cache, made>>

\* It fires after a pause, and the call goes on up to its next await.  For some
\* text no completion is made, after the oldest request was cancelled all the same.
GoOn ==
    /\ debouncing # << >> /\ First.latest
    /\ LET d == First.doc
           cancelled == TooMany(d)
           kept == cache[d] \ cancelled
       IN
       \/ /\ llmPhase' = Disposed(cancelled)
          /\ promise' = RejectedAll(cancelled)
          /\ cache' = [cache EXCEPT ![d] = kept]
          /\ UNCHANGED <<status, made>>
       \/ LET new == made + 1
              evicted == Evicted(kept)
              gone == cancelled \cup evicted
              rest == kept \ evicted
          IN
          /\ new \in Ids
          /\ made' = new
          /\ \/ /\ llmPhase' = [Disposed(gone) EXCEPT ![new] = "open"]
                /\ promise' = [RejectedAll(gone) EXCEPT ![new] = "pending"]
                /\ cache' = [cache EXCEPT ![d] = rest \cup {new}]
                /\ UNCHANGED status
             \* the service refuses: onError at once, and the call deletes its entry
             \/ /\ llmPhase' = [Disposed(gone) EXCEPT ![new] = "refused"]
                /\ promise' = [RejectedAll(gone) EXCEPT ![new] = "rejected"]
                /\ status' = [status EXCEPT ![new] = "error"]
                /\ cache' = [cache EXCEPT ![d] = rest]
    /\ debouncing' = Tail(debouncing)

\* LRUCache.delete.
Deleted(r) == [d \in Documents |-> cache[d] \ {r}]

\* Mutant: the entry leaves the map without its dispose callback.
ForgetOnly(r) ==
    /\ cache' = Deleted(r)
    /\ UNCHANGED llmPhase

\* What the call does when its promise is rejected: the entry, if it is still
\* there, is deleted and disposed of.
DeleteEntry(r) ==
    /\ cache' = Deleted(r)
    /\ llmPhase' = IF InCache(r) THEN Disposed({r}) ELSE llmPhase

\* onFinalMessage
Answer(r) ==
    /\ LLM!Final(r)
    /\ status' = [status EXCEPT ![r] = "finished"]
    /\ promise' = [promise EXCEPT ![r] = IF @ = "pending" THEN "resolved" ELSE @]
    /\ UNCHANGED <<cache, debouncing, made>>

\* onError
Fail(r) ==
    /\ LLM!Error(r)
    /\ status' = [status EXCEPT ![r] = "error"]
    /\ promise' = [promise EXCEPT ![r] = IF @ = "pending" THEN "rejected" ELSE @]
    /\ cache' = Deleted(r)
    /\ UNCHANGED <<debouncing, made>>

\* Mutant: the timer looks whether the entry is still the newest.
NewestWaits(r) == promise[r] = "pending" /\ r = made

Waits(r) == promise[r] = "pending" /\ status[r] = "pending"

\* TIMEOUT_TIME passes.
Timeout(r) ==
    /\ Waits(r)
    /\ promise' = [promise EXCEPT ![r] = "rejected"]
    /\ DeleteEntry(r)
    /\ UNCHANGED <<status, debouncing, made>>

-----------------------------------------------------------------------------
AutoNext ==
    \/ GiveUp \/ GoOn
    \/ \E d \in Documents : Type(d)
    \/ \E r \in Ids : Answer(r) \/ Fail(r) \/ Timeout(r)

\* Timers fire; the LLM owes no answer.
AutoFairness == WF_autoVars(GiveUp \/ GoOn) /\ \A r \in Ids : WF_autoVars(Timeout(r))

AutoSpec == AutoInit /\ [][AutoNext]_autoVars /\ AutoFairness

-----------------------------------------------------------------------------
\* Types and the size of the caches.
AutoTypeOK ==
    /\ llmPhase \in [Ids -> LLM!Phases]
    /\ status \in [Ids -> {"pending", "finished", "error"}]
    /\ promise \in [Ids -> {"none", "pending", "resolved", "rejected"}]
    /\ made \in 0..MaxRequests
    /\ debouncing \in Seq([doc : Documents, latest : BOOLEAN])
    /\ cache \in [Documents -> SUBSET Completions]
    /\ \A d \in Documents : Cardinality(cache[d]) <= MAX_CACHE_SIZE

\* "if there are too many pending requests, cancel the oldest one" (738): of one
\* document no more than MAX_PENDING_REQUESTS are ever pending, though the entries
\* leave the cache by answers, errors, timeouts and evictions in any order.
PendingBounded == AutoTypeOK /\ \A d \in Documents : Cardinality(Pending(d)) <= MAX_PENDING_REQUESTS

\* A request that runs belongs to a pending entry of a cache: whatever drops an
\* entry aborts its request.
NoOrphanRequest ==
    \A r \in Ids : llmPhase[r] = "open" <=> InCache(r) /\ status[r] = "pending"

\* Every call of the editor returns: a promise that calls await settles, also if
\* the LLM never answers, the entry is evicted or another call cancels it.
EveryCallReturns == \A r \in Ids : promise[r] = "pending" ~> promise[r] # "pending"
=============================================================================
