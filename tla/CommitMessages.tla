--------------------------- MODULE CommitMessages ---------------------------
(***************************************************************************)
(* GenerateCommitMessageService (browser/genrtlSCMService.ts): one LLM     *)
(* request at a time for a commit message, behind a ThrottledDelayer (a    *)
(* delay that every trigger restarts, then a throttler that holds back one *)
(* run while another is active), over the LLM service of LLMRequests.      *)
(*                                                                         *)
(* A run is named by the requestId it makes, in order; 0 stands for null.  *)
(* Names that every module has carry a prefix (CommitSpec): LLMProofs      *)
(* extends this module beside the other modules of the LLM service.        *)
(***************************************************************************)
EXTENDS Naturals

CONSTANT MaxAsks     \* bound: how often the user asks for a message

ASSUME CommitAssumption == MaxAsks \in Nat

VARIABLES
    runPhase,       \* of the request of each run, as in LLMRequests
    loading,        \* the context key that chooses the button of the input box
    delayed,        \* the delayer holds a task
    queued,         \* the throttler holds a task back
    run,            \* the run that is active
    current,        \* currentRequestId
    llmRequestId,   \* of the run whose request it is
    started, asked  \* how many runs began, how often the user asked

commitVars ==
    <<runPhase, loading, delayed, queued, run, current, llmRequestId, started, asked>>

Runs == 1..MaxAsks

\* A late onAbort rejects a promise that is settled: nothing follows from it.
RunService == INSTANCE LLMRequests WITH
    Requests <- Runs, phase <- runPhase, shown <- [r \in Runs |-> 0], MaxText <- 0, late <- {}

CommitInit ==
    /\ runPhase = [r \in Runs |-> "new"]
    /\ loading = FALSE /\ delayed = FALSE /\ queued = FALSE
    /\ run = 0 /\ current = 0 /\ llmRequestId = 0
    /\ started = 0 /\ asked = 0

\* A run before its request is sent awaits git; then it awaits the request.
AwaitsGit == run # 0 /\ runPhase[run] = "new"
AwaitsLLM == run # 0 /\ runPhase[run] = "open"

-----------------------------------------------------------------------------
\* The throttler calls a task; without a git repository the run is over at once.
Begin(busy) ==
    /\ started' = started + 1
    /\ current' = started'
    /\ \/ run' = started' /\ loading' = busy
       \/ run' = 0 /\ loading' = FALSE

\* Mutant: the task that was held back is forgotten.
NextOrDropped(busy, id) ==
    /\ queued' = FALSE
    /\ run' = 0 /\ loading' = busy /\ current' = id
    /\ UNCHANGED started

\* A run is over: the throttler calls the task it held back.
NextOrIdle(busy, id) ==
    /\ queued' = FALSE
    /\ IF queued THEN Begin(busy)
       ELSE run' = 0 /\ loading' = busy /\ current' = id /\ UNCHANGED started

\* Mutant: the key is only reset after an answer.
BusyUnlessAnswered == loading /\ ~(current = run /\ AwaitsLLM)

\* The finally block of the run: an answered, failed or refused one alike.
BusyAfter == loading /\ current # run

Over == NextOrIdle(BusyAfter, current)

-----------------------------------------------------------------------------
\* generateCommitMessage, from the input box or, at any time, the command palette.
Generate ==
    /\ asked < MaxAsks
    /\ asked' = asked + 1
    /\ loading' = TRUE
    /\ delayed' = TRUE
    /\ UNCHANGED <<runPhase, queued, run, current, llmRequestId, started>>

\* 300 ms after the last trigger.
DelayOver ==
    /\ delayed
    /\ delayed' = FALSE
    /\ IF run = 0 THEN Begin(loading) /\ UNCHANGED queued
       ELSE queued' = TRUE /\ UNCHANGED <<loading, run, current, started>>
    /\ UNCHANGED <<runPhase, llmRequestId, asked>>

\* Mutant: the run sends without a second look.
StillCurrent == TRUE

IsCurrent == run = current

\* A git command fails, or the run was aborted meanwhile.
GitEnds ==
    /\ AwaitsGit
    /\ Over
    /\ UNCHANGED <<runPhase, delayed, llmRequestId, asked>>

\* The four git commands succeed.  A refusal is an error at once, and no id.
GitDone ==
    /\ AwaitsGit /\ IsCurrent
    /\ \/ /\ runPhase' = [runPhase EXCEPT ![run] = "open"]
          /\ llmRequestId' = run
          /\ UNCHANGED <<loading, queued, run, current, started>>
       \/ /\ runPhase' = [runPhase EXCEPT ![run] = "refused"]
          /\ llmRequestId' = 0
          /\ Over
    /\ UNCHANGED <<delayed, asked>>

\* The LLM answers, and the message is put into the input box, or it fails.
LLMAnswers ==
    /\ AwaitsLLM
    /\ RunService!Final(run) \/ RunService!Error(run)
    /\ Over
    /\ UNCHANGED <<delayed, llmRequestId, asked>>

\* abort, which the input box offers while loading: it cancels the delayer, not
\* what the throttler holds back, and a run that awaits its request ends.
abort ==
    /\ loading
    /\ delayed' = FALSE
    /\ IF llmRequestId # 0 /\ runPhase[llmRequestId] = "open"
       THEN /\ RunService!Abort(llmRequestId)
            /\ NextOrIdle(FALSE, 0)
       ELSE /\ loading' = FALSE /\ current' = 0
            /\ UNCHANGED <<runPhase, queued, run, started>>
    /\ UNCHANGED <<llmRequestId, asked>>

CommitNext == Generate \/ abort \/ DelayOver \/ GitEnds \/ GitDone \/ LLMAnswers

\* The timer fires, git ends, and the request ends.
CommitFairness ==
    /\ WF_commitVars(DelayOver)
    /\ WF_commitVars(GitEnds \/ GitDone)
    /\ WF_commitVars(LLMAnswers)

CommitSpec == CommitInit /\ [][CommitNext]_commitVars /\ CommitFairness

-----------------------------------------------------------------------------
\* Types, one run per trigger, and a task is held back only behind a run.
CommitTypeOK ==
    /\ runPhase \in [Runs -> RunService!Phases]
    /\ loading \in BOOLEAN /\ delayed \in BOOLEAN /\ queued \in BOOLEAN
    /\ run \in 0..started /\ current \in 0..started /\ llmRequestId \in 0..started
    /\ asked \in 0..MaxAsks /\ started \in 0..asked
    /\ queued => run # 0

\* The request that is open is the one abort would reach, and it is that of the
\* current run: no run that was aborted while git worked sends its request later.
RequestIsCurrent ==
    \A r \in Runs : runPhase[r] = "open" => r = run /\ r = current /\ r = llmRequestId

\* While the input box shows that a message is being made, one is: a task waits,
\* or the active run is current and will take the button back (finally, 106).
LoadingHasWork == loading => delayed \/ queued \/ (run # 0 /\ IsCurrent)

\* The input box does not stay at loading, whatever is triggered and aborted; unless a
\* request never ends, which happens for a JSON answer without choices
\* (sendLLMMessage.impl.ts 225) and Fairness leaves out.
LoadingEnds == loading ~> ~loading
=============================================================================
