---------------------------- MODULE RetryHandler ----------------------------
(***************************************************************************)
(* Automatic retry in packages/pi-coding-agent/src/core: RetryHandler      *)
(* (retry-handler.ts) between AgentSession's prompt(), abort() and serial  *)
(* queue of agent events (agent-session.ts), and automatic compaction      *)
(* (compaction-orchestrator.ts), which also restarts the agent: after an   *)
(* overflow, and for messages queued meanwhile.                            *)
(*                                                                         *)
(* An event is handled later than it is emitted, a retry starts from a     *)
(* timer, and whoever called prompt() waits on a promise that is created   *)
(* when a run fails and resolved elsewhere.  Of the transcript its last    *)
(* message matters here, of the session file its last two: a failed        *)
(* message that is retried leaves the transcript but not the file, from    *)
(* which compaction reloads.  Retries are enabled (the default).           *)
(***************************************************************************)
EXTENDS Integers, Sequences, FiniteSets

CONSTANTS
  Callers,     \* those who call AgentSession.prompt
  Outcomes,    \* how a run may end, beside "aborted"
  MaxRetries,  \* settings.retry.maxRetries
  AutoCompact, \* settings.compaction.enabled
  Patient,     \* callers prompt only once everything earlier is settled
  MultiTurn,   \* a run may have tool turns before its last message
  MayAbort,    \* abort() may be called
  MaxEvents    \* bound: no prompt or tool turn while this many events wait

\* "limited" and "quota" stand for the errors _classifyErrorType knows, for which
\* another credential or provider is tried; "fatal" for an error not retried; "silent"
\* for a good answer to more input than the model's window holds.
Retryable == {"transient", "limited", "quota"}
Failed    == Retryable \cup {"overflow", "fatal"}
Good      == {"good", "silent"}
Outcome   == Failed \cup Good \cup {"aborted"}

\* isContextOverflow: by the error, or by the usage of a good answer.
isContextOverflow == {"overflow", "silent"}

\* What a compaction is for, and where a call of prompt() is before its run.
Compaction == {"overflow", "threshold"}
Preparing  == {"preparing", "compacted"} \cup Compaction

\* Callers who do not wait are modelled without compaction, which would replace
\* the transcript under them.
ASSUME RetryAssumption ==
  /\ Outcomes \subseteq Outcome \ {"aborted"}
  /\ MaxRetries \in Nat /\ MaxEvents \in Nat
  /\ Patient \in BOOLEAN /\ MultiTurn \in BOOLEAN /\ MayAbort \in BOOLEAN
  /\ AutoCompact \in BOOLEAN /\ (AutoCompact => Patient)

VARIABLES
  running,       \* agent.state.isStreaming
  stopping,      \* the run's abort signal
  top,           \* the last message: "none", "user" (or tool result), or an assistant's outcome
  fresh,         \* an assistant's message came since the start or the last compaction
  saved,         \* the last message of the session file, as top
  below,         \* the one before it, if that one failed
  queued,        \* agent.hasQueuedMessages()
  events,        \* _agentEventQueue: events not yet processed
  lastAssistant, \* _lastAssistantMessage, by its outcome
  handler,       \* what the processing of agent_end waits for, "free" if nothing
  failure,       \* the message it handles, by its outcome, while a provider is looked for
  attempt,       \* _retryAttempt
  promise,       \* _retryPromise is pending
  sleepAborted,  \* _retryAbortController.signal
  recovered,     \* _overflowRecoveryAttempted
  timers,        \* setTimeout callbacks that will call agent.continue() to retry
  resumes,       \* the same, for messages queued while the context was compacted
  caller,        \* where each call of prompt() stands
  cancelled      \* history: abort() was called, and no prompt() was under way or came since

runVars   == <<running, stopping, top, fresh, queued>>
fileVars  == <<saved, below>>
retryVars == <<attempt, promise, sleepAborted>>
timerVars == <<timers, resumes>>
vars == <<runVars, fileVars, events, lastAssistant, handler, failure, retryVars, recovered,
          timerVars, caller, cancelled>>

Init ==
  /\ running = FALSE /\ stopping = FALSE /\ top = "none" /\ fresh = FALSE
  /\ saved = "none" /\ below = "none" /\ queued = FALSE
  /\ events = <<>> /\ lastAssistant = "none"
  /\ handler = "free" /\ failure = "none"
  /\ attempt = 0 /\ promise = FALSE /\ sleepAborted = FALSE
  /\ recovered = FALSE /\ timers = 0 /\ resumes = 0
  /\ caller = [p \in Callers |-> "idle"] /\ cancelled = FALSE

\* Nothing is left that could still start, finish or follow up a run.
Settled == ~running /\ events = <<>> /\ handler = "free" /\ timers = 0 /\ resumes = 0

\* Mutant: the promise is forgotten, not resolved.
resolveForgotten == promise' = FALSE /\ UNCHANGED caller

\* _resolveRetry: the promise is resolved and those waiting for it return.
_resolveRetry ==
  /\ promise' = FALSE
  /\ caller' = [p \in Callers |-> IF caller[p] = "waiting" THEN "idle" ELSE caller[p]]

\* Mutant: the failed message stays.
removeNothing == UNCHANGED top

\* _removeLastAssistantError: whatever assistant message stands last.
_removeLastAssistantError == top' = IF top \in Outcome THEN "user" ELSE top

-----------------------------------------------------------------------------
(* Calls *)

\* AgentSession.prompt finds no run and goes on to restore the preferred provider and
\* look up the API key, which await.
prompt(p) ==
  /\ caller[p] = "idle"
  /\ ~running
  /\ Patient => Settled /\ \A q \in Callers : caller[q] = "idle"
  /\ Len(events) < MaxEvents
  /\ caller' = [caller EXCEPT ![p] = "preparing"]
  /\ cancelled' = FALSE
  /\ UNCHANGED <<runVars, fileVars, events, lastAssistant, handler, failure, retryVars, recovered, timerVars>>

\* It may compact before it sends, going by the last assistant's message, unless that
\* is older than the last compaction.  If the last message is the user's, which answer
\* stands above it is not known here.
checkBefore(p) ==
  /\ AutoCompact /\ fresh
  /\ caller[p] = "preparing"
  /\ \/ /\ ~recovered /\ (top \in Outcome => top \in isContextOverflow)
        /\ recovered' = TRUE
        /\ _removeLastAssistantError
        /\ caller' = [caller EXCEPT ![p] = "overflow"]
     \/ /\ caller' = [caller EXCEPT ![p] = "threshold"]
        /\ UNCHANGED <<recovered, top>>
  /\ UNCHANGED <<running, stopping, fresh, queued, fileVars, events, lastAssistant, handler,
                 failure, retryVars, timerVars, cancelled>>

\* prompt() hands its message to agent.prompt, which throws while a run is on.
agentPrompt(p) ==
  /\ caller[p] \in {"preparing", "compacted"}
  /\ IF running
     THEN /\ caller' = [caller EXCEPT ![p] = "idle"]
          /\ UNCHANGED <<runVars, events>>
     ELSE /\ running' = TRUE /\ stopping' = FALSE /\ top' = "user"
          /\ events' = Append(events, [type |-> "user", outcome |-> "none"])
          /\ caller' = [caller EXCEPT ![p] = "running"]
          /\ UNCHANGED <<fresh, queued>>
  /\ UNCHANGED <<fileVars, lastAssistant, handler, failure, retryVars, recovered, timerVars, cancelled>>

\* agent.prompt() has returned: prompt() goes on to waitForRetry().
waitForRetry(p) ==
  /\ caller[p] = "returned"
  /\ caller' = [caller EXCEPT ![p] = IF promise THEN "waiting" ELSE "idle"]
  /\ UNCHANGED <<runVars, fileVars, events, lastAssistant, handler, failure, retryVars, recovered, timerVars, cancelled>>

\* AgentSession.abort: abortRetry() and agent.abort().
abort ==
  /\ MayAbort
  /\ sleepAborted' = (handler = "sleep")
  /\ _resolveRetry
  /\ stopping' = running
  /\ cancelled' = (\A p \in Callers : caller[p] \notin Preparing)
  /\ UNCHANGED <<running, top, fresh, queued, fileVars, events, lastAssistant, handler, failure,
                 attempt, recovered, timerVars>>

\* steer() and followUp() queue a message, clearQueue() takes the queued ones back.
changeQueue ==
  /\ queued' = ~queued
  /\ UNCHANGED <<running, stopping, top, fresh, fileVars, events, lastAssistant, handler, failure,
                 retryVars, recovered, timerVars, caller, cancelled>>

-----------------------------------------------------------------------------
(* The agent *)

\* A good message that the run goes on from, with the results of its tool calls.
toolTurn ==
  /\ MultiTurn
  /\ running /\ ~stopping
  /\ Len(events) < MaxEvents
  /\ events' = Append(events, [type |-> "turn", outcome |-> "good"])
  /\ fresh' = TRUE
  /\ UNCHANGED <<running, stopping, top, queued, fileVars, lastAssistant, handler, failure,
                 retryVars, recovered, timerVars, caller, cancelled>>

\* The run takes a queued message, and maybe not the last.
takeQueued ==
  /\ running /\ queued
  /\ Len(events) < MaxEvents
  /\ queued' \in BOOLEAN
  /\ events' = Append(events, [type |-> "user", outcome |-> "none"])
  /\ UNCHANGED <<running, stopping, top, fresh, fileVars, lastAssistant, handler, failure,
                 retryVars, recovered, timerVars, caller, cancelled>>

\* The run ends and emits its last message and agent_end.  A message may have been
\* queued behind its last look at the queue.
emitEnd(out) ==
  /\ running
  /\ out = "aborted" <=> stopping
  /\ running' = FALSE /\ stopping' = FALSE
  /\ top' = out /\ fresh' = TRUE
  /\ events' = events \o <<[type |-> "message_end", outcome |-> out],
                           [type |-> "agent_end", outcome |-> out]>>
  /\ caller' = [p \in Callers |-> IF caller[p] = "running" THEN "returned" ELSE caller[p]]
  /\ UNCHANGED <<queued, fileVars, lastAssistant, handler, failure, attempt, sleepAborted,
                 recovered, timerVars, cancelled>>

\* Mutant: the promise is left to handleRetryableError to create.
runEndsWithoutPromise(out) == emitEnd(out) /\ UNCHANGED promise

\* The retry promise is created as agent_end is emitted, before agent.prompt()
\* returns to its caller (_handleAgentEvent, createRetryPromiseForAgentEnd).
runEnds(out) == emitEnd(out) /\ promise' = (promise \/ out \in Retryable)

\* Agent.continue throws, and is ignored, while a run is on, when there is no message,
\* and when the last one is an assistant's and no message is queued.
agentContinue ==
  \/ /\ ~running /\ top = "user"
     /\ running' = TRUE /\ stopping' = FALSE
     /\ UNCHANGED <<top, queued, events>>
  \/ /\ ~running /\ top \in Outcome /\ queued
     /\ running' = TRUE /\ stopping' = FALSE
     /\ top' = "user" /\ queued' \in BOOLEAN
     /\ events' = Append(events, [type |-> "user", outcome |-> "none"])
  \/ /\ running \/ top = "none" \/ (top \in Outcome /\ ~queued)
     /\ UNCHANGED <<running, stopping, top, queued, events>>

\* A timer calls it.
continue ==
  /\ \/ timers > 0 /\ timers' = timers - 1 /\ UNCHANGED resumes
     \/ resumes > 0 /\ resumes' = resumes - 1 /\ UNCHANGED timers
  /\ agentContinue
  /\ UNCHANGED <<fresh, fileVars, lastAssistant, handler, failure, retryVars, recovered, caller, cancelled>>

-----------------------------------------------------------------------------
(* Processing of events, one after the other *)

Take(type) == handler = "free" /\ events # <<>> /\ Head(events).type = type /\ events' = Tail(events)

\* The message goes to the session file.
appendMessage(m) == saved' = m /\ below' = IF m \in Failed THEN saved ELSE "none"

processUser ==
  /\ Take("user")
  /\ recovered' = FALSE
  /\ appendMessage("user")
  /\ UNCHANGED <<runVars, lastAssistant, handler, failure, retryVars, timerVars, caller, cancelled>>

\* handleSuccessfulResponse: a message without error closes a counted retry.
handleSuccessfulResponse ==
  IF attempt > 0 THEN attempt' = 0 /\ _resolveRetry ELSE UNCHANGED <<attempt, promise, caller>>

\* A message that tool results follow ("turn"), or the last of a run.
processMessageEnd(type) ==
  /\ Take(type)
  /\ lastAssistant' = Head(events).outcome
  /\ appendMessage(IF type = "turn" THEN "user" ELSE lastAssistant')
  /\ IF lastAssistant' \in Failed
     THEN UNCHANGED <<recovered, attempt, promise, caller>>
     ELSE recovered' = FALSE /\ handleSuccessfulResponse
  /\ UNCHANGED <<runVars, handler, failure, sleepAborted, timerVars, cancelled>>

\* A retry with another credential or provider is not counted and starts at once.
retryAtOnce(pending) ==
  /\ _removeLastAssistantError
  /\ timers' = timers + 1
  /\ handler' = "free"
  /\ promise' = pending
  /\ UNCHANGED <<attempt, caller>>

\* Without a retry the message is left to checkCompaction, and may be one to compact at.
noRetry == handler' \in {"free"} \cup {reason \in {"threshold"} : AutoCompact}

giveUp ==
  /\ attempt' = 0 /\ _resolveRetry
  /\ noRetry
  /\ UNCHANGED <<top, timers>>

\* Mutant: one retry too many, for the counter is compared before it is raised.
backOffOnceMore(pending) ==
  \/ /\ attempt <= MaxRetries
     /\ attempt' = attempt + 1
     /\ _removeLastAssistantError
     /\ handler' = "sleep"
     /\ promise' = pending
     /\ UNCHANGED <<timers, caller>>
  \/ giveUp

\* Counted retries wait, with the failed message already taken back; too many, or a
\* server that asks to wait too long, end the retry.
backOff(pending) ==
  \/ /\ attempt < MaxRetries
     /\ attempt' = attempt + 1
     /\ _removeLastAssistantError
     /\ handler' = "sleep"
     /\ promise' = pending
     /\ UNCHANGED <<timers, caller>>
  \/ giveUp

\* agent_end after a retryable failure: handleRetryableError up to its first wait.
\* It creates the promise if it is gone.
handleRetryableError ==
  /\ Take("agent_end")
  /\ lastAssistant \in Retryable
  /\ lastAssistant' = "none"
  /\ \/ lastAssistant # "transient" /\ retryAtOnce(TRUE) /\ UNCHANGED failure  \* another credential
     \/ /\ lastAssistant # "transient"
        /\ handler' = "fallback" /\ promise' = TRUE
        /\ failure' = lastAssistant
        /\ UNCHANGED <<top, timers, attempt, caller>>
     \/ lastAssistant = "transient" /\ backOff(TRUE) /\ UNCHANGED failure
  /\ UNCHANGED <<running, stopping, fresh, queued, fileVars, sleepAborted, recovered, resumes, cancelled>>

\* The search for another provider ends.  The promise may have been resolved meanwhile.
findFallback ==
  /\ handler = "fallback"
  /\ \/ retryAtOnce(promise)
     \/ failure = "quota" /\ giveUp
     \/ failure # "quota" /\ backOff(promise)
  /\ failure' = "none"
  /\ UNCHANGED <<running, stopping, fresh, queued, fileVars, events, lastAssistant,
                 sleepAborted, recovered, resumes, cancelled>>

\* The delay is over, or was aborted.
sleepEnds ==
  /\ handler = "sleep"
  /\ sleepAborted' = FALSE
  /\ IF sleepAborted
     THEN giveUp
     ELSE timers' = timers + 1 /\ handler' = "free" /\ UNCHANGED <<top, attempt, promise, caller>>
  /\ UNCHANGED <<running, stopping, fresh, queued, fileVars, events, lastAssistant, failure,
                 recovered, resumes, cancelled>>

\* agent_end otherwise: up to a compaction of the context.
checkedEnd ==
  /\ Take("agent_end")
  /\ lastAssistant \notin Retryable
  /\ lastAssistant' = "none"
  /\ UNCHANGED <<running, stopping, fresh, queued, fileVars, failure, retryVars, resumes, caller,
                 cancelled>>

\* Mutant: the agent is restarted at once, and again when compaction is done.
checkCompactionEagerly ==
  /\ checkedEnd
  /\ IF lastAssistant \in isContextOverflow
     THEN _removeLastAssistantError /\ handler' = "overflow" /\ timers' = timers + 1
     ELSE UNCHANGED <<top, handler, timers>>
  /\ UNCHANGED recovered

\* Mutant: every end is taken for an overflow.
checkCompactionAlways ==
  /\ checkedEnd
  /\ IF AutoCompact /\ lastAssistant # "aborted" /\ ~recovered
     THEN recovered' = TRUE /\ _removeLastAssistantError /\ handler' = "overflow"
     ELSE UNCHANGED <<recovered, top, handler>>
  /\ UNCHANGED timers

\* checkCompaction: after an overflow, once, to restart the agent; or because the
\* context has grown to the threshold; or not, for one of these or because the model
\* was changed since.
checkCompaction ==
  /\ checkedEnd
  /\ \/ UNCHANGED <<recovered, top, handler>>
     \/ /\ AutoCompact /\ lastAssistant \in isContextOverflow /\ ~recovered
        /\ recovered' = TRUE
        /\ _removeLastAssistantError
        /\ handler' = "overflow"
     \/ /\ AutoCompact /\ lastAssistant \notin {"none", "aborted"}
        /\ handler' = "threshold"
        /\ UNCHANGED <<recovered, top>>
  /\ UNCHANGED timers

\* What the transcript may end with once it is reloaded from the file.  To restart the
\* agent one failed message is dropped, and what stands before it may be the summary.
Reloaded(reason) ==
  IF reason = "overflow" /\ saved \in Failed THEN {below, "user"} ELSE {saved}

\* The compaction fails or is cancelled; or it replaces the transcript, and restarts
\* the agent after an overflow or for a queued message.
compactionEnds(reason) ==
  /\ \/ UNCHANGED <<top, fresh, timerVars>>
     \/ /\ top' \in Reloaded(reason)
        /\ fresh' = FALSE
        /\ timers' = IF reason = "overflow" THEN timers + 1 ELSE timers
        /\ resumes' = IF reason = "threshold" /\ queued THEN resumes + 1 ELSE resumes
  /\ UNCHANGED <<running, stopping, queued, fileVars, events, lastAssistant, failure, retryVars,
                 recovered, cancelled>>

_runAutoCompaction ==
  /\ handler \in Compaction /\ handler' = "free"
  /\ compactionEnds(handler)
  /\ UNCHANGED caller

\* The same, before a prompt is sent.
compactBefore(p) ==
  /\ caller[p] \in Compaction /\ caller' = [caller EXCEPT ![p] = "compacted"]
  /\ compactionEnds(caller[p])
  /\ UNCHANGED handler

-----------------------------------------------------------------------------
Process == \/ processUser \/ processMessageEnd("turn") \/ processMessageEnd("message_end")
           \/ handleRetryableError \/ findFallback \/ sleepEnds \/ checkCompaction
           \/ _runAutoCompaction
End     == \E out \in Outcomes \cup {"aborted"} : runEnds(out)
Call(p) == agentPrompt(p) \/ waitForRetry(p) \/ compactBefore(p)

\* What begins or ends something, and what goes on with what has begun.
Steer == (\E p \in Callers : prompt(p)) \/ abort \/ toolTurn
GoOn  == (\E p \in Callers : checkBefore(p) \/ Call(p))
         \/ changeQueue \/ takeQueued \/ End \/ continue \/ Process

Next == Steer \/ GoOn

Spec == Init /\ [][Next]_vars

\* Runs end, timers fire, awaited promises settle and the event queue is served;
\* nobody has to prompt, abort, queue a message or use another tool.
Fairness ==
  /\ WF_vars(End) /\ WF_vars(continue) /\ WF_vars(Process)
  /\ \A p \in Callers : WF_vars(Call(p))

FairSpec == Spec /\ Fairness

-----------------------------------------------------------------------------
(* Properties *)

Event    == [type : {"user", "turn", "message_end", "agent_end"}, outcome : Outcome \cup {"none"}]
Handling == {"free", "fallback", "sleep"} \cup Compaction
Place    == {"idle", "running", "returned", "waiting"} \cup Preparing

\* The state is well-formed, and no more retries are counted than settings allow.
TypeOK ==
  /\ running \in BOOLEAN /\ stopping \in BOOLEAN
  /\ top \in Outcome \cup {"none", "user"}
  /\ saved \in Outcome \cup {"none", "user"} /\ below \in Outcome \cup {"none", "user"}
  /\ fresh \in BOOLEAN /\ queued \in BOOLEAN
  /\ events \in Seq(Event)
  /\ lastAssistant \in Outcome \cup {"none"}
  /\ failure \in Outcome \cup {"none"}
  /\ handler \in Handling
  /\ attempt \in 0..MaxRetries
  /\ promise \in BOOLEAN /\ sleepAborted \in BOOLEAN
  /\ recovered \in BOOLEAN /\ cancelled \in BOOLEAN
  /\ timers \in Nat /\ resumes \in Nat
  /\ caller \in [Callers -> Place]

\* While a retry sleeps, looks for a provider or is about to start, a call of prompt()
\* waits for it, unless it was cancelled, or overflow recovery had already restarted
\* the agent, which prompt() does not wait for.  This is what creating the promise
\* with agent_end is for (agent-session.ts:394-398).
RetryIsAwaited ==
  /\ handler \in {"fallback", "sleep"} \/ timers > 0
  /\ ~cancelled /\ ~recovered
  => \E p \in Callers : caller[p] \in {"returned", "waiting"}

\* At most one restart of the agent is scheduled, and none while its predecessor's
\* failure is still handled or a run is on: two of them would race for the agent.
OneRestart == timers + resumes > 0 => timers + resumes = 1 /\ handler = "free" /\ ~running

\* A retry begins behind the user's message, a tool result or a summary, so that
\* continue() is not refused (retry-handler.ts:266, compaction-orchestrator.ts:398-403).
RestartIsAccepted == timers > 0 => top = "user"

\* Only a failed message is taken back ("Remove the last assistant error message from
\* agent state", retry-handler.ts:352), never a good answer; of an answer too large for
\* the window the code does so once, to recover.
OnlyErrorsRemoved ==
  [][(top \in Good /\ top' = "user") => running' \/ (top = "silent" /\ ~recovered /\ recovered')]_vars

\* "LLM returned context overflow error, remove error message" (compaction-orchestrator.ts:205):
\* a good answer is not removed.
GoodStays == [][(top \in Good /\ top' = "user") => running']_vars

\* Every call of prompt() returns.
PromptReturns == \A p \in Callers : caller[p] # "idle" ~> caller[p] = "idle"

\* "Current retry attempt (0 if not retrying)" (retry-handler.ts:43): a budget used up
\* by one prompt does not shorten the next one's.
ZeroIfNotRetrying == Settled /\ ~promise => attempt = 0

\* "Wait for any in-progress retry to complete. Returns immediately if no retry is in
\* progress." (retry-handler.ts:303-304): nobody waits when everything has settled.
NoWaitForNothing == Settled => \A p \in Callers : caller[p] # "waiting"

\* "Wait for any in-progress retry to complete": a prompt() that waited for a retry
\* returns only when the retried run has ended (or was cancelled).
RetryCompletesFirst ==
  [][\A p \in Callers : caller[p] = "waiting" /\ caller'[p] = "idle" /\ ~cancelled' => ~running]_vars

\* "Cancel in-progress retry" (retry-handler.ts:296): after abort() and before the next
\* prompt() no run starts.
CancelledStaysCancelled == [][cancelled /\ cancelled' /\ ~running => ~running']_vars
=============================================================================
