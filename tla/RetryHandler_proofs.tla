------------------------ MODULE RetryHandler_proofs ------------------------
(***************************************************************************)
(* Proofs about RetryHandler: its type invariant, and, when callers wait   *)
(* for each other, that restarts of the agent do not race, that each is    *)
(* accepted, that no good answer is taken back, and that whoever prompts   *)
(* waits for the retries of plain failures.                                *)
(***************************************************************************)
EXTENDS RetryHistory, SequenceTheorems, TLAPS

\* The initial state is well-formed.
LEMMA TypeCorrectInit == Init => TypeOK
<1> SUFFICES ASSUME Init PROVE TypeOK
  OBVIOUS
<1>1. events \in Seq(Event)
  BY EmptySeq DEF Init
<1>2. attempt \in 0..MaxRetries /\ timers \in Nat /\ resumes \in Nat
  BY RetryAssumption DEF Init
<1>3. caller \in [Callers -> Place]
  BY DEF Init, Place
<1> QED
  BY <1>1, <1>2, <1>3 DEF Init, TypeOK, Event, Handling, Place

\* Events stay events when one is taken from the queue.
LEMMA TakeTypes ==
  ASSUME TypeOK, NEW type, Take(type)
  PROVE  /\ events' \in Seq(Event) /\ Head(events) \in Event
         /\ Head(events).type = type /\ handler = "free" /\ events # <<>>
         /\ events' = Tail(events)
<1>1. events \in Seq(Event) /\ events # <<>> /\ events' = Tail(events)
      /\ Head(events).type = type /\ handler = "free"
  BY DEF TypeOK, Take, Event
<1>2. events' \in Seq(Event) /\ Head(events) \in Event
  BY ONLY <1>1, HeadTailProperties
<1> QED
  BY <1>1, <1>2

\* What the ways to go on with a failed message change.
RetryState ==
  /\ top \in Outcome \cup {"none", "user"} /\ timers \in Nat /\ attempt \in 0..MaxRetries
  /\ handler \in Handling /\ promise \in BOOLEAN
  /\ caller \in [Callers -> Place]

\* Resolving the promise leaves every caller in a known place.
LEMMA ResolveTypes ==
  ASSUME TypeOK, _resolveRetry
  PROVE  /\ promise' \in BOOLEAN
         /\ caller' \in [Callers -> Place]
BY DEF TypeOK, _resolveRetry, Place

\* The counter may always be reset.
LEMMA ZeroIsCounted == 0 \in 0..MaxRetries
BY RetryAssumption

\* A failed message is followed by an immediate retry, a backoff or by giving up, and
\* each keeps the counter within its limit.
LEMMA RetryTypes ==
  ASSUME TypeOK, NEW b \in BOOLEAN, retryAtOnce(b) \/ backOff(b) \/ giveUp
  PROVE  RetryState'
<1> USE RetryAssumption
<1>1. CASE retryAtOnce(b)
  BY <1>1 DEF TypeOK, RetryState, retryAtOnce, _removeLastAssistantError, Handling, Place
<1>2. ASSUME giveUp PROVE RetryState'
  BY <1>2, ResolveTypes, ZeroIsCounted DEF TypeOK, RetryState, giveUp, noRetry, Handling, Compaction
<1>3. CASE backOff(b)
  <2>1. CASE giveUp
    BY <1>2, <2>1
  <2>2. CASE ~giveUp
    <3>1. attempt < MaxRetries /\ attempt' = attempt + 1 /\ _removeLastAssistantError
          /\ handler' = "sleep" /\ promise' = b /\ UNCHANGED <<timers, caller>>
      BY <1>3, <2>2 DEF backOff
    <3>2. attempt' \in 0..MaxRetries
      BY <3>1 DEF TypeOK
    <3>3. top' \in Outcome \cup {"none", "user"}
      BY <3>1 DEF TypeOK, _removeLastAssistantError
    <3> QED
      BY <3>1, <3>2, <3>3 DEF TypeOK, RetryState, Handling, Place
  <2> QED
    BY <2>1, <2>2
<1> QED
  BY <1>1, <1>2, <1>3

\* What a message leaves in the file.
LEMMA SaveTypes ==
  ASSUME TypeOK, NEW m \in Outcome \cup {"none", "user"}, appendMessage(m)
  PROVE  saved' \in Outcome \cup {"none", "user"} /\ below' \in Outcome \cup {"none", "user"}
BY DEF TypeOK, appendMessage

\* A compaction leaves a transcript that ends in a message, and timers.
LEMMA CompactTypes ==
  ASSUME TypeOK, NEW reason, compactionEnds(reason)
  PROVE  /\ top' \in Outcome \cup {"none", "user"} /\ fresh' \in BOOLEAN
         /\ timers' \in Nat /\ resumes' \in Nat
<1>1. top' \in Outcome \cup {"none", "user"} /\ fresh' \in BOOLEAN
  BY DEF TypeOK, compactionEnds, Reloaded
<1>2. timers' \in {timers, timers + 1} /\ resumes' \in {resumes, resumes + 1}
  BY DEF compactionEnds, timerVars
<1> QED
  BY <1>1, <1>2 DEF TypeOK

\* Every action keeps the state well-formed.
LEMMA TypeCorrectStep == TypeOK /\ [Next]_vars => TypeOK'
<1> SUFFICES ASSUME TypeOK, [Next]_vars
             PROVE  TypeOK'
  OBVIOUS
<1> USE DEF fileVars, timerVars, runVars, retryVars
<1>1. ASSUME NEW p \in Callers, prompt(p)
      PROVE  TypeOK'
  <2>1. caller' \in [Callers -> Place]
    BY <1>1 DEF TypeOK, prompt, Preparing, Place
  <2>2. cancelled' \in BOOLEAN
        /\ UNCHANGED <<runVars, fileVars, events, lastAssistant, handler, failure, retryVars, recovered, timerVars>>
    BY <1>1 DEF prompt
  <2> QED
    BY <2>1, <2>2 DEF TypeOK
<1>2. ASSUME NEW p \in Callers, agentPrompt(p)
      PROVE  TypeOK'
  <2> DEFINE e == [type |-> "user", outcome |-> "none"]
  <2>1. Append(events, e) \in Seq(Event)
    <3>1. events \in Seq(Event) /\ e \in Event
      BY DEF TypeOK, Event
    <3> QED
      BY ONLY <3>1, AppendProperties
  <2>2. events' \in Seq(Event)
    BY <1>2, <2>1 DEF agentPrompt, TypeOK, Event
  <2> QED
    <3>1. caller' \in [Callers -> Place]
      BY <1>2 DEF TypeOK, agentPrompt, Place
    <3>2. running' \in BOOLEAN /\ stopping' \in BOOLEAN /\ top' \in Outcome \cup {"none", "user"}
          /\ UNCHANGED <<fresh, queued>>
      BY <1>2 DEF TypeOK, agentPrompt
    <3>3. UNCHANGED <<fileVars, lastAssistant, handler, failure, retryVars, recovered, timerVars, cancelled>>
      BY <1>2 DEF agentPrompt
    <3> QED
      BY <2>2, <3>1, <3>2, <3>3 DEF TypeOK
<1>3. ASSUME NEW p \in Callers, waitForRetry(p)
      PROVE  TypeOK'
  <2>1. caller' \in [Callers -> Place]
    BY <1>3 DEF TypeOK, waitForRetry, Place
  <2> QED
    BY <1>3, <2>1 DEF TypeOK, waitForRetry
<1>a. ASSUME NEW p \in Callers, checkBefore(p)
      PROVE  TypeOK'
  <2>1. caller' \in [Callers -> Place]
    BY <1>a DEF TypeOK, checkBefore, Place, Preparing, Compaction
  <2>2. top' \in Outcome \cup {"none", "user"} /\ recovered' \in BOOLEAN
    BY <1>a DEF TypeOK, checkBefore, _removeLastAssistantError
  <2>3. UNCHANGED <<running, stopping, fresh, queued, fileVars, events, lastAssistant, handler,
                    failure, retryVars, timerVars, cancelled>>
    BY <1>a DEF checkBefore
  <2> QED
    BY <2>1, <2>2, <2>3 DEF TypeOK
<1>b. ASSUME NEW p \in Callers, compactBefore(p)
      PROVE  TypeOK'
  <2>1. compactionEnds(caller[p]) /\ UNCHANGED handler /\ caller' = [caller EXCEPT ![p] = "compacted"]
    BY <1>b DEF compactBefore
  <2>2. caller' \in [Callers -> Place]
    BY <2>1 DEF TypeOK, Preparing, Place
  <2>3. UNCHANGED <<running, stopping, queued, fileVars, events, lastAssistant, failure, retryVars,
                    recovered, cancelled>>
    BY <2>1 DEF compactionEnds
  <2>4. /\ top' \in Outcome \cup {"none", "user"} /\ fresh' \in BOOLEAN
        /\ timers' \in Nat /\ resumes' \in Nat
    BY <2>1, CompactTypes
  <2> QED
    BY <2>1, <2>2, <2>3, <2>4 DEF TypeOK
<1>4. CASE abort \/ changeQueue
  <2>1. caller' \in [Callers -> Place]
    BY <1>4 DEF TypeOK, abort, changeQueue, _resolveRetry, Place
  <2>2. promise' \in BOOLEAN /\ cancelled' \in BOOLEAN /\ stopping' \in BOOLEAN
        /\ sleepAborted' \in BOOLEAN /\ queued' \in BOOLEAN
    BY <1>4 DEF TypeOK, abort, changeQueue, _resolveRetry
  <2>3. UNCHANGED <<running, top, fresh, fileVars, events, lastAssistant, handler, failure,
                    attempt, recovered, timerVars>>
    BY <1>4 DEF abort, changeQueue
  <2> QED
    BY <2>1, <2>2, <2>3 DEF TypeOK
<1>5. CASE toolTurn \/ takeQueued
  <2> DEFINE e == IF toolTurn THEN [type |-> "turn", outcome |-> "good"]
                  ELSE [type |-> "user", outcome |-> "none"]
  <2>1. Append(events, e) \in Seq(Event)
    <3>1. events \in Seq(Event) /\ e \in Event
      BY DEF TypeOK, Event, Outcome, Good
    <3> QED
      BY ONLY <3>1, AppendProperties
  <2>2. events' \in Seq(Event)
    <3>1. CASE toolTurn
      BY <2>1, <3>1 DEF toolTurn
    <3>2. CASE ~toolTurn
      BY <1>5, <2>1, <3>2 DEF takeQueued
    <3> QED
      BY <3>1, <3>2
  <2> QED
    BY <1>5, <2>2 DEF TypeOK, toolTurn, takeQueued
<1>6. ASSUME NEW out \in Outcomes \cup {"aborted"}, runEnds(out)
      PROVE  TypeOK'
  <2> DEFINE ends == <<[type |-> "message_end", outcome |-> out],
                       [type |-> "agent_end", outcome |-> out]>>
  <2>1. out \in Outcome
    BY RetryAssumption DEF Outcome
  <2>2. events \o ends \in Seq(Event)
    <3>1. events \in Seq(Event) /\ ends \in Seq(Event)
      BY <2>1 DEF TypeOK, Event
    <3> QED
      BY ONLY <3>1, ConcatProperties
  <2>3. caller' \in [Callers -> Place]
    BY <1>6 DEF TypeOK, runEnds, emitEnd, Place
  <2>4. /\ events' = events \o ends /\ top' = out /\ ~running' /\ ~stopping' /\ fresh'
        /\ running' \in BOOLEAN /\ stopping' \in BOOLEAN /\ fresh' \in BOOLEAN /\ promise' \in BOOLEAN
        /\ UNCHANGED <<queued, fileVars, lastAssistant, handler, failure, attempt, sleepAborted,
                       recovered, timerVars, cancelled>>
    BY <1>6 DEF TypeOK, runEnds, emitEnd
  <2> QED
    BY <2>1, <2>2, <2>3, <2>4 DEF TypeOK
<1>7. CASE continue
  <2> DEFINE e == [type |-> "user", outcome |-> "none"]
  <2>1. timers' \in Nat /\ resumes' \in Nat
    BY <1>7 DEF TypeOK, continue
  <2>2. running' \in BOOLEAN /\ stopping' \in BOOLEAN /\ queued' \in BOOLEAN
        /\ top' \in Outcome \cup {"none", "user"}
    BY <1>7 DEF TypeOK, continue, agentContinue
  <2>3. Append(events, e) \in Seq(Event)
    <3>1. events \in Seq(Event) /\ e \in Event
      BY DEF TypeOK, Event
    <3> QED
      BY ONLY <3>1, AppendProperties
  <2>4. events' \in Seq(Event)
    BY <1>7, <2>3 DEF continue, agentContinue, TypeOK, Event
  <2> QED
    BY <1>7, <2>1, <2>2, <2>4 DEF TypeOK, continue
<1>8. CASE processUser
  <2>1. events' \in Seq(Event)
    BY <1>8, TakeTypes DEF processUser
  <2>2. saved' \in Outcome \cup {"none", "user"} /\ below' \in Outcome \cup {"none", "user"}
    BY <1>8, SaveTypes DEF processUser
  <2> QED
    BY <1>8, <2>1, <2>2 DEF TypeOK, processUser
<1>9. ASSUME NEW type, processMessageEnd(type)
      PROVE  TypeOK'
  <2>1. events' \in Seq(Event) /\ lastAssistant' \in Outcome \cup {"none"}
    BY <1>9, TakeTypes DEF processMessageEnd, Event
  <2>2. /\ attempt' \in 0..MaxRetries /\ promise' \in BOOLEAN /\ recovered' \in BOOLEAN
        /\ caller' \in [Callers -> Place]
    <3>1. CASE lastAssistant' \notin Failed /\ attempt > 0
      BY <1>9, <3>1, ResolveTypes, ZeroIsCounted DEF TypeOK, processMessageEnd, handleSuccessfulResponse
    <3>2. CASE ~(lastAssistant' \notin Failed /\ attempt > 0)
      BY <1>9, <3>2 DEF TypeOK, processMessageEnd, handleSuccessfulResponse
    <3> QED
      BY <3>1, <3>2
  <2>3. saved' \in Outcome \cup {"none", "user"} /\ below' \in Outcome \cup {"none", "user"}
    BY <1>9, <2>1, SaveTypes DEF processMessageEnd
  <2> QED
    BY <1>9, <2>1, <2>2, <2>3 DEF TypeOK, processMessageEnd
<1>10. CASE handleRetryableError
  <2>1. events' \in Seq(Event)
    BY <1>10, TakeTypes DEF handleRetryableError
  <2>2. ASSUME retryAtOnce(TRUE) PROVE RetryState'
    BY <2>2, RetryTypes
  <2>3. ASSUME backOff(TRUE) PROVE RetryState'
    BY <2>3, RetryTypes
  <2>4. ASSUME handler' = "fallback", promise' = TRUE, UNCHANGED <<top, timers, attempt, caller>>
        PROVE  RetryState'
    BY <2>4 DEF TypeOK, RetryState, Handling
  <2>5. RetryState'
    BY <1>10, <2>2, <2>3, <2>4 DEF handleRetryableError
  <2>6. /\ UNCHANGED <<running, stopping, fresh, queued, saved, below, sleepAborted, recovered, resumes, cancelled>>
        /\ failure' \in {failure, lastAssistant} /\ lastAssistant' = "none"
    BY <1>10 DEF handleRetryableError
  <2> QED
    BY <2>1, <2>5, <2>6 DEF TypeOK, RetryState
<1>11. CASE findFallback
  <2>1. RetryState'
    <3>1. promise \in BOOLEAN
      BY DEF TypeOK
    <3> QED
      BY <1>11, <3>1, RetryTypes DEF findFallback
  <2>2. /\ UNCHANGED <<running, stopping, fresh, queued, saved, below, events, lastAssistant,
                       sleepAborted, recovered, resumes, cancelled>>
        /\ failure' = "none"
    BY <1>11 DEF findFallback
  <2> QED
    BY <2>1, <2>2 DEF TypeOK, RetryState
<1>12. CASE sleepEnds
  <2>1. CASE sleepAborted
    <3>1. RetryState'
      BY <1>12, <2>1, RetryTypes DEF sleepEnds
    <3>2. UNCHANGED <<running, stopping, fresh, queued, fileVars, events, lastAssistant, failure,
                      recovered, resumes, cancelled>> /\ sleepAborted' \in BOOLEAN
      BY <1>12, <2>1 DEF sleepEnds
    <3> QED
      BY <3>1, <3>2 DEF TypeOK, RetryState
  <2>2. CASE ~sleepAborted
    <3>1. timers' \in Nat
      BY <1>12, <2>2 DEF TypeOK, sleepEnds
    <3>2. UNCHANGED <<runVars, fileVars, events, lastAssistant, failure, recovered, resumes, cancelled,
                      attempt, promise, caller>>
          /\ handler' \in Handling /\ sleepAborted' \in BOOLEAN
      BY <1>12, <2>2 DEF sleepEnds, Handling
    <3> QED
      BY <3>1, <3>2 DEF TypeOK
  <2> QED
    BY <2>1, <2>2
<1>13. CASE checkCompaction
  <2>1. events' \in Seq(Event)
    BY <1>13, TakeTypes DEF checkCompaction, checkedEnd
  <2> QED
    <3>1. top' \in Outcome \cup {"none", "user"} /\ recovered' \in BOOLEAN /\ handler' \in Handling
      BY <1>13 DEF TypeOK, checkCompaction, _removeLastAssistantError, Handling, Compaction
    <3>2. UNCHANGED <<running, stopping, fresh, queued, fileVars, failure, retryVars, timerVars, caller,
                      cancelled>> /\ lastAssistant' = "none"
      BY <1>13 DEF checkCompaction, checkedEnd
    <3> QED
      BY <2>1, <3>1, <3>2 DEF TypeOK
<1>14. CASE _runAutoCompaction
  <2>1. compactionEnds(handler) /\ UNCHANGED caller /\ handler' = "free"
    BY <1>14 DEF _runAutoCompaction
  <2> QED
    <3>1. UNCHANGED <<running, stopping, queued, fileVars, events, lastAssistant, failure, retryVars,
                      recovered, cancelled>> /\ handler' \in Handling
      BY <2>1 DEF compactionEnds, Handling
    <3>2. /\ top' \in Outcome \cup {"none", "user"} /\ fresh' \in BOOLEAN
          /\ timers' \in Nat /\ resumes' \in Nat
      BY <2>1, CompactTypes
    <3> QED
      BY <2>1, <3>1, <3>2 DEF TypeOK
<1>15. CASE UNCHANGED vars
  BY <1>15 DEF TypeOK, vars
<1> QED
  BY <1>1, <1>2, <1>3, <1>a, <1>b, <1>4, <1>5, <1>6, <1>7, <1>8, <1>9, <1>10, <1>11, <1>12, <1>13, <1>14, <1>15
     DEF Next, Steer, GoOn, Call, End, Process

\* The state is always well-formed and the retry budget never exceeded, for all
\* callers, outcomes and limits (retry-handler.ts:222-234).
THEOREM TypeCorrect == Spec => []TypeOK
<1> QED
  BY TypeCorrectInit, TypeCorrectStep, PTL DEF Spec

-----------------------------------------------------------------------------
(***************************************************************************)
(* Restarts do not race.  Whatever is under way for the agent is one thing *)
(* at a time, handed on: a run, then the queue that ends with its          *)
(* agent_end, then the handling of it, then a timer, then a run again.     *)
(* OneRestart alone is not inductive: it does not say that a run in        *)
(* progress has no agent_end of a predecessor left in the queue.           *)
(***************************************************************************)

\* A run has nothing beside it but events that need no handling.
RunAlone == running => handler = "free" /\ timers = 0 /\ resumes = 0

\* What is handled, or waits for its timer, was the last event of the queue.
HandledLast ==
  /\ handler # "free" => timers = 0 /\ resumes = 0 /\ events = <<>>
  /\ timers > 0 => timers = 1 /\ resumes = 0 /\ events = <<>>
  /\ resumes > 0 => resumes = 1 /\ timers = 0 /\ events = <<>>

\* An agent_end in the queue is its last event, and its run is over.
EndIsLast ==
  \A i \in 1..Len(events) : events[i].type = "agent_end" =>
    i = Len(events) /\ ~running /\ handler = "free" /\ timers = 0 /\ resumes = 0

\* Who prepares a prompt finds everything settled and is alone.
PrepareAlone ==
  \A p \in Callers : caller[p] \in Preparing =>
    Settled /\ \A q \in Callers \ {p} : caller[q] = "idle"

RestartInvariant == TypeOK /\ RunAlone /\ HandledLast /\ EndIsLast /\ PrepareAlone

\* Taking an event that is not the end of a run leaves the end where it is.
LEMMA EndStaysLast ==
  ASSUME RestartInvariant, NEW type, Take(type), type # "agent_end",
         UNCHANGED <<running, handler, timers, resumes>>
  PROVE  RunAlone' /\ HandledLast' /\ EndIsLast'
<1>1. events \in Seq(Event) /\ events # <<>> /\ events' = Tail(events)
      /\ Head(events).type = type /\ handler = "free"
  BY DEF RestartInvariant, TypeOK, Take, Event
<1>2. /\ Len(events') = Len(events) - 1 /\ Len(events) \in Nat
      /\ \A i \in 1..Len(events') : events'[i] = events[i + 1]
  BY ONLY <1>1, HeadTailProperties, LenProperties
<1>3. timers = 0 /\ resumes = 0
  BY <1>1 DEF RestartInvariant, HandledLast, TypeOK
<1>4. EndIsLast'
  <2> SUFFICES ASSUME NEW i \in 1..Len(events'), events'[i].type = "agent_end"
               PROVE  i = Len(events') /\ ~running /\ handler = "free" /\ timers = 0 /\ resumes = 0
    BY DEF EndIsLast
  <2>1. i + 1 \in 1..Len(events) /\ events[i + 1].type = "agent_end"
    BY <1>2
  <2>2. i + 1 = Len(events) /\ ~running
    BY <2>1 DEF RestartInvariant, EndIsLast
  <2>3. i \in Int /\ Len(events') = Len(events) - 1 /\ Len(events) \in Nat
    BY <1>2
  <2>4. i = Len(events')
    BY ONLY <2>2, <2>3
  <2> QED
    BY <1>1, <1>3, <2>2, <2>4
<1> QED
  BY <1>1, <1>3, <1>4 DEF RunAlone, HandledLast

\* Taking the end of a run leaves nothing behind it, no timer and no run.
LEMMA EndIsAlone ==
  ASSUME RestartInvariant, Take("agent_end")
  PROVE  events' = <<>> /\ ~running /\ timers = 0 /\ resumes = 0 /\ handler = "free"
<1>1. events \in Seq(Event) /\ events # <<>> /\ events' = Tail(events)
      /\ Head(events).type = "agent_end" /\ handler = "free"
  BY DEF RestartInvariant, TypeOK, Take, Event
<1>2. /\ Head(events) = events[1] /\ Len(events) \in Nat /\ 1 \in 1..Len(events)
      /\ events' \in Seq(Event) /\ Len(events') = Len(events) - 1
  BY ONLY <1>1, HeadTailProperties, EmptySeq, LenProperties
<1>3. 1 = Len(events) /\ ~running /\ timers = 0 /\ resumes = 0
  <2>1. events[1].type = "agent_end" /\ 1 \in 1..Len(events)
    BY <1>1, <1>2
  <2> QED
    BY <2>1 DEF RestartInvariant, EndIsLast
<1>4. Len(events') = 1 - 1
  <2>1. Len(events') = Len(events) - 1
    BY <1>2
  <2>2. Len(events) = 1
    BY <1>3
  <2> QED
    BY ONLY <2>1, <2>2
<1>5. Len(events') = 0
  BY ONLY <1>4
<1> QED
  BY <1>1, <1>2, <1>3, <1>5, EmptySeq

\* Nobody prepares a prompt while an event waits or is handled, a run is on or a timer set.
LEMMA BusyMeansNoPrompt ==
  ASSUME RestartInvariant, ~Settled,
         \A p \in Callers : caller'[p] \in Preparing => caller[p] \in Preparing
  PROVE  PrepareAlone'
BY DEF RestartInvariant, PrepareAlone

\* The initial state satisfies the invariant.
LEMMA RestartInit == Init => RestartInvariant
<1> SUFFICES ASSUME Init PROVE RestartInvariant
  OBVIOUS
<1>1. TypeOK
  BY TypeCorrectInit
<1>2. Len(events) = 0
  BY DEF Init
<1>3. PrepareAlone
  BY DEF Init, PrepareAlone, Preparing, Compaction
<1> QED
  BY <1>1, <1>2, <1>3 DEF Init, RestartInvariant, RunAlone, HandledLast, EndIsLast

\* prompt()'s own check schedules no restart.
NoneScheduled == \A p \in Callers : compactBefore(p) => UNCHANGED timerVars

\* Who prepares a prompt goes on preparing it, beside nothing else.
LEMMA StillAlone ==
  ASSUME RestartInvariant, NEW p \in Callers, caller[p] \in Preparing,
         NEW c, caller' = [caller EXCEPT ![p] = c],
         UNCHANGED <<running, events, handler, timers, resumes>>
  PROVE  RunAlone' /\ HandledLast' /\ EndIsLast' /\ PrepareAlone'
<1>1. Settled /\ (\A q \in Callers \ {p} : caller[q] = "idle") /\ caller \in [Callers -> Place]
  BY DEF RestartInvariant, PrepareAlone, TypeOK
<1>2. PrepareAlone'
  BY <1>1 DEF PrepareAlone, Settled, Preparing, Compaction
<1> QED
  BY <1>2 DEF RestartInvariant, RunAlone, HandledLast, EndIsLast

\* A step that leaves the agent and the queue alone and moves no one into a prompt.
LEMMA NothingMoves ==
  ASSUME RestartInvariant, UNCHANGED <<running, events, handler, timers, resumes>>,
         \A p \in Callers : /\ caller'[p] \in Preparing => caller[p] \in Preparing
                            /\ caller[p] = "idle" => caller'[p] = "idle"
  PROVE  RunAlone' /\ HandledLast' /\ EndIsLast' /\ PrepareAlone'
<1>1. PrepareAlone'
  BY DEF RestartInvariant, PrepareAlone, Settled
<1> QED
  BY <1>1 DEF RestartInvariant, RunAlone, HandledLast, EndIsLast

\* An event that is added to the queue of a run, and is not its end.
LEMMA RunGoesOn ==
  ASSUME RestartInvariant, running, NEW e \in Event, e.type # "agent_end",
         events' = Append(events, e), UNCHANGED <<running, handler, timers, resumes, caller>>
  PROVE  /\ RunAlone' /\ HandledLast' /\ EndIsLast' /\ PrepareAlone'
         /\ \A i \in 1..Len(events') : events'[i].type # "agent_end"
<1>1. handler = "free" /\ timers = 0 /\ resumes = 0
  BY DEF RestartInvariant, RunAlone
<1>2. /\ Len(events') = Len(events) + 1 /\ Len(events) \in Nat
      /\ \A i \in 1..Len(events) : events'[i] = events[i]
      /\ events'[Len(events) + 1] = e
  <2>1. events \in Seq(Event) /\ e \in Event /\ events' = Append(events, e)
    BY DEF RestartInvariant, TypeOK
  <2> QED
    BY ONLY <2>1, AppendProperties, LenProperties
<1>3. ASSUME NEW i \in 1..Len(events'), events'[i].type = "agent_end"
      PROVE  FALSE
  <2>1. i \in 1..Len(events) /\ events[i].type = "agent_end"
    BY <1>2, <1>3
  <2> QED
    BY <2>1 DEF RestartInvariant, EndIsLast
<1>4. PrepareAlone'
  BY DEF RestartInvariant, PrepareAlone, Settled
<1> QED
  BY <1>1, <1>3, <1>4 DEF RunAlone, HandledLast, EndIsLast

\* Every action keeps the invariant, given that callers wait for each other.
LEMMA RestartStep ==
  ASSUME Patient, RestartInvariant, [Next]_vars, NoneScheduled
  PROVE  RestartInvariant'
<1>0. TypeOK' /\ TypeOK
  BY TypeCorrectStep DEF RestartInvariant
<1> SUFFICES RunAlone' /\ HandledLast' /\ EndIsLast' /\ PrepareAlone'
  BY <1>0 DEF RestartInvariant
<1>1. ASSUME NEW p \in Callers, prompt(p)
      PROVE  RunAlone' /\ HandledLast' /\ EndIsLast' /\ PrepareAlone'
  <2>1. Settled' /\ caller' = [caller EXCEPT ![p] = "preparing"] /\ \A q \in Callers : caller[q] = "idle"
    BY <1>1 DEF prompt, Settled, runVars, timerVars
  <2>2. PrepareAlone'
    BY <1>0, <2>1 DEF PrepareAlone, TypeOK, Preparing, Compaction
  <2> QED
    BY <1>1, <2>2 DEF RestartInvariant, prompt, RunAlone, HandledLast, EndIsLast, runVars, timerVars
<1>2. ASSUME NEW p \in Callers, agentPrompt(p)
      PROVE  RunAlone' /\ HandledLast' /\ EndIsLast' /\ PrepareAlone'
  <2> DEFINE e == [type |-> "user", outcome |-> "none"]
  <2>1. Settled /\ \A q \in Callers \ {p} : caller[q] = "idle"
    BY <1>2 DEF agentPrompt, RestartInvariant, PrepareAlone, Preparing
  <2>2. events' = <<e>> /\ caller' = [caller EXCEPT ![p] = "running"]
        /\ handler' = "free" /\ timers' = 0 /\ resumes' = 0
    BY <1>2, <2>1 DEF agentPrompt, Settled, timerVars
  <2>3. EndIsLast'
    BY <2>2 DEF EndIsLast
  <2>4. PrepareAlone'
    BY <1>0, <2>1, <2>2 DEF PrepareAlone, TypeOK, Preparing, Compaction
  <2> QED
    BY <2>2, <2>3, <2>4 DEF RunAlone, HandledLast
<1>3. ASSUME NEW p \in Callers, waitForRetry(p)
      PROVE  RunAlone' /\ HandledLast' /\ EndIsLast' /\ PrepareAlone'
  <2>1. UNCHANGED <<running, events, handler, timers, resumes>> /\ caller[p] = "returned"
        /\ caller' = [caller EXCEPT ![p] = IF promise THEN "waiting" ELSE "idle"]
    BY <1>3 DEF waitForRetry, runVars, timerVars
  <2>2. \A q \in Callers : /\ caller'[q] \in Preparing => caller[q] \in Preparing
                           /\ caller[q] = "idle" => caller'[q] = "idle"
    BY <1>0, <2>1 DEF TypeOK, Preparing, Compaction
  <2> QED
    BY <2>1, <2>2, NothingMoves
<1>4. ASSUME NEW p \in Callers, checkBefore(p)
      PROVE  RunAlone' /\ HandledLast' /\ EndIsLast' /\ PrepareAlone'
  <2>1. PICK c : caller' = [caller EXCEPT ![p] = c]
    BY <1>4 DEF checkBefore
  <2>2. caller[p] \in Preparing /\ UNCHANGED <<running, events, handler, timers, resumes>>
    BY <1>4 DEF checkBefore, Preparing, timerVars
  <2> QED
    BY <2>1, <2>2, StillAlone
<1>5. ASSUME NEW p \in Callers, compactBefore(p)
      PROVE  RunAlone' /\ HandledLast' /\ EndIsLast' /\ PrepareAlone'
  <2>1. caller[p] \in Preparing /\ UNCHANGED <<running, events, handler>>
        /\ caller' = [caller EXCEPT ![p] = "compacted"]
    BY <1>5 DEF compactBefore, compactionEnds, Preparing
  <2>2. UNCHANGED <<timers, resumes>>
    BY <1>5 DEF NoneScheduled, timerVars
  <2> QED
    BY <2>1, <2>2, StillAlone
<1>6. CASE abort \/ changeQueue
  <2>1. UNCHANGED <<running, events, handler, timers, resumes>>
    BY <1>6 DEF abort, changeQueue, timerVars
  <2>2. \A p \in Callers : caller'[p] \in {caller[p], "idle"}
    BY <1>6 DEF abort, changeQueue, _resolveRetry
  <2> QED
    BY <2>1, <2>2, NothingMoves DEF Preparing, Compaction
<1>7. CASE toolTurn
  <2>1. [type |-> "turn", outcome |-> "good"] \in Event
    BY DEF Event, Outcome, Good
  <2> QED
    BY <1>7, <2>1, RunGoesOn DEF toolTurn, timerVars
<1>8. CASE takeQueued
  <2>1. [type |-> "user", outcome |-> "none"] \in Event
    BY DEF Event
  <2> QED
    BY <1>8, <2>1, RunGoesOn DEF takeQueued, timerVars
<1>9. ASSUME NEW out \in Outcomes \cup {"aborted"}, runEnds(out)
      PROVE  RunAlone' /\ HandledLast' /\ EndIsLast' /\ PrepareAlone'
  <2> DEFINE ends == <<[type |-> "message_end", outcome |-> out],
                       [type |-> "agent_end", outcome |-> out]>>
  <2>1. running /\ handler = "free" /\ timers = 0 /\ resumes = 0 /\ events' = events \o ends
        /\ ~running' /\ UNCHANGED <<handler, timers, resumes>>
    BY <1>9 DEF runEnds, emitEnd, RestartInvariant, RunAlone, timerVars
  <2>2. /\ Len(events') = Len(events) + 2 /\ Len(events) \in Nat
        /\ \A i \in 1..Len(events) : events'[i] = events[i]
        /\ events'[Len(events) + 1] = ends[1]
    <3>1. events \in Seq(Event) /\ ends \in Seq(Event) /\ Len(ends) = 2 /\ Len(events) \in Nat
      BY <1>0, RetryAssumption DEF TypeOK, Event, Outcome
    <3>2. /\ Len(events \o ends) = Len(events) + Len(ends)
          /\ \A i \in 1..Len(events) + Len(ends) :
               (events \o ends)[i] = IF i <= Len(events) THEN events[i] ELSE ends[i - Len(events)]
      BY ONLY <3>1, ConcatProperties
    <3>3. (Len(events) + 1) - Len(events) = 1 /\ Len(events) + 1 \in 1..Len(events) + Len(ends)
          /\ ~(Len(events) + 1 <= Len(events))
      BY <3>1
    <3> QED
      BY <2>1, <3>1, <3>2, <3>3
  <2>3. EndIsLast'
    <3> SUFFICES ASSUME NEW i \in 1..Len(events'), events'[i].type = "agent_end"
                 PROVE  i = Len(events')
      BY <2>1 DEF EndIsLast
    <3>1. i \notin 1..Len(events)
      BY <2>1, <2>2 DEF RestartInvariant, EndIsLast
    <3>2. i # Len(events) + 1
      BY <2>2
    <3> QED
      BY <2>2, <3>1, <3>2
  <2>4. PrepareAlone'
    <3>1. \A p \in Callers : caller'[p] \in Preparing => caller[p] \in Preparing
      BY <1>9 DEF runEnds, emitEnd, Preparing, Compaction
    <3> QED
      BY <2>1, <3>1, BusyMeansNoPrompt DEF Settled
  <2> QED
    BY <2>1, <2>3, <2>4 DEF RunAlone, HandledLast
<1>10. CASE continue
  <2>1. timers' = 0 /\ resumes' = 0 /\ handler = "free" /\ handler' = "free" /\ events = <<>>
        /\ UNCHANGED caller /\ ~Settled
    BY <1>10, <1>0 DEF continue, RestartInvariant, HandledLast, TypeOK, Settled
  <2>2. PrepareAlone'
    BY <2>1, BusyMeansNoPrompt
  <2>3. events' = <<>> \/ events' = <<[type |-> "user", outcome |-> "none"]>>
    BY <1>10, <2>1 DEF continue, agentContinue
  <2>4. EndIsLast'
    BY <2>3 DEF EndIsLast
  <2> QED
    BY <2>1, <2>2, <2>4 DEF RunAlone, HandledLast
<1>11. CASE processUser
  <2>1. Take("user") /\ UNCHANGED <<running, handler, timers, resumes, caller>>
    BY <1>11 DEF processUser, runVars, timerVars
  <2> QED
    BY <2>1, EndStaysLast, BusyMeansNoPrompt DEF Take, Settled
<1>12. ASSUME NEW type, type # "agent_end", processMessageEnd(type)
       PROVE  RunAlone' /\ HandledLast' /\ EndIsLast' /\ PrepareAlone'
  <2>1. Take(type) /\ UNCHANGED <<running, handler, timers, resumes>>
    BY <1>12 DEF processMessageEnd, runVars, timerVars
  <2>2. \A p \in Callers : caller'[p] \in Preparing => caller[p] \in Preparing
    BY <1>12 DEF processMessageEnd, handleSuccessfulResponse, _resolveRetry, Preparing, Compaction
  <2> QED
    BY <1>12, <2>1, <2>2, EndStaysLast, BusyMeansNoPrompt DEF Take, Settled
<1>13. CASE handleRetryableError
  <2>1. Take("agent_end") /\ UNCHANGED <<running, resumes>>
    BY <1>13 DEF handleRetryableError
  <2>2. events' = <<>> /\ ~running' /\ timers = 0 /\ resumes' = 0
    BY <2>1, EndIsAlone
  <2>3. \A p \in Callers : caller'[p] \in Preparing => caller[p] \in Preparing
    BY <1>13 DEF handleRetryableError, retryAtOnce, backOff, giveUp, _resolveRetry, Preparing, Compaction
  <2>4. (timers' = 1 /\ handler' = "free") \/ timers' = 0
    BY <1>13, <2>2 DEF handleRetryableError, retryAtOnce, backOff, giveUp
  <2>5. PrepareAlone'
    BY <2>1, <2>3, BusyMeansNoPrompt DEF Take, Settled
  <2> QED
    BY <2>2, <2>4, <2>5 DEF RunAlone, HandledLast, EndIsLast
<1>14. CASE findFallback
  <2>1. handler = "fallback" /\ UNCHANGED <<running, events, resumes>>
    BY <1>14 DEF findFallback
  <2>2. events' = <<>> /\ ~running' /\ timers = 0 /\ resumes' = 0
    BY <2>1 DEF RestartInvariant, RunAlone, HandledLast
  <2>3. \A p \in Callers : caller'[p] \in Preparing => caller[p] \in Preparing
    BY <1>14 DEF findFallback, retryAtOnce, backOff, giveUp, _resolveRetry, Preparing, Compaction
  <2>4. (timers' = 1 /\ handler' = "free") \/ timers' = 0
    BY <1>14, <2>2 DEF findFallback, retryAtOnce, backOff, giveUp
  <2>5. PrepareAlone'
    BY <2>1, <2>3, BusyMeansNoPrompt DEF Settled
  <2> QED
    BY <2>2, <2>4, <2>5 DEF RunAlone, HandledLast, EndIsLast
<1>15. CASE sleepEnds
  <2>1. handler = "sleep" /\ UNCHANGED <<running, events, resumes>>
    BY <1>15 DEF sleepEnds
  <2>2. events' = <<>> /\ ~running' /\ timers = 0 /\ resumes' = 0
    BY <2>1 DEF RestartInvariant, RunAlone, HandledLast
  <2>3. \A p \in Callers : caller'[p] \in Preparing => caller[p] \in Preparing
    BY <1>15 DEF sleepEnds, giveUp, _resolveRetry, Preparing, Compaction
  <2>4. (timers' = 1 /\ handler' = "free") \/ timers' = 0
    BY <1>15, <2>2 DEF sleepEnds, giveUp
  <2>5. PrepareAlone'
    BY <2>1, <2>3, BusyMeansNoPrompt DEF Settled
  <2> QED
    BY <2>1, <2>2, <2>4, <2>5 DEF RunAlone, HandledLast, EndIsLast
<1>16. CASE checkCompaction
  <2>1. Take("agent_end") /\ UNCHANGED <<running, timers, resumes, caller>>
    BY <1>16 DEF checkCompaction, checkedEnd
  <2>2. events' = <<>> /\ ~running' /\ timers' = 0 /\ resumes' = 0
    BY <2>1, EndIsAlone
  <2>3. PrepareAlone'
    BY <2>1, BusyMeansNoPrompt DEF Take, Settled
  <2> QED
    BY <2>2, <2>3 DEF RunAlone, HandledLast, EndIsLast
<1>17. CASE _runAutoCompaction
  <2>1. handler \in Compaction /\ handler' = "free" /\ UNCHANGED <<running, events, caller>>
        /\ handler # "free"
    BY <1>17 DEF _runAutoCompaction, compactionEnds, Compaction
  <2>2. events' = <<>> /\ ~running' /\ timers = 0 /\ resumes = 0
    BY <2>1 DEF RestartInvariant, RunAlone, HandledLast
  <2>3. \/ timers' = 0 /\ resumes' = 0
        \/ timers' = 1 /\ resumes' = 0
        \/ timers' = 0 /\ resumes' = 1
    BY <1>17, <2>2 DEF _runAutoCompaction, compactionEnds, timerVars
  <2>4. PrepareAlone'
    BY <2>1, BusyMeansNoPrompt DEF Settled
  <2> QED
    BY <2>1, <2>2, <2>3, <2>4 DEF RunAlone, HandledLast, EndIsLast
<1>18. CASE UNCHANGED vars
  BY <1>18, NothingMoves DEF vars, runVars, timerVars
<1> QED
  BY <1>1, <1>2, <1>3, <1>4, <1>5, <1>6, <1>7, <1>8, <1>9, <1>10, <1>11, <1>12, <1>13, <1>14,
     <1>15, <1>16, <1>17, <1>18
     DEF Next, Steer, GoOn, Call, End, Process

\* A step of the history is one of the system, and tells what it has seen.
LEMMA HistoryTells ==
  ASSUME [HistoryNext]_historyVars
  PROVE  /\ [Next]_vars
         /\ ~beside' => ~beside /\ NoneScheduled
         /\ ~buried' => ~buried /\ (~Recovers /\ Recovers' => Reloaded("overflow") = {"user"})
<1>1. CASE HistoryNext
  BY <1>1 DEF HistoryNext, Next, NoneScheduled
<1>2. CASE UNCHANGED historyVars
  BY <1>2 DEF historyVars, vars, NoneScheduled, timerVars, Recovers
<1> QED
  BY <1>1, <1>2

\* What holds until prompt()'s own check schedules a restart.
ApartInvariant == ~beside => RestartInvariant

LEMMA ApartHolds ==
  ASSUME Patient
  PROVE  HistorySpec => []ApartInvariant
<1>1. HistoryInit => ApartInvariant
  BY RestartInit DEF HistoryInit, ApartInvariant
<1>2. ApartInvariant /\ [HistoryNext]_historyVars => ApartInvariant'
  BY HistoryTells, RestartStep DEF ApartInvariant
<1> QED
  BY <1>1, <1>2, PTL DEF HistorySpec

\* With callers that wait for each other, two restarts of the agent, or a restart and a
\* run, never compete (the timers of retry-handler.ts:160, 196, 289 and
\* compaction-orchestrator.ts:405, 408-411 against each other and against prompt()), until
\* the check at the begin of prompt() (agent-session.ts:1107-1111) sets one of them.
THEOREM RestartsDoNotRace ==
  ASSUME Patient
  PROVE  HistorySpec => []ApartOneRestart
<1>1. RestartInvariant => OneRestart
  BY DEF RestartInvariant, RunAlone, HandledLast, OneRestart, TypeOK
<1>2. ApartInvariant => ApartOneRestart
  BY <1>1 DEF ApartInvariant, ApartOneRestart
<1> QED
  BY <1>2, ApartHolds, PTL

-----------------------------------------------------------------------------
(***************************************************************************)
(* What is taken back is the message that failed.  _lastAssistantMessage   *)
(* is set when the event before agent_end is processed, the message is     *)
(* removed from the agent's state later still: they are the same because   *)
(* nothing is said between the end of a run and the handling of it.        *)
(***************************************************************************)

\* The end of a run stands behind its last message, in the queue, in the transcript and
\* in the file.
EndTells ==
  \A i \in 1..Len(events) : events[i].type = "agent_end" =>
    /\ i = 1 => lastAssistant = top /\ saved = top
    /\ i > 1 => events[i - 1].type = "message_end" /\ events[i - 1].outcome = top

\* When an answer stands last without a run, the file ends with an answer too, or the
\* run's end is still in the queue.
LastIsSaved ==
  ~running /\ top \in Outcome =>
    IF events = <<>> THEN saved # "user" ELSE events[Len(events)].type = "agent_end"

TopInvariant ==
  /\ EndTells /\ LastIsSaved
  /\ handler = "fallback" => top \in Retryable
  /\ handler = "overflow" => top \notin Outcome
  /\ \A p \in Callers : caller[p] = "overflow" => top \notin Outcome

\* Behind a retry that is to come stands no answer.
BehindUser ==
  /\ handler = "sleep" \/ timers > 0 => top = "user"
  /\ handler = "overflow" => top = "user" /\ Reloaded("overflow") = {"user"}

\* Who handles the end of a run knows its last message, and so does the file.
LEMMA EndIsOfTop ==
  ASSUME RestartInvariant, TopInvariant, Take("agent_end")
  PROVE  lastAssistant = top /\ saved = top
<1>1. events \in Seq(Event) /\ events # <<>> /\ Head(events).type = "agent_end"
  BY DEF RestartInvariant, TypeOK, Take, Event
<1>2. Head(events) = events[1] /\ 1 \in 1..Len(events)
  BY ONLY <1>1, HeadTailProperties, EmptySeq, LenProperties
<1> QED
  BY <1>1, <1>2 DEF TopInvariant, EndTells

\* Who takes an event prepares no prompt, nor compacts for one.
LEMMA TakingIsApart ==
  ASSUME RestartInvariant, ~Settled, NEW p \in Callers
  PROVE  caller[p] \notin Preparing
BY DEF RestartInvariant, PrepareAlone

\* Taking another event brings the end of a run closer, and its message with it.
LEMMA EndStillTells ==
  ASSUME RestartInvariant, TopInvariant, NEW type, Take(type), type # "agent_end",
         UNCHANGED <<running, top, handler>>,
         type = "message_end" => lastAssistant' = Head(events).outcome /\ saved' = lastAssistant',
         \A p \in Callers : caller'[p] \in Preparing => caller[p] \in Preparing
  PROVE  TopInvariant'
<1>1. events \in Seq(Event) /\ events # <<>> /\ events' = Tail(events)
      /\ Head(events).type = type /\ handler = "free"
  BY DEF RestartInvariant, TypeOK, Take, Event
<1>2. /\ Len(events') = Len(events) - 1 /\ Len(events) \in Nat /\ Head(events) = events[1]
      /\ events' \in Seq(Event) /\ Len(events) > 0
      /\ \A i \in 1..Len(events') : events'[i] = events[i + 1]
  BY ONLY <1>1, HeadTailProperties, LenProperties, EmptySeq
<1>3. EndTells'
  <2> SUFFICES ASSUME NEW i \in 1..Len(events'), events'[i].type = "agent_end"
               PROVE  /\ i = 1 => lastAssistant' = top /\ saved' = top
                      /\ i > 1 => events'[i - 1].type = "message_end" /\ events'[i - 1].outcome = top
    BY DEF EndTells
  <2>1. i + 1 \in 1..Len(events) /\ i + 1 > 1 /\ (i + 1) - 1 = i /\ events[i + 1].type = "agent_end"
    BY <1>2
  <2>2. events[i].type = "message_end" /\ events[i].outcome = top
    BY <2>1 DEF TopInvariant, EndTells
  <2>3. CASE i = 1
    BY <1>1, <1>2, <2>2, <2>3
  <2>4. CASE i > 1
    <3>1. i - 1 \in 1..Len(events') /\ (i - 1) + 1 = i
      BY <2>4
    <3> QED
      BY <1>2, <2>2, <2>4, <3>1
  <2> QED
    BY <2>3, <2>4
<1>4. LastIsSaved'
  <2> SUFFICES ASSUME ~running, top \in Outcome
               PROVE  events' # <<>> /\ events'[Len(events')].type = "agent_end"
    BY DEF LastIsSaved
  <2>1. events[Len(events)].type = "agent_end"
    BY <1>1 DEF TopInvariant, LastIsSaved
  <2>2. Len(events) # 1
    BY <1>1, <1>2, <2>1
  <2>3. Len(events') \in 1..Len(events') /\ Len(events') + 1 = Len(events)
    BY <1>2, <2>2
  <2>4. events'[Len(events')] = events[Len(events)]
    BY <1>2, <2>3
  <2>5. Len(<<>>) = 0
    OBVIOUS
  <2> QED
    BY <2>1, <2>3, <2>4, <2>5
<1>5. \A p \in Callers : caller'[p] # "overflow"
  <2>1. ~Settled
    BY <1>1 DEF Settled
  <2> QED
    BY <2>1, TakingIsApart DEF Preparing, Compaction
<1>6. handler' = "free"
  BY <1>1
<1> QED
  BY <1>3, <1>4, <1>5, <1>6 DEF TopInvariant

\* A step that leaves all of this alone and begins no recovery.
LEMMA TopStays ==
  ASSUME TopInvariant, UNCHANGED <<running, top, saved, events, lastAssistant, handler>>,
         \A p \in Callers : caller'[p] = "overflow" => caller[p] = "overflow"
  PROVE  TopInvariant'
BY DEF TopInvariant, EndTells, LastIsSaved

\* What follows the handling of the end of a run, and the end of a compaction.
LEMMA TopWhenQuiet ==
  ASSUME RestartInvariant, ~Settled, events' = <<>>,
         \A p \in Callers : caller'[p] \in Preparing => caller[p] \in Preparing,
         top' \in Outcome => saved' # "user",
         handler' = "fallback" => top' \in Retryable,
         handler' = "overflow" => top' \notin Outcome
  PROVE  TopInvariant'
<1>1. \A p \in Callers : caller'[p] # "overflow"
  BY TakingIsApart DEF Preparing, Compaction
<1>2. EndTells' /\ LastIsSaved'
  BY DEF EndTells, LastIsSaved
<1> QED
  BY <1>1, <1>2 DEF TopInvariant

\* Every action keeps the last message and what is known of it together.
LEMMA TopStep ==
  ASSUME Patient, RestartInvariant, RestartInvariant', TopInvariant, [Next]_vars, NoneScheduled
  PROVE  TopInvariant'
<1>0. TypeOK
  BY DEF RestartInvariant
<1>1. ASSUME NEW p \in Callers, prompt(p) \/ waitForRetry(p)
      PROVE  TopInvariant'
  <2>1. UNCHANGED <<running, top, saved, below, events, lastAssistant, handler, timers>>
    BY <1>1 DEF prompt, waitForRetry, runVars, fileVars, timerVars
  <2>2. \A q \in Callers : caller'[q] = "overflow" => caller[q] = "overflow"
    BY <1>0, <1>1 DEF prompt, waitForRetry, TypeOK
  <2> QED
    BY <2>1, <2>2, TopStays
<1>2. ASSUME NEW p \in Callers, checkBefore(p)
      PROVE  TopInvariant'
  <2>1. /\ UNCHANGED <<running, saved, below, events, lastAssistant, handler, timers>>
        /\ caller[p] = "preparing"
        /\ \/ _removeLastAssistantError /\ caller' = [caller EXCEPT ![p] = "overflow"]
           \/ UNCHANGED top /\ caller' = [caller EXCEPT ![p] = "threshold"]
    BY <1>2 DEF checkBefore, fileVars, timerVars
  <2>2. /\ events = <<>> /\ timers = 0 /\ handler = "free" /\ ~running
        /\ \A q \in Callers \ {p} : caller[q] = "idle"
    BY <2>1 DEF RestartInvariant, PrepareAlone, Settled, Preparing
  <2>3. CASE _removeLastAssistantError
    <3>1. top' \notin Outcome
      BY <2>3 DEF _removeLastAssistantError, Outcome, Failed, Retryable, Good
    <3>2. EndTells' /\ LastIsSaved'
      BY <2>1, <2>2, <3>1 DEF EndTells, LastIsSaved
    <3> QED
      BY <2>1, <2>2, <3>1, <3>2 DEF TopInvariant
  <2>4. CASE UNCHANGED top /\ caller' = [caller EXCEPT ![p] = "threshold"]
    <3>1. \A q \in Callers : caller'[q] = "overflow" => caller[q] = "overflow"
      BY <1>0, <2>4 DEF TypeOK
    <3> QED
      BY <2>1, <2>4, <3>1, TopStays
  <2> QED
    BY <2>1, <2>3, <2>4
<1>3. ASSUME NEW p \in Callers, compactBefore(p)
      PROVE  TopInvariant'
  <2>1. caller[p] \in Compaction /\ caller' = [caller EXCEPT ![p] = "compacted"]
        /\ UNCHANGED <<running, saved, below, events, lastAssistant, handler, timers, resumes>>
    BY <1>3 DEF compactBefore, compactionEnds, NoneScheduled, fileVars, timerVars
  <2>2. Settled /\ \A q \in Callers \ {p} : caller[q] = "idle"
    BY <2>1 DEF RestartInvariant, PrepareAlone, Preparing
  <2>3. \A q \in Callers : caller'[q] # "overflow"
    BY <1>0, <2>1, <2>2 DEF TypeOK
  <2>4. UNCHANGED top \/ top' = saved
    <3>1. timers \in Nat /\ timers' = timers
      BY <1>0, <2>1 DEF TypeOK
    <3> QED
      BY <1>3, <3>1 DEF compactBefore, compactionEnds, Reloaded, Compaction
  <2>5. top' \in Outcome => saved' # "user"
    BY <2>1, <2>2, <2>4 DEF TopInvariant, LastIsSaved, Settled, Outcome, Failed, Retryable, Good
  <2>6. EndTells' /\ LastIsSaved'
    BY <2>1, <2>2, <2>5 DEF EndTells, LastIsSaved, Settled
  <2> QED
    BY <2>1, <2>2, <2>3, <2>6 DEF TopInvariant, Settled
<1>4. ASSUME NEW p \in Callers, agentPrompt(p)
      PROVE  TopInvariant'
  <2>1. Settled /\ \A q \in Callers \ {p} : caller[q] = "idle"
    BY <1>4 DEF agentPrompt, RestartInvariant, PrepareAlone, Preparing
  <2>2. events' = <<[type |-> "user", outcome |-> "none"]>> /\ handler' = "free" /\ timers' = 0
        /\ running' /\ caller' = [caller EXCEPT ![p] = "running"]
    BY <1>4, <2>1 DEF agentPrompt, Settled, timerVars
  <2>3. EndTells' /\ LastIsSaved'
    BY <2>2 DEF EndTells, LastIsSaved
  <2>4. \A q \in Callers : caller'[q] # "overflow"
    BY <1>0, <2>1, <2>2 DEF TypeOK
  <2> QED
    BY <2>2, <2>3, <2>4 DEF TopInvariant
<1>5. CASE abort \/ changeQueue \/ UNCHANGED vars
  <2>1. UNCHANGED <<running, top, saved, below, events, lastAssistant, handler, timers>>
    BY <1>5 DEF abort, changeQueue, vars, runVars, fileVars, timerVars
  <2>2. \A q \in Callers : caller'[q] = "overflow" => caller[q] = "overflow"
    BY <1>5 DEF abort, changeQueue, _resolveRetry, vars
  <2> QED
    BY <2>1, <2>2, TopStays
<1>6. CASE toolTurn \/ takeQueued
  <2>1. running /\ running' /\ handler = "free" /\ handler' = "free" /\ timers = 0 /\ timers' = 0
        /\ UNCHANGED caller
    BY <1>6 DEF toolTurn, takeQueued, timerVars, RestartInvariant, RunAlone
  <2>2. EndTells' /\ LastIsSaved'
    BY <2>1 DEF RestartInvariant, EndIsLast, EndTells, LastIsSaved
  <2>3. ~Settled
    BY <2>1 DEF Settled
  <2>4. \A q \in Callers : caller'[q] # "overflow"
    BY <2>1, <2>3, TakingIsApart DEF Preparing, Compaction
  <2> QED
    BY <2>1, <2>2, <2>4 DEF TopInvariant
<1>7. ASSUME NEW out \in Outcomes \cup {"aborted"}, runEnds(out)
      PROVE  TopInvariant'
  <2> DEFINE ends == <<[type |-> "message_end", outcome |-> out],
                       [type |-> "agent_end", outcome |-> out]>>
  <2>1. /\ running /\ handler' = "free" /\ timers' = 0 /\ events' = events \o ends /\ top' = out
        /\ caller' = [p \in Callers |-> IF caller[p] = "running" THEN "returned" ELSE caller[p]]
    BY <1>7 DEF runEnds, emitEnd, RestartInvariant, RunAlone, timerVars
  <2>2. /\ Len(events') = Len(events) + 2 /\ Len(events) \in Nat
        /\ events'[Len(events) + 1] = ends[1] /\ events'[Len(events) + 2] = ends[2]
    <3>1. events \in Seq(Event) /\ ends \in Seq(Event) /\ Len(ends) = 2 /\ Len(events) \in Nat
      BY <1>0, RetryAssumption DEF TypeOK, Event, Outcome
    <3>2. /\ Len(events \o ends) = Len(events) + Len(ends)
          /\ \A i \in 1..Len(events) + Len(ends) :
               (events \o ends)[i] = IF i <= Len(events) THEN events[i] ELSE ends[i - Len(events)]
      BY ONLY <3>1, ConcatProperties
    <3>3. /\ (Len(events) + 1) - Len(events) = 1 /\ Len(events) + 1 \in 1..Len(events) + Len(ends)
          /\ (Len(events) + 2) - Len(events) = 2 /\ Len(events) + 2 \in 1..Len(events) + Len(ends)
          /\ ~(Len(events) + 1 <= Len(events)) /\ ~(Len(events) + 2 <= Len(events))
      BY <3>1
    <3> HIDE DEF ends
    <3> QED
      BY <2>1, <3>1, <3>2, <3>3
  <2>3. EndTells'
    <3> SUFFICES ASSUME NEW i \in 1..Len(events'), events'[i].type = "agent_end"
                 PROVE  i > 1 /\ events'[i - 1].type = "message_end" /\ events'[i - 1].outcome = out
      <4>1. top' = out
        BY <2>1
      <4> QED
        BY <4>1 DEF EndTells
    <3>1. i = Len(events')
      BY DEF RestartInvariant, EndIsLast
    <3>2. i > 1 /\ i - 1 = Len(events) + 1
      BY <2>2, <3>1
    <3> QED
      BY <2>2, <3>2
  <2>4. LastIsSaved'
    <3>1. events'[Len(events')].type = "agent_end" /\ Len(events') # 0
      BY <2>2
    <3>2. events' # <<>>
      BY <3>1
    <3> QED
      BY <3>1, <3>2 DEF LastIsSaved
  <2>5. \A q \in Callers : caller'[q] # "overflow"
    <3>1. ~Settled
      BY <2>1 DEF Settled
    <3> QED
      BY <2>1, <3>1, TakingIsApart DEF Preparing, Compaction
  <2> QED
    BY <2>1, <2>3, <2>4, <2>5 DEF TopInvariant
<1>8. CASE continue
  <2>1. timers' = 0 /\ handler' = "free" /\ events = <<>> /\ ~Settled /\ UNCHANGED <<saved, caller>>
    BY <1>8, <1>0 DEF continue, RestartInvariant, HandledLast, TypeOK, fileVars, Settled
  <2>2. \/ UNCHANGED <<running, top, events>>
        \/ running' /\ (events' = events \/ events' = Append(events, [type |-> "user", outcome |-> "none"]))
    BY <1>8 DEF continue, agentContinue
  <2>3. EndTells'
    <3>1. events' = <<>> \/ events' = <<[type |-> "user", outcome |-> "none"]>>
      BY <2>1, <2>2
    <3> QED
      BY <3>1 DEF EndTells
  <2>4. LastIsSaved'
    BY <2>1, <2>2 DEF TopInvariant, LastIsSaved
  <2>5. \A q \in Callers : caller'[q] # "overflow"
    BY <2>1, TakingIsApart DEF Preparing, Compaction
  <2> QED
    BY <2>1, <2>3, <2>4, <2>5 DEF TopInvariant
<1>9. CASE processUser
  BY <1>9, EndStillTells DEF processUser, runVars, timerVars
<1>10. ASSUME NEW type, type # "agent_end", type = "turn" \/ type = "message_end", processMessageEnd(type)
       PROVE  TopInvariant'
  <2>1. Take(type) /\ UNCHANGED <<running, top, handler, timers>> /\ lastAssistant' = Head(events).outcome
        /\ (type = "message_end" => saved' = lastAssistant')
    BY <1>10 DEF processMessageEnd, appendMessage, runVars, timerVars
  <2>2. \A p \in Callers : caller'[p] \in Preparing => caller[p] \in Preparing
    BY <1>10 DEF processMessageEnd, handleSuccessfulResponse, _resolveRetry, Preparing, Compaction
  <2> QED
    BY <1>10, <2>1, <2>2, EndStillTells
<1>11. CASE handleRetryableError
  <2>1. Take("agent_end") /\ lastAssistant \in Retryable /\ UNCHANGED saved
    BY <1>11 DEF handleRetryableError, fileVars
  <2>2. events' = <<>> /\ timers = 0 /\ handler = "free" /\ top \in Retryable /\ saved = top /\ ~Settled
    BY <2>1, EndIsAlone, EndIsOfTop DEF Take, Settled
  <2>3. /\ handler' = "fallback" => top' \in Retryable
        /\ handler' # "overflow"
        /\ top' = top \/ top' = "user"
    BY <1>11, <2>2
       DEF handleRetryableError, retryAtOnce, backOff, giveUp, noRetry, _removeLastAssistantError, Outcome, Failed
  <2>4. \A p \in Callers : caller'[p] \in Preparing => caller[p] \in Preparing
    BY <1>11 DEF handleRetryableError, retryAtOnce, backOff, giveUp, _resolveRetry, Preparing, Compaction
  <2>5. "user" \notin Outcome
    BY DEF Outcome, Failed, Retryable, Good
  <2> QED
    BY <2>1, <2>2, <2>3, <2>4, <2>5, TopWhenQuiet
<1>12. CASE findFallback
  <2>1. handler = "fallback" /\ UNCHANGED <<events, saved>> /\ top \in Retryable
    BY <1>12 DEF findFallback, TopInvariant, fileVars
  <2>2. events' = <<>> /\ timers = 0 /\ ~Settled /\ ~running
    BY <2>1 DEF RestartInvariant, HandledLast, RunAlone, Settled
  <2>3. /\ handler' # "fallback" /\ handler' # "overflow"
        /\ top' = top \/ top' = "user"
    BY <1>12, <2>1, <2>2
       DEF findFallback, retryAtOnce, backOff, giveUp, noRetry, _removeLastAssistantError, Outcome, Failed
  <2>4. \A p \in Callers : caller'[p] \in Preparing => caller[p] \in Preparing
    BY <1>12 DEF findFallback, retryAtOnce, backOff, giveUp, _resolveRetry, Preparing, Compaction
  <2>5. "user" \notin Outcome
    BY DEF Outcome, Failed, Retryable, Good
  <2>6. top \in Outcome => saved # "user"
    BY <2>1, <2>2 DEF TopInvariant, LastIsSaved
  <2> QED
    BY <2>1, <2>2, <2>3, <2>4, <2>5, <2>6, TopWhenQuiet
<1>13. CASE sleepEnds
  <2>1. handler = "sleep" /\ handler' \in {"free", "threshold"} /\ UNCHANGED <<running, saved, top, events>>
    BY <1>13 DEF sleepEnds, giveUp, noRetry, fileVars
  <2>2. events' = <<>> /\ (top' \in Outcome => saved' # "user") /\ ~Settled
    BY <2>1 DEF RestartInvariant, RunAlone, HandledLast, TopInvariant, LastIsSaved, Settled
  <2>3. \A p \in Callers : caller'[p] \in Preparing => caller[p] \in Preparing
    BY <1>13 DEF sleepEnds, giveUp, _resolveRetry, Preparing, Compaction
  <2> QED
    BY <2>1, <2>2, <2>3, TopWhenQuiet
<1>14. CASE checkCompaction
  <2>1. Take("agent_end") /\ UNCHANGED <<saved, caller>>
    BY <1>14 DEF checkCompaction, checkedEnd, fileVars
  <2>2. events' = <<>> /\ timers' = 0 /\ handler = "free" /\ lastAssistant = top /\ saved = top /\ ~Settled
    BY <1>14, <2>1, EndIsAlone, EndIsOfTop DEF checkCompaction, Take, Settled
  <2>3. \/ handler' # "overflow" /\ handler' # "sleep" /\ handler' # "fallback" /\ top' = top
        \/ handler' = "overflow" /\ top' = "user"
    BY <1>14, <2>2 DEF checkCompaction, _removeLastAssistantError, isContextOverflow, Outcome, Failed, Good
  <2>4. "user" \notin Outcome
    BY DEF Outcome, Failed, Retryable, Good
  <2> QED
    BY <2>1, <2>2, <2>3, <2>4, TopWhenQuiet
<1>15. CASE _runAutoCompaction
  <2>1. handler \in Compaction /\ handler' = "free" /\ UNCHANGED <<running, saved, events, caller>>
        /\ handler # "free" /\ compactionEnds(handler)
    BY <1>15 DEF _runAutoCompaction, compactionEnds, Compaction, fileVars
  <2>2. events' = <<>> /\ timers = 0 /\ ~running /\ ~Settled
    BY <2>1 DEF RestartInvariant, HandledLast, RunAlone, Settled
  <2>3. "user" \notin Outcome
    BY DEF Outcome, Failed, Retryable, Good
  <2>4. top' \in Outcome => saved' # "user"
    <3>1. top' = top \/ top' = saved \/ top' = "user" \/ saved \in Failed
      BY <2>1 DEF compactionEnds, Reloaded
    <3>2. top \in Outcome => saved # "user"
      BY <2>1, <2>2 DEF TopInvariant, LastIsSaved
    <3>3. "user" \notin Failed
      BY DEF Failed, Retryable
    <3> QED
      BY <2>1, <2>3, <3>1, <3>2, <3>3
  <2> QED
    BY <2>1, <2>2, <2>4, TopWhenQuiet
<1> QED
  BY <1>1, <1>2, <1>3, <1>4, <1>5, <1>6, <1>7, <1>8, <1>9, <1>10, <1>11, <1>12, <1>13, <1>14, <1>15
     DEF Next, Steer, GoOn, Call, End, Process

\* Every action keeps answers away from what is to be retried, if recoveries begin only
\* where the file has none.
LEMMA BehindStep ==
  ASSUME Patient, RestartInvariant, RestartInvariant', TopInvariant, BehindUser, [Next]_vars, NoneScheduled,
         ~Recovers /\ Recovers' => Reloaded("overflow") = {"user"}
  PROVE  BehindUser'
<1>0. TypeOK
  BY DEF RestartInvariant
<1>1. ASSUME handler' = "free", timers' = 0
      PROVE  BehindUser'
  BY <1>1 DEF BehindUser
<1>2. CASE handleRetryableError
  <2>1. Take("agent_end") /\ lastAssistant \in Retryable
    BY <1>2 DEF handleRetryableError
  <2>2. timers = 0 /\ top \in Retryable
    BY <2>1, EndIsAlone, EndIsOfTop
  <2>3. handler' # "overflow" /\ (handler' = "sleep" \/ timers' > 0 => top' = "user")
    BY <1>2, <2>2
       DEF handleRetryableError, retryAtOnce, backOff, giveUp, noRetry, _removeLastAssistantError, Outcome, Failed
  <2> QED
    BY <2>3 DEF BehindUser
<1>3. CASE findFallback
  <2>1. handler = "fallback" /\ top \in Retryable /\ timers = 0
    BY <1>3 DEF findFallback, TopInvariant, RestartInvariant, HandledLast
  <2>2. handler' # "overflow" /\ (handler' = "sleep" \/ timers' > 0 => top' = "user")
    BY <1>3, <2>1
       DEF findFallback, retryAtOnce, backOff, giveUp, noRetry, _removeLastAssistantError, Outcome, Failed
  <2> QED
    BY <2>2 DEF BehindUser
<1>4. CASE sleepEnds
  BY <1>4 DEF sleepEnds, giveUp, noRetry, BehindUser
<1>5. CASE checkCompaction
  <2>1. Take("agent_end") /\ UNCHANGED <<saved, below, caller, timers>>
    BY <1>5 DEF checkCompaction, checkedEnd, fileVars
  <2>2. timers' = 0 /\ handler = "free" /\ lastAssistant = top /\ ~Settled
    BY <2>1, EndIsAlone, EndIsOfTop DEF Take, Settled
  <2>3. handler' # "sleep" /\ (handler' = "overflow" => top' = "user")
    BY <1>5, <2>2 DEF checkCompaction, _removeLastAssistantError, isContextOverflow, Outcome, Failed, Good
  <2>4. ~Recovers
    BY <2>2, TakingIsApart DEF Recovers, Preparing, Compaction
  <2>5. handler' = "overflow" => Reloaded("overflow")' = {"user"}
    BY <2>1, <2>4 DEF Recovers, Reloaded
  <2> QED
    BY <2>2, <2>3, <2>5 DEF BehindUser
<1>6. CASE _runAutoCompaction
  <2>1. handler \in Compaction /\ handler' = "free" /\ compactionEnds(handler) /\ handler # "free"
    BY <1>6 DEF _runAutoCompaction, Compaction
  <2>2. timers = 0
    BY <2>1 DEF RestartInvariant, HandledLast
  <2>3. timers' > 0 => top' = "user"
    BY <2>1, <2>2 DEF compactionEnds, BehindUser, Compaction, timerVars
  <2> QED
    BY <2>1, <2>3 DEF BehindUser
<1>7. ASSUME NEW p \in Callers, agentPrompt(p) \/ checkBefore(p) \/ compactBefore(p)
      PROVE  BehindUser'
  <2>1. caller[p] \in Preparing
    BY <1>7 DEF agentPrompt, checkBefore, compactBefore, Preparing
  <2>2. handler = "free" /\ timers = 0
    BY <2>1 DEF RestartInvariant, PrepareAlone, Settled
  <2>3. UNCHANGED <<handler, timers>>
    BY <1>7 DEF agentPrompt, checkBefore, compactBefore, NoneScheduled, timerVars
  <2> QED
    BY <1>1, <2>2, <2>3
<1>8. CASE continue
  <2>1. timers' = 0 /\ handler' = "free"
    BY <1>8, <1>0 DEF continue, RestartInvariant, HandledLast, TypeOK
  <2> QED
    BY <1>1, <2>1
<1>9. ASSUME NEW out \in Outcomes \cup {"aborted"}, runEnds(out)
      PROVE  BehindUser'
  BY <1>1, <1>9 DEF runEnds, emitEnd, RestartInvariant, RunAlone, timerVars
<1>10. CASE processUser \/ processMessageEnd("turn") \/ processMessageEnd("message_end")
  <2>1. handler' = "free" /\ UNCHANGED <<top, timers>>
    BY <1>10 DEF processUser, processMessageEnd, Take, runVars, timerVars
  <2> QED
    BY <2>1 DEF BehindUser
<1>11. ASSUME UNCHANGED <<top, saved, below, handler, timers>>
       PROVE  BehindUser'
  BY <1>11 DEF BehindUser, Reloaded
<1>12. ASSUME NEW p \in Callers, prompt(p) \/ waitForRetry(p)
       PROVE  BehindUser'
  BY <1>11, <1>12 DEF prompt, waitForRetry, runVars, fileVars, timerVars
<1>13. CASE abort \/ changeQueue \/ toolTurn \/ takeQueued \/ UNCHANGED vars
  BY <1>11, <1>13 DEF abort, changeQueue, toolTurn, takeQueued, vars, runVars, fileVars, timerVars
<1> QED
  BY <1>2, <1>3, <1>4, <1>5, <1>6, <1>7, <1>8, <1>9, <1>10, <1>12, <1>13
     DEF Next, Steer, GoOn, Call, End, Process

\* What holds until prompt()'s own check schedules a restart, and until, besides, a recovery
\* begins that will find another answer on file.
ClearInvariant == ~beside => TopInvariant /\ (~buried => BehindUser)

LEMMA ClearHolds ==
  ASSUME Patient
  PROVE  HistorySpec => [](ApartInvariant /\ ClearInvariant)
<1>1. HistoryInit => ApartInvariant /\ ClearInvariant
  <2> SUFFICES ASSUME HistoryInit PROVE ApartInvariant /\ ClearInvariant
    OBVIOUS
  <2>1. Init
    BY DEF HistoryInit
  <2>2. RestartInvariant
    BY <2>1, RestartInit
  <2>3. TopInvariant /\ BehindUser
    BY <2>1 DEF Init, TopInvariant, BehindUser, EndTells, LastIsSaved, Outcome, Failed, Retryable, Good
  <2> QED
    BY <2>2, <2>3 DEF ApartInvariant, ClearInvariant
<1>2. (ApartInvariant /\ ClearInvariant) /\ [HistoryNext]_historyVars => (ApartInvariant /\ ClearInvariant)'
  BY HistoryTells, RestartStep, TopStep, BehindStep DEF ApartInvariant, ClearInvariant
<1> QED
  BY <1>1, <1>2, PTL DEF HistorySpec

\* A retry always begins behind the user's message, a tool result or a summary, so that
\* continue() accepts it, whichever of the four timers set it; until prompt()'s own check
\* sets one, or recovery from overflow reloads another answer.
THEOREM RestartsAreAccepted ==
  ASSUME Patient
  PROVE  HistorySpec => []ApartRestartIsAccepted
<1>1. ClearInvariant => ApartRestartIsAccepted
  BY DEF ClearInvariant, BehindUser, ApartRestartIsAccepted, RestartIsAccepted
<1> QED
  BY <1>1, ClearHolds, PTL

\* No retry, no recovery from overflow and no reload from the file takes a good answer
\* back, however long it waits between the failure and the removal, but for the answer that
\* is too large itself, once, to recover; until prompt()'s own check schedules a restart.
THEOREM GoodAnswersStay ==
  ASSUME Patient
  PROVE  HistorySpec => ApartOnlyErrorsRemoved
<1>1. ASSUME RestartInvariant, TopInvariant, [Next]_vars, top \in Good, top' = "user", ~running'
      PROVE  top = "silent" /\ ~recovered /\ recovered'
  <2>0. top \in Outcome /\ top # "user" /\ top \notin Retryable
    BY <1>1 DEF Good, Outcome, Retryable
  <2>1. CASE handleRetryableError \/ checkCompaction
    <3>1. lastAssistant = top
      BY <1>1, <2>1, EndIsOfTop DEF handleRetryableError, checkCompaction, checkedEnd
    <3> QED
      BY <1>1, <2>0, <2>1, <3>1 DEF handleRetryableError, checkCompaction, isContextOverflow, Good
  <2>2. CASE findFallback
    BY <1>1, <2>0, <2>2 DEF findFallback, TopInvariant
  <2>3. ASSUME NEW p \in Callers, prompt(p) \/ agentPrompt(p) \/ waitForRetry(p)
        PROVE  FALSE
    BY <1>1, <2>0, <2>3 DEF prompt, agentPrompt, waitForRetry, runVars
  <2>4. ASSUME NEW p \in Callers, checkBefore(p)
        PROVE  top = "silent" /\ ~recovered /\ recovered'
    BY <1>1, <2>0, <2>4 DEF checkBefore, isContextOverflow, Good
  <2>5. CASE _runAutoCompaction \/ \E p \in Callers : compactBefore(p)
    <3>1. PICK reason \in Compaction : compactionEnds(reason) /\ reason # "overflow" /\ events = <<>>
      <4>1. CASE _runAutoCompaction
        BY <1>1, <2>0, <4>1 DEF _runAutoCompaction, TopInvariant, RestartInvariant, HandledLast, Compaction
      <4>2. ASSUME NEW p \in Callers, compactBefore(p)
            PROVE  compactionEnds(caller[p]) /\ caller[p] \in Compaction /\ caller[p] # "overflow" /\ events = <<>>
        <5>1. caller[p] \in Preparing
          BY <4>2 DEF compactBefore, Preparing
        <5> QED
          BY <1>1, <2>0, <4>2, <5>1
             DEF compactBefore, TopInvariant, RestartInvariant, PrepareAlone, Settled
      <4> QED
        BY <2>5, <4>1, <4>2
    <3>2. saved # "user"
      BY <1>1, <2>0, <3>1 DEF compactionEnds, TopInvariant, LastIsSaved
    <3> QED
      BY <1>1, <2>0, <3>1, <3>2 DEF compactionEnds, Reloaded
  <2>6. ASSUME NEW out \in Outcomes \cup {"aborted"}, runEnds(out)
        PROVE  FALSE
    BY <1>1, <2>6, RetryAssumption DEF runEnds, emitEnd, Outcome, Retryable, Failed, Good
  <2>7. CASE abort \/ changeQueue \/ toolTurn \/ takeQueued \/ continue \/ UNCHANGED vars
    BY <1>1, <2>0, <2>7
       DEF abort, changeQueue, toolTurn, takeQueued, continue, agentContinue, vars, runVars
  <2>8. CASE processUser \/ processMessageEnd("turn") \/ processMessageEnd("message_end") \/ sleepEnds
    BY <1>1, <2>0, <2>8 DEF processUser, processMessageEnd, sleepEnds, giveUp, runVars
  <2> QED
    BY <1>1, <2>1, <2>2, <2>3, <2>4, <2>5, <2>6, <2>7, <2>8 DEF Next, Steer, GoOn, Call, End, Process
<1>2. ApartInvariant /\ ClearInvariant /\ [HistoryNext]_historyVars
      => [~beside =>
            (top \in Good /\ top' = "user" => running' \/ (top = "silent" /\ ~recovered /\ recovered'))]_historyVars
  BY <1>1, HistoryTells DEF ApartInvariant, ClearInvariant
<1> QED
  BY <1>2, ClearHolds, PTL DEF HistorySpec, ApartOnlyErrorsRemoved

-----------------------------------------------------------------------------
(***************************************************************************)
(* The promise that prompt() waits on is there from the end of the failed  *)
(* run to the end of the last retry.  RetryIsAwaited alone is not          *)
(* inductive: nothing in it tells a caller who has returned and will find  *)
(* the promise from one who will not, nor that an answer which resolves    *)
(* the promise is the last message of its run.                             *)
(***************************************************************************)

\* Plain runs leave nothing but one message and its end in the queue, and call for no
\* other provider and no compaction.
PlainSoFar ==
  plain =>
    /\ lastAssistant \in Plain /\ handler \in {"free", "sleep"} /\ ~recovered
    /\ resumes = 0 /\ ~beside /\ ~buried /\ ~Compacts
    /\ \A i \in 1..Len(events) :
         /\ events[i].outcome \in Plain /\ events[i].type # "turn"
         /\ events[i].type = "message_end" => i < Len(events) /\ events[i + 1].type = "agent_end"

\* A call of prompt() waits, or is about to.
Awaits == \E p \in Callers : caller[p] \in {"returned", "waiting"}

\* A failed run is going to be retried, or may be: its end has not been handled, the
\* delay runs, or the timer is set.
EndQueued == \E i \in 1..Len(events) : events[i].type = "agent_end"
Pursued   == handler = "sleep" \/ timers > 0 \/ (EndQueued /\ top \in Retryable)

\* The pursuit of a failed run is awaited, and so is a run, by who prompted for it or by
\* who waits for the retry it is.
PursuitAwaited ==
  plain /\ ~cancelled =>
    /\ Pursued => promise /\ Awaits
    /\ running => (promise /\ Awaits) \/ \E p \in Callers : caller[p] = "running"

PlainInvariant == PlainSoFar /\ PursuitAwaited

\* Events that are taken leave those behind them as they are.
LEMMA TakenLeaves ==
  ASSUME TypeOK, NEW type, Take(type)
  PROVE  /\ Len(events') = Len(events) - 1 /\ Len(events) \in Nat /\ Len(events) > 0
         /\ \A i \in 1..Len(events') : i + 1 \in 1..Len(events) /\ events'[i] = events[i + 1]
         /\ Head(events) = events[1] /\ events[1].type = type
<1>1. events \in Seq(Event) /\ events # <<>> /\ events' = Tail(events) /\ Head(events).type = type
  BY DEF TypeOK, Take, Event
<1>2. /\ Len(events') = Len(events) - 1 /\ Len(events) \in Nat /\ Len(events) > 0
      /\ Head(events) = events[1]
      /\ \A i \in 1..Len(events') : events'[i] = events[i + 1]
  BY ONLY <1>1, HeadTailProperties, LenProperties, EmptySeq
<1>3. \A i \in 1..Len(events') : i + 1 \in 1..Len(events)
  BY ONLY <1>2
<1> QED
  BY <1>1, <1>2, <1>3

\* A queue from which an event was taken is as plain as before, and ends as it did.
LEMMA PlainTaken ==
  ASSUME TypeOK, PlainSoFar, NEW type, Take(type),
         plain' => /\ plain /\ lastAssistant' \in Plain /\ handler' \in {"free", "sleep"}
                   /\ ~recovered' /\ resumes' = 0 /\ ~beside' /\ ~buried' /\ ~Compacts'
  PROVE  PlainSoFar' /\ (EndQueued' => EndQueued)
<1>1. EndQueued' => EndQueued
  BY TakenLeaves DEF EndQueued
<1>2. ASSUME plain, NEW i \in 1..Len(events')
      PROVE  /\ events'[i].outcome \in Plain /\ events'[i].type # "turn"
             /\ events'[i].type = "message_end" => i < Len(events') /\ events'[i + 1].type = "agent_end"
  <2>1. i + 1 \in 1..Len(events) /\ events'[i] = events[i + 1] /\ i \in Nat
        /\ Len(events') = Len(events) - 1 /\ Len(events) \in Nat
    BY <1>2, TakenLeaves
  <2>2. /\ events[i + 1].outcome \in Plain /\ events[i + 1].type # "turn"
        /\ events[i + 1].type = "message_end" => i + 1 < Len(events) /\ events[(i + 1) + 1].type = "agent_end"
    BY <1>2, <2>1 DEF PlainSoFar
  <2>3. ASSUME events'[i].type = "message_end"
        PROVE  i < Len(events') /\ events'[i + 1].type = "agent_end"
    <3>1. i + 1 < Len(events) /\ events[(i + 1) + 1].type = "agent_end"
      BY <2>1, <2>2, <2>3
    <3>2. i < Len(events') /\ i + 1 \in 1..Len(events')
      BY <2>1, <3>1
    <3>3. events'[i + 1] = events[(i + 1) + 1]
      BY <3>2, TakenLeaves
    <3> QED
      BY <3>1, <3>2, <3>3
  <2> QED
    BY <2>1, <2>2, <2>3
<1> QED
  BY <1>1, <1>2 DEF PlainSoFar

\* A plain message at the head of the queue is the last of its run, and stands last in
\* the transcript.
LEMMA PlainMessageIsLast ==
  ASSUME RestartInvariant, TopInvariant, PlainSoFar, plain, Take("message_end")
  PROVE  ~running /\ handler = "free" /\ timers = 0 /\ Head(events).outcome = top
<1>1. Head(events) = events[1] /\ events[1].type = "message_end" /\ Len(events) \in Nat /\ Len(events) > 0
  BY TakenLeaves DEF RestartInvariant
<1>2. 1 \in 1..Len(events) /\ 1 < Len(events) /\ events[1 + 1].type = "agent_end"
  BY <1>1 DEF PlainSoFar
<1>3. 2 \in 1..Len(events) /\ events[2].type = "agent_end" /\ 2 - 1 = 1
  BY <1>1, <1>2
<1>4. ~running /\ handler = "free" /\ timers = 0
  BY <1>3 DEF RestartInvariant, EndIsLast
<1>5. events[1].outcome = top
  BY <1>3 DEF TopInvariant, EndTells
<1> QED
  BY <1>1, <1>4, <1>5

\* When nothing is pursued and no run is on, nobody needs to wait.
LEMMA NobodyNeeded ==
  ASSUME ~running', handler' # "sleep", ~(timers' > 0), EndQueued' => top' \notin Retryable
  PROVE  PursuitAwaited'
BY DEF PursuitAwaited, Pursued

\* While runs are plain nothing compacts, so that nothing schedules a restart beside a
\* prompt and nothing is reloaded.
LEMMA PlainStaysApart ==
  ASSUME PlainInvariant, plain, plain', [HistoryNext]_historyVars
  PROVE  ~beside' /\ ~buried' /\ ~Compacts'
<1>1. ~beside /\ ~buried /\ ~Compacts
  BY DEF PlainInvariant, PlainSoFar
<1>2. CASE UNCHANGED historyVars
  BY <1>1, <1>2 DEF historyVars, vars, Compacts
<1>3. CASE HistoryNext
  <2>1. ~Compacts'
    BY <1>3 DEF HistoryNext
  <2>2. \A p \in Callers : ~compactBefore(p)
    BY <1>1 DEF Compacts, compactBefore
  <2>3. ~Recovers'
    BY <2>1 DEF Compacts, Recovers, Compaction
  <2> QED
    BY <1>1, <1>3, <2>1, <2>2, <2>3 DEF HistoryNext
<1> QED
  BY <1>2, <1>3

\* Every action keeps the invariant, given that callers wait for each other.
LEMMA PlainStep ==
  ASSUME Patient, RestartInvariant, RestartInvariant', TopInvariant, BehindUser, PlainInvariant, plain, plain',
         [HistoryNext]_historyVars
  PROVE  PlainInvariant'
<1>0. TypeOK /\ TypeOK' /\ PlainSoFar /\ PursuitAwaited
  BY DEF RestartInvariant, PlainInvariant
<1>a. ~beside' /\ ~buried' /\ ~Compacts'
  BY PlainStaysApart
<1>d. /\ lastAssistant \in Plain /\ handler \in {"free", "sleep"} /\ ~recovered /\ resumes = 0 /\ ~Compacts
      /\ \A i \in 1..Len(events) :
           /\ events[i].outcome \in Plain /\ events[i].type # "turn"
           /\ events[i].type = "message_end" => i < Len(events) /\ events[i + 1].type = "agent_end"
  BY <1>0 DEF PlainSoFar
<1>b. ASSUME UNCHANGED <<events, lastAssistant, handler, recovered, resumes>>
      PROVE  PlainSoFar'
  BY <1>a, <1>b, <1>d DEF PlainSoFar
<1>c. ASSUME UNCHANGED <<events, top, running, handler, timers, promise, caller, cancelled>>
      PROVE  PursuitAwaited'
  BY <1>0, <1>c DEF PursuitAwaited, Pursued, EndQueued, Awaits
<1> SUFFICES PlainSoFar' /\ PursuitAwaited'
  BY DEF PlainInvariant
<1>1. ASSUME NEW p \in Callers, prompt(p) \/ checkBefore(p)
      PROVE  PlainSoFar' /\ PursuitAwaited'
  <2>1. CASE checkBefore(p)
    <3>1. caller'[p] \in Compaction
      BY <1>0, <2>1 DEF checkBefore, TypeOK, Compaction
    <3> QED
      BY <1>a, <3>1 DEF Compacts
  <2>2. CASE prompt(p)
    <3>1. Settled /\ UNCHANGED <<running, top, events, lastAssistant, handler, recovered, timers, resumes>>
      BY <2>2 DEF prompt, runVars, timerVars
    <3>2. ~EndQueued'
      BY <3>1 DEF Settled, EndQueued
    <3>3. PursuitAwaited'
      BY <3>1, <3>2, NobodyNeeded DEF Settled
    <3> QED
      BY <1>b, <3>1, <3>3
  <2> QED
    BY <1>1, <2>1, <2>2
<1>2. ASSUME NEW p \in Callers, agentPrompt(p)
      PROVE  PlainSoFar' /\ PursuitAwaited'
  <2> DEFINE e == [type |-> "user", outcome |-> "none"]
  <2>1. Settled
    BY <1>2 DEF agentPrompt, RestartInvariant, PrepareAlone, Preparing
  <2>2. events' = <<e>> /\ handler' = "free" /\ timers' = 0 /\ resumes' = 0
        /\ UNCHANGED <<lastAssistant, handler, recovered>>
        /\ caller' = [caller EXCEPT ![p] = "running"]
    BY <1>2, <2>1 DEF agentPrompt, Settled, timerVars
  <2>3. PlainSoFar'
    BY <1>a, <1>d, <2>2 DEF PlainSoFar, Plain
  <2>4. ~Pursued'
    BY <2>2 DEF Pursued, EndQueued
  <2>5. caller'[p] = "running"
    BY <1>0, <2>2 DEF TypeOK
  <2> QED
    BY <2>3, <2>4, <2>5 DEF PursuitAwaited
<1>3. ASSUME NEW p \in Callers, waitForRetry(p)
      PROVE  PlainSoFar' /\ PursuitAwaited'
  <2>1. /\ UNCHANGED <<events, lastAssistant, handler, recovered, top, running, timers, resumes, promise, cancelled>>
        /\ caller[p] = "returned" /\ caller' = [caller EXCEPT ![p] = IF promise THEN "waiting" ELSE "idle"]
    BY <1>3 DEF waitForRetry, runVars, retryVars, timerVars
  <2>2. promise => caller'[p] = "waiting"
    BY <1>0, <2>1 DEF TypeOK
  <2>3. \A q \in Callers : caller[q] = "running" => caller'[q] = "running"
    BY <1>0, <2>1 DEF TypeOK
  <2>4. PursuitAwaited'
    BY <1>0, <2>1, <2>2, <2>3 DEF PursuitAwaited, Pursued, EndQueued, Awaits
  <2> QED
    BY <1>b, <2>1, <2>4
<1>4. CASE abort
  <2>1. /\ UNCHANGED <<events, lastAssistant, handler, recovered, top, running, timers, resumes>>
        /\ cancelled' = (\A p \in Callers : caller[p] \notin Preparing)
    BY <1>4 DEF abort, timerVars
  <2>2. PursuitAwaited'
    <3>1. CASE cancelled'
      BY <3>1 DEF PursuitAwaited
    <3>2. CASE \E p \in Callers : caller[p] \in Preparing
      <4>1. Settled
        BY <3>2 DEF RestartInvariant, PrepareAlone
      <4>2. ~EndQueued'
        BY <2>1, <4>1 DEF Settled, EndQueued
      <4> QED
        BY <2>1, <4>1, <4>2, NobodyNeeded DEF Settled
    <3> QED
      BY <2>1, <3>1, <3>2
  <2> QED
    BY <1>b, <2>1, <2>2
<1>5. CASE toolTurn /\ HistoryNext
  <2> DEFINE e == [type |-> "turn", outcome |-> "good"]
  <2>1. events' = Append(events, e)
    BY <1>5 DEF toolTurn
  <2>2. Len(events') = Len(events) + 1 /\ Len(events) \in Nat /\ events'[Len(events')] = e
    <3>1. events \in Seq(Event) /\ e \in Event
      BY <1>0 DEF TypeOK, Event, Outcome, Good
    <3> QED
      BY ONLY <2>1, <3>1, AppendProperties, LenProperties
  <2>3. Len(events') > Len(events) /\ events'[Len(events')].type = "turn"
    BY <2>2
  <2> QED
    BY <1>5, <2>3 DEF HistoryNext
<1>e. CASE takeQueued
  <2> DEFINE e == [type |-> "user", outcome |-> "none"]
  <2>1. events' = Append(events, e) /\ running /\ handler = "free" /\ timers = 0
        /\ UNCHANGED <<running, top, lastAssistant, handler, recovered, timers, resumes, promise, caller, cancelled>>
    BY <1>e DEF takeQueued, RestartInvariant, RunAlone, timerVars, retryVars
  <2>2. /\ Len(events') = Len(events) + 1 /\ Len(events) \in Nat
        /\ \A i \in 1..Len(events) : events'[i] = events[i]
        /\ events'[Len(events) + 1] = e
    <3>1. events \in Seq(Event) /\ e \in Event
      BY <1>0 DEF TypeOK, Event
    <3> QED
      BY ONLY <2>1, <3>1, AppendProperties, LenProperties
  <2>3. ASSUME NEW i \in 1..Len(events')
        PROVE  /\ events'[i].outcome \in Plain /\ events'[i].type # "turn"
               /\ events'[i].type = "message_end" => i < Len(events') /\ events'[i + 1].type = "agent_end"
    <3>1. CASE i \in 1..Len(events)
      <4>1. i < Len(events) => i + 1 \in 1..Len(events) /\ i < Len(events')
        BY <2>2, <3>1
      <4> QED
        BY <1>d, <2>2, <3>1, <4>1
    <3>2. CASE i = Len(events) + 1
      BY <2>2, <3>2 DEF Plain
    <3>3. i \in 1..Len(events) \/ i = Len(events) + 1
      BY <2>2
    <3> QED
      BY ONLY <3>1, <3>2, <3>3
  <2>4. PlainSoFar'
    BY <1>a, <1>d, <2>1, <2>3 DEF PlainSoFar
  <2>5. ~EndQueued'
    BY <2>1 DEF RestartInvariant, EndIsLast, EndQueued
  <2>6. PursuitAwaited'
    BY <1>0, <2>1, <2>5 DEF PursuitAwaited, Pursued, Awaits
  <2> QED
    BY <2>4, <2>6
<1>f. CASE changeQueue
  BY <1>b, <1>c, <1>f DEF changeQueue, retryVars, timerVars
<1>6. ASSUME NEW out \in Outcomes \cup {"aborted"}, runEnds(out), HistoryNext
      PROVE  PlainSoFar' /\ PursuitAwaited'
  <2> DEFINE ends == <<[type |-> "message_end", outcome |-> out],
                       [type |-> "agent_end", outcome |-> out]>>
  <2>1. /\ running /\ ~running' /\ events' = events \o ends /\ top' = out
        /\ caller' = [p \in Callers |-> IF caller[p] = "running" THEN "returned" ELSE caller[p]]
        /\ UNCHANGED <<lastAssistant, handler, recovered, timers, resumes, cancelled>>
        /\ promise' = (promise \/ out \in Retryable)
    BY <1>6 DEF runEnds, emitEnd, timerVars
  <2>2. /\ Len(events') = Len(events) + 2 /\ Len(events) \in Nat
        /\ \A i \in 1..Len(events) : events'[i] = events[i]
        /\ events'[Len(events) + 1] = ends[1] /\ events'[Len(events) + 2] = ends[2]
    <3>1. events \in Seq(Event) /\ ends \in Seq(Event) /\ Len(ends) = 2 /\ Len(events) \in Nat
      BY <1>0, RetryAssumption DEF TypeOK, Event, Outcome
    <3>2. /\ Len(events \o ends) = Len(events) + Len(ends)
          /\ \A i \in 1..Len(events) + Len(ends) :
               (events \o ends)[i] = IF i <= Len(events) THEN events[i] ELSE ends[i - Len(events)]
      BY ONLY <3>1, ConcatProperties
    <3>3. /\ (Len(events) + 1) - Len(events) = 1 /\ Len(events) + 1 \in 1..Len(events) + Len(ends)
          /\ (Len(events) + 2) - Len(events) = 2 /\ Len(events) + 2 \in 1..Len(events) + Len(ends)
          /\ ~(Len(events) + 1 <= Len(events)) /\ ~(Len(events) + 2 <= Len(events))
          /\ \A i \in 1..Len(events) : i \in 1..Len(events) + Len(ends) /\ i <= Len(events)
      BY <3>1
    <3> HIDE DEF ends
    <3> QED
      BY <2>1, <3>1, <3>2, <3>3
  <2>3. out \in Plain
    <3>1. Len(events') > Len(events) /\ events'[Len(events')] = ends[2] /\ ends[2].outcome = out
      BY <2>2
    <3> QED
      BY <1>6, <3>1 DEF HistoryNext
  <2>4. ASSUME NEW i \in 1..Len(events')
        PROVE  /\ events'[i].outcome \in Plain /\ events'[i].type # "turn"
               /\ events'[i].type = "message_end" => i < Len(events') /\ events'[i + 1].type = "agent_end"
    <3>1. CASE i \in 1..Len(events)
      <4>1. /\ events[i].outcome \in Plain /\ events[i].type # "turn"
            /\ events[i].type = "message_end" => i < Len(events) /\ events[i + 1].type = "agent_end"
        BY <1>d, <3>1
      <4>2. i < Len(events) => i + 1 \in 1..Len(events)
        BY <2>2, <3>1
      <4>3. events'[i] = events[i] /\ (i < Len(events) => events'[i + 1] = events[i + 1] /\ i < Len(events'))
        BY <2>2, <3>1, <4>2
      <4> QED
        BY <4>1, <4>3
    <3>2. CASE i = Len(events) + 1
      <4>1. i + 1 = Len(events) + 2 /\ i < Len(events')
        BY <2>2, <3>2
      <4> QED
        BY <2>2, <2>3, <3>2, <4>1
    <3>3. CASE i = Len(events) + 2
      BY <2>2, <2>3, <3>3
    <3>4. i \in 1..Len(events) \/ i = Len(events) + 1 \/ i = Len(events) + 2
      BY <2>2
    <3> QED
      BY ONLY <3>1, <3>2, <3>3, <3>4
  <2>5. PlainSoFar'
    BY <1>a, <1>d, <2>1, <2>4 DEF PlainSoFar
  <2>6. handler' = "free" /\ timers' = 0
    BY <2>1 DEF RestartInvariant, RunAlone
  <2>7. PursuitAwaited'
    <3>1. CASE out \notin Retryable
      BY <2>1, <2>6, <3>1, NobodyNeeded
    <3>2. CASE out \in Retryable
      <4>1. ~cancelled' => Awaits'
        <5>1. ~cancelled' => Awaits \/ \E p \in Callers : caller[p] = "running"
          BY <1>0, <2>1 DEF PursuitAwaited
        <5>2. \A p \in Callers : caller[p] \in {"running", "returned", "waiting"} =>
                                   caller'[p] \in {"returned", "waiting"}
          BY <2>1
        <5> QED
          BY <5>1, <5>2 DEF Awaits
      <4> QED
        BY <2>1, <3>2, <4>1 DEF PursuitAwaited
    <3> QED
      BY <3>1, <3>2
  <2> QED
    BY <2>5, <2>7
<1>7. CASE continue
  <2>1. timers > 0 /\ events = <<>> /\ handler' = "free" /\ timers' = 0 /\ top = "user"
        /\ UNCHANGED <<lastAssistant, handler, recovered, resumes, promise, caller, cancelled>>
    BY <1>7, <1>0, <1>d DEF continue, RestartInvariant, HandledLast, TypeOK, retryVars, BehindUser
  <2>2. ~cancelled' => promise' /\ Awaits'
    BY <1>0, <2>1 DEF PursuitAwaited, Pursued, Awaits
  <2>3. UNCHANGED events
    BY <1>7, <2>1 DEF continue, agentContinue, Outcome, Failed, Retryable, Good
  <2> QED
    BY <1>b, <2>1, <2>2, <2>3 DEF PursuitAwaited
<1>8. CASE processUser
  <2>1. Take("user") /\ ~recovered'
        /\ UNCHANGED <<running, top, lastAssistant, handler, timers, resumes, promise, caller, cancelled>>
    BY <1>8 DEF processUser, runVars, retryVars, timerVars
  <2>2. PlainSoFar' /\ (EndQueued' => EndQueued)
    BY <1>0, <1>a, <1>d, <2>1, PlainTaken
  <2> QED
    BY <1>0, <2>1, <2>2 DEF PursuitAwaited, Pursued, Awaits
<1>9. CASE processMessageEnd("turn")
  <2>1. Take("turn")
    BY <1>9 DEF processMessageEnd
  <2>2. 1 \in 1..Len(events) /\ events[1].type = "turn"
    BY <1>0, <2>1, TakenLeaves
  <2> QED
    BY <1>d, <2>2
<1>g. CASE processMessageEnd("message_end")
  <2>1. Take("message_end") /\ lastAssistant' = Head(events).outcome
        /\ UNCHANGED <<running, top, handler, timers, resumes, cancelled>>
    BY <1>g DEF processMessageEnd, runVars, timerVars
  <2>2. lastAssistant' \in Plain
    <3>1. Head(events) = events[1] /\ 1 \in 1..Len(events)
      BY <1>0, <2>1, TakenLeaves
    <3> QED
      BY <1>d, <2>1, <3>1
  <2>3. handler' \in {"free", "sleep"} /\ ~recovered' /\ resumes' = 0
    BY <1>d, <1>g, <2>1 DEF processMessageEnd
  <2>4. PlainSoFar' /\ (EndQueued' => EndQueued)
    BY <1>0, <1>a, <2>1, <2>2, <2>3, PlainTaken
  <2>5. PursuitAwaited'
    <3>1. CASE lastAssistant' \notin Failed
      <4>1. ~running /\ handler = "free" /\ timers = 0 /\ top = lastAssistant'
        BY <1>0, <2>1, PlainMessageIsLast
      <4> QED
        BY <2>1, <3>1, <4>1, NobodyNeeded DEF Failed
    <3>2. CASE lastAssistant' \in Failed
      <4>1. UNCHANGED <<promise, caller>>
        BY <1>g, <3>2 DEF processMessageEnd
      <4> QED
        BY <1>0, <2>1, <2>4, <4>1 DEF PursuitAwaited, Pursued, Awaits
    <3> QED
      BY <3>1, <3>2
  <2> QED
    BY <2>4, <2>5
<1>10. CASE handleRetryableError
  <2>1. Take("agent_end") /\ lastAssistant \in Retryable /\ lastAssistant' = "none"
        /\ UNCHANGED <<running, recovered, resumes, cancelled>>
    BY <1>10 DEF handleRetryableError
  <2>2. events' = <<>> /\ ~running' /\ timers = 0 /\ lastAssistant = top
    BY <2>1, EndIsAlone, EndIsOfTop
  <2>3. ~EndQueued' /\ EndQueued
    <3>1. 1 \in 1..Len(events) /\ events[1].type = "agent_end"
      BY <1>0, <2>1, TakenLeaves
    <3> QED
      BY <2>2, <3>1 DEF EndQueued
  <2>4. backOff(TRUE)
    BY <1>d, <1>10, <2>1 DEF handleRetryableError, Plain, Retryable
  <2>5. handler' \in {"free", "sleep"} /\ timers' = 0
    BY <1>a, <2>2, <2>4 DEF backOff, giveUp, noRetry, Compacts, Compaction
  <2>6. PlainSoFar'
    BY <1>0, <1>a, <1>d, <2>1, <2>5, PlainTaken DEF Plain
  <2>7. PursuitAwaited'
    <3>1. CASE cancelled'
      BY <3>1 DEF PursuitAwaited
    <3>2. CASE ~cancelled'
      <4>1. promise /\ Awaits
        BY <1>0, <2>1, <2>2, <2>3, <3>2 DEF PursuitAwaited, Pursued
      <4>2. handler' = "sleep" => promise' /\ UNCHANGED caller
        BY <2>4 DEF backOff, giveUp, noRetry
      <4> QED
        BY <2>2, <2>3, <2>5, <3>2, <4>1, <4>2 DEF PursuitAwaited, Pursued, Awaits
    <3> QED
      BY <3>1, <3>2
  <2> QED
    BY <2>6, <2>7
<1>11. CASE findFallback \/ _runAutoCompaction \/ \E p \in Callers : compactBefore(p)
  BY <1>d, <1>11 DEF findFallback, _runAutoCompaction, compactBefore, Compacts
<1>12. CASE sleepEnds
  <2>1. handler = "sleep" /\ handler' = "free"
        /\ UNCHANGED <<running, top, events, lastAssistant, recovered, resumes, cancelled>>
    BY <1>12, <1>a DEF sleepEnds, giveUp, noRetry, Compacts, Compaction
  <2>2. events' = <<>> /\ ~running' /\ timers = 0
    BY <2>1 DEF RestartInvariant, RunAlone, HandledLast
  <2>3. ~EndQueued'
    BY <2>2 DEF EndQueued
  <2>4. PlainSoFar'
    BY <1>a, <1>d, <2>1 DEF PlainSoFar
  <2>5. PursuitAwaited'
    <3>1. CASE sleepAborted
      BY <1>12, <2>1, <2>2, <2>3, <3>1, NobodyNeeded DEF sleepEnds, giveUp
    <3>2. CASE ~sleepAborted
      <4>1. UNCHANGED <<promise, caller>>
        BY <1>12, <3>2 DEF sleepEnds
      <4> QED
        BY <1>0, <2>1, <2>2, <2>3, <4>1 DEF PursuitAwaited, Pursued, Awaits
    <3> QED
      BY <3>1, <3>2
  <2> QED
    BY <2>4, <2>5
<1>13. CASE checkCompaction
  <2>1. Take("agent_end") /\ lastAssistant' = "none" /\ UNCHANGED <<running, timers, resumes, cancelled>>
    BY <1>13 DEF checkCompaction, checkedEnd
  <2>2. events' = <<>> /\ ~running' /\ timers' = 0 /\ handler = "free"
    BY <2>1, EndIsAlone
  <2>3. handler' = "free"
    BY <1>13, <1>a, <2>2 DEF checkCompaction, Compacts, Compaction
  <2>4. ~recovered'
    BY <1>13, <1>d, <2>3 DEF checkCompaction
  <2>5. PlainSoFar'
    BY <1>0, <1>a, <1>d, <2>1, <2>3, <2>4, PlainTaken DEF Plain
  <2>6. ~EndQueued' /\ handler' # "sleep"
    BY <2>2, <2>3 DEF EndQueued
  <2> QED
    BY <2>2, <2>5, <2>6, NobodyNeeded
<1>14. CASE UNCHANGED historyVars
  BY <1>b, <1>c, <1>14 DEF historyVars, vars, runVars, retryVars, timerVars
<1>15. HistoryNext \/ UNCHANGED historyVars
  OBVIOUS
<1>16. HistoryNext => Next
  BY DEF HistoryNext, Next
<1> QED
  BY <1>1, <1>2, <1>3, <1>4, <1>5, <1>6, <1>7, <1>8, <1>9, <1>10, <1>11, <1>12, <1>13, <1>14, <1>15, <1>16,
     <1>e, <1>f, <1>g
     DEF Next, Steer, GoOn, Call, End, Process

\* As long as all failures are transient and runs have one message, whoever prompts for a
\* run waits until its last retry is over or cancelled: creating the promise with agent_end
\* leaves no gap, whenever events are processed (agent-session.ts:394-398).
THEOREM RetriesAreAwaited ==
  ASSUME Patient
  PROVE  HistorySpec => []PlainRetryIsAwaited
<1> DEFINE Inv == /\ ApartInvariant /\ ClearInvariant /\ PlainInvariant
                  /\ TypeOK /\ (plain => ~beside /\ ~buried)
<1>1. HistoryInit => Inv
  <2> SUFFICES ASSUME HistoryInit PROVE Inv
    OBVIOUS
  <2>1. Init /\ ~beside /\ ~buried
    BY DEF HistoryInit
  <2>2. RestartInvariant /\ TypeOK
    BY <2>1, RestartInit DEF RestartInvariant
  <2>3. TopInvariant /\ BehindUser
    BY <2>1 DEF Init, TopInvariant, BehindUser, EndTells, LastIsSaved, Outcome, Failed, Retryable, Good
  <2>4. ~Compacts
    BY <2>1 DEF Init, Compacts, Compaction
  <2>5. PlainInvariant
    BY <2>1, <2>4 DEF Init, PlainInvariant, PlainSoFar, Plain, PursuitAwaited, Pursued, EndQueued
  <2> QED
    BY <2>1, <2>2, <2>3, <2>5 DEF ApartInvariant, ClearInvariant
<1>2. Inv /\ [HistoryNext]_historyVars => Inv'
  <2> SUFFICES ASSUME Inv, [HistoryNext]_historyVars PROVE Inv'
    OBVIOUS
  <2>1. ApartInvariant' /\ ClearInvariant' /\ TypeOK'
    BY HistoryTells, RestartStep, TopStep, BehindStep, TypeCorrectStep DEF ApartInvariant, ClearInvariant
  <2>2. PlainInvariant' /\ (plain' => ~beside' /\ ~buried')
    <3>1. CASE ~plain'
      BY <3>1 DEF PlainInvariant, PlainSoFar, PursuitAwaited
    <3>2. CASE plain'
      <4>1. plain
        BY <3>2 DEF HistoryNext, historyVars
      <4>2. ~beside /\ ~buried
        BY <4>1 DEF PlainInvariant, PlainSoFar
      <4>3. ~beside' /\ ~buried'
        BY <3>2, <4>1, PlainStaysApart DEF PlainInvariant
      <4> QED
        BY <2>1, <3>2, <4>1, <4>2, <4>3, PlainStep DEF ApartInvariant, ClearInvariant
    <3> QED
      BY <3>1, <3>2
  <2> QED
    BY <2>1, <2>2
<1>3. Inv => PlainRetryIsAwaited
  BY DEF PlainInvariant, PlainSoFar, PursuitAwaited, Pursued, Awaits, PlainRetryIsAwaited, RetryIsAwaited
<1> QED
  BY <1>1, <1>2, <1>3, PTL DEF HistorySpec
=============================================================================
