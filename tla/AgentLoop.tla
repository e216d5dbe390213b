------------------------------ MODULE AgentLoop ------------------------------
(***************************************************************************)
(* The agent of packages/pi-agent-core: Agent (agent.ts), its steering and *)
(* follow-up queues, and one run of the loop (agent-loop.ts).              *)
(*                                                                         *)
(* Two activities share a run.  The loop keeps its own context, asks the   *)
(* model, runs tools and pushes messages on an event stream; the Agent     *)
(* reads that stream in its own time and appends to its messages.  Each    *)
(* action is the code between two awaits.  Events that carry no message    *)
(* (tool_execution_*, turn_*, message_update) only serve listeners and are *)
(* left out; agent_end is the phase "ended" once the stream is empty.      *)
(***************************************************************************)
EXTENDS Integers, Sequences, FiniteSets, Functions

CONSTANTS
  Inputs,            \* user-role messages, each submitted at most once
  SystemInputs,      \* those an extension queues (origin "system")
  Calls,             \* tool call ids, each used at most once
  CallLists,         \* the lists of calls one assistant message may carry
  ToolExecution,     \* config.toolExecution
  SteeringMode,      \* Agent.steeringMode
  FollowUpMode,      \* Agent.followUpMode
  ModelFails,        \* may a model request fail or be aborted?
  AfterHookMayThrow  \* may the afterToolCall hook throw?

ASSUME ConstantsAssumption ==
  /\ SystemInputs \subseteq Inputs
  /\ <<>> \in CallLists
  /\ \A l \in CallLists : l \in Seq(Calls) /\ IsInjective(l)
  /\ ToolExecution \in {"parallel", "sequential"}
  /\ {SteeringMode, FollowUpMode} \subseteq {"one-at-a-time", "all"}
  /\ {ModelFails, AfterHookMayThrow} \subseteq BOOLEAN

VARIABLES
  messages,       \* Agent._state.messages
  steeringQueue,  \* Agent.steeringQueue
  followUpQueue,  \* Agent.followUpQueue
  phase,          \* where the run stands; "idle" is isStreaming = false
  aborted,        \* abortController.signal.aborted
  context,        \* currentContext.messages of the run
  pending,        \* pendingMessages of the run
  stream,         \* messages pushed by the loop, not yet read by the Agent
  todo,           \* tool calls not yet prepared, in order
  runnable,       \* prepared tool calls, in order
  executed,       \* prepared calls whose execution has settled
  results,        \* toolResults of the turn
  used,           \* history: call ids the model has used
  submitted,      \* history: messages handed to prompt, in order
  steered,        \* history: messages handed to steer, in order
  followed,       \* history: messages handed to followUp, in order
  gone,           \* history: messages drained, cleared or reset away
  thrown          \* history: an afterToolCall hook has thrown

apiVars  == <<steeringQueue, followUpQueue>>
toolVars == <<todo, runnable, executed, results>>
history  == <<used, submitted, steered, followed, gone, thrown>>
vars == <<messages, apiVars, phase, aborted, context, pending, stream, toolVars, history>>

-----------------------------------------------------------------------------
User(i)       == [role |-> "user", id |-> i]
Result(c)     == [role |-> "toolResult", call |-> c]
\* Mutant: a caught error leaves the stop reason unset.
SaidWithoutReason(l, stop) ==
  [role |-> "assistant", calls |-> l, stop |-> IF stop = "error" THEN "none" ELSE stop]
Said(l, stop) == [role |-> "assistant", calls |-> l, stop |-> stop]

UserMessage == [role : {"user"}, id : Inputs]
ToolResult  == [role : {"toolResult"}, call : Calls]
StopReason  == {"done", "error", "aborted"}
Assistant   == [role : {"assistant"}, calls : CallLists, stop : StopReason]
Message     == UserMessage \cup ToolResult \cup Assistant

Failed(m) == m.role = "assistant" /\ m.stop # "done"
Last(s)   == s[Len(s)]

\* What one poll takes from a queue, and what it leaves there.
TakeCount(q, mode) == IF q = <<>> THEN 0
                      ELSE IF mode = "one-at-a-time" THEN 1 ELSE Len(q)
Taken(q, mode) == SubSeq(q, 1, TakeCount(q, mode))
Left(q, mode)  == SubSeq(q, TakeCount(q, mode) + 1, Len(q))

Fresh == {i \in Inputs : User(i) \notin Range(submitted) \cup Range(steered) \cup Range(followed)}

Init ==
  /\ messages = <<>> /\ steeringQueue = <<>> /\ followUpQueue = <<>>
  /\ phase = "idle" /\ aborted = FALSE
  /\ context = <<>> /\ pending = <<>> /\ stream = <<>>
  /\ todo = <<>> /\ runnable = <<>> /\ executed = {} /\ results = <<>>
  /\ used = {} /\ submitted = <<>> /\ steered = <<>> /\ followed = <<>> /\ gone = {}
  /\ thrown = FALSE

-----------------------------------------------------------------------------
(* Agent: queues and runs *)

steer(i) ==
  /\ i \in Fresh
  /\ steeringQueue' = Append(steeringQueue, User(i))
  /\ steered' = Append(steered, User(i))
  /\ UNCHANGED <<messages, followUpQueue, phase, aborted, context, pending, stream, toolVars,
                 used, submitted, followed, gone, thrown>>

followUp(i) ==
  /\ i \in Fresh
  /\ followUpQueue' = Append(followUpQueue, User(i))
  /\ followed' = Append(followed, User(i))
  /\ UNCHANGED <<messages, steeringQueue, phase, aborted, context, pending, stream, toolVars,
                 used, submitted, steered, gone, thrown>>

System(m) == m.id \in SystemInputs

\* The set holding the one subsequence of q with the messages the system queued.
SystemOnly(q) ==
  {[k \in DOMAIN at |-> q[at[k]]] : at \in
     {f \in UNION {[1..n -> 1..Len(q)] : n \in 0..Len(q)} :
        /\ \A j, k \in DOMAIN f : j < k => f[j] < f[k]
        /\ Range(f) = {i \in 1..Len(q) : System(q[i])}}}

\* What the user typed is taken out; what the system queued stays.
drainUserMessages ==
  /\ gone' = gone \cup {m \in Range(steeringQueue) \cup Range(followUpQueue) : ~System(m)}
  /\ steeringQueue' \in SystemOnly(steeringQueue)
  /\ followUpQueue' \in SystemOnly(followUpQueue)
  /\ UNCHANGED <<messages, phase, aborted, context, pending, stream, toolVars,
                 used, submitted, steered, followed, thrown>>

clearAllQueues ==
  /\ gone' = gone \cup Range(steeringQueue) \cup Range(followUpQueue)
  /\ steeringQueue' = <<>> /\ followUpQueue' = <<>>
  /\ UNCHANGED <<messages, phase, aborted, context, pending, stream, toolVars,
                 used, submitted, steered, followed, thrown>>

\* A run starts with msgs and, unless skipPoll, what a first poll takes.
_runLoop(msgs, steering, skipPoll) ==
  /\ phase' = "head"
  /\ aborted' = FALSE
  /\ context' = messages
  /\ pending' = msgs \o (IF skipPoll THEN <<>> ELSE Taken(steering, SteeringMode))
  /\ steeringQueue' = IF skipPoll THEN steering ELSE Left(steering, SteeringMode)
  /\ UNCHANGED <<messages, stream, toolVars, used, steered, followed, gone, thrown>>

prompt(i) ==
  /\ phase = "idle"
  /\ i \in Fresh
  /\ _runLoop(<<User(i)>>, steeringQueue, FALSE)
  /\ submitted' = Append(submitted, User(i))
  /\ UNCHANGED followUpQueue

\* continue() after an assistant message is only possible with queued messages.
continue ==
  /\ phase = "idle"
  /\ messages # <<>>
  /\ UNCHANGED submitted
  /\ \/ /\ Last(messages).role # "assistant"
        /\ _runLoop(<<>>, steeringQueue, FALSE)
        /\ UNCHANGED followUpQueue
     \/ /\ Last(messages).role = "assistant"
        /\ steeringQueue # <<>>
        /\ _runLoop(Taken(steeringQueue, SteeringMode), Left(steeringQueue, SteeringMode), TRUE)
        /\ UNCHANGED followUpQueue
     \/ /\ Last(messages).role = "assistant"
        /\ steeringQueue = <<>> /\ followUpQueue # <<>>
        /\ _runLoop(Taken(followUpQueue, FollowUpMode), steeringQueue, FALSE)
        /\ followUpQueue' = Left(followUpQueue, FollowUpMode)

abort ==
  /\ ModelFails
  /\ phase # "idle" /\ ~aborted
  /\ aborted' = TRUE
  /\ UNCHANGED <<messages, apiVars, phase, context, pending, stream, toolVars, history>>

\* replaceMessages as a retry uses it: the failed message is taken back.
removeLastError ==
  /\ phase = "idle"
  /\ messages # <<>> /\ Failed(Last(messages))
  /\ messages' = SubSeq(messages, 1, Len(messages) - 1)
  /\ UNCHANGED <<apiVars, phase, aborted, context, pending, stream, toolVars, history>>

\* reset() as newSession uses it: after the run, if any, has ended.
reset ==
  /\ phase = "idle"
  /\ messages' = <<>> /\ steeringQueue' = <<>> /\ followUpQueue' = <<>>
  /\ gone' = gone \cup Range(submitted) \cup Range(steered) \cup Range(followed)
  /\ UNCHANGED <<phase, aborted, context, pending, stream, toolVars,
                 used, submitted, steered, followed, thrown>>

\* The Agent reads the next message of the stream.
readMessage ==
  /\ stream # <<>>
  /\ messages' = Append(messages, Head(stream))
  /\ stream' = Tail(stream)
  /\ UNCHANGED <<apiVars, phase, aborted, context, pending, toolVars, history>>

\* The Agent reads agent_end and closes the run.
readAgentEnd ==
  /\ phase = "ended" /\ stream = <<>>
  /\ phase' = "idle" /\ aborted' = FALSE
  /\ UNCHANGED <<messages, apiVars, context, pending, stream, toolVars, history>>

-----------------------------------------------------------------------------
(* The loop *)

\* One pending message goes into the context before the model is asked.
inject ==
  /\ phase = "head" /\ pending # <<>>
  /\ context' = Append(context, Head(pending))
  /\ stream' = Append(stream, Head(pending))
  /\ pending' = Tail(pending)
  /\ UNCHANGED <<messages, apiVars, phase, aborted, toolVars, history>>

askModel ==
  /\ phase = "head" /\ pending = <<>>
  /\ phase' = "model"
  /\ UNCHANGED <<messages, apiVars, aborted, context, pending, stream, toolVars, history>>

\* The model answers.  A provider that sees the signal aborted ends the message so.
streamAssistantResponse(l, stop) ==
  /\ phase = "model"
  /\ Range(l) \cap used = {}
  /\ used' = used \cup Range(l)
  /\ context' = Append(context, Said(l, stop))
  /\ stream' = Append(stream, Said(l, stop))
  /\ \/ stop = "done" /\ ~aborted /\ l # <<>> /\ phase' = "prepare" /\ todo' = l
     \/ stop = "done" /\ ~aborted /\ l = <<>> /\ phase' = "turnEnd" /\ UNCHANGED todo
     \/ stop = "error" /\ ModelFails /\ ~aborted /\ phase' = "ended" /\ UNCHANGED todo
     \/ stop = "aborted" /\ aborted /\ phase' = "ended" /\ UNCHANGED todo
  /\ UNCHANGED <<messages, apiVars, aborted, pending, runnable, executed, results,
                 submitted, steered, followed, gone, thrown>>

\* emitToolCallOutcome: the result of call c is recorded and announced.
emitToolCallOutcome(c) ==
  /\ results' = Append(results, Result(c))
  /\ stream' = Append(stream, Result(c))

\* Mutant: a call that failed at once is kept among the runnable ones.
prepareKeepsFailedCall ==
  /\ phase = "prepare" /\ todo # <<>>
  /\ todo' = Tail(todo) /\ runnable' = Append(runnable, Head(todo))
  /\ phase' = IF ToolExecution = "sequential" THEN "run" ELSE "poll"
  /\ \/ UNCHANGED <<results, stream>>
     \/ emitToolCallOutcome(Head(todo))
  /\ UNCHANGED <<messages, apiVars, aborted, context, pending, executed, history>>

\* The beforeToolCall hook returns: the call may run, or fails at once.
prepareToolCall ==
  /\ phase = "prepare" /\ todo # <<>>
  /\ todo' = Tail(todo)
  /\ \/ /\ runnable' = Append(runnable, Head(todo))
        /\ phase' = IF ToolExecution = "sequential" THEN "run" ELSE "poll"
        /\ UNCHANGED <<results, stream>>
     \/ /\ emitToolCallOutcome(Head(todo))
        /\ phase' = "poll"
        /\ UNCHANGED runnable
  /\ UNCHANGED <<messages, apiVars, aborted, context, pending, executed, history>>

\* Mutant: steering skips the calls not yet prepared and forgets the prepared ones.
pollForgetsPrepared ==
  /\ phase = "poll"
  /\ pending' = Taken(steeringQueue, SteeringMode)
  /\ steeringQueue' = Left(steeringQueue, SteeringMode)
  /\ \/ /\ pending' # <<>>
        /\ runnable' = todo /\ todo' = <<>>
        /\ phase' = "skip"
     \/ /\ pending' = <<>>
        /\ phase' = IF todo # <<>> THEN "prepare"
                    ELSE IF ToolExecution = "parallel" THEN "run" ELSE "finish"
        /\ UNCHANGED <<runnable, todo>>
  /\ UNCHANGED <<messages, followUpQueue, aborted, context, stream, executed, results, history>>

\* Steering found after a call: every call not yet run is skipped.
pollAfterCall ==
  /\ phase = "poll"
  /\ pending' = Taken(steeringQueue, SteeringMode)
  /\ steeringQueue' = Left(steeringQueue, SteeringMode)
  /\ \/ /\ pending' # <<>>
        /\ runnable' = runnable \o todo /\ todo' = <<>>
        /\ phase' = "skip"
     \/ /\ pending' = <<>>
        /\ phase' = IF todo # <<>> THEN "prepare"
                    ELSE IF ToolExecution = "parallel" THEN "run" ELSE "finish"
        /\ UNCHANGED <<runnable, todo>>
  /\ UNCHANGED <<messages, followUpQueue, aborted, context, stream, executed, results, history>>

skipToolCall ==
  /\ phase = "skip"
  /\ runnable # <<>>
  /\ emitToolCallOutcome(Head(runnable))
  /\ runnable' = Tail(runnable)
  /\ UNCHANGED <<messages, apiVars, phase, aborted, context, pending, todo, executed, history>>

\* A tool settles; prepared calls run concurrently.
executePreparedToolCall(c) ==
  /\ phase = "run"
  /\ c \in Range(runnable) \ executed
  /\ executed' = executed \cup {c}
  /\ UNCHANGED <<messages, apiVars, phase, aborted, context, pending, stream,
                 todo, runnable, results, history>>

\* Calls are finalized in order, each through the afterToolCall hook.
finalizeExecutedToolCall ==
  /\ phase = "run"
  /\ runnable # <<>> /\ Head(runnable) \in executed
  /\ emitToolCallOutcome(Head(runnable))
  /\ runnable' = Tail(runnable)
  /\ executed' = executed \ {Head(runnable)}
  /\ phase' = IF ToolExecution = "sequential" THEN "poll" ELSE "run"
  /\ UNCHANGED <<messages, apiVars, aborted, context, pending, todo, history>>

\* The hook throws: emitErrorSequence ends the run, the turn's results are dropped.
afterToolCallThrows ==
  /\ AfterHookMayThrow
  /\ phase = "run"
  /\ runnable # <<>> /\ Head(runnable) \in executed
  /\ stream' = Append(stream, Said(<<>>, "error"))
  /\ runnable' = <<>> /\ executed' = {} /\ results' = <<>> /\ todo' = <<>>
  /\ phase' = "ended"
  /\ thrown' = TRUE
  /\ UNCHANGED <<messages, apiVars, aborted, context, pending,
                 used, submitted, steered, followed, gone>>

\* All prepared calls are finalized: one more poll before the results are handed over.
pollAfterTools ==
  /\ phase = "run" /\ runnable = <<>>
  /\ ToolExecution = "parallel"
  /\ pending' = Taken(steeringQueue, SteeringMode)
  /\ steeringQueue' = Left(steeringQueue, SteeringMode)
  /\ phase' = "finish"
  /\ UNCHANGED <<messages, followUpQueue, aborted, context, stream, toolVars, history>>

\* Mutant: the results are announced and never given to the model.
finishDropsResults ==
  /\ phase = "finish" \/ (phase = "skip" /\ runnable = <<>>)
  /\ results' = <<>>
  /\ phase' = IF pending # <<>> THEN "head" ELSE "turnEnd"
  /\ UNCHANGED <<messages, apiVars, aborted, context, pending, stream, todo, runnable, executed, history>>

\* Mutant: the queue is polled again although steering was already taken.
finishPollsAgain ==
  /\ phase = "finish" \/ (phase = "skip" /\ runnable = <<>>)
  /\ context' = context \o results
  /\ results' = <<>>
  /\ phase' = "turnEnd"
  /\ UNCHANGED <<messages, apiVars, aborted, pending, stream, todo, runnable, executed, history>>

\* The turn's results enter the context; steering found on the way goes next.
finishTools ==
  /\ phase = "finish" \/ (phase = "skip" /\ runnable = <<>>)
  /\ context' = context \o results
  /\ results' = <<>>
  /\ phase' = IF pending # <<>> THEN "head" ELSE "turnEnd"
  /\ UNCHANGED <<messages, apiVars, aborted, pending, stream, todo, runnable, executed, history>>

hasMoreToolCalls == Last(context).role = "toolResult"

\* Mutant: the run waits for steering to come instead of looking whether some has.
pollWaitsForSteering ==
  /\ phase = "turnEnd"
  /\ steeringQueue # <<>>
  /\ pending' = Taken(steeringQueue, SteeringMode)
  /\ steeringQueue' = Left(steeringQueue, SteeringMode)
  /\ phase' = "head"
  /\ UNCHANGED <<messages, followUpQueue, aborted, context, stream, toolVars, history>>

\* The turn is over: after tools the model is asked again, otherwise only if steered.
pollAfterTurn ==
  /\ phase = "turnEnd"
  /\ pending' = Taken(steeringQueue, SteeringMode)
  /\ steeringQueue' = Left(steeringQueue, SteeringMode)
  /\ phase' = IF hasMoreToolCalls \/ pending' # <<>> THEN "head" ELSE "followUp"
  /\ UNCHANGED <<messages, followUpQueue, aborted, context, stream, toolVars, history>>

\* The agent would stop here: a queued follow-up starts another turn.
pollFollowUp ==
  /\ phase = "followUp"
  /\ pending' = Taken(followUpQueue, FollowUpMode)
  /\ followUpQueue' = Left(followUpQueue, FollowUpMode)
  /\ phase' = IF pending' # <<>> THEN "head" ELSE "ended"
  /\ UNCHANGED <<messages, steeringQueue, aborted, context, stream, toolVars, history>>

-----------------------------------------------------------------------------
Agent == \/ \E i \in Inputs \ SystemInputs : prompt(i)
         \/ \E i \in Inputs : steer(i) \/ followUp(i)
         \/ continue \/ abort \/ drainUserMessages \/ clearAllQueues
         \/ removeLastError \/ reset

Loop == \/ inject \/ askModel
        \/ \E l \in CallLists, stop \in StopReason : streamAssistantResponse(l, stop)
        \/ prepareToolCall \/ pollAfterCall \/ skipToolCall
        \/ \E c \in Calls : executePreparedToolCall(c)
        \/ finalizeExecutedToolCall \/ afterToolCallThrows
        \/ pollAfterTools \/ finishTools \/ pollAfterTurn \/ pollFollowUp

Reader == readMessage \/ readAgentEnd

Next == Agent \/ Loop \/ Reader

Spec == Init /\ [][Next]_vars

\* The event loop resumes some await that has settled; hooks, tools and the model
\* are assumed to settle.  Nothing obliges a caller to prompt, continue or abort.
FairSpec == Spec /\ WF_vars(Loop \/ Reader)

-----------------------------------------------------------------------------
(* Properties *)

\* The state is well-formed: each variable of the Agent and of the run has its type.
TypeOK ==
  /\ messages \in Seq(Message) /\ context \in Seq(Message) /\ stream \in Seq(Message)
  /\ steeringQueue \in Seq(UserMessage) /\ followUpQueue \in Seq(UserMessage)
  /\ pending \in Seq(UserMessage)
  /\ submitted \in Seq(UserMessage) /\ steered \in Seq(UserMessage) /\ followed \in Seq(UserMessage)
  /\ phase \in {"idle", "head", "model", "prepare", "poll", "skip", "run", "finish",
                "turnEnd", "followUp", "ended"}
  /\ aborted \in BOOLEAN
  /\ todo \in Seq(Calls) /\ runnable \in Seq(Calls)
  /\ executed \subseteq Calls /\ used \subseteq Calls
  /\ results \in Seq(ToolResult)
  /\ gone \subseteq UserMessage /\ thrown \in BOOLEAN

Transcript == messages \o stream
Unanswered == Range(runnable) \cup Range(todo)
InTurn     == phase \notin {"idle", "ended"}

\* What the loop shows the model and what the Agent keeps never part: the messages
\* read plus those on their way are the loop's context plus the turn's results, in
\* the same order, whatever the order in which calls failed, ran or were skipped.
TranscriptIsContext == InTurn => Transcript = context \o results

\* When the model is asked, every call of every good answer it gave has exactly one
\* result, and results stand right behind the message that asked for them.
CallsAnswered ==
  phase = "model" =>
    \A i \in DOMAIN context :
      context[i].role = "assistant" /\ ~Failed(context[i]) =>
        LET n == Len(context[i].calls) IN
          /\ i + n <= Len(context)
          /\ {Result(c) : c \in Range(context[i].calls)} = Range(SubSeq(context, i + 1, i + n))

\* Every call is answered before the model is asked again, unless a hook threw, which
\* leaves the calls of its batch behind unanswered.
SettledCallsAnswered == thrown \/ CallsAnswered

\* A call is never answered twice, in this run or in a later one.
NoSecondResult ==
  \A i, j \in DOMAIN Transcript :
    Transcript[i].role = "toolResult" /\ Transcript[i] = Transcript[j] => i = j

\* The messages of sent that were not drained, cleared or reset away stand in the line,
\* each once and in the order they came.
InOrder(line, sent) ==
  /\ Range(sent) \cap Range(line) = Range(sent) \ gone
  /\ \A i, j \in DOMAIN line, k, l \in DOMAIN sent :
       line[i] = sent[k] /\ line[j] = sent[l] => (i < j <=> k < l)

\* Every message handed to steer or followUp is, in the order it came, either said
\* already, about to be said, or still queued - unless it was drained, cleared or reset.
QueuesConserve ==
  /\ InOrder(Transcript \o pending \o steeringQueue, steered)
  /\ InOrder(Transcript \o pending \o followUpQueue, followed)
  /\ InOrder(Transcript \o pending, submitted)
  /\ Range(steeringQueue) \subseteq Range(steered) /\ Range(followUpQueue) \subseteq Range(followed)

\* Steering that arrives while a run is going is taken up by that run.
\* (Agent.steer: "Queue a steering message to interrupt the agent mid-run.
\* Delivered after current tool execution, skips remaining tools.")
SteeringIsDelivered ==
  \A i \in Inputs : (phase # "idle" /\ User(i) \in Range(steeringQueue))
                       ~> (User(i) \notin Range(steeringQueue))

\* With finitely many calls asked for and messages queued, every run comes to rest:
\* no phase waits for something that no hook, tool, model or reader will deliver.
RunEnds == (phase # "idle") ~> (phase = "idle")

\* The run implements the contract of a conversation.
open == IF InTurn THEN Unanswered ELSE {}
C == INSTANCE Conversation WITH transcript <- Transcript, open <- open
ConversationSpec == C!Spec
=============================================================================
