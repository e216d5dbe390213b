---------------------------- MODULE TurnHistory ----------------------------
(* TurnOrchestrator with a record of what has happened: failures, or aborts, *)
(* but not both, so that one run asks what each alone leaves intact.       *)
EXTENDS TurnOrchestrator

VARIABLE seen  \* history: "abort", "failure", "overtaken" and "several", see seen'

\* A time-out, an exit, a run that is retried or a prompt that is refused.
Failure == \/ Timeouts \/ processExit
           \/ agentEnds /\ run' # NoTurn
           \/ agentTakesPrompt /\ run = NoTurn /\ run' = NoTurn

\* A turn starts before an agent_end that follows the reply to an abort has been read.
Overtaken == \E t \in Turns : runTurn(t) /\ \E i \in 1..Len(replies) : replies[i].type = "end"

\* Several approvals are asked for at one time.
Several == agentAsks /\ replies' # Append(replies, Line("ask", run))

HistoryInit == Init /\ seen = {}

HistoryNext ==
  /\ Next
  /\ seen' = seen \cup (IF Failure THEN {"failure"} ELSE {})
                  \cup (IF abortCurrentTurn THEN {"abort"} ELSE {})
                  \cup (IF Overtaken THEN {"overtaken"} ELSE {})
                  \cup (IF Several THEN {"several"} ELSE {})
  /\ ~({"failure", "abort"} \subseteq seen')

historyVars == <<vars, seen>>

HistorySpec == HistoryInit /\ [][HistoryNext]_historyVars /\ Fairness

-----------------------------------------------------------------------------
(* Properties that failures, aborts or their order break (see the README)   *)

Calm    == "failure" \notin seen
InOrder == Calm /\ "overtaken" \notin seen

\* Overlapping submissions and aborts are serialized (OneGenerating), as long as nothing
\* fails, even if a late agent_end ends a turn early.
CalmOneGenerating == Calm => OneGenerating

\* The agent is free whenever it is asked (PromptFindsAgentFree), aborts or not, until a turn
\* overtakes the agent_end of the one aborted before it.
CalmPromptFindsAgentFree == InOrder => PromptFindsAgentFree

\* The user may take time (NoTimeoutWhileDeciding), until a second approval is asked for
\* beside the first, or a turn overtakes the agent_end of another.
CalmNoTimeoutWhileDeciding == InOrder /\ "several" \notin seen => NoTimeoutWhileDeciding

\* An aborted run does not close the next turn (EndsWithItsOwnRun), however late its agent_end
\* is, unless that turn started before it was read.
CalmEndsWithItsOwnRun ==
  [][\A t \in Turns : InOrder /\ receiveEnd /\ state[t] = "generating" /\ state'[t] = "idle"
                      => Head(replies).of = t]_vars

\* Whatever fails, every turn that generates comes to an end (GeneratingEnds), if need be
\* by the safety timer, as long as nobody aborts.
UnabortedGeneratingEnds ==
  \A t \in Turns : state[t] = "generating" ~> state[t] # "generating" \/ "abort" \in seen
=============================================================================
