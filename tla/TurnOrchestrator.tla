-------------------------- MODULE TurnOrchestrator --------------------------
(***************************************************************************)
(* Turns of a studio pane: apps/studio/src/main/orchestrator.ts over       *)
(* agent-bridge.ts.  A turn takes the response lock, subscribes to the     *)
(* agent's events, sends its prompt and is over with agent_end, a timeout, *)
(* a failed request, the exit of the process or an abort; each of these    *)
(* releases the lock.                                                      *)
(*                                                                         *)
(* Promise continuations run before the next event: an action that starts  *)
(* from an event is enabled only in a Quiet state.  The agent process      *)
(* (modes/rpc/rpc-mode.ts) takes commands and answers in order.            *)
(***************************************************************************)
EXTENDS Integers, Sequences, FiniteSets

CONSTANTS
  Turns,       \* turns, each submitted at most once
  NoTurn,
  MayAbort,    \* the user may abort
  AbortQueued, \* even a turn that is still queued
  MayTimeOut,  \* requests and turns may time out
  MayExit,     \* the agent process may exit, and be started again
  MayRetry,    \* the agent may retry a run that ended
  MayRefuse,   \* the agent may refuse a prompt (no model, no API key)
  MaxReplies,  \* bound: the agent goes on only with fewer replies unread
  MaxAsks      \* bound: approvals that tools running in parallel ask for

ASSUME TurnAssumption ==
  /\ NoTurn \notin Turns /\ IsFiniteSet(Turns)
  /\ MaxReplies \in Nat /\ MaxAsks \in Nat

VARIABLES
  state,      \* turn.state, "new" before it is submitted
  currentTurn,
  lockHeld, lockQueue,
  granted,    \* turns whose acquireLock() has resolved and runTurn is about to start
  currentTurnCleanup, \* the turn whose cleanup is registered
  listening,  \* turns subscribed to the bridge's events
  firstTimer, safetyTimer, \* turns whose firstActivityTimer, safety timer is set
  approvalPending, \* turns whose safety timer is paused
  request,    \* the turn's prompt request: "none", "pending", "rejected", "settled"
  aborting,   \* turns whose abort request waits for its reply
  aborted,    \* those whose request is settled and abortCurrentTurn about to go on
  up,         \* an agent process is attached
  commands, replies, \* lines to the agent and from it
  run,        \* the turn whose prompt the agent works on
  stopping,   \* the turns of the aborts the agent serves
  asks        \* approval requests shown to the user

lock   == <<lockHeld, lockQueue, granted>>
timers == <<listening, firstTimer, safetyTimer, approvalPending>>
agent  == <<up, commands, replies, run, stopping, asks>>
vars   == <<state, currentTurn, lock, currentTurnCleanup, timers, request, aborting, aborted, agent>>

Init ==
  /\ state = [t \in Turns |-> "new"] /\ currentTurn = NoTurn
  /\ lockHeld = FALSE /\ lockQueue = <<>> /\ granted = {}
  /\ currentTurnCleanup = NoTurn
  /\ listening = {} /\ firstTimer = {} /\ safetyTimer = {} /\ approvalPending = {}
  /\ request = [t \in Turns |-> "none"]
  /\ aborting = {} /\ aborted = {}
  /\ up = TRUE /\ commands = <<>> /\ replies = <<>> /\ run = NoTurn
  /\ stopping = <<>> /\ asks = 0

\* No continuation is about to run.
Quiet == granted = {} /\ aborted = {} /\ \A t \in Turns : request[t] # "rejected"

-----------------------------------------------------------------------------
(* The response lock *)

\* acquireLock for t, whose continuation is runTurn.
acquireLock(t) ==
  IF lockHeld
  THEN lockQueue' = Append(lockQueue, t) /\ UNCHANGED <<lockHeld, granted>>
  ELSE lockHeld' = TRUE /\ granted' = granted \cup {t} /\ UNCHANGED lockQueue

\* Mutant: the lock is marked free although it is handed on.
releaseFrees(n, left) ==
  LET k == IF n <= Len(lockQueue) THEN n ELSE Len(lockQueue)
  IN /\ granted' = left \cup {lockQueue[i] : i \in 1..k}
     /\ lockQueue' = SubSeq(lockQueue, k + 1, Len(lockQueue))
     /\ lockHeld' = (n = 0 /\ lockHeld)

\* Mutant: nobody is woken.
releaseWakesNone(n, left) ==
  /\ granted' = left
  /\ lockHeld' = (n = 0 /\ lockHeld)
  /\ UNCHANGED lockQueue

\* releaseLock, n times in a row: each hands the lock to the next in the queue or,
\* when there is none, frees it, held or not.  left: those granted it before.
releaseLock(n, left) ==
  LET k == IF n <= Len(lockQueue) THEN n ELSE Len(lockQueue)
  IN /\ granted' = left \cup {lockQueue[i] : i \in 1..k}
     /\ lockQueue' = SubSeq(lockQueue, k + 1, Len(lockQueue))
     /\ lockHeld' = (lockHeld /\ n = k)

-----------------------------------------------------------------------------
(* Turns *)

\* Mutant: the state is left as it was.
toIdleForgotten(S) == UNCHANGED state

\* Turns in S leave the state they are in, unless they were aborted.
toIdle(S) == state' = [t \in Turns |-> IF t \in S /\ state[t] # "aborted" THEN "idle" ELSE state[t]]

\* Turns in S stop listening, and their timers are cleared.
clear(S) ==
  /\ listening' = listening \ S
  /\ firstTimer' = firstTimer \ S
  /\ safetyTimer' = safetyTimer \ S
  /\ approvalPending' = approvalPending \ S

submitTurn(t) ==
  /\ Quiet
  /\ state[t] = "new"
  /\ state' = [state EXCEPT ![t] = "queued"]
  /\ currentTurn' = t
  /\ acquireLock(t)
  /\ UNCHANGED <<currentTurnCleanup, timers, request, aborting, aborted, agent>>

\* Mutant: the lock ends with an aborted turn.
runAbortedKeepsLock(t) ==
  /\ t \in granted /\ state[t] = "aborted"
  /\ granted' = granted \ {t}
  /\ UNCHANGED <<state, currentTurn, lockHeld, lockQueue, currentTurnCleanup, timers, request,
                 aborting, aborted, agent>>

\* runTurn of a turn that was aborted in the queue passes the lock on.
runAborted(t) ==
  /\ t \in granted /\ state[t] = "aborted"
  /\ releaseLock(1, granted \ {t})
  /\ UNCHANGED <<state, currentTurn, currentTurnCleanup, timers, request, aborting, aborted, agent>>

\* runTurn: subscribe, set both timers, register the cleanup and send the prompt.
runTurn(t) ==
  /\ t \in granted /\ state[t] # "aborted"
  /\ granted' = granted \ {t}
  /\ state' = [state EXCEPT ![t] = "generating"]
  /\ listening' = listening \cup {t}
  /\ firstTimer' = firstTimer \cup {t} /\ safetyTimer' = safetyTimer \cup {t}
  /\ currentTurnCleanup' = t
  /\ IF up
     THEN /\ request' = [request EXCEPT ![t] = "pending"]
          /\ commands' = Append(commands, [type |-> "prompt", of |-> t])
     ELSE /\ request' = [request EXCEPT ![t] = "rejected"]
          /\ UNCHANGED commands
  /\ UNCHANGED <<currentTurn, lockHeld, lockQueue, approvalPending, aborting, aborted,
                 up, replies, run, stopping, asks>>

\* The prompt request failed: everything is cleared except the first-activity timer.
promptFails(t) ==
  /\ request[t] = "rejected"
  /\ request' = [request EXCEPT ![t] = "settled"]
  /\ listening' = listening \ {t} /\ safetyTimer' = safetyTimer \ {t}
  /\ approvalPending' = approvalPending \ {t}
  /\ state' = [state EXCEPT ![t] = "idle"]
  /\ releaseLock(1, granted)
  /\ UNCHANGED <<currentTurn, currentTurnCleanup, firstTimer, aborting, aborted, agent>>

\* Mutant: the reply to abort is not awaited.
abortDoesNotWait ==
  /\ Quiet /\ MayAbort
  /\ currentTurn # NoTurn /\ state[currentTurn] \notin {"idle", "aborted"}
  /\ AbortQueued \/ state[currentTurn] # "queued"
  /\ state' = [state EXCEPT ![currentTurn] = "aborted"]
  /\ clear({currentTurnCleanup}) /\ currentTurnCleanup' = NoTurn
  /\ aborted' = aborted \cup {currentTurn}
  /\ IF up
     THEN commands' = Append(commands, [type |-> "abort", of |-> currentTurn])
     ELSE UNCHANGED commands
  /\ UNCHANGED <<currentTurn, lock, request, aborting, up, replies, run, stopping, asks>>

\* abortCurrentTurn up to its request: the turn submitted last is marked, and the
\* registered cleanup, that of the turn run last, is called.
abortCurrentTurn ==
  /\ Quiet /\ MayAbort
  /\ currentTurn # NoTurn /\ state[currentTurn] \notin {"idle", "aborted"}
  /\ AbortQueued \/ state[currentTurn] # "queued"
  /\ state' = [state EXCEPT ![currentTurn] = "aborted"]
  /\ clear({currentTurnCleanup}) /\ currentTurnCleanup' = NoTurn
  /\ IF up
     THEN /\ aborting' = aborting \cup {currentTurn}
          /\ commands' = Append(commands, [type |-> "abort", of |-> currentTurn])
          /\ UNCHANGED aborted
     ELSE aborted' = aborted \cup {currentTurn} /\ UNCHANGED <<aborting, commands>>
  /\ UNCHANGED <<currentTurn, lock, request, up, replies, run, stopping, asks>>

\* abortCurrentTurn goes on when its request has settled, one way or the other.
abortReturns ==
  /\ \E t \in aborted : aborted' = aborted \ {t}
  /\ releaseLock(1, granted)
  /\ UNCHANGED <<state, currentTurn, currentTurnCleanup, timers, request, aborting, agent>>

-----------------------------------------------------------------------------
(* Timers *)

\* firstActivityTimer: no event within 30 s.
firstActivityTimeout(t) ==
  /\ Quiet /\ MayTimeOut
  /\ t \in firstTimer
  /\ clear({t}) /\ toIdle({t})
  /\ releaseLock(1, granted)
  /\ UNCHANGED <<currentTurn, currentTurnCleanup, request, aborting, aborted, agent>>

\* The safety timer: no event for 5 min.
safetyTimeout(t) ==
  /\ Quiet /\ MayTimeOut
  /\ t \in safetyTimer
  /\ clear({t}) /\ toIdle({t})
  /\ releaseLock(1, granted)
  /\ UNCHANGED <<currentTurn, currentTurnCleanup, request, aborting, aborted, agent>>

\* A request has no answer after 30 s (AgentBridge.send).
requestTimeout ==
  /\ Quiet /\ MayTimeOut
  /\ \/ \E t \in Turns : /\ request[t] = "pending"
                         /\ request' = [request EXCEPT ![t] = "rejected"]
                         /\ UNCHANGED <<aborting, aborted>>
     \/ \E t \in aborting : /\ aborting' = aborting \ {t} /\ aborted' = aborted \cup {t}
                            /\ UNCHANGED request
  /\ UNCHANGED <<state, currentTurn, lock, currentTurnCleanup, timers, agent>>

-----------------------------------------------------------------------------
(* Lines from the agent *)

Receive(type) == Quiet /\ replies # <<>> /\ Head(replies).type = type /\ replies' = Tail(replies)

\* Those whose listener does more than return.
Hearing == {t \in listening : state[t] # "aborted"}

\* Mutant: the safety timer is set again although it was paused.
heardByAll(S) ==
  /\ firstTimer' = firstTimer \ S
  /\ safetyTimer' = safetyTimer \cup S

\* Mutant: the safety timer is cleared and not set again.
heardByLast(S) ==
  /\ firstTimer' = firstTimer \ S
  /\ safetyTimer' = safetyTimer \ S

\* An event is a sign of life for every turn that listens.
heardBy(S) ==
  /\ firstTimer' = firstTimer \ S
  /\ safetyTimer' = safetyTimer \cup (S \ approvalPending)

receiveEvent ==
  /\ Receive("event")
  /\ heardBy(Hearing)
  /\ UNCHANGED <<state, currentTurn, lock, currentTurnCleanup, listening, approvalPending,
                 request, aborting, aborted, up, commands, run, stopping, asks>>

\* The reply to a request; one that timed out is passed on as an event.
receiveAccepted ==
  /\ Receive("accepted")
  /\ LET t == Head(replies).of
     IN IF request[t] = "pending"
        THEN request' = [request EXCEPT ![t] = "settled"] /\ UNCHANGED <<firstTimer, safetyTimer>>
        ELSE heardBy(Hearing) /\ UNCHANGED request
  /\ UNCHANGED <<state, currentTurn, lock, currentTurnCleanup, listening, approvalPending,
                 aborting, aborted, up, commands, run, stopping, asks>>

receiveStopped ==
  /\ Receive("stopped")
  /\ LET t == Head(replies).of
     IN IF t \in aborting
        THEN /\ aborting' = aborting \ {t} /\ aborted' = aborted \cup {t}
             /\ UNCHANGED <<firstTimer, safetyTimer>>
        ELSE heardBy(Hearing) /\ UNCHANGED <<aborting, aborted>>
  /\ UNCHANGED <<state, currentTurn, lock, currentTurnCleanup, listening, approvalPending, request,
                 up, commands, run, stopping, asks>>

\* agent_end closes every turn that listens.
receiveEnd ==
  /\ Receive("end")
  /\ clear(Hearing) /\ toIdle(Hearing)
  /\ releaseLock(Cardinality(Hearing), granted)
  /\ UNCHANGED <<currentTurn, currentTurnCleanup, request, aborting, aborted, up, commands, run, stopping, asks>>

\* An approval request pauses the safety timers while the user decides.
approvalRequest ==
  /\ Receive("ask")
  /\ asks' = asks + 1
  /\ approvalPending' = approvalPending \cup listening
  /\ safetyTimer' = safetyTimer \ listening
  /\ UNCHANGED <<state, currentTurn, lock, currentTurnCleanup, listening, firstTimer, request,
                 aborting, aborted, up, commands, run, stopping>>

\* The user answers one of them.
respondToApproval ==
  /\ Quiet /\ asks > 0
  /\ asks' = asks - 1
  /\ approvalPending' = approvalPending \ listening
  /\ safetyTimer' = safetyTimer \cup listening
  /\ UNCHANGED <<state, currentTurn, lock, currentTurnCleanup, listening, firstTimer, request,
                 aborting, aborted, up, commands, replies, run, stopping>>

\* The process exits: every request is rejected, and every listener, aborted or not,
\* closes its turn before the continuations of those requests run.
processExit ==
  /\ Quiet /\ MayExit /\ up
  /\ up' = FALSE /\ commands' = <<>> /\ replies' = <<>> /\ run' = NoTurn
  /\ stopping' = <<>> /\ asks' = 0
  /\ request' = [t \in Turns |-> IF request[t] = "pending" THEN "rejected" ELSE request[t]]
  /\ aborting' = {} /\ aborted' = aborting
  /\ clear(listening) /\ toIdle(listening)
  /\ releaseLock(Cardinality(listening), granted)
  /\ UNCHANGED <<currentTurn, currentTurnCleanup>>

\* A new process is attached.
attach ==
  /\ Quiet /\ ~up
  /\ up' = TRUE
  /\ UNCHANGED <<state, currentTurn, lock, currentTurnCleanup, timers, request, aborting, aborted,
                 commands, replies, run, stopping, asks>>

-----------------------------------------------------------------------------
(* The agent process *)

Host == <<state, currentTurn, lock, currentTurnCleanup, timers, request, aborting, aborted, up>>

Room == Len(replies) < MaxReplies
Asked == asks + Cardinality({i \in 1..Len(replies) : replies[i].type = "ask"})
Line(type, t) == [type |-> type, of |-> t]

\* A prompt is accepted at once; that a run is on, or no key found, is said later in a
\* second reply, which the bridge takes for an event.
agentTakesPrompt ==
  /\ commands # <<>> /\ Head(commands).type = "prompt" /\ Room
  /\ commands' = Tail(commands)
  /\ LET t == Head(commands).of
     IN \/ run = NoTurn /\ run' = t /\ replies' = Append(replies, Line("accepted", t))
        \/ /\ run # NoTurn \/ MayRefuse
           /\ replies' = replies \o <<Line("accepted", t), Line("event", t)>>
           /\ UNCHANGED run
  /\ UNCHANGED <<Host, stopping, asks>>

\* An abort is answered when the agent is idle.
agentTakesAbort ==
  /\ commands # <<>> /\ Head(commands).type = "abort" /\ Room
  /\ commands' = Tail(commands)
  /\ IF run = NoTurn
     THEN replies' = Append(replies, Line("stopped", Head(commands).of)) /\ UNCHANGED stopping
     ELSE stopping' = Append(stopping, Head(commands).of) /\ UNCHANGED replies
  /\ UNCHANGED <<Host, run, asks>>

\* The run stops, which it cannot while it waits for the user.  abort waits until the agent
\* is idle, not until its events are out: agent_end, behind the handlers of extensions in
\* _agentEventQueue, may follow the replies.
agentStops ==
  /\ run # NoTurn /\ stopping # <<>> /\ Room /\ Asked = 0
  /\ run' = NoTurn /\ stopping' = <<>>
  /\ LET answers == [i \in 1..Len(stopping) |-> Line("stopped", stopping[i])]
         ended   == Line("end", run)
     IN replies' \in {Append(replies, ended) \o answers, Append(replies \o answers, ended)}
  /\ UNCHANGED <<Host, commands, asks>>

agentWorks ==
  /\ run # NoTurn /\ stopping = <<>> /\ Room
  /\ replies' = Append(replies, Line("event", run))
  /\ UNCHANGED <<Host, commands, run, stopping, asks>>

\* Tools that run in parallel ask for an approval each.
agentAsks ==
  /\ run # NoTurn /\ stopping = <<>> /\ Room /\ Asked = 0
  /\ \E n \in 1..MaxAsks : replies' = replies \o [i \in 1..n |-> Line("ask", run)]
  /\ UNCHANGED <<Host, commands, run, stopping, asks>>

agentEnds ==
  /\ run # NoTurn /\ stopping = <<>> /\ Room /\ Asked = 0
  /\ replies' = Append(replies, Line("end", run))
  /\ run' = NoTurn \/ (MayRetry /\ run' = run)
  /\ UNCHANGED <<Host, commands, stopping, asks>>

-----------------------------------------------------------------------------
Continue == \/ \E t \in Turns : runAborted(t) \/ runTurn(t) \/ promptFails(t)
            \/ abortReturns
Timeouts == \/ \E t \in Turns : firstActivityTimeout(t) \/ safetyTimeout(t)
            \/ requestTimeout
ReadLine == receiveEvent \/ receiveAccepted \/ receiveStopped \/ receiveEnd \/ approvalRequest
Commands == agentTakesPrompt \/ agentTakesAbort \/ agentStops

Next == \/ \E t \in Turns : submitTurn(t)
        \/ abortCurrentTurn \/ respondToApproval
        \/ Continue \/ Timeouts \/ ReadLine \/ processExit \/ attach
        \/ Commands \/ agentWorks \/ agentAsks \/ agentEnds

Spec == Init /\ [][Next]_vars

\* MaxReplies makes room for the agent come and go, hence strong fairness for it.
\* Continuations run, lines are read, the agent serves commands and ends its runs, the
\* user answers approvals, and a safety timer that stays set fires.  Nobody has to submit
\* or abort, and nothing has to fail.
Fairness ==
  /\ WF_vars(Continue) /\ WF_vars(ReadLine)
  /\ SF_vars(Commands) /\ SF_vars(agentEnds)
  /\ WF_vars(attach) /\ WF_vars(respondToApproval)
  /\ \A t \in Turns : WF_vars(safetyTimeout(t))

FairSpec == Spec /\ Fairness

-----------------------------------------------------------------------------
(* Properties *)

\* The lock is held while somebody queues for it, and whoever is queued is in the queue
\* or about to run: no release, however many there are, loses a turn.
NoTurnIsLost ==
  /\ lockQueue # <<>> => lockHeld
  /\ \A t \in Turns : state[t] = "queued" =>
       t \in granted \/ \E i \in 1..Len(lockQueue) : lockQueue[i] = t

\* "Serializes concurrent inputs via a response lock" (orchestrator.ts:3): at most one
\* turn generates at a time.
OneGenerating == \A t, u \in Turns : state[t] = "generating" /\ state[u] = "generating" => t = u

\* A generating turn listens to the agent, so that something will end it.  abortCurrentTurn
\* is to "Abort the currently generating turn" (orchestrator.ts:149).
GeneratingListens == \A t \in Turns : state[t] = "generating" => t \in listening

\* A turn is closed by the end of its own run, not by what is left of an earlier one.
EndsWithItsOwnRun ==
  [][\A t \in Turns : receiveEnd /\ state[t] = "generating" /\ state'[t] = "idle" => Head(replies).of = t]_vars

\* The agent is never asked to work on a turn while it works on another, which it refuses
\* with a reply nobody waits for.
PromptFindsAgentFree ==
  commands # <<>> /\ Head(commands).type = "prompt" => run = NoTurn

\* "Pause safety timer while the user is deciding on an approval request"
\* (orchestrator.ts:263).
NoTimeoutWhileDeciding == asks > 0 => safetyTimer = {}

\* Every queued turn gets to run, or was aborted.
QueuedRuns == \A t \in Turns : state[t] = "queued" ~> state[t] # "queued"

\* Every turn comes to an end.
GeneratingEnds == \A t \in Turns : state[t] = "generating" ~> state[t] # "generating"
=============================================================================
