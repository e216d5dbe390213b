# Lucent Code: a verification project in TLA+

Lucent Code is a coding agent (a library, a session on top of it, a terminal and an RPC
front end) and an Electron studio that runs one agent process per pane. This directory
holds TLA+ models of the parts that carry its concurrency, the TLC runs that check them on
small instances, and TLAPS proofs of what holds for every instance.

Paths are relative to the repository's root; `core/` is short for
`packages/pi-coding-agent/src/core/`, `main/` for `apps/studio/src/main/`.

Contents: [1 Inventory](#1-inventory) - [2 Plan](#2-plan) - [3 The models](#3-the-models) -
[4 The runs](#4-the-runs) - [5 What the code does against its own word](#5-what-the-code-does-against-its-own-word) -
[6 Proofs](#6-proofs) - [7 What is not modelled](#7-what-is-not-modelled) - [8 How to run](#8-how-to-run)

## 1. Inventory

### 1.1 How the parts fit together

```
 renderer --ipc--> Orchestrator --submit/abort--> AgentBridge ==stdin/stdout==> rpc-mode
                       |  response lock, timers       | requests by id             |
                   PaneManager --kill/spawn--> ProcessManager                 AgentSession
                                                                 event queue /  |   \ prompt, steer
                                                       RetryHandler  Compaction |    Agent
                                                          timers -> continue()  |      | stream
                                                                         SessionManager agentLoop
                                                                                       | hooks, tools, model
```

Everything runs in two kinds of Node process, the studio's main process and one agent
process per pane. Neither has threads: concurrency is between callbacks, timers, promise
continuations, child processes and lines read from pipes. What makes the code hard is
always of one form: something is read, then awaited upon, then used.

### 1.2 Components

**Agent and agent loop** (`packages/pi-agent-core/src/agent.ts`, `agent-loop.ts`).
*State:* the transcript, a steering and a follow-up queue, the run in progress with its
abort signal; inside a run a second copy of the transcript (`currentContext`), the
messages about to be injected, the results of the turn. *Operations:* `prompt`,
`continue`, `steer`, `followUp`, `abort`, `reset`, the draining of the queues; in the loop
a model request, preparation, execution and finalization of tool calls, five different
polls of the queues. *Hard:* steering arrives at every point of a turn and has to skip just
the calls not yet run; prepared calls run in parallel; the Agent reads the loop's stream
later than the loop writes it; hooks throw. *Correct when:* both transcripts agree; every
tool call is answered once, directly behind the message that asked for it; no queued
message is lost, doubled or overtaken; each run ends.

**Agent session** (`core/agent-session.ts`). *State:* display copies of the queues, a
serial queue of agent events, pending output of shell commands, the current session.
*Operations:* `prompt`, `steer`, `followUp`, `clearQueue`, `abort`, `newSession`,
`switchSession`, `recordBashResult`. *Hard:* agent events are processed behind several
awaits and may be persisted into a session that has replaced theirs. *Correct when:* each
message is persisted once, in the session it was said in, in order, and the display copies
say what the agent's queues hold.

**Retry handler** (`core/retry-handler.ts`, with `core/fallback-resolver.ts`). *State:* the
attempt counter, a promise `prompt()` waits on, the sleep's abort controller, timers.
*Operations:* the handling of a successful and of a failed message, abort. *Hard:* the
promise is created in one callback and resolved in another; a retry starts from a timer.
*Correct when:* every caller of `prompt()` returns, and not before its retry; retries do
not race with each other or with prompts; only failed messages are taken back; an abort is
final; the budget of attempts starts anew.

**Compaction** (`core/compaction-orchestrator.ts`, `core/compaction/`). *State:* abort
controllers, the flag of an overflow recovery. *Operations:* manual, threshold and overflow
compaction. *Hard:* two compactions at once; disconnecting from an agent that is being
aborted; a cut computed now and entered after a summary took its time. *Correct when:* one
compaction runs, its abort reaches it, every message is shown or summarised, and no result is
shown without its call.

**Session manager** (`core/session-manager.ts`). *State:* a tree of entries, the leaf
pointer, labels, a file. *Operations:* append, branch, fork a path, label, load. *Hard:* the
first write is delayed until an assistant has spoken; writes fail after memory has changed;
what a reload makes of the file. *Correct when:* a reload gives what memory held, and the
path from the leaf to the root survives branching and restart.

**Credentials, settings, locks** (`core/auth-storage.ts`, `core/settings-manager.ts`,
`core/lock-utils.ts`). *State:* two files shared by processes, a copy of them per process,
backoff per credential by its index in the copy. *Operations:* add, log in, remove, take a
credential, refresh a token, back off. *Hard:* read-modify-write by several processes, a lock
not obtained, a refresh that outlives its lock or its process. *Correct when:* no process
loses another's update or refresh token, and the backed off credential is the limited one.

**Tool approval** (`core/tool-approval.ts`). *State:* pending approvals and classifications
by id. *Hard:* no timeout, answers in any order, abort. *Correct when:* each request gets
its own answer once, and nobody waits after an abort.

**RPC mode and client** (`packages/pi-coding-agent/src/modes/rpc/`). *State:* pending
requests by id. *Hard:* a prompt may get two responses; late answers. *Correct when:*
each request settles once with its own answer.

**Studio orchestrator and agent bridge** (`main/orchestrator.ts`, `main/agent-bridge.ts`).
*State:* the current turn with its cleanup, a lock with a queue, two timers per turn;
pending requests. *Operations:* `submitTurn`, `abortCurrentTurn`, the handling of events,
approvals, timeouts and the exit of the process. *Hard:* seven things end a turn and each
releases the lock. *Correct when:* turns are served one at a time, in order, each closed
by its own end; each queued turn gets its turn; the user may take time to decide.

**Studio process and pane managers** (`main/process-manager.ts`, `main/pane-manager.ts`).
*State:* a record per slot (process, state, backoff, restart timer), named processes.
*Operations:* spawn, kill, restart after a crash, restart and end of a pane. *Hard:* kills
during a backoff, exits that come late, overlapping restarts. *Correct when:* a pane has
one agent, which the manager can reach and the bridge talks to; crashes are recovered from.

**Studio services, voice, web bridge, IPC** (`main/*`, `apps/studio/audio-service`): files,
git, terminals, updates, a sidecar; mostly I/O. **User interfaces** (`packages/pi-tui`,
`modes/interactive`, `apps/studio/src/renderer`): view state that follows the events of the
parts above. **Providers** (`packages/pi-ai`), **native code** (`packages/native`,
`native`), **tools, language servers, extensions, resources** (`core/`), **command line**
(`src`): wire formats, I/O and start-up. `PROJECT.json` lists each with its files and its
reason, and every hazard at its line.

## 2. Plan

Ordered by how much of the system rests on the part.

| | Module | Question | State |
|---|---|---|---|
| 1 | `Conversation`, `AgentLoop`, `AgentLoop_proofs` | does a run keep the contract of a conversation? | done |
| 2 | `RetryHandler`, `RetryHistory`, `RetryHandler_proofs` | do retries end, and not race? | done |
| 3 | `TurnOrchestrator`, `TurnHistory`, `TurnOrchestrator_proofs` | are turns served one at a time? | done |
| 4 | `PaneProcess`, `PaneProcess_proofs` | one agent per pane? | done |
| 5 | `AgentSession`, `SessionHistory`, `AgentSession_proofs` | is each message persisted once, where it belongs, and what do compactions and session changes do to that? | done |
| 6 | `Compaction`, `Compaction_proofs` | is every message shown or summarised? | done |
| 7 | `SessionManager`, `SessionManager_proofs` | do path, labels and parents survive branch, fork and restart? | done |
| 8 | `AuthStorage`, `AuthHistory`, `AuthStorage_proofs` | do processes that share credentials lose one? | done |
| 9 | `ToolApproval`: requests by id over stdin/stdout, abort | each answered once, nobody left waiting? | open |
| 10 | `NamedProcesses`: the slots of subagents and the sidecar | does an exit find its own entry? | open |
| 11 | `RpcClient`: requests, timeouts, exit | each settles once? | open |

Modules 5 to 8 came before 9 to 11 because they hold what the user cannot get back: the
conversation and the credentials. 10 repeats the pattern of `PaneProcess` without its backoff,
11 that of the bridge's pending requests, whose rejections `TurnOrchestrator` already has as
time-outs and exits; 9 has one hazard of weight, a wait without end after an abort, which the
fairness assumed of `AgentLoop` names (section 4).

Abstract specifications: `Conversation` (done, implemented by `AgentLoop`); a lock that hands
a token from turn to turn, which `TurnOrchestrator` implements only when nothing ends a turn
twice; a slot that holds at most one agent, for `PaneProcess`. Compositions: `AgentSession`
contains the runs of `AgentLoop`, the file of `SessionManager` and the compactions of
`Compaction`, each without its inside. `TurnOrchestrator` with `PaneProcess` (the exit and
attach of the former are the crash and restart of the latter) is open.

Theorems: every invariant that a passing run checks is proved (section 6), and so is the one
refinement stated. Open are the abstract specifications above that are not written yet, and the
refinement of each by its component for as long as nothing overlaps or fails.

## 3. The models

In each module an action is the code between two awaits of one activity, its name is that of
the function it comes from, and the variables keep the source's names. Variables called
*history* in their comment are not in the code; they record what has happened so that a
property can speak of it, and no guard depends on them except to offer each input once.
The code often does the right thing until something particular happens, and then goes wrong in
one way but not in others. The modules `RetryHistory`, `PaneHistory`, `TurnHistory`,
`SessionHistory` and `AuthHistory` therefore add a variable to a model, in which they note that it
has happened (`plain`, `apart`, `seen`), and their properties, named `Calm...`, `Apart...`,
`Unaborted...` or `Plain...`, say what is left intact by what. One run then covers both the
normal and the disturbed behaviours, and section 5 has the disturbances that break each property.

Operators introduced by a comment "Mutant:" are plausible mistakes that the project uses to
check its own properties (each property of a passing run is violated by at least one); no
action uses them.

### 3.1 `AgentLoop` and `Conversation`

| Model | Code |
|---|---|
| `messages`, `steeringQueue`, `followUpQueue`, `aborted` | the fields of `Agent` |
| `context`, `pending`, `todo`/`runnable`, `results` | `currentContext.messages`, `pendingMessages`, the calls of the batch not yet and already prepared, `toolResults` |
| `stream` | `EventStream` between loop and Agent; only events that carry a message |
| `phase` | which `await` of the loop is outstanding; `"idle"` is `isStreaming = false` |
| `steer` ... `reset` | the methods of `Agent` |
| `inject` ... `pollFollowUp` | `runLoop` and the functions it calls, in order |
| `readMessage`, `readAgentEnd` | the `for await` of `Agent._runLoop` and its `finally` |

`readAgentEnd` joins the reading of `agent_end` with the `finally` block that follows it
in the same tick; listeners called in between are hazard material for a later module. A
message is a record of its role and an id (input), a call (tool result) or its calls and
stop reason (assistant): this is what the properties tell apart. The model, the hooks and
the tools are the environment; their answers are chosen freely. The history variables say what
was handed over, and in which order (`submitted`, `steered`, `followed`), what a caller has
taken away again (`gone`), and whether an `afterToolCall` hook has thrown (`thrown`), after which
a call may be without its result.

`Conversation` is the contract of a run towards the session and the model provider: user
messages only when no call is open, each open call answered once, a failed message taken
back only from the end. The refinement maps `transcript` to what the Agent has read plus
what is on its way, and `open` to the calls of the turn not yet answered.

### 3.2 `RetryHandler`

A caller of `prompt()` is *preparing* (between its test of `isStreaming` and `agent.prompt`,
behind awaits), *running*, *returned* (at `waitForRetry`) and perhaps *waiting*. `events` is
the session's `_agentEventQueue`; `handler` says what the processing of an `agent_end`
waits for: the search for another provider, the backoff, or one of the two compactions.
`promise` is `_retryPromise`, created synchronously when a failed `agent_end` is emitted.
Two kinds of `setTimeout` callbacks will call `agent.continue()`: `timers`, set by retries and
recoveries, and `resumes`, set by a compaction that finds messages queued. Of the transcript
only the last message, `top`, matters here, and of the session file the last two (`saved`, and
`below` if that one failed): a failed message is taken from the agent's state but stays in the
file, and a compaction makes the transcript from the file (`Reloaded`). `Outcomes` bounds how
runs may end: with rate limits and quota errors the handler tries another credential (at once,
not counted) or provider; `fatal` is not retried; `overflow` is recovered from by compaction,
and so is `silent`, a good answer to more input than the window holds. A compaction at the
threshold may follow any answer but an aborted one, and either kind may come before a prompt
is sent (`checkBefore`, `compactBefore`). `Patient` tells whether callers wait until
everything earlier has settled; the session does not force them to, so runs with and without
it ask different questions.

`RetryHistory` notes three things: not *plain*, something other than one-message runs that are
good, aborted or fail transiently; *beside*, the check at the begin of `prompt()` has scheduled
a restart, with which the run that `prompt()` then starts competes; *buried*, a recovery from
overflow has begun that will find another assistant's message last, because the answer was
good or because an earlier failure, once retried, is still on file.

### 3.3 `TurnOrchestrator`

Each turn has the code's `state` plus `"new"`. `acquireLock`/`releaseLock` are the lock;
`granted` holds turns whose promise has resolved and whose `runTurn` starts in the next
microtask. `releaseLock(n, ...)` is n releases in a row, for one event may end several turns:
each hands the lock on, or frees it whether it was held or not, as the code does.
`firstTimer` and `safetyTimer` are the two timers of a turn, `approvalPending` its pause.
`commands` and `replies` are the two pipes, in order. The agent process is taken from
`rpc-mode.ts`: it accepts a prompt at once, may say later in a second response that it
refuses, answers an abort when idle, and sends `agent_end`: before the reply to the abort or
behind it, for `AgentSession.abort` waits until the agent is idle, while events go through
`_agentEventQueue`, where the handlers of extensions are awaited. Requests have ids, and a reply
to one that timed out is taken for an event; a turn is aborted at most once, so the turn stands
for the id. `Quiet` expresses that promise continuations run before the next timer, line or IPC
call.

`TurnHistory` notes a *failure*, an *abort*, that a turn has *overtaken* the `agent_end` of the
one aborted before it (it starts while that line is unread) and that *several* approvals have
been asked for at one time.

### 3.4 `PaneProcess`

`managed` is the code's `ManagedProcess` record for one pane's agent. Processes are model
values: those that `running`, those whose spawn `failing`, those sent SIGTERM (`signalled`)
and SIGKILL (`forced`). A call of `restartPaneAgent` or `destroyPane` is at `"aborting"`
(awaiting `abortCurrentTurn`), `"killing"` (in `killProcess`), `"killed"` or `"done"`. Exit
handlers are attached per process and act on the shared record, as in the code, which is
where the interesting states come from. `attached` is the process the bridge reads from.

### 3.5 `SessionManager`

| Model | Code |
|---|---|
| `entries`, `leafId`, `labelsById`, `flushed`, `sessionFile` | the fields of `SessionManager` |
| `headers`, `stored`, `torn` | what a loader finds in each file: a header, whole lines, a last line that is not whole |
| the appending actions, `branch`, `createBranchedSession`, `newSession`, opening of a file | the methods |

An id is a number that grows, so that the order of lines is the order of ids and a file is a
set. A crash is an opening of a file at any time, for memory is lost and nothing else. A write
may fail after memory has changed (`missing` notes which entries this has cost), or, up to
`MaxTears` times, leave a part of a line, which the next append completes to a line no loader
can parse. The first entry a compaction keeps is any id made so far: the orchestrator chooses
it, waits for the summary and then appends, and nothing checks that it is still on the path
(`OnPath`). A compaction for which it is not is *stray* (history).

### 3.6 `Compaction`

`path` is the branch from root to leaf. `prepareCompaction` is one action and
`appendCompaction` another, because a summary takes a request to the model in between, while
entries are added. The summary stands for the set of messages it was made from. Sizes are
numbers, tokens are counted as `findCutPoint` counts them. `Shown` is `buildSessionContext`,
`Summarised` what reaches the model through the summary. `AnyTime` allows a
compaction while a call waits for its result.

### 3.7 `AgentSession` and `SessionHistory`

| Model | Code |
|---|---|
| `transcript`, `running`, `queue` | the agent, as far as the session sees it |
| `text`, `answers` | the text of each message the user typed (named by the first that had it, `NoText` for an image), and which messages are an assistant's |
| `display`, `pending` | `_steeringMessages` (by the message whose text each entry is), `_pendingBashMessages` |
| `events` with `handling`, `answered` | `_agentEventQueue` and the await its head is at (an extension, the search for another provider, the sleep before a retry, a compaction), `_lastAssistantMessage` |
| `connected` | `_disconnectFromAgent`, `_reconnectToAgent` |
| `autos`, `abortable`, `recovering`, `manual` | automatic compactions with the one controller they share, those that recover from an overflow, `compact()` |
| `continues` | the timers that will continue the agent, set by retries, recoveries and compactions |
| `changing` | `newSession`, `switchSession` between their awaits |
| `file`, `session`, `home` | the entries of each session, the current one, and (*history*) where a message was said |

`_steeringMessages` holds texts: a delivered message strikes the first entry with its text
(`Struck`), which may stand for another one, and strikes nothing when it has no text. Which
answers fail, and how, is left open: at the end of a run with an answer the handler may retry
(`endSeeks`, `endRetries`, `retryDue`), compact (`endCompacts`) or do nothing; a retry and a
recovery from overflow take the last answer out of the transcript (`WithoutAnswer`) and leave
it in the file. When a recovery has reloaded the transcript the failed message is taken back
only after extensions were told of the compaction; here that is one step (`autoDone`).

The kinds of disturbances that `SessionHistory` notes: *late*, the session writes something
else or changes while messages of a run wait to be written; *moved*, the session changes beside
queued messages or shell output; *unheard*, a message ends while the session is disconnected;
*crossed*, the session changes, or a run begins, under a compaction; *stale*, something is
said or written while a session has been read and is not shown yet; *failed*, an answer is
taken from the transcript and stays in the file; *wordless*, an image without a text is queued;
*alike*, a message that is not displayed, and whose event is to come, has the text of one that
is.

### 3.8 `AuthStorage` and `AuthHistory`

The entry of one provider in `auth.json`, an array of API keys and at most one OAuth token, and
in each process a copy (`data`), the indices backed off and the `getApiKey` that is refreshing a
token (`call`, with the await it is at). What is done under the lock without an await is one
action; `lock` matters only where it is held over awaits, in `refreshOAuthTokenWithLock`. Who
finds the file locked for 200 ms goes on without a reload or a write, as `lock-utils.ts` and its
callers do. The server issues numbered tokens, and exchanges each once: a refresh by a token
that has been exchanged fails. Its reply may be lost (`answerIsLost`), which to the process is
a failure like any other. A process may end at any time (`restart`); a lock may be taken
away from a refresh that took more than 10 s (`MaySteal`).

The kinds of slips that `AuthHistory` notes: *outdated*, a process writes a copy although the
file has changed since; *unwritten*, a change stays in memory because the file was locked;
*stolen*, a lock is taken away; *cut*, a process ends in the middle of a refresh; *lost*, the
server exchanges a token and its reply does not arrive; *swapped*, the copy is reordered under indices that are backed off; *mistaken*, another credential is
backed off than the one that hit the limit.

## 4. The runs

All states of each instance are explored. Deadlock checking is off where the system may
rest for good: all turns served and nobody submits more, all calls on a pane made, or the
bound on messages, entries or tokens reached.

| Run | Instance | What it shows |
|---|---|---|
| `agent_runs` | 3 messages, one of them the system's, 2 calls asked for together, parallel tools, queues one at a time; or 2 messages, sequential tools, queues at one go; model errors, aborts, an `afterToolCall` that throws | transcripts agree, calls are answered before the model is asked again unless the hook threw, queues conserve their messages, `Conversation` is implemented, every run comes to rest |
| `retry_all` | a caller that waits, all outcomes, tool turns, queued messages, compaction, aborts, 2 retries | unless *beside*, restarts never race and no good answer is taken back; unless *buried* too, restarts are accepted; with transient failures only and runs of one message, each retry is waited for and each `prompt()` returns |
| `retry_hangs_credential` | 1 caller, rate limits | *violated*, see 5 |
| `turns_served` | 3 turns, aborts of the turn that generates or failures (time-outs, exits, retries, refusals), late `agent_end`s, two approvals at a time | without failures one turn at a time; until one has *overtaken* a late `agent_end`, each is closed by its own end, the agent is free when asked and, unless *several* are open, an approval pauses the timer; without aborts, each generating turn ends |
| `turns_everything` | 3 turns, aborts of queued turns too, failures but for refused prompts, late `agent_end`s | the lock loses no turn however often it is released; each queued turn gets its turn |
| `pane_all` | a restart and the end of the pane, overlapping or not, 5 processes, crashes, failed spawns, processes that ignore SIGTERM | a crash is followed by a restart, operations return; without an overlap one agent, reachable and attached, and nothing left of a deleted pane |
| `session_manager` | 2 files, 3 entries, a torn line, failing writes | references stay inside the session, stray compactions aside, a reload gives what is in memory, labels included |
| `session_fork` | 2 files, 3 entries, no failures | *violated*, see 5 |
| `compaction_cuts` | 7 entries, 2 tokens kept, up to 3 compactions | what was said since the last compaction but one is shown or summarised, and results are shown with their calls |
| `compaction_lost` | 6 entries of 1 or 2 tokens, 1 token kept | *violated*, see 5 |
| `session_kept` | 3 messages, 2 sessions, 2 compactions, at most one kind of disturbance, all but *late* and *unheard* | which disturbances leave transcript, files and display in step |
| `auth_shared` | 2 processes, 2 keys, 2 tokens, one process that hits limits, a refresh that is cut, stolen or whose answer is lost | what was added is on file, the token there can be used, what is backed off is what hit a limit |

**Bounds and why they are enough.**
`AgentLoop`: inputs and call ids are used at most once, which makes the instance finite;
two calls are the least for which a batch has a call run and a call skipped, failed or
unprepared, and three messages the least for one said, one pending and one queued. Results
of one call never depend on a third.
`RetryHandler`: `MaxRetries = 2` gives a first, a last and a refused attempt; `MaxEvents = 2`
stops prompts, tool turns and queued messages while that many events wait, so that a run's
last message and end stand behind two others; callers that wait are never two at once, so that
one caller, who calls again and again, is all of them (the proofs are for any number). Once
*beside*, what is under way goes on, but nothing new is prompted or aborted
(`HistoryNext`): the states of two runs that compete are not bounded, and nothing but the type
invariant and the liveness of plain runs, which it ends, is asked of them.
`TurnOrchestrator`: three turns give one that generates, one that is granted the lock and one
that still waits; `MaxReplies` bounds lines unread (2 lets an `agent_end` stand behind
another line; `turns_everything` has 1 to make room for its other failures), `MaxAsks`
is 2 in `turns_served`, two tools that ask in parallel.
`PaneProcess`: five processes are the first one, one per restart and two for crashes or
failed spawns; `Left`, `Due`, `Hanging` and `Spare` reserve a process for each operation to
come, so that the bound never blocks one and the liveness properties mean what they say.
`MaxBackoff = 3` makes the doubling both reach its cap and overshoot it.
`SessionManager`: three entries give a parent, a label or compaction about it, and an entry
behind; two files are the one left and the one forked to. The proofs need no bound.
`Compaction`: seven entries hold a turn with a call before and after each of two compactions;
messages of one size and a budget of two let the cut fall on every kind of entry.
`AgentSession`: three messages are one said, one queued and one of a command; two compactions can
both be under way. One kind of disturbance at a time is what the table of section 5 separates.
*unheard* breaks all that the run asks; *late* leaves the display alone, which the proof of
`DisplayFollowsQueue` covers (its states alone are twice those of all other kinds together).
`AuthStorage`: two tokens are one and its successor, three credentials the least for which a
token stands first, in the middle and last. After a lock has been taken away only what is
under way goes on (`Open`): this bounds the states without hiding what the two refreshes do.

**Fairness.** `AgentLoop.FairSpec`: the loop or its reader goes on, for each await of theirs
settles; this assumes that hooks, tools and the model settle, which a tool waiting for an
approval that nobody gives does not (a hazard listed as not covered).
`RetryHandler.FairSpec`: runs end, timers fire, the event queue is served, callers go on.
`TurnOrchestrator.FairSpec`: continuations run, lines are read, the agent serves its
commands and ends its runs, the user answers approvals, a timer that stays set fires. The
agent's actions need strong fairness only because the bound `MaxReplies` disables them
again and again while their pipe is full; a real pipe does not. `PaneProcess.FairSpec`:
continuations run, timers fire, an aborted turn settles (its requests time out after 30 s)
and SIGKILL ends a process; no process need heed SIGTERM and no agent need answer. Nobody is
ever obliged to prompt, submit, abort, crash or fail.

## 5. What the code does against its own word

Three runs end in a counterexample and are reported as findings.

* `retry_hangs_credential`. A retry with another credential or provider is not counted, and
  `handleSuccessfulResponse` resolves the promise only when the counter is above 0
  (`core/retry-handler.ts:87`): after a successful switch `prompt()` waits for ever.
  ("Returns immediately if no retry is in progress", line 304.)
* `session_fork`. `createBranchedSession` filters labels out of the path without changing the
  parent of the entry behind a label (`core/session-manager.ts:1401`): in the new file the walk
  to the root stops there, and all that was said before the label is not shown. ("Create a
  new session file containing only the path from root to the specified leaf", line 1388.)
* `compaction_lost`. A compaction summarises what is behind the previous compaction entry
  (`core/compaction/compaction.ts:588`), but what that one kept is in front of it: the second compaction
  neither shows nor summarises it. ("Messages to summarize (will be discarded after summary)",
  line 606, says what may go.)

Further configurations kept beside the runs end in a counterexample too. Each isolates one
cause; the passing runs exclude these causes and show that nothing else goes wrong.

| Configuration | Property | Cause |
|---|---|---|
| `AgentLoop_steering` | `SteeringIsDelivered` | a message queued after the last poll of a run stays queued until somebody prompts again |
| `RetryHandler_hangscredential` with `Outcomes = {"good", "transient", "fatal"}` | `NoWaitForNothing` | a retried run that ends in an error not retried resolves nothing |
| `RetryHandler_all` with `OneRestart` or `RestartIsAccepted` as invariant | that one | compaction before a prompt sets a timer, for the recovery or for queued messages, and `prompt()` goes on to start a run beside it |
| the same with `RestartIsAccepted`, *beside* excluded | `RestartIsAccepted` | recovery reloads the file, where the failed attempts retried before are last once the one that overflowed is dropped (or the good answer that was): `continue()` is refused |
| the same with `GoodStays` as property | `GoodStays` | "LLM returned context overflow error, remove error message" (`compaction-orchestrator.ts:205`): a good answer is removed if its input is larger than the window |
| the same with `OnlyErrorsRemoved` as property | `OnlyErrorsRemoved` | *beside*: of two runs that compete one fails, and its retry takes back the good answer of the other |
| `RetryHandler_cancel` | `CancelledStaysCancelled` | `abortRetry` ends the sleep, but not a timer already set, nor a retry not yet asleep |
| `RetryHandler_counter` | `ZeroIfNotRetrying` | an error not retried after a retry leaves the counter raised |
| `RetryHandler_stale` | `OnlyErrorsRemoved` | a caller that prompts between a failure and its handling: its good answer is taken back |
| `RetryHandler_returns` | `RetryCompletesFirst` | a tool turn of the retried run counts as success: `prompt()` returns while the run is on |
| `TurnOrchestrator_timeouts` | `OneGenerating` | an agent silent for 30 s: the first-activity timer releases the lock, then the rejected prompt request does (`main/orchestrator.ts:481`, 509) |
| the same with `MayTimeOut = FALSE`, `MayExit = TRUE` | `OneGenerating` | on exit the listener and the rejected request both release the lock |
| `TurnOrchestrator_abortqueued` | `GeneratingListens` | aborting a queued turn calls the cleanup of the one that generates |
| `TurnOrchestrator_approvals` | `NoTimeoutWhileDeciding` | two tools in parallel ask for approval: the first answer starts the timer again |
| `TurnOrchestrator_lateend` | `EndsWithItsOwnRun` | if the `agent_end` of an aborted run is read after the next turn has started, it ends that turn; the turn behind it is then prompted while the agent works |
| `PaneProcess_backoff` | `OneAgent` | `killProcess` returns before it clears the timer when the slot is empty |
| `PaneProcess_slow` | `OneAgent` | after SIGKILL the late exit empties the slot of the successor and schedules a third process |
| the same with `Restarts = {r1, r2}`, `MayHang = FALSE` | `OneAgent` | two restarts wait for the same exit, each spawns |
| `PaneProcess_destroyed` | `DestroyedIsDown` | a pane deleted during the backoff comes back |
| `SessionManager_torn` | `AppendedIsStored` | a line of which a part was written swallows the next entry |
| the same with `MaxTears = 0` | `AppendedIsStored` | after a fork whose file could not be written, entries go to a file without a header, which no loader accepts |
| `SessionManager_leaf` | `LeafSurvives` | a branch moves the leaf in memory only: after a reload the leaf is the last line |
| the same with `KeptIsThere` in place of `LeafSurvives` | `KeptIsThere` | the session changes while a compaction waits for its summary: the first entry it keeps is not there (`core/compaction-orchestrator.ts:378`), and nothing before it is shown |
| `Compaction_lost` with `KeepRecent = 2` | `NotInVain` | a compaction may be prepared that leaves nothing out: the first cut point is already within what is to be kept |
| `Compaction_results` | `ResultsFollowCalls` | a compaction entered between a call and its result leaves the result first behind the boundary, and there the next compaction, asked for before the result is answered, cuts |
| `AgentSession_late` | `RestIsSaved` | something else is written, or the session changes, while an event waits for an extension: the message comes too late or in the wrong file |
| `AgentSession_late` with other `Overlaps` | see below | |
| `AgentSession_cleared` | `ReturnedOnce` | `clearQueue` gives back a message that the agent has already taken |
| the same with `INVARIANTS BashIsFlushed` in place of `ReturnedOnce` | `BashIsFlushed` | output of a command kept aside during a run waits for the next prompt |
| `AuthStorage_outdated` | `OwnedIsOnFile` | a process whose copy is older than another's change writes it back whole |
| the same with `Slips = {"unwritten"}` or `{"stolen"}` | `OwnedIsOnFile` | a change made while the file is locked is never written; a refresh whose lock was taken writes what it read before |
| with `Slips = {"cut"}` or `{"lost"}` | `TokenIsUsable` | the process ends between the exchange of a token and its writing; or the server's reply is lost, and the token on file has been exchanged |
| with `Slips = {"swapped"}` | `BackoffFollows` | a reload replaces the copy and keeps the indices |
| `AuthStorage_mistaken` | `FailedIsBackedOff` | the credential at the session's start is moved and backed off, also when a later one had been used |

Which disturbance breaks which property of the session (`x`: the configuration with just that
kind ends in a counterexample; `-`: TLC finds none):

| | `RestIsSaved` | `FilesAreOwn` | `SaidIsSaved` | `DisplayIsQueue` |
|---|---|---|---|---|
| late | x | x | x | - |
| moved | - | x | x | x |
| unheard | x | - | x | x |
| crossed | - | x | - | - |
| stale | x | - | - | - |
| failed | x | - | - | - |
| wordless | - | - | - | x |
| alike | - | - | - | x |

*failed* needs no overlap at all: after a retry or a recovery from overflow the transcript
lacks the failed message, and the file has it (`core/agent-session.ts:459`), so that a restart
shows the model what it did not see before. *wordless* and *alike* are the same mistake of a
comparison by text (`core/agent-session.ts:420`): an image stays on display for ever, and a
prompt with the text of a queued message strikes that one.

## 6. Proofs

TLAPS checks every step of the theorems below, for all values of the constants that satisfy
each module's named assumption. TLC evaluates these assumptions in every run.

**`AgentLoop_proofs`.** `TypeCorrect`, and `TranscriptAgrees`: inside a turn, what the Agent
has read followed by what is on its way is exactly the loop's context followed by the turn's
results. `TranscriptIsContext` is not inductive: a run begins with the Agent's messages as its
context, so that the stream must be empty when idle; and outside of the tool phases there must
be no results left. `Invariant` adds both. The argument goes by how a step changes the two
sides: it appends the same message to both (`AppendBehind`), moves the head of the stream to
the end of the messages (`ReadMoves`), moves results into the context, or changes neither.
`ImplementsConversation` is the refinement: every step of the agent, its loop and its reader
is a step of `Conversation` or changes nothing of it, callers and modes being what they will.
It takes what the transcript does not say (`CallsInOrder`): a call waits in one place only,
and only in the phases of the tools, so that a result always closes one open call and a caller
that takes a message back or forgets all never finds one open.

`CallsAreAnswered`: whenever the model is asked, each call of each good answer it ever gave
has its result right behind that answer. While tools are at work this is false of the last
answer, and `AnswersInOrder` says what that one lacks: what has been collected and what still
waits (`Unanswered`) are together its calls, each once. `QueuedMessagesKept`: what is said,
about to be said and queued holds every message handed over once, in the order of handing
over, but for those taken away. `QueuesConserve` speaks of three such lines that share their
front, and a message enters that front from one of three places, so `Origins` has to say that
a message comes from one caller only, and that none is pending where a batch of new ones is
fetched.

**`RetryHandler_proofs`.** `TypeCorrect`, which includes that the attempts stay within the
limit, and, over `HistorySpec` and for callers that wait (`ASSUME Patient`),
`RestartsDoNotRace`: unless *beside*, one restart is pending at most, and none beside a run.
`OneRestart` does not say why a run that ends finds no `agent_end` of its predecessor in the
queue, so it is not inductive. `RestartInvariant` says that what is under way is one thing
handed on: a run, the queue that ends with its `agent_end`, the handling, a timer, a run again;
and that who prepares a prompt is alone, also while it compacts. Without `Patient` the theorem
would be false (`RetryHandler_stale.cfg` has the setting). `GoodAnswersStay`,
unless *beside*, and `RestartsAreAccepted`, unless *buried* too, are about the last message at
the moment a failure is taken back or a timer fires. Between the failure and that moment the queue, the handler and the
timer hold what was known of it, so `TopInvariant` says of each of them what the last message
then is: the unread `agent_end` tells how the last message ended (`EndTells`), the file has an
answer that stands last, or will (`LastIsSaved`), so that a reload brings nothing else, and
behind a pending restart there is no answer at all. `RetriesAreAwaited`
says that a caller waits wherever a retry is under way, as long as failures are transient
only. `PlainInvariant` begins earlier, at the failure: from the `agent_end` of a failed run on
there is a promise and somebody at it or about to be (`PursuitAwaited`), unless it was
cancelled, and no message of a plain run is in the queue without its `agent_end` behind it
(`PlainSoFar`), so that no success can resolve the promise of another run.

**`TurnOrchestrator_proofs`.** `NoTurnIsEverLost`: a queued turn is in the queue of a held
lock or about to run, whatever fails and however often the lock is released. The lemma
`ReleaseLosesNobody` shows it for n releases in a row, by the positions of the queue; every
action is then a release, an acquisition or neither. Nothing is assumed of the constants
beyond a finite set of turns. It is the safety that remains when turns are released twice.

The other four are over `HistorySpec`, as long as nothing has failed (`Calm`) and no queued
turn is aborted (`ASSUME ~AbortQueued`), for section 5 shows that both break them.
`TurnsAreSerialized`: that one turn generates at a time does not
follow from the lock being held, for an aborted turn keeps it while it no longer generates, so
`TokenInvariant` names the one place in which the right to generate is: nobody's, handed to a
turn that has not begun, a generating turn's, or with an abort that waits for its answer. This
holds even when a late `agent_end` closes a turn early.
`AgentIsFree` and `TurnsEndWithTheirRun` take both ends of the pipe. `AgentInvariant` says what
is written and unread in each of the four places: at most a late `agent_end` when the right is
free or handed on (`AtRest`); one prompt, its run or its end when a turn generates (`Serves`); the
same with an abort behind it, or the agent's last word, with the `agent_end` in front of it or
behind, when one is awaited (`Stops`). A late `agent_end` does not spoil this where nobody
generates; it does when a turn starts while it is unread (*overtaken*), and until then
the first `agent_end` that finds a turn generating is that turn's (`EndIsOwn`), and the next
prompt meets a resting agent. `NoTimeoutMeanwhile`, until *several* approvals are asked for at
one time, adds where the request for an approval is: nowhere unless a run is on, and then in one
place (`OneAsk`), so that nothing that starts a timer can happen between the request and its
answer (`TimersPaused`).

**`PaneProcess_proofs`.** Over `HistorySpec`, in which operations, crashes and processes that
ignore SIGTERM may meet in any way. `TypeCorrect` and `CrashesAreHandled` hold whatever
overlaps. `OneAgentOfThePane`, `BridgeFollowsTheSlot` and `DestroyedStaysDown` hold as long as
`apart`: nothing has overlapped so far, the condition without which the configurations of
section 5 break them. `ApartInvariant` ties the slot to the set of processes (`SlotHoldsAll`),
the operation under way to the slot (`OneOperation`, `KillWaits`) and a deleted pane to an
empty one (`Down`).

**`SessionManager_proofs`.** `TypeCorrect`; `ReloadGivesMemory`, that once an assistant has
spoken a reload gives the entries in memory except those that failed to be written;
`ReferencesStay`, that the leaf, parents, labelled entries and what a compaction keeps that
has not strayed are in the session; and `LabelsReload`. A reload makes memory from the disk, so the invariant must
say of every file, not of the current one alone, what the properties say of memory
(`FilesHold`); and that a session which counts as flushed without an assistant, as one
reopened does, has everything on file (`Saved`), for its next entry is appended alone. A fork
takes one path out of the tree. That what a compaction keeps is in the tree does not put it on
that path: `KeptIn` says that it is on every path to the compaction that is not cut off from
its root, unless the compaction was put behind a path it was not made of. `LabelsHold` has the labels in memory as what the entries in memory say, one label
after the other.

**`Compaction_proofs`.** `TypeCorrect` and `KeepsRecent`: what was said since the last
compaction but one is shown or was summarised. The compaction is entered later than prepared,
so the invariant speaks of the one under way as well (`PreparationCovers`): what has been said
since the last compaction is behind what it keeps or among what it summarises. Most lemmas are
about the last compaction and the one before it when something is appended to a path.
`ResultsKeepCalls`, if compactions are prepared when a run is over (`ASSUME ~AnyTime`;
`Compaction_results.cfg` has the other case): `Answered` says of each place from which the
path is or may be shown that an assistant stands between it and any result behind it, and that
the path cannot be cut between the two. `CutIsBefore` says of the cut that nothing kept is in
front of it but what is no message, for any budget and sizes.

**`AuthStorage_proofs`.** `TypeCorrect` for `Spec`; over `HistorySpec`, with any number of
processes and tokens, `NothingOwnedIsLost`, `TokenStaysUsable` and `LimitsFollowCredentials`.
The second is the mutual exclusion of refreshes over a file. `UsableInvariant` says, as long
as nothing has slipped, that who refreshes holds the lock and works on what the file holds
(`Held`), that the token the server has answered with is still unused (`Fresh`), and that the
one on file is too unless an answer is under way (`OnFile`); a lost answer would end that. The third is about indices into a
list that is reordered: `RemappedFollows` proves, for every length of the list, that the
code's arithmetic sends each index to where its credential has gone.

**`AgentSession_proofs`.** Three theorems over `HistorySpec`, each under the disturbances that
do not break its property (table in section 5), for any number of messages, sessions and
compactions. They share `TypeOK`, `Stages` and `Placed`. `Stages` says at which await each
activity can be while another is at one of its own, as when a prompt waits no session changes.
`Placed` says that a message is in one place: queued, prompted, kept aside, waiting to be
written, or in one file, there once; and that queue and display are in the order of typing.

* `DisplayFollowsQueue` (`Displayed`): what is queued is displayed, and what is displayed is
  queued or its event has not begun to be handled (`Shows`). What is displayed is struck by
  text, so that this needs to know which entry goes: what is displayed has a text (`Worded`),
  messages begin their turns in the order they were queued, before those that still are
  (`InTurn`), and no other message with the text of a displayed one is to come (`~Alike`).
  Hence the entry struck is that of the message delivered, also among several with one text
  (`StruckIs`). Both lists rise, and two rising lists of the same messages are equal
  (`RisingSame`), hence display and queue are, order included.
* `RestStaysSaved` (`Saves`): the transcript differs from the file by just the events that
  wait. `Leads` says so by giving the transcripts in between, one for each event, which needs
  no recursion: a new event adds one behind, a handled one drops the first. Whatever else
  writes finds no event waiting, for else it would be *late*; compactions that are *crossed*
  write, too, but transcript and file alike; and no answer is taken back, for else it *failed*.
* `FilesStayRight` (`Right`): entries are of the session of their file and a compaction keeps
  from before itself (`OwnFiles`); what is on its way to a file is of the current session
  (`Homed`); what a compaction under way is going to keep is already in the file
  (`KeepsSaid`); and what has ever been said is in its file or waits to be written
  (`Accounts`); an answer that is taken back stays in its file. Files only grow (`FilesGrow`) and a step writes one list of entries that fit
  or nothing (`WritesStep`), and the rest is where the transcript of a step comes from, or that it got less
  (`ToldStep`).

**Only model-checked.** Liveness (`RunEnds`, `PlainPromptReturns`, `QueuedRuns`,
`UnabortedGeneratingEnds`, `Recovers`, `OperationsReturn`): TLAPS has no rule for fairness and
ENABLED. That what is wrong in section 5 is wrong is TLC's to show. All other properties of
the passing runs are proved.

**Without induction over data.** The provers here have no rule of induction to instantiate.
What is needed of lists is proved by the least number that does something (`MinOf`, and
`LeastNumber` of `SessionManager_proofs`) or by a set of numbers that has 0 and with each
number the next (`UpTo`); recursive functions are taken apart by the value at their last
argument. `SelectSeq` gives nothing to a prover: the models that are proved about take an
element out of a list with `RemoveFirst` or by its index.

## 7. What is not modelled

Tool approvals, named processes and the RPC client are open (section 2). Left out of the parts
modelled:

* agent: the setters (model, tools, thinking level) and events that carry no message; a listener
  that throws, which ends the reading of the stream by the catch path of `_runLoop`
  (`agent.ts:564`), for the loop itself reports its failures as messages; and a message begun
  and never ended (`agent.ts:548`), which a response would leave that stops without "done" or
  "error";
* retries: the classification of error texts and the lengths of delays, `retry.enabled = false`,
  the cancelling of a compaction (an outcome of it here), `compact()`, and compaction with
  callers that do not wait, which would replace the transcript under a run (in `AgentSession`);
* turns: other events that follow the reply to an abort (they only keep timers from firing),
  `detach`, voice phases, session naming, the follow-up path, which does not take the
  lock, and the texts forwarded to the renderer;
* panes: the sidecar, permission modes, environments;
* session files: a second process that rewrites the same file (`tryAcquireLockSync` goes on
  without the lock), migration of old versions, listing, and the texts of entries;
* agent session: `fork` and `navigateTree`, slash commands, expansion of prompts, and
  follow-ups, whose queue behaves as that of steering messages;
* compaction: token estimates by kind of content, the summary's text, branch summaries;
* credentials: more than one provider, the environment and the fallback resolver behind
  `getApiKey`; the search without a session id, which begins at a counter instead
  (`auth-storage.ts:547`, 597, 641) and serves what belongs to no session, such as the choice
  of a model at the start; the early return for a single credential and an error of unknown
  kind (`auth-storage.ts:584`), which the only caller, `retry-handler.ts:142`, has excluded
  before; writes of `auth.json` that are torn; and the settings file, which is read and written
  under one lock without an await between, and of which only the fields changed are written.

Providers, native code, user interfaces, tools, services and start-up code are wire formats,
I/O or view state without a protocol that a model checker would decide; their influence on the
parts modelled is a free choice of the environment there.

## 8. How to run

```
tlc -workers 2 -config AgentLoop_all.cfg MCAgentLoop.tla
tlapm AgentLoop_proofs.tla
```

A configuration `X_name.cfg` belongs to the module `MCX`, except for these:

| Configurations | Module |
|---|---|
| `TurnOrchestrator_served` | `TurnHistory` |
| `RetryHandler_*` | `RetryHistory` |
| `AgentSession_*` | `SessionHistory` |
| `Compaction_*` | `Compaction` |

The slowest runs are `turns_served`, `turns_everything`, `agent_runs`, `session_kept` and
`auth_shared` (one to four minutes each), the others take seconds to a minute; the proofs take some minutes per module.
