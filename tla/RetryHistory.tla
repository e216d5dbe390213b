---------------------------- MODULE RetryHistory ----------------------------
(* RetryHandler with a record of what has happened so far, so that one run *)
(* asks what else the code leaves intact.                                  *)
EXTENDS RetryHandler

VARIABLES
  plain,   \* history: each run so far was one message, good, aborted or a transient
           \* failure, and nothing was compacted
  beside,  \* history: prompt()'s own check for compaction has scheduled a restart, with
           \* which the run that prompt() goes on to start will compete
  buried   \* history: a recovery from overflow began that will find another assistant's
           \* message last: the answer was good, or a failed one is still on file before it

HistoryInit == Init /\ plain = TRUE /\ beside = FALSE /\ buried = FALSE

\* The ends of a run that leave it plain, and the event at its begin.
Plain == {"none", "good", "aborted", "transient"}

Compacts == handler \in Compaction \/ \E p \in Callers : caller[p] \in Compaction
Recovers == handler = "overflow" \/ \E p \in Callers : caller[p] = "overflow"

\* Bound: after such a restart what is under way goes on, but nothing new comes.
HistoryNext ==
  /\ (~beside /\ Steer) \/ GoOn
  /\ plain' = (/\ plain /\ ~Compacts'
               /\ Len(events') > Len(events) =>
                     LET e == events'[Len(events')]
                     IN e.type # "turn" /\ e.outcome \in Plain)
  /\ beside' = (beside \/ \E p \in Callers : compactBefore(p) /\ ~UNCHANGED timerVars)
  /\ buried' = (buried \/ (~Recovers /\ Recovers' /\ Reloaded("overflow") # {"user"}))

historyVars == <<vars, plain, beside, buried>>

HistorySpec == HistoryInit /\ [][HistoryNext]_historyVars /\ Fairness

-----------------------------------------------------------------------------
(* The properties that what is recorded breaks (see the README)             *)

\* Restarts do not race (OneRestart) unless prompt()'s own check schedules one.
ApartOneRestart == ~beside => OneRestart

\* Retries are accepted (RestartIsAccepted) unless, besides, the file brings another
\* assistant's message back.
ApartRestartIsAccepted == ~beside /\ ~buried => RestartIsAccepted

\* No answer is lost to a retry or a recovery that was not meant for it (OnlyErrorsRemoved),
\* reloads from the file included, unless prompt()'s own check schedules a restart.
ApartOnlyErrorsRemoved ==
  [][~beside =>
       (top \in Good /\ top' = "user" => running' \/ (top = "silent" /\ ~recovered /\ recovered'))]_historyVars

\* A prompt is awaited until its retry is over, as long as transient failures are all
\* there is (RetryIsAwaited, agent-session.ts:394-398).
PlainRetryIsAwaited == plain => RetryIsAwaited

\* The same for the return of prompt() (PromptReturns): transient failures and aborts,
\* at whatever moment, leave nobody waiting.
PlainPromptReturns == \A p \in Callers : caller[p] # "idle" ~> caller[p] = "idle" \/ ~plain
=============================================================================
