---------------------------- MODULE AgentSession ----------------------------
(***************************************************************************)
(* What core/agent-session.ts keeps in step: the transcript of the agent,  *)
(* the file of the session, the copy of the queue that is displayed, and   *)
(* the output of shell commands; while agent events wait for extensions,   *)
(* sessions are changed, and compactions (core/compaction-orchestrator.ts) *)
(* are entered later than prepared.                                        *)
(*                                                                         *)
(* The agent's run is that of AgentLoop without its inside, the file that  *)
(* of SessionManager without branches, a compaction that of Compaction     *)
(* without its choice of a cut.                                            *)
(***************************************************************************)
EXTENDS Integers, Sequences, SequencesExt, FiniteSetsExt

CONSTANTS
  MaxMessages, \* bound: messages typed, said or recorded
  MaxSessions, \* bound: sessions
  MaxSummaries \* bound: compactions entered or under way

ASSUME SessionAssumption ==
  MaxMessages \in Nat /\ MaxSessions \in Nat \ {0} /\ MaxSummaries \in Nat

Messages == 1..MaxMessages
Sessions == 1..MaxSessions
End      == 0  \* the event at the end of a run
NoText   == 0

\* An entry of a file: a message, or a compaction with the first message it keeps.
Entry == [type : {"message", "compaction"}, of : Messages]
Callers == {"event", "prompt"}

VARIABLES
  home,       \* the session in which each message was typed, said or recorded
  text,       \* the text of each message the user typed, named by the first that had it
  answers,    \* the messages that are an assistant's
  sessions, session, \* the sessions there are, and the current one
  file,       \* the entries of each session
  transcript, \* the messages of the agent
  running,    \* the agent streams
  queue, display, \* steering messages in the agent, and those whose texts are displayed
  connected,  \* the session listens to the agent
  events, handling, \* _agentEventQueue, and how far its head is
  answered,   \* an answer was handled since the end of a run was (_lastAssistantMessage)
  autos, abortable, \* automatic compactions under way, and their abort controller
  recovering, \* callers whose compaction is to recover from an overflow
  continues,  \* number of timers that will call agent.continue()
  prompting,  \* the prompt under way and how far it is
  pending,    \* _pendingBashMessages
  changing,   \* newSession or switchSession under way
  manual      \* compact() under way

agent       == <<transcript, running, queue>>
eventQueue  == <<events, handling, answered>>
compactions == <<autos, abortable, recovering, continues, manual>>
saved       == <<sessions, session, file>>
vars == <<home, text, answers, saved, agent, display, connected, eventQueue, compactions, prompting, pending, changing>>

-----------------------------------------------------------------------------
(* What is in a file *)

Said(m)       == [type |-> "message", of |-> m]
Summary(kept) == [type |-> "compaction", of |-> kept]

MessagesOf(f) ==
  LET upTo[i \in 0..Len(f)] ==
        IF i = 0 THEN <<>>
        ELSE upTo[i - 1] \o (IF f[i].type = "message" THEN <<f[i]>> ELSE <<>>)
  IN upTo[Len(f)]

\* The place of the last compaction, or 0.
LastCompaction(f) == Max({0} \cup {i \in DOMAIN f : f[i].type = "compaction"})

\* buildSessionContext: the last compaction, what it keeps, and what follows it.
Context(f) ==
  LET c     == LastCompaction(f)
      first == {i \in 1..(c - 1) : f[i] = Said(f[c].of)}
      kept  == IF first = {} THEN <<>> ELSE MessagesOf(SubSeq(f, Min(first), c - 1))
  IN IF c = 0 THEN f ELSE <<f[c]>> \o kept \o SubSeq(f, c + 1, Len(f))

\* prepareCompaction: what may be kept first.
Keepable(f) == {f[i].of : i \in (LastCompaction(f) + 1)..Len(f)}

MaySummarise ==
  LET entered  == {at \in Sessions \X (1..(MaxMessages + MaxSummaries)) :
                     at[2] \in DOMAIN file[at[1]] /\ file[at[1]][at[2]].type = "compaction"}
      underWay == {c \in Callers : autos[c] # 0} \cup (IF manual.kept = 0 THEN {} ELSE {"user"})
  IN Cardinality(entered) + Cardinality(underWay) < MaxSummaries

\* The session's entries grow.
Enter(entries) == file' = [file EXCEPT ![session] = @ \o entries]

\* A compaction is entered, and the agent is given what a reload would.
EnterSummary(kept) ==
  /\ Enter(<<Summary(kept)>>)
  /\ transcript' = Context(file'[session])

\* A new message.
New == Len(home) + 1

IsNew == Len(home) < MaxMessages /\ home' = Append(home, session)

\* The user types a new text or one typed before.
Typed ==
  /\ \E t \in {New} \cup (Range(text) \ {NoText}) : text' = Append(text, t)
  /\ UNCHANGED answers

\* A message without a text of the user's: an assistant's answer, the result of a tool, the
\* output of a command, an image.
Untyped(isAnswer) ==
  /\ text' = Append(text, NoText)
  /\ answers' = IF isAnswer THEN answers \cup {New} ELSE answers

\* A transcript after its last message is taken back, which is done to an assistant's only.
WithoutAnswer(t) ==
  IF t # <<>> /\ Last(t).type = "message" /\ Last(t).of \in answers THEN Front(t) ELSE t

EndsWithAnswer == WithoutAnswer(transcript) # transcript

HasAnswer == \E e \in Range(transcript) : e.type = "message" /\ e.of \in answers

-----------------------------------------------------------------------------
NoPrompt == [stage |-> "none", message |-> End]
NoChange == [stage |-> "none", to |-> 0, context |-> <<>>]
NoManual == [stage |-> "none", kept |-> 0]

Init ==
  /\ home = <<>> /\ text = <<>> /\ answers = {} /\ sessions = 1 /\ session = 1
  /\ file = [s \in Sessions |-> <<>>]
  /\ transcript = <<>> /\ running = FALSE /\ queue = <<>> /\ display = <<>>
  /\ connected = TRUE /\ events = <<>> /\ handling = "no" /\ answered = FALSE
  /\ autos = [c \in Callers |-> 0] /\ abortable = FALSE /\ recovering = {} /\ continues = 0
  /\ prompting = NoPrompt /\ pending = <<>>
  /\ changing = NoChange /\ manual = NoManual

-----------------------------------------------------------------------------
(* The agent *)

\* The session hears of a message or of the end, if it listens.
Emit(e) == events' = IF connected THEN Append(events, e) ELSE events

\* A message has ended in the run.
Ended(m) == transcript' = Append(transcript, Said(m)) /\ Emit(m)

\* The model or a tool says something.
says ==
  /\ running /\ IsNew /\ \E isAnswer \in BOOLEAN : Untyped(isAnswer)
  /\ Ended(New)
  /\ UNCHANGED <<saved, running, queue, display, connected, handling, answered, compactions, prompting, pending, changing>>

\* The loop takes a steering message.
steered ==
  /\ running /\ queue # <<>>
  /\ Ended(Head(queue)) /\ queue' = Tail(queue)
  /\ UNCHANGED <<home, text, answers, saved, running, display, connected, handling, answered, compactions, prompting, pending, changing>>

\* Done, failed or aborted: messages may be left in the queue.
runEnds ==
  /\ running /\ running' = FALSE
  /\ Emit(End)
  /\ UNCHANGED <<home, text, answers, saved, transcript, queue, display, connected, handling, answered, compactions, prompting, pending, changing>>

\* Who aborted the run and waits for its end goes on as soon as it is over.
Waits == ~running /\ "aborting" \in {changing.stage, manual.stage}

\* agent.continue(), some time after a retry or a compaction.  Behind an assistant's message
\* it begins with a queued one, and is refused when there is none; behind another it begins
\* with nothing.
continue ==
  /\ continues > 0 /\ continues' = continues - 1 /\ ~Waits
  /\ \/ (running \/ transcript = <<>> \/ (EndsWithAnswer /\ queue = <<>>))
        /\ UNCHANGED <<agent, events>>
     \/ ~running /\ EndsWithAnswer /\ queue # <<>>
        /\ running' = TRUE /\ Ended(Head(queue)) /\ queue' = Tail(queue)
     \/ ~running /\ transcript # <<>> /\ ~EndsWithAnswer
        /\ running' = TRUE /\ UNCHANGED <<transcript, queue, events>>
  /\ UNCHANGED <<home, text, answers, saved, display, connected, handling, answered, autos, abortable, recovering, manual, prompting, pending, changing>>

-----------------------------------------------------------------------------
(* _processAgentEvent *)

\* Mutant: what was delivered stays on display.
beginsKeepingDisplay ==
  /\ events # <<>> /\ handling = "no" /\ handling' = "extension"
  /\ UNCHANGED <<home, text, answers, saved, agent, display, connected, events, answered, compactions, prompting, pending, changing>>

\* The first queued message with the text of the one whose event is handled.
Struck ==
  LET sameText == {i \in DOMAIN display : text[display[i]] = text[Head(events)]}
  IN IF Head(events) = End \/ text[Head(events)] = NoText \/ sameText = {} THEN End
     ELSE display[Min(sameText)]

\* The head of the queue: a text like the delivered one is no longer displayed as queued, and
\* the extensions are told.
eventBegins ==
  /\ events # <<>> /\ handling = "no" /\ handling' = "extension"
  /\ display' = RemoveFirst(display, Struck)
  /\ UNCHANGED <<home, text, answers, saved, agent, connected, events, answered, compactions, prompting, pending, changing>>

\* The extensions are done with a message: it is written to the current session.
eventPersists ==
  /\ handling = "extension" /\ Head(events) # End
  /\ Enter(<<Said(Head(events))>>)
  /\ answered' = (answered \/ Head(events) \in answers)
  /\ handling' = "no" /\ events' = Tail(events)
  /\ UNCHANGED <<home, text, answers, sessions, session, agent, display, connected, compactions, prompting, pending, changing>>

\* They are done with the end of a run, the last answer of which is looked at.
EndIsRead == handling = "extension" /\ Head(events) = End /\ answered

\* A failure is to be retried: another provider is looked for.
endSeeks ==
  /\ EndIsRead /\ handling' = "seeking" /\ answered' = FALSE
  /\ UNCHANGED <<home, text, answers, saved, agent, display, connected, events, compactions, prompting, pending, changing>>

\* There is none: what failed is taken from the agent, and the handler sleeps.
endRetries ==
  /\ EndIsRead \/ handling = "seeking"
  /\ handling' = "retrying" /\ answered' = FALSE
  /\ transcript' = WithoutAnswer(transcript)
  /\ UNCHANGED <<home, text, answers, saved, running, queue, display, connected, events, compactions, prompting, pending, changing>>

\* The sleep is over, or there is another provider or credential.
retryDue ==
  /\ \/ handling = "retrying" /\ UNCHANGED transcript
     \/ (EndIsRead \/ handling = "seeking") /\ transcript' = WithoutAnswer(transcript)
  /\ handling' = "no" /\ events' = Tail(events) /\ answered' = FALSE
  /\ continues' = continues + 1
  /\ UNCHANGED <<home, text, answers, saved, running, queue, display, connected, autos, abortable, recovering, manual, prompting, pending, changing>>

\* The run was good, the retry was cancelled, or there is to be none; and no compaction is
\* called for, or it recovers from an overflow and finds nothing to compact.
endHandled ==
  /\ handling \in {"extension", "seeking", "retrying"} /\ Head(events) = End
  /\ handling' = "no" /\ events' = Tail(events) /\ answered' = FALSE
  /\ transcript' = transcript \/ (EndIsRead /\ transcript' = WithoutAnswer(transcript))
  /\ UNCHANGED <<home, text, answers, saved, running, queue, display, connected, compactions, prompting, pending, changing>>

\* checkCompaction and _runAutoCompaction, up to the call of the model: one controller
\* serves both callers.  An overflow, which is not retried, takes the answer from the agent.
AutoBegins(c) ==
  /\ MaySummarise
  /\ \E kept \in Keepable(file[session]) : autos' = [autos EXCEPT ![c] = kept]
  /\ abortable' = TRUE
  /\ \/ recovering' = recovering \ {c} /\ UNCHANGED transcript
     \/ recovering' = recovering \cup {c} /\ transcript' = WithoutAnswer(transcript)
  /\ UNCHANGED <<home, text, answers, saved, running, queue, display, connected, events, continues, manual, pending, changing>>

endCompacts ==
  /\ EndIsRead \/ handling \in {"seeking", "retrying"}
  /\ AutoBegins("event")
  /\ handling \in {"seeking", "retrying"} => "event" \notin recovering'
  /\ handling' = "compacting" /\ answered' = FALSE /\ UNCHANGED prompting

promptCompacts ==
  /\ prompting.stage = "checking" /\ HasAnswer
  /\ AutoBegins("prompt")
  /\ prompting' = [prompting EXCEPT !.stage = "compacting"] /\ UNCHANGED <<handling, answered>>

\* It would recover from an overflow, but finds nothing to compact.
promptRecovers ==
  /\ prompting.stage = "checking" /\ HasAnswer
  /\ prompting' = [prompting EXCEPT !.stage = "ready"]
  /\ transcript' = WithoutAnswer(transcript)
  /\ UNCHANGED <<home, text, answers, saved, running, queue, display, connected, eventQueue, compactions, pending, changing>>

\* The caller goes on: the end of the run is handled, the prompt goes to the agent.
Resumes(c) ==
  IF c = "event"
  THEN handling' = "no" /\ events' = Tail(events) /\ UNCHANGED <<answered, prompting>>
  ELSE prompting' = [prompting EXCEPT !.stage = "ready"] /\ UNCHANGED eventQueue

\* The agent is to go on: after a recovery, or for what has been queued meanwhile.
Schedules(c) == continues' = IF c \in recovering \/ queue # <<>> THEN continues + 1 ELSE continues

\* Mutant: the agent keeps the messages that were summarised.
autoEntersOnly(c) ==
  /\ autos[c] # 0 /\ abortable
  /\ Enter(<<Summary(autos[c])>>)
  /\ autos' = [autos EXCEPT ![c] = 0] /\ abortable' = FALSE
  /\ Schedules(c)
  /\ Resumes(c)
  /\ UNCHANGED <<home, text, answers, sessions, session, agent, display, connected, recovering, manual, pending, changing>>

\* The summary is there, and so is the controller: the compaction is entered.  A recovery
\* takes back the failed message, which is still in the file.
autoDone(c) ==
  /\ autos[c] # 0 /\ abortable
  /\ \/ EnterSummary(autos[c])
     \/ c \in recovering /\ Enter(<<Summary(autos[c])>>)
        /\ transcript' = WithoutAnswer(Context(file'[session]))
  /\ autos' = [autos EXCEPT ![c] = 0] /\ abortable' = FALSE
  /\ Schedules(c)
  /\ Resumes(c)
  /\ UNCHANGED <<home, text, answers, sessions, session, running, queue, display, connected, recovering, manual, pending, changing>>

\* The model failed, it was cancelled, or the controller is gone.
autoFails(c) ==
  /\ autos[c] # 0
  /\ autos' = [autos EXCEPT ![c] = 0] /\ abortable' = FALSE
  /\ Resumes(c)
  /\ UNCHANGED <<home, text, answers, saved, agent, display, connected, recovering, continues, manual, pending, changing>>

-----------------------------------------------------------------------------
(* Calls *)

\* prompt, up to the requests for the provider and the key: what shell commands left
\* over is written first.  Callers do not prompt while they change the session.  A prompt
\* of nothing but an image does what one with a new text does.
prompt ==
  /\ ~running /\ prompting = NoPrompt /\ changing = NoChange /\ manual = NoManual
  /\ IsNew /\ Typed
  /\ prompting' = [stage |-> "checking", message |-> New]
  /\ transcript' = transcript \o pending /\ Enter(pending) /\ pending' = <<>>
  /\ UNCHANGED <<sessions, session, running, queue, display, connected, eventQueue, compactions, changing>>

\* agent.prompt refuses when it streams again; a prompt also fails without a key.
promptRuns ==
  /\ prompting.stage \in {"checking", "ready"} /\ prompting' = NoPrompt
  /\ \/ ~running /\ running' = TRUE /\ Ended(prompting.message)
     \/ UNCHANGED <<transcript, running, events>>
  /\ UNCHANGED <<home, text, answers, saved, queue, display, connected, handling, answered, compactions, pending, changing>>

\* steer, or prompt while the agent streams, of a text or of nothing but an image.
steer ==
  /\ IsNew /\ (Typed \/ Untyped(FALSE))
  /\ display' = Append(display, New) /\ queue' = Append(queue, New)
  /\ UNCHANGED <<saved, transcript, running, connected, eventQueue, compactions, prompting, pending, changing>>

\* What clearQueue returns: the copy and what the agent still had.
Returned == display \o queue

clearQueue ==
  /\ display # <<>> \/ queue # <<>>
  /\ display' = <<>> /\ queue' = <<>>
  /\ UNCHANGED <<home, text, answers, saved, transcript, running, connected, eventQueue, compactions, prompting, pending, changing>>

\* The output of a shell command is kept aside while the agent streams.
recordBashResult ==
  /\ IsNew /\ Untyped(FALSE)
  /\ IF running
     THEN pending' = Append(pending, Said(New)) /\ UNCHANGED <<file, transcript>>
     ELSE /\ transcript' = Append(transcript, Said(New)) /\ Enter(<<Said(New)>>)
          /\ UNCHANGED pending
  /\ UNCHANGED <<sessions, session, running, queue, display, connected, eventQueue, compactions, prompting, changing>>

-----------------------------------------------------------------------------
(* newSession and switchSession *)

\* Up to abort(), which waits for the run: of a new session, or of another one.
change(to) ==
  /\ changing = NoChange /\ prompting = NoPrompt
  /\ to \in 1..(sessions + 1) /\ to # session /\ to \in Sessions
  /\ changing' = [stage |-> "aborting", to |-> to, context |-> <<>>]
  /\ connected' = FALSE
  /\ UNCHANGED <<home, text, answers, saved, agent, display, eventQueue, compactions, prompting, pending>>

IsNewSession == changing.stage = "aborting" /\ changing.to = sessions + 1

\* Mutant: the agent is not reset, but emptied.
newKeepsQueue ==
  /\ IsNewSession /\ ~running
  /\ session' = changing.to /\ sessions' = changing.to
  /\ transcript' = <<>> /\ display' = <<>>
  /\ connected' = TRUE /\ changing' = NoChange
  /\ UNCHANGED <<home, text, answers, file, running, queue, eventQueue, compactions, prompting, pending>>

\* The agent is reset, with its queues.
newSession ==
  /\ IsNewSession /\ ~running
  /\ session' = changing.to /\ sessions' = changing.to
  /\ transcript' = <<>> /\ queue' = <<>> /\ display' = <<>>
  /\ connected' = TRUE /\ changing' = NoChange
  /\ UNCHANGED <<home, text, answers, file, running, eventQueue, compactions, prompting, pending>>

\* The other file is opened and read; extensions are told.
switchOpens ==
  /\ changing.stage = "aborting" /\ ~IsNewSession /\ ~running
  /\ session' = changing.to
  /\ display' = <<>>
  /\ changing' = [changing EXCEPT !.stage = "opened", !.context = Context(file[changing.to])]
  /\ UNCHANGED <<home, text, answers, sessions, file, agent, connected, eventQueue, compactions, prompting, pending>>

\* The agent is given what was read.
switchLoads ==
  /\ changing.stage = "opened"
  /\ transcript' = changing.context
  /\ connected' = TRUE /\ changing' = NoChange
  /\ UNCHANGED <<home, text, answers, saved, running, queue, display, eventQueue, compactions, prompting, pending>>

-----------------------------------------------------------------------------
(* compact *)

compact ==
  /\ manual = NoManual /\ changing = NoChange /\ prompting = NoPrompt
  /\ manual' = [stage |-> "aborting", kept |-> 0]
  /\ connected' = FALSE
  /\ UNCHANGED <<home, text, answers, saved, agent, display, eventQueue, autos, abortable, recovering, continues, prompting, pending, changing>>

compactPrepares ==
  /\ manual.stage = "aborting" /\ ~running
  /\ MaySummarise
  /\ \E kept \in Keepable(file[session]) : manual' = [stage |-> "summarising", kept |-> kept]
  /\ UNCHANGED <<home, text, answers, saved, agent, display, connected, eventQueue, autos, abortable, recovering, continues, prompting, pending, changing>>

compactDone ==
  /\ manual.stage = "summarising" /\ manual' = NoManual
  /\ EnterSummary(manual.kept)
  /\ connected' = TRUE
  /\ UNCHANGED <<home, text, answers, sessions, session, running, queue, display, eventQueue, autos, abortable, recovering, continues, prompting, pending, changing>>

\* Nothing to compact, cancelled, or the model failed.
compactFails ==
  /\ manual # NoManual /\ (manual.stage = "aborting" => ~running) /\ manual' = NoManual
  /\ connected' = TRUE
  /\ UNCHANGED <<home, text, answers, saved, agent, display, eventQueue, autos, abortable, recovering, continues, prompting, pending, changing>>

-----------------------------------------------------------------------------
AgentSteps == says \/ steered \/ runEnds \/ continue
EventSteps == eventBegins \/ eventPersists \/ endSeeks \/ endRetries \/ retryDue \/ endHandled \/ endCompacts
Prompts    == prompt \/ promptCompacts \/ promptRecovers \/ promptRuns
Changes    == (\E to \in Sessions : change(to)) \/ newSession \/ switchOpens \/ switchLoads
Compacts   == compact \/ compactPrepares \/ compactDone \/ compactFails

Next ==
  \/ AgentSteps \/ EventSteps \/ Prompts \/ Changes \/ Compacts
  \/ steer \/ clearQueue \/ recordBashResult
  \/ \E c \in Callers : autoDone(c) \/ autoFails(c)

Spec == Init /\ [][Next]_vars

-----------------------------------------------------------------------------
(* Properties *)

\* Nothing is going on.
AtRest ==
  /\ ~running /\ events = <<>> /\ continues = 0
  /\ prompting = NoPrompt /\ changing = NoChange /\ manual = NoManual
  /\ autos = [c \in Callers |-> 0]

\* At rest the model is shown exactly what it would be after a restart.
RestIsSaved == AtRest => transcript = Context(file[session])

\* A file holds messages of its own session, each once, and its compactions keep from
\* one before them.
FilesAreOwn ==
  \A s \in Sessions : \A i \in DOMAIN file[s] :
    LET e == file[s][i]
    IN /\ home[e.of] = s
       /\ e.type = "message"    => \A j \in 1..(i - 1) : file[s][j] # e
       /\ e.type = "compaction" => \E j \in 1..(i - 1) : file[s][j] = Said(e.of)

\* When the events are handled, what is displayed as queued is what the agent will take.
DisplayIsQueue == events = <<>> => display = queue

\* "Queue for later - will be flushed on agent_end" (agent-session.ts:2376)
BashIsFlushed == AtRest => pending = <<>>

\* "Return the full set (session-tracked + any agent-only user messages)"
\* (agent-session.ts:1484): a queued message is returned once.
ReturnedOnce == [][clearQueue => IsInjective(Returned)]_vars
=============================================================================
