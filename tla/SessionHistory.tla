--------------------------- MODULE SessionHistory ---------------------------
(* AgentSession with a record of what has disturbed it, so that one run    *)
(* asks what each disturbance alone leaves intact.                         *)
EXTENDS AgentSession

CONSTANTS
  Overlaps,  \* kinds of disturbances that happen
  MaxKinds   \* bound: kinds in one behaviour

VARIABLES
  seen,  \* history: the kinds of disturbances so far
  said   \* history: the messages the model has been shown, or has said

\* Messages of a run that wait to be written.
Unwritten == {m \in Messages : \E i \in DOMAIN events : events[i] = m}

\* Something other than an event writes, or the session changes, before they are.
Late == Unwritten # {} /\ ~eventPersists /\ (file' # file \/ session' # session)

\* Another session is opened beside queued messages, or output of commands is left over.
Moved == (switchOpens /\ queue # <<>>) \/ (session' # session /\ pending # <<>>)

\* A message ends when the session does not listen.
Unheard == ~connected /\ (says \/ steered \/ continue) /\ transcript' # transcript

\* Something is written or said while a session that has been read is not shown yet.
Stale == changing.stage = "opened" /\ (file' # file \/ transcript' # transcript) /\ ~switchLoads

\* The session changes, or a run begins, under a compaction.
Crossed ==
  \/ session' # session /\ (manual # NoManual \/ autos # [c \in Callers |-> 0])
  \/ manual.stage = "summarising" /\ running' /\ ~running

\* An answer is taken from the transcript and stays in the file.
Failed ==
  \/ EventSteps /\ transcript' # transcript
  \/ (promptCompacts \/ promptRecovers) /\ transcript' # transcript
  \/ \E c \in recovering : autoDone(c) /\ transcript' # Context(file'[session])

\* A message that is nothing but an image is queued.
Wordless == steer /\ text'[Len(text')] = NoText

\* Events not handled yet, not even begun.
Unbegun == {events[i] : i \in (IF handling = "no" THEN 1 ELSE 2)..Len(events)}

\* A message not displayed, whose event is to come, has the text of one that is displayed: a
\* prompt after it was queued, or one typed again after clearQueue.
Alike ==
  \E m \in Range(display), n \in Unbegun \ (Range(display) \cup {End}) :
    text[m] = text[n] /\ text[n] # NoText

HistoryInit == Init /\ seen = {} /\ said = {}

HistoryNext ==
  /\ Next
  /\ seen' = seen \cup (IF Late THEN {"late"} ELSE {}) \cup (IF Moved THEN {"moved"} ELSE {})
                  \cup (IF Unheard THEN {"unheard"} ELSE {}) \cup (IF Crossed THEN {"crossed"} ELSE {})
                  \cup (IF Stale THEN {"stale"} ELSE {}) \cup (IF Failed THEN {"failed"} ELSE {})
                  \cup (IF Wordless THEN {"wordless"} ELSE {}) \cup (IF Alike' THEN {"alike"} ELSE {})
  /\ said' = said \cup {e.of : e \in Range(transcript')}
  /\ seen' \subseteq Overlaps /\ Cardinality(seen') <= MaxKinds

HistorySpec == HistoryInit /\ [][HistoryNext]_<<vars, seen, said>>

-----------------------------------------------------------------------------
(* Properties that disturbances break (see the README)                      *)

\* What has been said is in the file of the session it was said in, or is about to be.
SaidIsSaved == AtRest => \A m \in said : Said(m) \in Range(file[home[m]])

\* Queued messages, shell commands and compactions that meet a change of sessions do not
\* part the transcript from the file (RestIsSaved); a failure that is taken back does.
CalmRestIsSaved == seen \subseteq {"moved", "crossed", "wordless", "alike"} => RestIsSaved

\* Files hold what was said in their session, all of it and nothing else, compactions
\* included, whatever is said while a session is read, and failures that were taken back.
CalmFilesAreRight == seen \subseteq {"stale", "failed", "wordless", "alike"} => FilesAreOwn /\ SaidIsSaved

\* The display follows the queue (DisplayIsQueue) unless messages go unheard, are left behind
\* by a change of sessions, have no text, or have that of another which is not queued.
CalmDisplayIsQueue == seen \cap {"moved", "unheard", "wordless", "alike"} = {} => DisplayIsQueue
=============================================================================
