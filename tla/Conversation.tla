---------------------------- MODULE Conversation ----------------------------
(***************************************************************************)
(* The contract of an agent run, as the rest of the program and the model  *)
(* providers rely on it: a transcript in which the tool calls of an        *)
(* assistant message are answered, each once, before anything else is said.*)
(* AgentLoop implements this module (see the end of AgentLoop).            *)
(***************************************************************************)
EXTENDS Sequences, FiniteSets, Functions

CONSTANTS Inputs,           \* user-role messages: prompts, steering, follow-ups
          Calls,            \* tool call ids
          CallLists,        \* the lists of calls one assistant message may carry, each call once
          AfterHookMayThrow \* may the afterToolCall hook throw?

VARIABLES transcript,       \* the messages of the conversation, in order
          open              \* calls of the last assistant message not yet answered

vars == <<transcript, open>>

UserMessage == [role : {"user"}, id : Inputs]
ToolResult  == [role : {"toolResult"}, call : Calls]
StopReason  == {"done", "error", "aborted"}
Assistant   == [role : {"assistant"}, calls : CallLists, stop : StopReason]
Message     == UserMessage \cup ToolResult \cup Assistant

Failed(m) == m.role = "assistant" /\ m.stop # "done"

Init == transcript = <<>> /\ open = {}

\* User messages are said only when no tool call waits for its result.
Say == /\ open = {}
       /\ \E m \in UserMessage : transcript' = Append(transcript, m)
       /\ UNCHANGED open

\* The assistant speaks; the calls of a message that failed are never run.
Reply == /\ open = {}
         /\ \E m \in Assistant :
              /\ transcript' = Append(transcript, m)
              /\ open' = IF Failed(m) THEN {} ELSE Range(m.calls)

\* One open call gets its result.
Answer == \E c \in open :
            /\ transcript' = Append(transcript, [role |-> "toolResult", call |-> c])
            /\ open' = open \ {c}

\* A throwing afterToolCall hook ends the run with calls left unanswered.
Abandon == /\ AfterHookMayThrow
           /\ open # {}
           /\ transcript' = Append(transcript,
                [role |-> "assistant", calls |-> <<>>, stop |-> "error"])
           /\ open' = {}

\* A retry takes the failed message at the end back.
TakeBack == /\ open = {}
            /\ transcript # <<>>
            /\ Failed(transcript[Len(transcript)])
            /\ transcript' = SubSeq(transcript, 1, Len(transcript) - 1)
            /\ UNCHANGED open

\* A new session starts from nothing.
Forget == open = {} /\ transcript' = <<>> /\ UNCHANGED open

Next == Say \/ Reply \/ Answer \/ Abandon \/ TakeBack \/ Forget

Spec == Init /\ [][Next]_vars
=============================================================================
