-------------------------- MODULE AgentLoop_proofs --------------------------
(***************************************************************************)
(* Theorems about AgentLoop, for every value of its constants: its type    *)
(* invariant, that the loop's context and the Agent's messages agree, the  *)
(* refinement of Conversation, that every call is answered before the      *)
(* model is asked again, and that no queued message is lost or reordered.  *)
(* Invariant carries the first two; CallsInOrder says where a call waits;  *)
(* Answers says what the last answer lacks while tools are at work; and    *)
(* Origins says where a user's message can come from and where none waits. *)
(***************************************************************************)
EXTENDS AgentLoop, SequenceTheorems, TLAPS

\* What a poll takes and leaves are queues again.
LEMMA PollTypes ==
  ASSUME NEW q \in Seq(UserMessage), NEW mode
  PROVE  /\ Taken(q, mode) \in Seq(UserMessage)
         /\ Left(q, mode) \in Seq(UserMessage)
  <1>1. TakeCount(q, mode) \in 0..Len(q)
    BY EmptySeq DEF TakeCount
  <1>2. QED
    BY <1>1, SubSeqProperties, LenProperties, ElementOfSeq DEF Taken, Left

\* Draining leaves queues of user messages.
LEMMA DrainTypes ==
  ASSUME NEW q \in Seq(UserMessage), NEW r \in SystemOnly(q)
  PROVE  r \in Seq(UserMessage)
  <1>1. PICK n \in 0..Len(q) : \E at \in [1..n -> 1..Len(q)] : r = [k \in 1..n |-> q[at[k]]]
    BY DEF SystemOnly
  <1>2. n \in Nat /\ r \in [1..n -> UserMessage]
    BY <1>1, LenProperties, ElementOfSeq
  <1>3. QED
    BY <1>2, SeqDef

\* Messages that are joined.
LEMMA Ranges == \A s, t \in Seq(Message) : Range(s \o t) = Range(s) \cup Range(t)
  BY RangeConcatenation

LEMMA Groups ==
  ASSUME NEW s \in Seq(Message), NEW t \in Seq(Message)
  PROVE  \A r \in Seq(Message) : (r \o s) \o t = r \o (s \o t)
  <1> TAKE r \in Seq(Message)
  <1> QED
    BY ConcatAssociative

\* Calls and results that are joined.
LEMMA RangesOfCalls == \A s, t \in Seq(Calls) : Range(s \o t) = Range(s) \cup Range(t)
  BY RangeConcatenation

LEMMA RangesOfResults == \A s, t \in Seq(ToolResult) : Range(s \o t) = Range(s) \cup Range(t)
  BY RangeConcatenation

\* Results and answers of the model are messages.
LEMMA MessageTypes ==
  /\ \A i \in Inputs : User(i) \in UserMessage
  /\ \A c \in Calls : Result(c) \in ToolResult
  /\ \A l \in CallLists, stop \in StopReason : Said(l, stop) \in Assistant
  /\ UserMessage \subseteq Message /\ ToolResult \subseteq Message /\ Assistant \subseteq Message
  BY DEF User, Result, Said, UserMessage, ToolResult, Assistant, Message

LEMMA TypeCorrectInit == Init => TypeOK
  BY EmptySeq DEF Init, TypeOK

LEMMA TypeCorrectStep == TypeOK /\ [Next]_vars => TypeOK'
<1> SUFFICES ASSUME TypeOK, [Next]_vars PROVE TypeOK'
  OBVIOUS
<1> USE MessageTypes DEF TypeOK, history, apiVars, toolVars
<1>1. ASSUME NEW i \in Inputs, prompt(i) PROVE TypeOK'
  <2>1. <<User(i)>> \in Seq(UserMessage) /\ <<>> \in Seq(UserMessage)
    OBVIOUS
  <2>2. steeringQueue' \in Seq(UserMessage) /\ pending' \in Seq(UserMessage)
    BY <1>1, <2>1, PollTypes, ConcatProperties DEF prompt, _runLoop
  <2>3. QED
    BY <1>1, <2>2, AppendProperties DEF prompt, _runLoop
<1>2. ASSUME NEW i \in Inputs, steer(i) PROVE TypeOK'
  BY <1>2, AppendProperties DEF steer
<1>3. ASSUME NEW i \in Inputs, followUp(i) PROVE TypeOK'
  BY <1>3, AppendProperties DEF followUp
<1>4. CASE continue
  <2>1. \A q, msgs \in Seq(UserMessage), skip \in BOOLEAN : _runLoop(msgs, q, skip) =>
          steeringQueue' \in Seq(UserMessage) /\ pending' \in Seq(UserMessage)
    BY PollTypes, EmptySeq, ConcatProperties DEF _runLoop
  <2>2. PICK q \in Seq(UserMessage), msgs \in Seq(UserMessage), skip \in BOOLEAN : _runLoop(msgs, q, skip)
    BY <1>4, PollTypes, EmptySeq DEF continue
  <2>3. steeringQueue' \in Seq(UserMessage) /\ pending' \in Seq(UserMessage)
    BY <2>1, <2>2
  <2>4. followUpQueue' \in Seq(UserMessage)
    BY <1>4, PollTypes DEF continue
  <2>5. QED
    BY <1>4, <2>2, <2>3, <2>4 DEF continue, _runLoop
<1>5. CASE abort
  BY <1>5 DEF abort
<1>6. CASE drainUserMessages
  BY <1>6, DrainTypes, RangeOfSeq DEF drainUserMessages
<1>7. CASE clearAllQueues
  BY <1>7, EmptySeq, RangeOfSeq DEF clearAllQueues
<1>8. CASE removeLastError
  BY <1>8, SubSeqProperties, LenProperties, ElementOfSeq DEF removeLastError
<1>9. CASE reset
  BY <1>9, EmptySeq, RangeOfSeq DEF reset
<1>10. CASE inject
  BY <1>10, HeadTailProperties, AppendProperties DEF inject
<1>11. CASE askModel
  BY <1>11 DEF askModel
<1>12. ASSUME NEW l \in CallLists, NEW stop \in StopReason, streamAssistantResponse(l, stop)
       PROVE  TypeOK'
  BY <1>12, ConstantsAssumption, AppendProperties, RangeOfSeq DEF streamAssistantResponse
<1>13. CASE prepareToolCall
  <2>1. todo # <<>> => Head(todo) \in Calls /\ Tail(todo) \in Seq(Calls)
    BY HeadTailProperties
  <2>2. todo' \in Seq(Calls) /\ phase' \in {"run", "poll"}
    BY <1>13, <2>1 DEF prepareToolCall
  <2>3. runnable' \in Seq(Calls)
    <3>1. Append(runnable, Head(todo)) \in Seq(Calls)
      BY <1>13, <2>1, AppendProperties DEF prepareToolCall
    <3>2. QED
      BY <1>13, <3>1 DEF prepareToolCall
  <2>4. results' \in Seq(ToolResult) /\ stream' \in Seq(Message)
    <3>1. Append(results, Result(Head(todo))) \in Seq(ToolResult)
      BY <1>13, <2>1, AppendProperties DEF prepareToolCall
    <3>2. Append(stream, Result(Head(todo))) \in Seq(Message)
      BY <1>13, <2>1, AppendProperties DEF prepareToolCall
    <3>3. QED
      BY <1>13, <3>1, <3>2 DEF prepareToolCall, emitToolCallOutcome
  <2>5. QED
    BY <1>13, <2>2, <2>3, <2>4 DEF prepareToolCall
<1>14. CASE pollAfterCall
  <2>1. pending' \in Seq(UserMessage) /\ steeringQueue' \in Seq(UserMessage)
    BY <1>14, PollTypes DEF pollAfterCall
  <2>2. runnable' \in Seq(Calls) /\ todo' \in Seq(Calls)
    <3>1. runnable \o todo \in Seq(Calls) /\ <<>> \in Seq(Calls)
      BY ConcatProperties, EmptySeq
    <3>2. QED
      BY <1>14, <3>1 DEF pollAfterCall
  <2>3. phase' \in {"skip", "prepare", "run", "finish"}
    BY <1>14 DEF pollAfterCall
  <2>4. QED
    BY <1>14, <2>1, <2>2, <2>3 DEF pollAfterCall
<1>15. CASE skipToolCall
  BY <1>15, HeadTailProperties, AppendProperties DEF skipToolCall, emitToolCallOutcome
<1>16. ASSUME NEW c \in Calls, executePreparedToolCall(c) PROVE TypeOK'
  BY <1>16 DEF executePreparedToolCall
<1>17. CASE finalizeExecutedToolCall
  BY <1>17, HeadTailProperties, AppendProperties DEF finalizeExecutedToolCall, emitToolCallOutcome
<1>18. CASE afterToolCallThrows
  BY <1>18, ConstantsAssumption, EmptySeq, AppendProperties DEF afterToolCallThrows, StopReason
<1>19. CASE pollAfterTools
  BY <1>19, PollTypes DEF pollAfterTools
<1>20. CASE finishTools
  BY <1>20, EmptySeq, ConcatProperties DEF finishTools
<1>21. CASE pollAfterTurn
  BY <1>21, PollTypes DEF pollAfterTurn
<1>22. CASE pollFollowUp
  BY <1>22, PollTypes DEF pollFollowUp
<1>23. CASE readMessage
  BY <1>23, HeadTailProperties, AppendProperties DEF readMessage
<1>24. CASE readAgentEnd
  BY <1>24 DEF readAgentEnd
<1>25. CASE UNCHANGED vars
  BY <1>25 DEF vars
<1>26. QED
  BY <1>1, <1>2, <1>3, <1>4, <1>5, <1>6, <1>7, <1>8, <1>9, <1>10, <1>11, <1>12, <1>13, <1>14,
     <1>15, <1>16, <1>17, <1>18, <1>19, <1>20, <1>21, <1>22, <1>23, <1>24, <1>25
     DEF Next, Agent, Loop, Reader

\* The state is well-typed throughout: queues hold user messages, the transcript messages.
THEOREM TypeCorrect == Spec => []TypeOK
  BY TypeCorrectInit, TypeCorrectStep, PTL DEF Spec

-----------------------------------------------------------------------------
(* What the model is shown and what the Agent keeps never part. *)

\* A message pushed behind a concatenation is pushed behind its second part.
LEMMA AppendBehind ==
  ASSUME NEW S, NEW s \in Seq(S), NEW t \in Seq(S), NEW e \in S
  PROVE  s \o Append(t, e) = Append(s \o t, e)
  <1>1. Append(t, e) = t \o <<e>> /\ <<e>> \in Seq(S)
    BY AppendIsConcat
  <1>2. Append(s \o t, e) = (s \o t) \o <<e>>
    BY ConcatProperties, AppendIsConcat
  <1>3. QED
    BY <1>1, <1>2, ConcatAssociative

\* Reading moves the head of the stream to the end of the messages.
LEMMA ReadMoves ==
  ASSUME NEW S, NEW s \in Seq(S), NEW t \in Seq(S), t # <<>>
  PROVE  Append(s, Head(t)) \o Tail(t) = s \o t
  <1>1. Head(t) \in S /\ Tail(t) \in Seq(S) /\ t = <<Head(t)>> \o Tail(t)
    <2>1. Head(t) \in S /\ Tail(t) \in Seq(S)
      BY HeadTailProperties
    <2>2. Len(t) \in Nat \ {0} /\ Len(Tail(t)) = Len(t) - 1
      BY HeadTailProperties, EmptySeq
    <2> DEFINE u == <<Head(t)>> \o Tail(t)
    <2>3. u \in Seq(S) /\ Len(u) = Len(t)
      BY <2>1, <2>2, ConcatProperties
    <2>4. \A k \in 1..Len(t) : t[k] = u[k]
      BY <2>1, <2>2, HeadTailProperties, ConcatProperties
    <2> HIDE DEF u
    <2>5. t = u
      BY <2>3, <2>4, SeqEqual
    <2>6. QED
      BY <2>1, <2>5 DEF u
  <1>2. Append(s, Head(t)) = s \o <<Head(t)>> /\ <<Head(t)>> \in Seq(S)
    BY <1>1, AppendIsConcat
  <1>3. QED
    BY <1>1, <1>2, ConcatAssociative

Invariant ==
  /\ TypeOK
  /\ TranscriptIsContext
  /\ phase = "idle" => stream = <<>>
  /\ phase \notin {"prepare", "poll", "skip", "run", "finish"} => results = <<>>

\* The transcript changes only by what a step appends or takes back.
THEOREM InvariantHolds == Spec => []Invariant
<1>1. Init => Invariant
  BY TypeCorrectInit, EmptySeq DEF Init, Invariant, TranscriptIsContext, InTurn
<1>2. Invariant /\ [Next]_vars => Invariant'
  <2> SUFFICES ASSUME Invariant, [Next]_vars PROVE Invariant'
    OBVIOUS
  <2> TypeOK /\ TypeOK'
    BY TypeCorrectStep DEF Invariant
  <2> DEFINE Rest == /\ phase = "idle" => stream = <<>>
                     /\ phase \notin {"prepare", "poll", "skip", "run", "finish"} => results = <<>>
  <2> Rest /\ TranscriptIsContext
    BY DEF Invariant
  <2> SUFFICES Rest' /\ TranscriptIsContext'
    BY DEF Invariant
  <2> USE DEF history, apiVars, toolVars
  <2>1. ASSUME UNCHANGED <<messages, stream, context, results>>, InTurn' => InTurn,
               phase' = "idle" => phase = "idle",
               results # <<>> => phase' \in {"prepare", "poll", "skip", "run", "finish"}
        PROVE  Rest' /\ TranscriptIsContext'
    BY <2>1 DEF TranscriptIsContext, Transcript
  <2>2. ASSUME NEW msgs, NEW q, NEW skip, phase = "idle", _runLoop(msgs, q, skip)
        PROVE  Rest' /\ TranscriptIsContext'
    <3>1. stream = <<>> /\ results = <<>>
      BY <2>2
    <3>2. /\ phase' = "head" /\ context' = messages
          /\ UNCHANGED <<messages, stream, results>>
      BY <2>2 DEF _runLoop
    <3>3. messages \o <<>> = messages
      BY ConcatEmptySeq DEF TypeOK
    <3>4. QED
      BY <3>1, <3>2, <3>3 DEF TranscriptIsContext, Transcript
  <2>3. ASSUME NEW r \in Calls, emitToolCallOutcome(r), UNCHANGED <<messages, context>>, InTurn,
               phase' \in {"prepare", "poll", "skip", "run", "finish"}
        PROVE  Rest' /\ TranscriptIsContext'
    <3>1. Result(r) \in Message /\ results \in Seq(Message)
      BY MessageTypes, SeqMonotonic DEF TypeOK
    <3> messages \in Seq(Message) /\ stream \in Seq(Message) /\ context \in Seq(Message)
      BY DEF TypeOK
    <3>2. /\ messages \o Append(stream, Result(r)) = Append(messages \o stream, Result(r))
          /\ context \o Append(results, Result(r)) = Append(context \o results, Result(r))
      <4>1. \A s, t \in Seq(Message) : s \o Append(t, Result(r)) = Append(s \o t, Result(r))
        BY ONLY <3>1, AppendBehind
      <4>2. QED
        BY ONLY <3>1, <4>1, messages \in Seq(Message), stream \in Seq(Message), context \in Seq(Message)
    <3>3. messages \o stream = context \o results
      BY <2>3 DEF TranscriptIsContext, Transcript
    <3>4. QED
      BY <2>3, <3>2, <3>3 DEF TranscriptIsContext, Transcript, emitToolCallOutcome
  <2>4. ASSUME NEW m \in Message, context' = Append(context, m), stream' = Append(stream, m),
               UNCHANGED <<messages, results>>, phase \in {"head", "model"}, phase' # "idle"
        PROVE  Rest' /\ TranscriptIsContext'
    <3>1. messages \o Append(stream, m) = Append(messages \o stream, m)
      <4>1. messages \in Seq(Message) /\ stream \in Seq(Message) /\ m \in Message
        BY DEF TypeOK
      <4>2. QED
        BY ONLY <4>1, AppendBehind
    <3>2. results = <<>> /\ messages \o stream = context \o results
      BY <2>4 DEF TranscriptIsContext, Transcript, InTurn
    <3>3. context \o <<>> = context /\ context' \o <<>> = context'
      BY ConcatEmptySeq DEF TypeOK
    <3>4. QED
      BY <2>4, <3>1, <3>2, <3>3 DEF TranscriptIsContext, Transcript
  <2>5. ASSUME NEW i \in Inputs, prompt(i) PROVE Rest' /\ TranscriptIsContext'
    BY <2>5, <2>2 DEF prompt
  <2>6. ASSUME NEW i \in Inputs, steer(i) \/ followUp(i) PROVE Rest' /\ TranscriptIsContext'
    BY <2>6, <2>1 DEF steer, followUp, InTurn
  <2>7. CASE continue
    BY <2>7, <2>2 DEF continue
  <2>8. CASE abort \/ drainUserMessages \/ clearAllQueues
    BY <2>8, <2>1 DEF abort, drainUserMessages, clearAllQueues, InTurn
  <2>9. CASE removeLastError \/ reset
    BY <2>9 DEF removeLastError, reset, TranscriptIsContext, InTurn
  <2>10. CASE inject
    <3>1. Head(pending) \in Message
      BY <2>10, HeadTailProperties, MessageTypes DEF inject, TypeOK
    <3>2. QED
      BY <2>10, <3>1, <2>4 DEF inject
  <2>11. CASE askModel
    BY <2>11, <2>1 DEF askModel, InTurn
  <2>12. ASSUME NEW l \in CallLists, NEW stop \in StopReason, streamAssistantResponse(l, stop)
         PROVE  Rest' /\ TranscriptIsContext'
    BY <2>12, <2>4, MessageTypes DEF streamAssistantResponse
  <2>13. CASE prepareToolCall
    <3>1. Head(todo) \in Calls
      BY <2>13, HeadTailProperties DEF prepareToolCall, TypeOK
    <3>2. CASE UNCHANGED <<results, stream>>
      <4>1. phase = "prepare" /\ phase' \in {"run", "poll"} /\ UNCHANGED <<messages, context>>
        BY <2>13 DEF prepareToolCall
      <4>2. QED
        BY <3>2, <4>1, <2>1 DEF InTurn
    <3>3. CASE emitToolCallOutcome(Head(todo))
      <4>1. phase = "prepare" /\ phase' \in {"run", "poll"} /\ UNCHANGED <<messages, context>>
        BY <2>13 DEF prepareToolCall
      <4>2. QED
        BY <3>1, <3>3, <4>1, <2>3 DEF InTurn
    <3>4. QED
      BY <2>13, <3>2, <3>3 DEF prepareToolCall
  <2>14. CASE pollAfterCall
    <3>1. phase = "poll" /\ phase' \in {"skip", "prepare", "run", "finish"}
      BY <2>14 DEF pollAfterCall
    <3>2. UNCHANGED <<messages, stream, context, results>>
      BY <2>14 DEF pollAfterCall
    <3>3. QED
      BY <3>1, <3>2, <2>1 DEF InTurn
  <2>15. CASE skipToolCall
    <3>1. Head(runnable) \in Calls
      BY <2>15, HeadTailProperties DEF skipToolCall, TypeOK
    <3>2. QED
      BY <2>15, <3>1, <2>3 DEF skipToolCall, InTurn
  <2>16. ASSUME NEW c \in Calls, executePreparedToolCall(c) PROVE Rest' /\ TranscriptIsContext'
    BY <2>16, <2>1 DEF executePreparedToolCall, InTurn
  <2>17. CASE finalizeExecutedToolCall
    <3>1. Head(runnable) \in Calls
      BY <2>17, HeadTailProperties DEF finalizeExecutedToolCall, TypeOK
    <3>2. QED
      BY <2>17, <3>1, <2>3 DEF finalizeExecutedToolCall, InTurn
  <2>18. CASE afterToolCallThrows
    BY <2>18 DEF afterToolCallThrows, TranscriptIsContext, InTurn
  <2>19. CASE pollAfterTools
    BY <2>19, <2>1 DEF pollAfterTools, InTurn
  <2>20. CASE finishTools
    <3>1. /\ context' = context \o results /\ results' = <<>>
          /\ UNCHANGED <<messages, stream>> /\ phase' \in {"head", "turnEnd"} /\ InTurn
      BY <2>20 DEF finishTools, InTurn
    <3>2. context' \o <<>> = context'
      BY ConcatEmptySeq DEF TypeOK
    <3>3. QED
      BY <3>1, <3>2 DEF TranscriptIsContext, Transcript
  <2>21. CASE pollAfterTurn \/ pollFollowUp
    BY <2>21, <2>1 DEF pollAfterTurn, pollFollowUp, InTurn
  <2>22. CASE readMessage
    <3>1. Transcript' = Transcript
      BY <2>22, ReadMoves DEF readMessage, Transcript, TypeOK
    <3>2. QED
      BY <2>22, <3>1 DEF readMessage, TranscriptIsContext, InTurn
  <2>23. CASE readAgentEnd
    BY <2>23 DEF readAgentEnd, TranscriptIsContext, InTurn
  <2>24. CASE UNCHANGED vars
    BY <2>24, <2>1 DEF vars, InTurn
  <2>25. QED
    BY <2>5, <2>6, <2>7, <2>8, <2>9, <2>10, <2>11, <2>12, <2>13, <2>14, <2>15, <2>16, <2>17,
       <2>18, <2>19, <2>20, <2>21, <2>22, <2>23, <2>24 DEF Next, Agent, Loop, Reader
<1>3. QED
  BY <1>1, <1>2, PTL DEF Spec

\* Inside a turn, what the Agent has read and what is on its way are exactly what the loop
\* shows the model.
THEOREM TranscriptAgrees == Spec => []TranscriptIsContext
<1>1. Invariant => TranscriptIsContext
  BY DEF Invariant
<1>2. QED
  BY <1>1, InvariantHolds, PTL

-----------------------------------------------------------------------------
(* The run implements the contract of a conversation. *)

\* A sequence without its head has all of its elements but that.
LEMMA TailOfInjective ==
  ASSUME NEW S, NEW s \in Seq(S), s # <<>>, IsInjective(s)
  PROVE  /\ IsInjective(Tail(s)) /\ Head(s) \in Range(s)
         /\ Range(Tail(s)) = Range(s) \ {Head(s)}
  <1>1. /\ DOMAIN s = 1..Len(s) /\ Len(s) \in Nat \ {0} /\ s[1] = Head(s)
        /\ Tail(s) \in Seq(S) /\ DOMAIN Tail(s) = 1..(Len(s) - 1)
        /\ \A i \in 1..(Len(s) - 1) : Tail(s)[i] = s[i + 1]
    BY HeadTailProperties, EmptySeq, LenProperties
  <1>2. IsInjective(Tail(s))
    BY <1>1 DEF IsInjective
  <1>3. Head(s) \in Range(s)
    BY <1>1 DEF Range
  <1>4. Range(Tail(s)) \subseteq Range(s) \ {Head(s)}
    BY <1>1 DEF Range, IsInjective
  <1>5. ASSUME NEW x \in Range(s) \ {Head(s)} PROVE x \in Range(Tail(s))
    <2>1. PICK i \in 1..Len(s) : x = s[i]
      BY <1>1 DEF Range
    <2>2. i # 1 /\ i - 1 \in 1..(Len(s) - 1) /\ s[(i - 1) + 1] = x
      BY <1>1, <2>1
    <2>3. QED
      BY <1>1, <2>2 DEF Range
  <1>6. QED
    BY <1>2, <1>3, <1>4, <1>5

\* Sequences without a common element can be put together.
LEMMA ConcatOfInjective ==
  ASSUME NEW S, NEW s \in Seq(S), NEW t \in Seq(S), IsInjective(s), IsInjective(t),
         Range(s) \cap Range(t) = {}
  PROVE  IsInjective(s \o t)
  <1>1. /\ DOMAIN s = 1..Len(s) /\ DOMAIN t = 1..Len(t) /\ Len(s) \in Nat /\ Len(t) \in Nat
        /\ DOMAIN (s \o t) = 1..(Len(s) + Len(t))
        /\ \A i \in 1..(Len(s) + Len(t)) : (s \o t)[i] = IF i <= Len(s) THEN s[i] ELSE t[i - Len(s)]
    BY ConcatProperties, LenProperties
  <1>2. \A i \in 1..Len(s), j \in 1..Len(t) : s[i] # t[j]
    BY <1>1 DEF Range
  <1>3. QED
    BY <1>1, <1>2 DEF IsInjective

LEMMA SingleIsInjective == \A x : IsInjective(<<x>>) /\ Range(<<x>>) = {x}
  BY DEF IsInjective, Range

LEMMA TailOfSingle == \A x : Tail(<<x>>) = <<>>
  <1> TAKE x
  <1>1. <<x>> \in Seq({x}) /\ <<x>> # <<>> /\ Len(<<x>>) = 1
    OBVIOUS
  <1>2. Tail(<<x>>) \in Seq({x}) /\ Len(Tail(<<x>>)) = 0
    BY <1>1, HeadTailProperties
  <1>3. QED
    BY <1>2, EmptySeq

\* Why a call is answered once is not said by the transcript: a call waits in one place, and
\* only while tools are at work.
CallsInOrder ==
  /\ IsInjective(runnable) /\ IsInjective(todo) /\ Range(runnable) \cap Range(todo) = {}
  /\ phase \notin {"prepare", "poll", "skip", "run"} => runnable = <<>> /\ todo = <<>>
  /\ phase = "skip" => todo = <<>>
  /\ phase = "run" /\ ToolExecution = "parallel" => todo = <<>>
  /\ phase \in {"prepare", "poll"} /\ ToolExecution = "sequential" => runnable = <<>>
  /\ phase = "run" /\ ToolExecution = "sequential" => Tail(runnable) = <<>>

LEMMA NoneIsInjective == IsInjective(<<>>) /\ Range(<<>>) = {}
  BY DEF IsInjective, Range

LEMMA CallsStep ==
  ASSUME TypeOK, CallsInOrder, [Next]_vars PROVE CallsInOrder'
<1> USE DEF toolVars
<1>0. runnable \in Seq(Calls) /\ todo \in Seq(Calls)
  BY DEF TypeOK
<1>1. ASSUME UNCHANGED <<runnable, todo>>,
             phase' = phase \/ ({phase, phase'} \cap {"prepare", "poll", "skip", "run"} = {})
      PROVE  CallsInOrder'
  BY <1>1 DEF CallsInOrder
<1>2. ASSUME Agent PROVE CallsInOrder'
  BY <1>1, <1>2 DEF Agent, prompt, steer, followUp, continue, abort, drainUserMessages,
       clearAllQueues, removeLastError, reset, _runLoop
<1>3. ASSUME Reader PROVE CallsInOrder'
  BY <1>1, <1>3 DEF Reader, readMessage, readAgentEnd
<1>4. ASSUME inject \/ askModel \/ pollAfterTurn \/ pollFollowUp PROVE CallsInOrder'
  BY <1>1, <1>4 DEF inject, askModel, pollAfterTurn, pollFollowUp
<1>5. ASSUME NEW l \in CallLists, NEW stop \in StopReason, streamAssistantResponse(l, stop)
      PROVE  CallsInOrder'
  <2>1. runnable = <<>> /\ todo = <<>> /\ runnable' = <<>>
    BY <1>5 DEF streamAssistantResponse, CallsInOrder
  <2>2. \/ phase' = "prepare" /\ todo' = l
        \/ phase' \in {"turnEnd", "ended"} /\ todo' = <<>>
    BY <1>5, <2>1 DEF streamAssistantResponse
  <2>3. IsInjective(l)
    BY ConstantsAssumption
  <2>4. QED
    BY <2>1, <2>2, <2>3, NoneIsInjective DEF CallsInOrder
<1>6. CASE prepareToolCall
  <2>1. phase = "prepare" /\ todo # <<>> /\ todo' = Tail(todo)
    BY <1>6 DEF prepareToolCall
  <2>2. IsInjective(todo') /\ Head(todo) \in Range(todo) /\ Range(todo') = Range(todo) \ {Head(todo)}
    BY <1>0, <2>1, TailOfInjective DEF CallsInOrder
  <2>3. CASE runnable' = runnable /\ phase' = "poll"
    BY <2>1, <2>2, <2>3 DEF CallsInOrder
  <2>4. CASE /\ runnable' = Append(runnable, Head(todo))
             /\ phase' = IF ToolExecution = "sequential" THEN "run" ELSE "poll"
    <3>1. Head(todo) \in Calls
      BY <1>0, <2>1, HeadTailProperties
    <3>2. runnable' = runnable \o <<Head(todo)>> /\ <<Head(todo)>> \in Seq(Calls)
      BY <1>0, <2>4, <3>1, AppendIsConcat
    <3>3. Head(todo) \notin Range(runnable)
      BY <2>2 DEF CallsInOrder
    <3>4. IsInjective(runnable')
      <4>1. IsInjective(runnable) /\ runnable \in Seq(Calls)
        BY <1>0 DEF CallsInOrder
      <4>2. IsInjective(<<Head(todo)>>) /\ Range(<<Head(todo)>>) = {Head(todo)}
        BY SingleIsInjective
      <4>3. Range(runnable) \cap Range(<<Head(todo)>>) = {}
        BY ONLY <3>3, <4>2
      <4>4. QED
        BY ONLY <3>2, <4>1, <4>2, <4>3, ConcatOfInjective
    <3>5. Range(runnable') = Range(runnable) \cup {Head(todo)}
      <4>1. Range(runnable \o <<Head(todo)>>) = Range(runnable) \cup Range(<<Head(todo)>>)
        BY ONLY <1>0, <3>2, RangesOfCalls
      <4>2. QED
        BY <3>2, <4>1, SingleIsInjective
    <3>6. Range(runnable') \cap Range(todo') = {}
      BY <2>2, <3>5 DEF CallsInOrder
    <3>7. ToolExecution = "sequential" => Tail(runnable') = <<>>
      <4>1. ASSUME ToolExecution = "sequential" PROVE runnable' = <<Head(todo)>>
        BY <2>1, <2>4, <4>1 DEF CallsInOrder
      <4>2. QED
        BY <4>1, TailOfSingle
    <3>8. phase' = "run" => ToolExecution = "sequential"
      BY <2>4
    <3>9. phase' \in {"run", "poll"} /\ (phase' = "poll" => ToolExecution # "sequential")
      BY <2>4
    <3>10. QED
      BY <2>2, <3>4, <3>6, <3>7, <3>8, <3>9 DEF CallsInOrder
  <2>5. QED
    BY <1>6, <2>3, <2>4 DEF prepareToolCall
<1>7. CASE pollAfterCall
  <2>1. phase = "poll"
    BY <1>7 DEF pollAfterCall
  <2>2. CASE runnable' = runnable \o todo /\ todo' = <<>> /\ phase' = "skip"
    <3>1. IsInjective(runnable')
      BY <1>0, <2>2, ConcatOfInjective DEF CallsInOrder
    <3>2. QED
      BY <2>2, <3>1, NoneIsInjective DEF CallsInOrder
  <2>3. CASE /\ UNCHANGED <<runnable, todo>>
             /\ phase' = IF todo # <<>> THEN "prepare"
                         ELSE IF ToolExecution = "parallel" THEN "run" ELSE "finish"
    <3>1. ToolExecution \in {"parallel", "sequential"}
      BY ConstantsAssumption
    <3>2. QED
      BY <2>1, <2>3, <3>1 DEF CallsInOrder
  <2>4. QED
    BY <1>7, <2>2, <2>3 DEF pollAfterCall
<1>8. CASE skipToolCall
  <2>1. runnable # <<>> /\ runnable' = Tail(runnable) /\ UNCHANGED <<phase, todo>> /\ phase = "skip"
    BY <1>8 DEF skipToolCall
  <2>2. IsInjective(runnable') /\ Range(runnable') = Range(runnable) \ {Head(runnable)}
    BY <1>0, <2>1, TailOfInjective DEF CallsInOrder
  <2>3. QED
    BY <2>1, <2>2 DEF CallsInOrder
<1>9. CASE finalizeExecutedToolCall
  <2>1. /\ phase = "run" /\ runnable # <<>> /\ runnable' = Tail(runnable) /\ UNCHANGED todo
        /\ phase' = IF ToolExecution = "sequential" THEN "poll" ELSE "run"
    BY <1>9 DEF finalizeExecutedToolCall
  <2>2. IsInjective(runnable') /\ Range(runnable') = Range(runnable) \ {Head(runnable)}
    BY <1>0, <2>1, TailOfInjective DEF CallsInOrder
  <2>3. QED
    BY <2>1, <2>2 DEF CallsInOrder
<1>10. CASE afterToolCallThrows
  BY <1>10, NoneIsInjective DEF afterToolCallThrows, CallsInOrder
<1>11. ASSUME NEW c \in Calls, executePreparedToolCall(c) PROVE CallsInOrder'
  BY <1>1, <1>11 DEF executePreparedToolCall
<1>12. CASE pollAfterTools
  BY <1>12 DEF pollAfterTools, CallsInOrder
<1>13. CASE finishTools
  BY <1>13 DEF finishTools, CallsInOrder
<1>14. CASE UNCHANGED vars
  BY <1>1, <1>14 DEF vars
<1>15. QED
  BY <1>2, <1>3, <1>4, <1>5, <1>6, <1>7, <1>8, <1>9, <1>10, <1>11, <1>12, <1>13, <1>14 DEF Next, Loop

\* Calls wait in order in every state of every run.
LEMMA CallsHold == Spec => [](Invariant /\ CallsInOrder)
<1>1. Init => CallsInOrder
  BY NoneIsInjective DEF Init, CallsInOrder
<1>2. Invariant /\ CallsInOrder /\ [Next]_vars => CallsInOrder'
  BY CallsStep DEF Invariant
<1>3. QED
  BY <1>1, <1>2, InvariantHolds, PTL DEF Spec

\* Outside the tools no call is open.
LEMMA OpenOutside ==
  /\ CallsInOrder /\ phase \notin {"prepare", "poll", "skip", "run"} => open = {}
  /\ CallsInOrder' /\ phase' \notin {"prepare", "poll", "skip", "run"} => open' = {}
  BY NoneIsInjective DEF CallsInOrder, open, Unanswered

\* What is pushed into the stream is pushed behind the transcript.
LEMMA TranscriptGrows ==
  ASSUME TypeOK, NEW m \in Message, stream' = Append(stream, m), UNCHANGED messages
  PROVE  Transcript' = Append(Transcript, m)
<1>1. messages \in Seq(Message) /\ stream \in Seq(Message)
  BY DEF TypeOK
<1>2. messages \o Append(stream, m) = Append(messages \o stream, m)
  BY ONLY <1>1, AppendBehind, m \in Message
<1>3. QED
  BY <1>2 DEF Transcript

\* Each step of the loop is a step of the conversation, or none.
LEMMA LoopConverses ==
  ASSUME Invariant, CallsInOrder, TypeOK', CallsInOrder', Loop
  PROVE  [C!Next]_C!vars
<1> TypeOK
  BY DEF Invariant
<1> todo \in Seq(Calls) /\ runnable \in Seq(Calls)
  BY DEF TypeOK
<1> USE DEF toolVars
<1>1. ASSUME UNCHANGED <<messages, stream>>, open' = open PROVE [C!Next]_C!vars
  BY <1>1 DEF C!vars, Transcript
<1>2. ASSUME NEW c \in open, emitToolCallOutcome(c), UNCHANGED messages, open' = open \ {c}, c \in Calls
      PROVE  [C!Next]_C!vars
  <2>1. Transcript' = Append(Transcript, Result(c))
    BY <1>2, TranscriptGrows, MessageTypes DEF emitToolCallOutcome
  <2>2. QED
    BY <1>2, <2>1 DEF C!Next, C!Answer, Result
<1>3. CASE inject
  <2>1. Head(pending) \in UserMessage /\ Head(pending) \in Message
    BY <1>3, HeadTailProperties, MessageTypes DEF inject, TypeOK
  <2>2. Transcript' = Append(Transcript, Head(pending))
    BY <1>3, <2>1, TranscriptGrows DEF inject
  <2>3. open = {} /\ open' = {}
    BY <1>3, OpenOutside DEF inject
  <2>4. QED
    BY <2>1, <2>2, <2>3 DEF C!Next, C!Say, C!UserMessage, UserMessage
<1>4. CASE askModel \/ pollAfterTurn \/ pollFollowUp
  <2>1. UNCHANGED <<messages, stream>>
    BY <1>4 DEF askModel, pollAfterTurn, pollFollowUp
  <2>2. open = {} /\ open' = {}
    BY <1>4, OpenOutside DEF askModel, pollAfterTurn, pollFollowUp
  <2>3. QED
    BY <1>1, <2>1, <2>2
<1>5. ASSUME NEW l \in CallLists, NEW stop \in StopReason, streamAssistantResponse(l, stop)
      PROVE  [C!Next]_C!vars
  <2>1. Transcript' = Append(Transcript, Said(l, stop))
    BY <1>5, TranscriptGrows, MessageTypes DEF streamAssistantResponse
  <2>2. Said(l, stop) \in C!Assistant
    BY DEF Said, C!Assistant, C!StopReason, StopReason
  <2>3. open = {}
    BY <1>5, OpenOutside DEF streamAssistantResponse
  <2>4. open' = IF C!Failed(Said(l, stop)) THEN {} ELSE Range(Said(l, stop).calls)
    <3>1. CASE stop = "done" /\ l # <<>>
      <4>1. runnable' = <<>> /\ todo' = l /\ phase' = "prepare"
        BY <1>5, <3>1 DEF streamAssistantResponse, CallsInOrder
      <4>2. QED
        BY <3>1, <4>1, NoneIsInjective DEF open, InTurn, Unanswered, C!Failed, Said
    <3>2. CASE stop = "done" /\ l = <<>>
      <4>1. open' = {}
        BY <1>5, <3>2, OpenOutside DEF streamAssistantResponse
      <4>2. QED
        BY <3>2, <4>1, NoneIsInjective DEF Said
    <3>3. CASE stop # "done"
      <4>1. open' = {}
        BY <1>5, <3>3, OpenOutside DEF streamAssistantResponse
      <4>2. QED
        BY <3>3, <4>1 DEF C!Failed, Said
    <3>4. QED
      BY <3>1, <3>2, <3>3
  <2> DEFINE m == Said(l, stop)
  <2>5. /\ m \in C!Assistant /\ Transcript' = Append(Transcript, m)
        /\ open' = IF C!Failed(m) THEN {} ELSE C!Range(m.calls)
    BY <2>1, <2>2, <2>4 DEF Range, C!Range
  <2> HIDE DEF m
  <2>6. C!Reply
    BY <2>3, <2>5 DEF C!Reply
  <2>7. QED
    BY <2>6 DEF C!Next
<1>6. CASE prepareToolCall
  <2>1. /\ phase = "prepare" /\ todo # <<>> /\ todo' = Tail(todo) /\ UNCHANGED messages
        /\ phase' \in {"run", "poll"}
    BY <1>6 DEF prepareToolCall
  <2>2. /\ Head(todo) \in Range(todo) /\ Range(todo') = Range(todo) \ {Head(todo)}
        /\ Head(todo) \in Calls
    BY <2>1, TailOfInjective, HeadTailProperties DEF CallsInOrder
  <2>3. open = Range(runnable) \cup Range(todo) /\ open' = Range(runnable') \cup Range(todo')
    BY <2>1 DEF open, InTurn, Unanswered
  <2>4. CASE runnable' = Append(runnable, Head(todo)) /\ UNCHANGED <<results, stream>>
    <3>1. runnable' = runnable \o <<Head(todo)>> /\ <<Head(todo)>> \in Seq(Calls)
      BY <2>2, <2>4, AppendIsConcat
    <3>2. Range(runnable \o <<Head(todo)>>) = Range(runnable) \cup Range(<<Head(todo)>>)
      <4>1. runnable \in Seq(Calls)
        OBVIOUS
      <4>2. QED
        BY ONLY <3>1, <4>1, RangesOfCalls
    <3>3. open' = open
      BY <2>2, <2>3, <3>1, <3>2, SingleIsInjective
    <3>4. QED
      BY <1>1, <2>1, <2>4, <3>3
  <2>5. CASE emitToolCallOutcome(Head(todo)) /\ UNCHANGED runnable
    <3>1. Head(todo) \in open /\ open' = open \ {Head(todo)}
      BY <2>2, <2>3, <2>5 DEF CallsInOrder
    <3>2. QED
      BY <1>2, <2>1, <2>2, <2>5, <3>1
  <2>6. QED
    BY <1>6, <2>4, <2>5 DEF prepareToolCall
<1>7. CASE pollAfterCall
  <2>1. phase = "poll" /\ phase' \in {"skip", "prepare", "run", "finish"} /\ UNCHANGED <<messages, stream>>
    BY <1>7 DEF pollAfterCall
  <2>2. open = Range(runnable) \cup Range(todo) /\ open' = Range(runnable') \cup Range(todo')
    BY <2>1 DEF open, InTurn, Unanswered
  <2>3. \/ UNCHANGED <<runnable, todo>>
        \/ runnable' = runnable \o todo /\ todo' = <<>>
    BY <1>7 DEF pollAfterCall
  <2>4. Range(runnable \o todo) = Range(runnable) \cup Range(todo)
    BY RangeConcatenation
  <2>5. open' = open
    BY <2>2, <2>3, <2>4, NoneIsInjective
  <2>6. QED
    BY <1>1, <2>1, <2>5
<1>8. CASE skipToolCall \/ finalizeExecutedToolCall
  <2>1. /\ phase \in {"skip", "run"} /\ runnable # <<>> /\ runnable' = Tail(runnable)
        /\ phase' \in {"skip", "run", "poll"} /\ UNCHANGED <<messages, todo>>
        /\ emitToolCallOutcome(Head(runnable))
    BY <1>8 DEF skipToolCall, finalizeExecutedToolCall
  <2>2. /\ Head(runnable) \in Range(runnable) /\ Range(runnable') = Range(runnable) \ {Head(runnable)}
        /\ Head(runnable) \in Calls
    BY <2>1, TailOfInjective, HeadTailProperties DEF CallsInOrder
  <2>3. open = Range(runnable) \cup Range(todo) /\ open' = Range(runnable') \cup Range(todo')
    BY <2>1 DEF open, InTurn, Unanswered
  <2>4. Head(runnable) \in open /\ open' = open \ {Head(runnable)}
    BY <2>1, <2>2, <2>3 DEF CallsInOrder
  <2>5. QED
    BY <1>2, <2>1, <2>2, <2>4
<1>9. CASE afterToolCallThrows
  <2>1. Said(<<>>, "error") \in Message
    BY MessageTypes, ConstantsAssumption DEF StopReason
  <2>2. Transcript' = Append(Transcript, Said(<<>>, "error"))
    BY <1>9, <2>1, TranscriptGrows DEF afterToolCallThrows
  <2>3. Head(runnable) \in Range(runnable)
    BY <1>9, TailOfInjective DEF afterToolCallThrows, CallsInOrder
  <2>4. open # {} /\ open' = {}
    BY <1>9, <2>3 DEF afterToolCallThrows, open, InTurn, Unanswered
  <2>5. AfterHookMayThrow
    BY <1>9 DEF afterToolCallThrows
  <2>6. QED
    BY <2>2, <2>4, <2>5 DEF C!Next, C!Abandon, Said
<1>10. ASSUME NEW c \in Calls, executePreparedToolCall(c) PROVE [C!Next]_C!vars
  <2>1. UNCHANGED <<messages, stream, phase, todo, runnable>>
    BY <1>10 DEF executePreparedToolCall
  <2>2. open' = open
    BY <2>1 DEF open, InTurn, Unanswered
  <2>3. QED
    BY <1>1, <2>1, <2>2
<1>11. CASE pollAfterTools
  <2>1. /\ UNCHANGED <<messages, stream, todo, runnable>>
        /\ phase = "run" /\ phase' = "finish"
    BY <1>11 DEF pollAfterTools
  <2>2. open' = open
    BY <2>1 DEF open, InTurn, Unanswered
  <2>3. QED
    BY <1>1, <2>1, <2>2
<1>12. CASE finishTools
  <2>1. /\ UNCHANGED <<messages, stream, todo, runnable>>
        /\ phase \in {"finish", "skip"} /\ phase' \in {"head", "turnEnd"}
    BY <1>12 DEF finishTools
  <2>2. open' = open
    BY <2>1 DEF open, InTurn, Unanswered
  <2>3. QED
    BY <1>1, <2>1, <2>2
<1>13. QED
  BY <1>3, <1>4, <1>5, <1>6, <1>7, <1>8, <1>9, <1>10, <1>11, <1>12 DEF Loop

\* Callers speak, take back and forget only while nothing is open; the reader says nothing new.
LEMMA CallersConverse ==
  ASSUME Invariant, CallsInOrder, CallsInOrder', Agent \/ Reader \/ UNCHANGED vars
  PROVE  [C!Next]_C!vars
<1> TypeOK /\ (phase = "idle" => stream = <<>>)
  BY DEF Invariant
<1> USE DEF toolVars, apiVars
<1>1. ASSUME UNCHANGED <<messages, stream>>, open' = open PROVE [C!Next]_C!vars
  BY <1>1 DEF C!vars, Transcript
<1>2. ASSUME UNCHANGED <<phase, todo, runnable>> PROVE open' = open
  BY <1>2 DEF open, InTurn, Unanswered
<1>3. ASSUME NEW msgs, NEW q, NEW skip, phase = "idle", _runLoop(msgs, q, skip)
      PROVE  [C!Next]_C!vars
  <2>1. phase' = "head" /\ UNCHANGED <<messages, stream>>
    BY <1>3 DEF _runLoop
  <2>2. open = {} /\ open' = {}
    BY <1>3, <2>1, OpenOutside
  <2>3. QED
    BY <1>1, <2>1, <2>2
<1>4. ASSUME NEW i \in Inputs, prompt(i) \/ continue PROVE [C!Next]_C!vars
  BY <1>3, <1>4 DEF prompt, continue
<1>5. ASSUME NEW i \in Inputs, steer(i) \/ followUp(i) PROVE [C!Next]_C!vars
  BY <1>1, <1>2, <1>5 DEF steer, followUp
<1>6. CASE abort \/ drainUserMessages \/ clearAllQueues \/ UNCHANGED vars
  BY <1>1, <1>2, <1>6 DEF abort, drainUserMessages, clearAllQueues, vars
<1>7. CASE continue
  BY <1>3, <1>7 DEF continue
<1>8. CASE removeLastError
  <2>1. stream = <<>> /\ stream' = <<>> /\ messages # <<>> /\ Failed(messages[Len(messages)])
    BY <1>8 DEF removeLastError, Last
  <2>2. /\ messages' = SubSeq(messages, 1, Len(messages) - 1) /\ messages' \in Seq(Message)
        /\ messages \in Seq(Message)
    BY <1>8, TypeCorrectStep DEF removeLastError, TypeOK, Next, Agent
  <2>3. Transcript = messages /\ Transcript' = messages'
    BY <2>1, <2>2, ConcatEmptySeq DEF Transcript
  <2>4. open = {} /\ open' = open
    BY <1>8, OpenOutside DEF removeLastError
  <2>5. QED
    BY <2>1, <2>2, <2>3, <2>4 DEF C!Next, C!TakeBack, C!Failed, Failed
<1>9. CASE reset
  <2>1. stream = <<>> /\ stream' = <<>> /\ messages' = <<>>
    BY <1>9 DEF reset
  <2>2. Transcript' = <<>>
    BY <2>1, ConcatEmptySeq, EmptySeq DEF Transcript
  <2>3. open = {} /\ open' = open
    BY <1>9, OpenOutside DEF reset
  <2>4. QED
    BY <2>2, <2>3 DEF C!Next, C!Forget
<1>10. CASE readMessage
  <2>1. Transcript' = Transcript
    BY <1>10, ReadMoves DEF readMessage, Transcript, TypeOK
  <2>2. open' = open
    BY <1>2, <1>10 DEF readMessage
  <2>3. QED
    BY <2>1, <2>2 DEF C!vars
<1>11. CASE readAgentEnd
  BY <1>1, <1>11, OpenOutside DEF readAgentEnd
<1>12. QED
  BY <1>4, <1>5, <1>6, <1>7, <1>8, <1>9, <1>10, <1>11 DEF Agent, Reader

\* However runs are steered, aborted, retried or end in a hook that throws, the transcript is
\* a conversation: each step says at most one thing, and each call is answered once, before
\* anything else is said, or abandoned with all of its batch.
THEOREM ImplementsConversation == Spec => ConversationSpec
<1>1. Init => C!Init
  BY ConcatEmptySeq, EmptySeq DEF Init, C!Init, Transcript, open, InTurn
<1>2. (Invariant /\ CallsInOrder) /\ (Invariant /\ CallsInOrder)' /\ [Next]_vars => [C!Next]_C!vars
  BY LoopConverses, CallersConverse DEF Next, Invariant
<1>3. QED
  BY <1>1, <1>2, CallsHold, PTL DEF Spec, ConversationSpec, C!Spec

-----------------------------------------------------------------------------
(* Every call is answered before the model is asked again. *)

\* Behind each good answer stand the results of its calls, and nothing among them.
AnsweredIn(s) ==
  \A i \in DOMAIN s : s[i].role = "assistant" /\ ~Failed(s[i]) =>
    /\ i + Len(s[i].calls) <= Len(s)
    /\ {Result(c) : c \in Range(s[i].calls)} = {s[k] : k \in (i + 1)..(i + Len(s[i].calls))}

AtTools == phase \in {"prepare", "poll", "skip", "run", "finish"}

\* While tools are at work the last answer lacks just the calls that wait.
AnswersInOrder ==
  IF AtTools
  THEN \E s \in Seq(Message), l \in CallLists :
         /\ context = Append(s, Said(l, "done")) /\ AnsweredIn(s)
         /\ Len(results) + Len(runnable) + Len(todo) = Len(l)
         /\ {Result(c) : c \in Range(l)} = Range(results) \cup {Result(c) : c \in Unanswered}
  ELSE AnsweredIn(Transcript)

Answers == thrown \/ AnswersInOrder

\* What an answer carries is a list of calls.
LEMMA CallsOfAnswer ==
  ASSUME NEW m \in Message, m.role = "assistant"
  PROVE  m.calls \in Seq(Calls) /\ Len(m.calls) \in Nat
<1>1. m.calls \in CallLists
  BY DEF Message, UserMessage, ToolResult, Assistant
<1>2. QED
  BY <1>1, ConstantsAssumption, LenProperties

\* A message that asks for nothing leaves no call open.
LEMMA AnsweredMore ==
  ASSUME NEW s \in Seq(Message), AnsweredIn(s), NEW m \in Message,
         m.role = "assistant" => Failed(m) \/ m.calls = <<>>
  PROVE  AnsweredIn(Append(s, m))
<1> DEFINE t == Append(s, m)
<1>1. /\ DOMAIN s = 1..Len(s) /\ Len(s) \in Nat /\ DOMAIN t = 1..(Len(s) + 1) /\ Len(t) = Len(s) + 1
      /\ t[Len(s) + 1] = m /\ \A i \in 1..Len(s) : t[i] = s[i] /\ s[i] \in Message
  BY AppendProperties, LenProperties, ElementOfSeq
<1> HIDE DEF t
<1>2. ASSUME NEW i \in DOMAIN t, t[i].role = "assistant", ~Failed(t[i])
      PROVE  /\ i + Len(t[i].calls) <= Len(t)
             /\ {Result(c) : c \in Range(t[i].calls)} = {t[k] : k \in (i + 1)..(i + Len(t[i].calls))}
  <2>1. CASE i = Len(s) + 1
    <3>1. t[i].calls = <<>>
      BY <1>1, <1>2, <2>1
    <3>2. Len(t[i].calls) = 0 /\ Range(t[i].calls) = {}
      BY <3>1, NoneIsInjective
    <3>3. (i + 1)..(i + 0) = {} /\ i + 0 <= Len(t)
      BY <1>1, <2>1
    <3>4. QED
      BY <3>2, <3>3
  <2>2. CASE i \in 1..Len(s)
    <3>1. t[i] = s[i] /\ s[i] \in Message /\ i \in DOMAIN s
      BY <1>1, <2>2
    <3>2. Len(s[i].calls) \in Nat
      BY <1>2, <3>1, CallsOfAnswer
    <3>3. /\ i + Len(s[i].calls) <= Len(s)
          /\ {Result(c) : c \in Range(s[i].calls)} = {s[k] : k \in (i + 1)..(i + Len(s[i].calls))}
      BY <1>2, <3>1 DEF AnsweredIn
    <3>4. \A k \in (i + 1)..(i + Len(s[i].calls)) : t[k] = s[k]
      BY <1>1, <2>2, <3>2, <3>3
    <3>5. {s[k] : k \in (i + 1)..(i + Len(s[i].calls))} = {t[k] : k \in (i + 1)..(i + Len(s[i].calls))}
      BY ONLY <3>4
    <3>6. i + Len(s[i].calls) <= Len(t)
      BY <1>1, <2>2, <3>2, <3>3
    <3>7. QED
      BY <3>1, <3>3, <3>5, <3>6
  <2>3. i = Len(s) + 1 \/ i \in 1..Len(s)
    BY <1>1
  <2>4. QED
    BY ONLY <2>1, <2>2, <2>3
<1>3. QED
  BY <1>2 DEF AnsweredIn, t

\* A failed message that is taken back was nobody's result.
LEMMA AnsweredLess ==
  ASSUME NEW s \in Seq(Message), AnsweredIn(s), s # <<>>, Failed(Last(s))
  PROVE  AnsweredIn(SubSeq(s, 1, Len(s) - 1))
<1> DEFINE t == SubSeq(s, 1, Len(s) - 1)
<1>1. /\ DOMAIN s = 1..Len(s) /\ Len(s) \in Nat \ {0} /\ DOMAIN t = 1..(Len(s) - 1) /\ Len(t) = Len(s) - 1
      /\ \A i \in 1..(Len(s) - 1) : t[i] = s[i]
      /\ \A i \in 1..Len(s) : s[i] \in Message
  <2>1. DOMAIN s = 1..Len(s) /\ Len(s) \in Nat \ {0} /\ \A i \in 1..Len(s) : s[i] \in Message
    BY EmptySeq, LenProperties, ElementOfSeq
  <2>2. 1 \in 1..(Len(s) + 1) /\ Len(s) - 1 \in (1 - 1)..Len(s) /\ Len(s) - 1 \in Nat
    BY <2>1
  <2>3. /\ t \in Seq(Message) /\ Len(t) = Len(s) - 1
        /\ \A i \in 1..(Len(s) - 1) : t[i] = s[i]
    BY <2>1, <2>2, SubSeqProperties
  <2> HIDE DEF t
  <2>4. DOMAIN t = 1..(Len(s) - 1)
    BY <2>3, LenProperties
  <2>5. QED
    BY <2>1, <2>3, <2>4
<1>2. s[Len(s)].role = "assistant"
  BY DEF Failed, Last
<1> HIDE DEF t
<1>3. ASSUME NEW i \in DOMAIN t, t[i].role = "assistant", ~Failed(t[i])
      PROVE  /\ i + Len(t[i].calls) <= Len(t)
             /\ {Result(c) : c \in Range(t[i].calls)} = {t[k] : k \in (i + 1)..(i + Len(t[i].calls))}
  <2>1. t[i] = s[i] /\ s[i] \in Message /\ i \in DOMAIN s /\ i \in 1..(Len(s) - 1)
    BY <1>1
  <2>2. Len(s[i].calls) \in Nat
    BY <1>3, <2>1, CallsOfAnswer
  <2>3. /\ i + Len(s[i].calls) <= Len(s)
        /\ {Result(c) : c \in Range(s[i].calls)} = {s[k] : k \in (i + 1)..(i + Len(s[i].calls))}
    BY <1>3, <2>1 DEF AnsweredIn
  <2>4. i + Len(s[i].calls) # Len(s)
    <3> SUFFICES ASSUME i + Len(s[i].calls) = Len(s) PROVE FALSE
      OBVIOUS
    <3>1. Len(s) \in (i + 1)..(i + Len(s[i].calls))
      BY <1>1, <2>1, <2>2
    <3>2. PICK c \in Range(s[i].calls) : s[Len(s)] = Result(c)
      BY <2>3, <3>1
    <3>3. QED
      BY <1>2, <3>2 DEF Result
  <2>5. i + Len(s[i].calls) <= Len(s) - 1
    BY <1>1, <2>1, <2>2, <2>3, <2>4
  <2>6. \A k \in (i + 1)..(i + Len(s[i].calls)) : t[k] = s[k]
    BY <1>1, <2>1, <2>2, <2>5
  <2>7. {s[k] : k \in (i + 1)..(i + Len(s[i].calls))} = {t[k] : k \in (i + 1)..(i + Len(s[i].calls))}
    BY ONLY <2>6
  <2>8. QED
    BY <1>1, <2>1, <2>3, <2>5, <2>7
<1>4. QED
  BY <1>3 DEF AnsweredIn, t

\* An answer with the results of all its calls behind it leaves no call open.
LEMMA AnsweredWithResults ==
  ASSUME NEW s \in Seq(Message), AnsweredIn(s), NEW l \in CallLists, NEW r \in Seq(ToolResult),
         Len(r) = Len(l), {Result(c) : c \in Range(l)} = Range(r)
  PROVE  AnsweredIn(Append(s, Said(l, "done")) \o r)
<1> DEFINE n == Len(s) + 1
           a == Append(s, Said(l, "done"))
           t == a \o r
<1>1. /\ Said(l, "done") \in Message /\ l \in Seq(Calls) /\ Len(l) \in Nat /\ r \in Seq(Message)
      /\ \A i \in 1..Len(r) : r[i] \in ToolResult
  BY MessageTypes, ConstantsAssumption, LenProperties, SeqMonotonic, ElementOfSeq DEF StopReason
<1>2. /\ a \in Seq(Message) /\ Len(a) = n /\ Len(s) \in Nat /\ a[n] = Said(l, "done")
      /\ \A i \in 1..Len(s) : a[i] = s[i] /\ s[i] \in Message
      /\ DOMAIN s = 1..Len(s)
  BY <1>1, AppendProperties, LenProperties, ElementOfSeq
<1> HIDE DEF a
<1>3. /\ DOMAIN t = 1..(n + Len(l)) /\ Len(t) = n + Len(l)
      /\ \A i \in 1..n : t[i] = a[i]
      /\ \A i \in (n + 1)..(n + Len(l)) : t[i] = r[i - n]
  <2>1. /\ t \in Seq(Message) /\ Len(t) = Len(a) + Len(r)
        /\ \A i \in 1..(Len(a) + Len(r)) : t[i] = IF i <= Len(a) THEN a[i] ELSE r[i - Len(a)]
    <3>1. a \in Seq(Message) /\ r \in Seq(Message)
      BY <1>1, <1>2
    <3>2. QED
      BY ONLY <3>1, ConcatProperties
  <2> HIDE DEF t
  <2>2. Len(t) = n + Len(l) /\ DOMAIN t = 1..(n + Len(l))
    BY <1>2, <2>1, LenProperties
  <2>3. n \in Nat /\ Len(l) \in Nat
    BY <1>1, <1>2
  <2> HIDE DEF n
  <2>4. \A i \in 1..n : i \in 1..(n + Len(l)) /\ i <= n
    BY <2>3
  <2>5. \A i \in (n + 1)..(n + Len(l)) : i \in 1..(n + Len(l)) /\ ~(i <= n)
    BY <2>3
  <2>6. QED
    BY <1>2, <2>1, <2>2, <2>4, <2>5
<1> HIDE DEF t
<1>4. ASSUME NEW i \in DOMAIN t, t[i].role = "assistant", ~Failed(t[i])
      PROVE  /\ i + Len(t[i].calls) <= Len(t)
             /\ {Result(c) : c \in Range(t[i].calls)} = {t[k] : k \in (i + 1)..(i + Len(t[i].calls))}
  <2>1. CASE i = n
    <3>1. t[i] = Said(l, "done") /\ t[i].calls = l
      BY <1>2, <1>3, <2>1 DEF Said
    <3>2. {t[k] : k \in (n + 1)..(n + Len(l))} = Range(r)
      <4>1. DOMAIN r = 1..Len(l)
        BY LenProperties
      <4>2. \A k \in (n + 1)..(n + Len(l)) : k - n \in 1..Len(l) /\ t[k] = r[k - n]
        BY <1>1, <1>2, <1>3
      <4>3. \A j \in 1..Len(l) : n + j \in (n + 1)..(n + Len(l)) /\ t[n + j] = r[j]
        <5>1. ASSUME NEW j \in 1..Len(l) PROVE n + j \in (n + 1)..(n + Len(l)) /\ (n + j) - n = j
          BY <1>1, <1>2
        <5>2. QED
          BY <1>3, <5>1
      <4>4. \A k \in (n + 1)..(n + Len(l)) : t[k] \in Range(r)
        BY <4>1, <4>2 DEF Range
      <4>5. ASSUME NEW x \in Range(r) PROVE \E k \in (n + 1)..(n + Len(l)) : x = t[k]
        <5>1. PICK j \in 1..Len(l) : x = r[j]
          BY <4>1 DEF Range
        <5>2. QED
          BY <4>3, <5>1
      <4>6. QED
        BY ONLY <4>4, <4>5
    <3>3. Len(t[i].calls) = Len(l) /\ Range(t[i].calls) = Range(l)
      BY <3>1
    <3>4. {Result(c) : c \in Range(t[i].calls)} = {t[k] : k \in (i + 1)..(i + Len(t[i].calls))}
      BY <2>1, <3>2, <3>3
    <3>5. i + Len(t[i].calls) <= Len(t)
      BY <1>1, <1>2, <1>3, <2>1, <3>3
    <3>6. QED
      BY <3>4, <3>5
  <2>2. CASE i \in 1..Len(s)
    <3>1. t[i] = s[i] /\ s[i] \in Message /\ i \in DOMAIN s
      BY <1>2, <1>3, <2>2
    <3>2. Len(s[i].calls) \in Nat
      BY <1>4, <3>1, CallsOfAnswer
    <3>3. /\ i + Len(s[i].calls) <= Len(s)
          /\ {Result(c) : c \in Range(s[i].calls)} = {s[k] : k \in (i + 1)..(i + Len(s[i].calls))}
      BY <1>4, <3>1 DEF AnsweredIn
    <3>4. \A k \in (i + 1)..(i + Len(s[i].calls)) : k \in 1..Len(s) /\ k \in 1..n
      BY <1>2, <2>2, <3>2, <3>3
    <3>5. \A k \in (i + 1)..(i + Len(s[i].calls)) : t[k] = s[k]
      BY <1>2, <1>3, <3>4
    <3>6. {s[k] : k \in (i + 1)..(i + Len(s[i].calls))} = {t[k] : k \in (i + 1)..(i + Len(s[i].calls))}
      BY ONLY <3>5
    <3>7. i + Len(s[i].calls) <= Len(t)
      BY <1>1, <1>2, <1>3, <2>2, <3>2, <3>3
    <3>8. QED
      BY <3>1, <3>3, <3>6, <3>7
  <2>3. CASE i \in (n + 1)..(n + Len(l))
    <3>1. t[i] = r[i - n] /\ i - n \in 1..Len(r)
      BY <1>1, <1>2, <1>3, <2>3
    <3>2. t[i].role = "toolResult"
      BY <1>1, <3>1 DEF ToolResult
    <3>3. QED
      BY <1>4, <3>2
  <2>4. i = n \/ i \in 1..Len(s) \/ i \in (n + 1)..(n + Len(l))
    BY <1>1, <1>2, <1>3
  <2>5. QED
    BY ONLY <2>1, <2>2, <2>3, <2>4
<1>5. QED
  BY <1>4 DEF AnsweredIn, t, a

\* One more result for one call less that waits.
LEMMA AnswerGiven ==
  ASSUME TypeOK, AtTools, AtTools', AnswersInOrder, NEW c \in Calls, emitToolCallOutcome(c),
         UNCHANGED context, Unanswered = Unanswered' \cup {c},
         Len(runnable') + Len(todo') + 1 = Len(runnable) + Len(todo),
         Len(runnable') \in Nat, Len(todo') \in Nat
  PROVE  AnswersInOrder'
<1>1. PICK s \in Seq(Message), l \in CallLists :
        /\ context = Append(s, Said(l, "done")) /\ AnsweredIn(s)
        /\ Len(results) + Len(runnable) + Len(todo) = Len(l)
        /\ {Result(d) : d \in Range(l)} = Range(results) \cup {Result(d) : d \in Unanswered}
  BY DEF AnswersInOrder
<1>2. results \in Seq(ToolResult) /\ results' = Append(results, Result(c)) /\ Result(c) \in ToolResult
  BY MessageTypes DEF emitToolCallOutcome, TypeOK
<1>3. Len(results') = Len(results) + 1 /\ Len(results) \in Nat /\ Range(results') = Range(results) \cup {Result(c)}
  <2>1. results' = results \o <<Result(c)>> /\ <<Result(c)>> \in Seq(ToolResult)
    BY <1>2, AppendIsConcat
  <2>2. Range(results \o <<Result(c)>>) = Range(results) \cup Range(<<Result(c)>>)
    BY ONLY <1>2, <2>1, RangesOfResults
  <2>3. Len(results') = Len(results) + 1 /\ Len(results) \in Nat
    BY <1>2, AppendProperties, LenProperties
  <2>4. QED
    BY <2>1, <2>2, <2>3, SingleIsInjective
<1>4. Range(results') \cup {Result(d) : d \in Unanswered'} = Range(results) \cup {Result(d) : d \in Unanswered}
  BY <1>3
<1>5. /\ Len(runnable) \in Nat /\ Len(todo) \in Nat
  BY LenProperties DEF TypeOK
<1>6. Len(results') + Len(runnable') + Len(todo') = Len(l)
  <2>1. /\ Len(results) + Len(runnable) + Len(todo) = Len(l) /\ Len(results') = Len(results) + 1
        /\ Len(results) \in Nat /\ Len(runnable) \in Nat /\ Len(todo) \in Nat
        /\ Len(runnable') \in Nat /\ Len(todo') \in Nat
        /\ Len(runnable') + Len(todo') + 1 = Len(runnable) + Len(todo)
    BY <1>1, <1>3, <1>5
  <2>2. QED
    BY ONLY <2>1
<1>7. QED
  BY <1>1, <1>4, <1>6 DEF AnswersInOrder


\* No step leaves an answer without the results of its calls, unless a hook throws.
LEMMA AnswersStep ==
  ASSUME Invariant, CallsInOrder, TypeOK', CallsInOrder', Invariant', Answers, [Next]_vars
  PROVE  Answers'
<1> TypeOK
  BY DEF Invariant
<1> todo \in Seq(Calls) /\ runnable \in Seq(Calls) /\ todo' \in Seq(Calls) /\ runnable' \in Seq(Calls)
  BY DEF TypeOK
<1> USE DEF toolVars, apiVars, history
<1>0. Transcript \in Seq(Message)
  BY ConcatProperties DEF Transcript, TypeOK
<1>1. thrown => thrown'
  BY DEF Next, Agent, Loop, Reader, prompt, steer, followUp, continue, abort, drainUserMessages,
     clearAllQueues, removeLastError, reset, _runLoop, readMessage, readAgentEnd, inject, askModel,
     streamAssistantResponse, prepareToolCall, pollAfterCall, skipToolCall, executePreparedToolCall,
     finalizeExecutedToolCall, afterToolCallThrows, pollAfterTools, finishTools, pollAfterTurn,
     pollFollowUp, vars
<1>2. SUFFICES ASSUME AnswersInOrder PROVE thrown' \/ AnswersInOrder'
  BY <1>1 DEF Answers
<1>3. ASSUME ~AtTools, ~AtTools', Transcript' = Transcript PROVE AnswersInOrder'
  BY <1>2, <1>3 DEF AnswersInOrder
<1>4. ASSUME ~AtTools, ~AtTools', NEW m \in Message, Transcript' = Append(Transcript, m),
             m.role = "assistant" => Failed(m) \/ m.calls = <<>>
      PROVE  AnswersInOrder'
  BY <1>0, <1>2, <1>4, AnsweredMore DEF AnswersInOrder
<1>5. ASSUME AtTools, AtTools', UNCHANGED <<context, results>>, Unanswered' = Unanswered,
             Len(runnable') + Len(todo') = Len(runnable) + Len(todo)
      PROVE  AnswersInOrder'
  <2>1. PICK s \in Seq(Message), l \in CallLists :
          /\ context = Append(s, Said(l, "done")) /\ AnsweredIn(s)
          /\ Len(results) + Len(runnable) + Len(todo) = Len(l)
          /\ {Result(d) : d \in Range(l)} = Range(results) \cup {Result(d) : d \in Unanswered}
    BY <1>2, <1>5 DEF AnswersInOrder
  <2>2. Len(results') + Len(runnable') + Len(todo') = Len(l)
    <3>1. /\ Len(runnable) \in Nat /\ Len(todo) \in Nat /\ Len(results) \in Nat
          /\ Len(runnable') \in Nat /\ Len(todo') \in Nat
      BY LenProperties DEF TypeOK
    <3>2. \A a, b, d, e, f \in Nat : d + e = a + b => f + d + e = f + a + b
      OBVIOUS
    <3>3. results' = results
      BY <1>5
    <3>4. QED
      BY ONLY <1>5, <2>1, <3>1, <3>2, <3>3
  <2>3. QED
    BY <1>5, <2>1, <2>2 DEF AnswersInOrder
<1>6. ASSUME Agent PROVE AnswersInOrder'
  <2>1. ASSUME UNCHANGED <<phase, messages, stream, context, results, runnable, todo>> PROVE AnswersInOrder'
    BY <1>2, <2>1 DEF AnswersInOrder, AtTools, Transcript, Unanswered
  <2>2. ASSUME NEW msgs, NEW q, NEW skip, phase = "idle", _runLoop(msgs, q, skip) PROVE AnswersInOrder'
    BY <1>3, <2>2 DEF _runLoop, AtTools, Transcript
  <2>3. ASSUME NEW i \in Inputs, prompt(i) PROVE AnswersInOrder'
    BY <2>2, <2>3 DEF prompt
  <2>4. CASE continue
    BY <2>2, <2>4 DEF continue
  <2>5. ASSUME NEW i \in Inputs, steer(i) \/ followUp(i) PROVE AnswersInOrder'
    BY <2>1, <2>5 DEF steer, followUp
  <2>6. CASE abort \/ drainUserMessages \/ clearAllQueues
    BY <2>1, <2>6 DEF abort, drainUserMessages, clearAllQueues
  <2>7. CASE removeLastError
    <3>1. /\ phase = "idle" /\ phase' = phase /\ stream = <<>> /\ stream' = <<>>
          /\ messages # <<>> /\ Failed(Last(messages))
          /\ messages' = SubSeq(messages, 1, Len(messages) - 1)
          /\ messages \in Seq(Message) /\ messages' \in Seq(Message)
      BY <2>7 DEF removeLastError, Invariant, TypeOK
    <3>2. Transcript = messages /\ Transcript' = messages'
      BY <3>1, ConcatEmptySeq DEF Transcript
    <3>3. AnsweredIn(messages)
      BY <1>2, <3>1, <3>2 DEF AnswersInOrder, AtTools
    <3>4. AnsweredIn(messages')
      BY <3>1, <3>3, AnsweredLess
    <3>5. QED
      BY <3>1, <3>2, <3>4 DEF AnswersInOrder, AtTools
  <2>8. CASE reset
    <3>1. phase = "idle" /\ phase' = phase /\ stream = <<>> /\ stream' = <<>> /\ messages' = <<>>
      BY <2>8 DEF reset, Invariant
    <3>2. Transcript' = <<>> /\ DOMAIN Transcript' = {}
      BY <3>1, ConcatEmptySeq, EmptySeq DEF Transcript
    <3>3. AnsweredIn(Transcript)'
      BY <3>2 DEF AnsweredIn
    <3>4. QED
      BY <3>1, <3>3 DEF AnswersInOrder, AtTools
  <2>9. QED
    BY <1>6, <2>3, <2>4, <2>5, <2>6, <2>7, <2>8 DEF Agent
<1>7. ASSUME Reader PROVE AnswersInOrder'
  <2>1. CASE readMessage
    <3>1. Transcript' = Transcript
      BY <2>1, ReadMoves DEF readMessage, Transcript, TypeOK
    <3>2. UNCHANGED <<phase, context, results, runnable, todo>>
      BY <2>1 DEF readMessage
    <3>3. QED
      BY <1>2, <3>1, <3>2 DEF AnswersInOrder, AtTools, Unanswered
  <2>2. CASE readAgentEnd
    BY <1>3, <2>2 DEF readAgentEnd, AtTools, Transcript
  <2>3. QED
    BY <1>7, <2>1, <2>2 DEF Reader
<1>8. CASE inject
  <2>1. Head(pending) \in UserMessage /\ Head(pending) \in Message
    BY <1>8, HeadTailProperties, MessageTypes DEF inject, TypeOK
  <2>2. Transcript' = Append(Transcript, Head(pending))
    BY <1>8, <2>1, TranscriptGrows DEF inject
  <2>3. Head(pending).role = "user" /\ ~AtTools /\ ~AtTools'
    BY <1>8, <2>1 DEF UserMessage, inject, AtTools
  <2>4. QED
    BY <1>4, <2>1, <2>2, <2>3
<1>9. CASE askModel \/ pollAfterTurn \/ pollFollowUp
  BY <1>3, <1>9 DEF askModel, pollAfterTurn, pollFollowUp, AtTools, Transcript
<1>10. ASSUME NEW l \in CallLists, NEW stop \in StopReason, streamAssistantResponse(l, stop)
       PROVE  AnswersInOrder'
  <2>1. /\ Transcript' = Append(Transcript, Said(l, stop)) /\ Said(l, stop) \in Message /\ ~AtTools
        /\ phase = "model"
    BY <1>10, TranscriptGrows, MessageTypes DEF streamAssistantResponse, AtTools
  <2>2. CASE stop = "done" /\ l # <<>>
    <3>1. /\ runnable' = <<>> /\ todo' = l /\ phase' = "prepare" /\ results = <<>> /\ results' = <<>>
          /\ context' = Append(context, Said(l, "done"))
      BY <1>10, <2>2 DEF streamAssistantResponse, CallsInOrder, Invariant
    <3>2. context \in Seq(Message) /\ context \o <<>> = context
      BY ConcatEmptySeq DEF TypeOK
    <3>3. AnsweredIn(context)
      <4>1. Transcript = context
        BY <2>1, <3>1, <3>2 DEF Invariant, TranscriptIsContext, InTurn
      <4>2. QED
        BY <1>2, <2>1, <4>1 DEF AnswersInOrder
    <3>4. /\ Len(results') + Len(runnable') + Len(todo') = Len(l)
          /\ Range(results') = {} /\ Unanswered' = Range(l)
      <4>1. Len(l) \in Nat /\ Len(<<>>) = 0
        BY ConstantsAssumption, LenProperties
      <4>2. QED
        BY <3>1, <4>1, NoneIsInjective DEF Unanswered
    <3>5. QED
      BY <3>1, <3>2, <3>3, <3>4 DEF AnswersInOrder, AtTools
  <2>3. CASE ~(stop = "done" /\ l # <<>>)
    <3>1. ~AtTools' /\ (Failed(Said(l, stop)) \/ Said(l, stop).calls = <<>>)
      BY <1>10, <2>3 DEF streamAssistantResponse, AtTools, Failed, Said
    <3>2. QED
      BY <1>4, <2>1, <3>1
  <2>4. QED
    BY ONLY <2>2, <2>3
<1>11. CASE prepareToolCall
  <2>1. /\ phase = "prepare" /\ todo # <<>> /\ todo' = Tail(todo) /\ UNCHANGED context
        /\ phase' \in {"run", "poll"}
    BY <1>11 DEF prepareToolCall
  <2>2. /\ Head(todo) \in Range(todo) /\ Range(todo') = Range(todo) \ {Head(todo)}
        /\ Head(todo) \in Calls
    BY <2>1, TailOfInjective, HeadTailProperties DEF CallsInOrder
  <2>3. AtTools /\ AtTools'
    BY <2>1 DEF AtTools
  <2>4. /\ Len(todo') + 1 = Len(todo) /\ Len(todo) \in Nat /\ Len(todo') \in Nat
        /\ Len(runnable) \in Nat /\ Len(runnable') \in Nat
    <3>1. Len(todo') = Len(todo) - 1
      BY <2>1, HeadTailProperties
    <3>2. QED
      BY <3>1, LenProperties
  <2>5. CASE runnable' = Append(runnable, Head(todo)) /\ UNCHANGED results
    <3>1. runnable' = runnable \o <<Head(todo)>> /\ <<Head(todo)>> \in Seq(Calls)
      BY <2>2, <2>5, AppendIsConcat
    <3>2. Range(runnable \o <<Head(todo)>>) = Range(runnable) \cup Range(<<Head(todo)>>)
      <4>1. runnable \in Seq(Calls)
        OBVIOUS
      <4>2. QED
        BY ONLY <3>1, <4>1, RangesOfCalls
    <3>3. Unanswered' = Unanswered
      BY <2>2, <3>1, <3>2, SingleIsInjective DEF Unanswered
    <3>4. Len(runnable') = Len(runnable) + 1
      BY <2>2, <2>5, AppendProperties
    <3>5. Len(runnable') + Len(todo') = Len(runnable) + Len(todo)
      BY ONLY <2>4, <3>4
    <3>6. QED
      BY <1>5, <2>1, <2>3, <2>5, <3>3, <3>5
  <2>6. CASE emitToolCallOutcome(Head(todo)) /\ UNCHANGED runnable
    <3>1. Unanswered = Unanswered' \cup {Head(todo)}
      BY <2>2, <2>6 DEF Unanswered
    <3>2. Len(runnable') + Len(todo') + 1 = Len(runnable) + Len(todo)
      <4>1. Len(runnable') = Len(runnable)
        BY <2>6
      <4>2. QED
        BY ONLY <2>4, <4>1
    <3>3. UNCHANGED context /\ emitToolCallOutcome(Head(todo))
      BY <2>1, <2>6
    <3>4. QED
      BY <1>2, <2>2, <2>3, <2>4, <3>1, <3>2, <3>3, AnswerGiven
  <2>7. QED
    BY <1>11, <2>5, <2>6 DEF prepareToolCall
<1>12. CASE pollAfterCall
  <2>1. /\ phase = "poll" /\ phase' \in {"skip", "prepare", "run", "finish"}
        /\ UNCHANGED <<context, results>>
    BY <1>12 DEF pollAfterCall
  <2>2. AtTools /\ AtTools'
    BY <2>1 DEF AtTools
  <2>3. CASE UNCHANGED <<runnable, todo>>
    BY <1>5, <2>1, <2>2, <2>3 DEF Unanswered
  <2>4. CASE runnable' = runnable \o todo /\ todo' = <<>>
    <3>1. Range(runnable \o todo) = Range(runnable) \cup Range(todo)
      BY RangeConcatenation
    <3>2. Unanswered' = Unanswered
      BY <2>4, <3>1, NoneIsInjective DEF Unanswered
    <3>3. /\ Len(runnable') = Len(runnable) + Len(todo) /\ Len(todo') = 0
          /\ Len(runnable) \in Nat /\ Len(todo) \in Nat
      BY <2>4, ConcatProperties, LenProperties, EmptySeq
    <3>4. Len(runnable') + Len(todo') = Len(runnable) + Len(todo)
      BY ONLY <3>3
    <3>5. QED
      BY <1>5, <2>1, <2>2, <3>2, <3>4
  <2>5. QED
    BY <1>12, <2>3, <2>4 DEF pollAfterCall
<1>13. CASE skipToolCall \/ finalizeExecutedToolCall
  <2>1. /\ phase \in {"skip", "run"} /\ runnable # <<>> /\ runnable' = Tail(runnable)
        /\ phase' \in {"skip", "run", "poll"} /\ UNCHANGED <<context, todo>>
        /\ emitToolCallOutcome(Head(runnable))
    BY <1>13 DEF skipToolCall, finalizeExecutedToolCall
  <2>2. /\ Head(runnable) \in Range(runnable) /\ Range(runnable') = Range(runnable) \ {Head(runnable)}
        /\ Head(runnable) \in Calls
    BY <2>1, TailOfInjective, HeadTailProperties DEF CallsInOrder
  <2>3. AtTools /\ AtTools'
    BY <2>1 DEF AtTools
  <2>4. Unanswered = Unanswered' \cup {Head(runnable)}
    BY <2>1, <2>2 DEF Unanswered
  <2>5. /\ Len(runnable') = Len(runnable) - 1 /\ Len(todo') = Len(todo)
        /\ Len(runnable) \in Nat /\ Len(todo) \in Nat /\ Len(runnable') \in Nat /\ Len(todo') \in Nat
    BY <2>1, HeadTailProperties, LenProperties
  <2>6. Len(runnable') + Len(todo') + 1 = Len(runnable) + Len(todo)
    BY ONLY <2>5
  <2>7. UNCHANGED context /\ emitToolCallOutcome(Head(runnable))
    BY <2>1
  <2>8. QED
    BY <1>2, <2>2, <2>3, <2>4, <2>5, <2>6, <2>7, AnswerGiven
<1>14. ASSUME NEW c \in Calls, executePreparedToolCall(c) PROVE AnswersInOrder'
  <2>1. UNCHANGED <<context, results, phase, todo, runnable>> /\ phase = "run"
    BY <1>14 DEF executePreparedToolCall
  <2>2. QED
    BY <1>5, <2>1 DEF AtTools, Unanswered
<1>15. CASE afterToolCallThrows
  BY <1>15 DEF afterToolCallThrows
<1>16. CASE pollAfterTools
  <2>1. UNCHANGED <<context, results, todo, runnable>> /\ phase = "run" /\ phase' = "finish"
    BY <1>16 DEF pollAfterTools
  <2>2. QED
    BY <1>5, <2>1 DEF AtTools, Unanswered
<1>17. CASE finishTools
  <2>1. /\ phase \in {"finish", "skip"} /\ phase' \in {"head", "turnEnd"}
        /\ context' = context \o results /\ results' = <<>> /\ UNCHANGED <<messages, stream>>
        /\ phase = "skip" => runnable = <<>>
    BY <1>17 DEF finishTools
  <2>2. runnable = <<>> /\ todo = <<>> /\ AtTools /\ ~AtTools'
    BY <2>1 DEF CallsInOrder, AtTools
  <2>3. PICK s \in Seq(Message), l \in CallLists :
          /\ context = Append(s, Said(l, "done")) /\ AnsweredIn(s)
          /\ Len(results) + Len(runnable) + Len(todo) = Len(l)
          /\ {Result(d) : d \in Range(l)} = Range(results) \cup {Result(d) : d \in Unanswered}
    BY <1>2, <2>2 DEF AnswersInOrder
  <2>4. results \in Seq(ToolResult) /\ Len(results) \in Nat
    BY LenProperties DEF TypeOK
  <2>5. Len(results) = Len(l) /\ {Result(d) : d \in Range(l)} = Range(results)
    <3>1. Len(runnable) = 0 /\ Len(todo) = 0 /\ Unanswered = {}
      BY <2>2, EmptySeq, NoneIsInjective DEF Unanswered
    <3>2. Len(results) = Len(l)
      BY ONLY <2>3, <2>4, <3>1
    <3>3. QED
      BY <2>3, <3>1, <3>2
  <2>6. AnsweredIn(Append(s, Said(l, "done")) \o results)
    BY <2>3, <2>4, <2>5, AnsweredWithResults
  <2>7. Transcript' = context \o results
    BY <2>1, <2>2 DEF Invariant, TranscriptIsContext, InTurn, Transcript, AtTools
  <2>8. QED
    BY <2>2, <2>3, <2>6, <2>7 DEF AnswersInOrder
<1>18. CASE UNCHANGED vars
  BY <1>2, <1>18 DEF vars, AnswersInOrder, AtTools, Transcript, Unanswered
<1>19. QED
  BY <1>6, <1>7, <1>8, <1>9, <1>10, <1>11, <1>12, <1>13, <1>14, <1>15, <1>16, <1>17, <1>18
     DEF Next, Loop

\* At the model the transcript is the context, and what stands there is read as a sequence.
LEMMA AnswersSuffice == Invariant /\ Answers => SettledCallsAnswered
<1> SUFFICES ASSUME Invariant, Answers, ~thrown, phase = "model" PROVE CallsAnswered
  BY DEF SettledCallsAnswered, CallsAnswered
<1>1. context \in Seq(Message) /\ AnsweredIn(context)
  <2>1. context \in Seq(Message) /\ context \o <<>> = context
    BY ConcatEmptySeq DEF Invariant, TypeOK
  <2>2. Transcript = context
    BY <2>1 DEF Invariant, TranscriptIsContext, InTurn
  <2>3. QED
    BY <2>1, <2>2 DEF Answers, AnswersInOrder, AtTools
<1>2. DOMAIN context = 1..Len(context) /\ Len(context) \in Nat /\ \A i \in 1..Len(context) : context[i] \in Message
  BY <1>1, LenProperties, ElementOfSeq
<1>3. ASSUME NEW i \in DOMAIN context, context[i].role = "assistant", ~Failed(context[i]),
             NEW n, n = Len(context[i].calls)
      PROVE  /\ i + n <= Len(context)
             /\ {Result(c) : c \in Range(context[i].calls)} = Range(SubSeq(context, i + 1, i + n))
  <2>1. /\ i + n <= Len(context)
        /\ {Result(c) : c \in Range(context[i].calls)} = {context[k] : k \in (i + 1)..(i + n)}
    BY <1>1, <1>3 DEF AnsweredIn
  <2>2. n \in Nat /\ i \in 1..Len(context)
    BY <1>2, <1>3, CallsOfAnswer
  <2>3. i + 1 \in 1..(Len(context) + 1) /\ i + n \in ((i + 1) - 1)..Len(context)
    BY <1>2, <2>1, <2>2
  <2> DEFINE t == SubSeq(context, i + 1, i + n)
  <2>4. /\ t \in Seq(Message) /\ Len(t) = (i + n) - (i + 1) + 1
        /\ \A j \in 1..((i + n) - (i + 1) + 1) : t[j] = context[(i + 1) + j - 1]
    <3>1. i + n >= i
      BY <2>2
    <3>2. QED
      BY <1>1, <2>3, <3>1, SubSeqProperties
  <2> HIDE DEF t
  <2>5. DOMAIN t = 1..n /\ \A j \in 1..n : t[j] = context[i + j]
    <3>1. (i + n) - (i + 1) + 1 = n /\ \A j \in 1..n : (i + 1) + j - 1 = i + j
      BY <2>2
    <3>2. QED
      BY <2>4, <3>1, LenProperties
  <2>6. Range(t) = {context[k] : k \in (i + 1)..(i + n)}
    <3>1. \A j \in 1..n : i + j \in (i + 1)..(i + n)
      BY <2>2
    <3>2. \A k \in (i + 1)..(i + n) : k - i \in 1..n /\ i + (k - i) = k
      BY <2>2
    <3>3. \A k \in (i + 1)..(i + n) : \E j \in DOMAIN t : t[j] = context[k]
      BY <2>5, <3>2
    <3>4. \A j \in DOMAIN t : \E k \in (i + 1)..(i + n) : t[j] = context[k]
      BY <2>5, <3>1
    <3>5. QED
      BY ONLY <3>3, <3>4 DEF Range
  <2>7. QED
    BY <2>1, <2>6 DEF t
<1>4. QED
  BY <1>3 DEF CallsAnswered

\* Whenever the model is asked, each call of each good answer it ever gave has its result right
\* behind that answer, unless an afterToolCall hook has thrown: steering that skips calls, calls
\* that fail before they run and calls that end out of order lose none.
THEOREM CallsAreAnswered == Spec => []SettledCallsAnswered
<1>1. Init => Answers
  <2> SUFFICES ASSUME Init PROVE Answers
    OBVIOUS
  <2>1. Transcript = <<>> /\ DOMAIN Transcript = {} /\ ~AtTools
    BY ConcatEmptySeq, EmptySeq DEF Init, Transcript, AtTools
  <2>2. AnsweredIn(Transcript)
    BY <2>1 DEF AnsweredIn
  <2>3. QED
    BY <2>1, <2>2 DEF Answers, AnswersInOrder
<1>2. (Invariant /\ CallsInOrder) /\ (Invariant /\ CallsInOrder)' /\ Answers /\ [Next]_vars => Answers'
  BY AnswersStep DEF Invariant
<1>3. QED
  BY <1>1, <1>2, CallsHold, AnswersSuffice, PTL DEF Spec

-----------------------------------------------------------------------------
(* What is handed to the queues is said in order, unless it is taken back. *)

\* What stands in a line and how it stands there, whatever is lost on the way.
Ordered(line, sent) ==
  \A i, j \in DOMAIN line, k, l \in DOMAIN sent :
    line[i] = sent[k] /\ line[j] = sent[l] => (i < j <=> k < l)

Conserved(line, sent, lost) == Range(sent) \cap Range(line) = Range(sent) \ lost /\ Ordered(line, sent)

\* A part of a line that keeps its order is in order if the line is; the line is in order if
\* the part is and has everything that was sent.
LEMMA PartOrdered ==
  ASSUME NEW part, NEW line, NEW sent, NEW f \in [DOMAIN part -> DOMAIN line],
         \A i \in DOMAIN part : part[i] = line[f[i]],
         \A i, j \in DOMAIN part : i < j <=> f[i] < f[j]
  PROVE  /\ Ordered(line, sent) => Ordered(part, sent)
         /\ Ordered(part, sent) /\ (\A j \in DOMAIN line : line[j] \in Range(sent) =>
                                       \E i \in DOMAIN part : j = f[i])
              => Ordered(line, sent)
<1>1. ASSUME Ordered(line, sent) PROVE Ordered(part, sent)
  <2> SUFFICES ASSUME NEW i \in DOMAIN part, NEW j \in DOMAIN part,
                      NEW k \in DOMAIN sent, NEW l \in DOMAIN sent,
                      part[i] = sent[k], part[j] = sent[l]
               PROVE  i < j <=> k < l
    BY DEF Ordered
  <2>1. f[i] \in DOMAIN line /\ f[j] \in DOMAIN line /\ line[f[i]] = sent[k] /\ line[f[j]] = sent[l]
    OBVIOUS
  <2>2. f[i] < f[j] <=> k < l
    BY <1>1, <2>1 DEF Ordered
  <2>3. QED
    BY <2>2
<1>2. ASSUME Ordered(part, sent),
             \A j \in DOMAIN line : line[j] \in Range(sent) => \E i \in DOMAIN part : j = f[i]
      PROVE  Ordered(line, sent)
  <2> SUFFICES ASSUME NEW i \in DOMAIN line, NEW j \in DOMAIN line,
                      NEW k \in DOMAIN sent, NEW l \in DOMAIN sent,
                      line[i] = sent[k], line[j] = sent[l]
               PROVE  i < j <=> k < l
    BY DEF Ordered
  <2>1. line[i] \in Range(sent) /\ line[j] \in Range(sent)
    BY DEF Range
  <2>2. PICK a \in DOMAIN part : i = f[a]
    BY <1>2, <2>1
  <2>3. PICK b \in DOMAIN part : j = f[b]
    BY <1>2, <2>1
  <2>4. part[a] = sent[k] /\ part[b] = sent[l]
    BY <2>2, <2>3
  <2>5. a < b <=> k < l
    BY <1>2, <2>4 DEF Ordered
  <2>6. QED
    BY <2>2, <2>3, <2>5
<1>3. QED
  BY <1>1, <1>2

\* What was not sent through a queue may be said anywhere without a difference to it.
LEMMA Unconcerned ==
  ASSUME NEW a \in Seq(Message), NEW c \in Seq(Message), NEW b \in Seq(Message), NEW sent, NEW lost,
         Range(c) \cap Range(sent) = {}
  PROVE  Conserved((a \o c) \o b, sent, lost) <=> Conserved(a \o b, sent, lost)
<1> DEFINE line == (a \o c) \o b
           part == a \o b
           f == [i \in 1..(Len(a) + Len(b)) |-> IF i <= Len(a) THEN i ELSE i + Len(c)]
<1>1. Len(a) \in Nat /\ Len(b) \in Nat /\ Len(c) \in Nat /\ DOMAIN c = 1..Len(c)
  BY LenProperties
<1>2. /\ DOMAIN part = 1..(Len(a) + Len(b))
      /\ \A i \in 1..(Len(a) + Len(b)) : part[i] = IF i <= Len(a) THEN a[i] ELSE b[i - Len(a)]
  <2>1. a \o b \in Seq(Message) /\ Len(a \o b) = Len(a) + Len(b)
    BY ConcatProperties
  <2>2. DOMAIN (a \o b) = 1..Len(a \o b)
    BY ONLY <2>1, LenProperties
  <2>3. QED
    BY <2>1, <2>2, ConcatProperties
<1>3. /\ DOMAIN line = 1..(Len(a) + Len(c) + Len(b))
      /\ \A i \in 1..Len(a) : line[i] = a[i]
      /\ \A i \in 1..Len(c) : line[Len(a) + i] = c[i]
      /\ \A i \in 1..Len(b) : line[Len(a) + Len(c) + i] = b[i]
  <2> DEFINE ac == a \o c
  <2>1. /\ ac \in Seq(Message) /\ Len(ac) = Len(a) + Len(c)
        /\ \A i \in 1..(Len(a) + Len(c)) : ac[i] = IF i <= Len(a) THEN a[i] ELSE c[i - Len(a)]
    BY ConcatProperties
  <2> HIDE DEF ac
  <2>2. /\ ac \o b \in Seq(Message) /\ Len(ac \o b) = Len(ac) + Len(b)
        /\ \A i \in 1..(Len(ac) + Len(b)) : (ac \o b)[i] = IF i <= Len(ac) THEN ac[i] ELSE b[i - Len(ac)]
    <3>1. \A s, t \in Seq(Message) :
            /\ s \o t \in Seq(Message) /\ Len(s \o t) = Len(s) + Len(t)
            /\ \A i \in 1..(Len(s) + Len(t)) : (s \o t)[i] = IF i <= Len(s) THEN s[i] ELSE t[i - Len(s)]
      BY ONLY ConcatProperties
    <3>2. QED
      BY ONLY <2>1, <3>1, b \in Seq(Message)
  <2>3. line = ac \o b
    BY DEF ac
  <2> HIDE DEF line
  <2>4. DOMAIN line = 1..(Len(a) + Len(c) + Len(b))
    BY <2>1, <2>2, <2>3, LenProperties
  <2>5. ASSUME NEW i \in 1..Len(a) PROVE line[i] = a[i]
    <3>1. i \in 1..(Len(ac) + Len(b)) /\ i <= Len(ac) /\ i \in 1..(Len(a) + Len(c)) /\ i <= Len(a)
      BY <1>1, <2>1
    <3>2. QED
      BY <2>1, <2>2, <2>3, <3>1
  <2>6. ASSUME NEW i \in 1..Len(c) PROVE line[Len(a) + i] = c[i]
    <3>1. /\ Len(a) + i \in 1..(Len(ac) + Len(b)) /\ Len(a) + i <= Len(ac) /\ (Len(a) + i) - Len(a) = i
          /\ Len(a) + i \in 1..(Len(a) + Len(c)) /\ ~(Len(a) + i <= Len(a))
      BY <1>1, <2>1
    <3>2. QED
      BY <2>1, <2>2, <2>3, <3>1
  <2>7. ASSUME NEW i \in 1..Len(b) PROVE line[Len(a) + Len(c) + i] = b[i]
    <3>1. /\ Len(a) + Len(c) + i \in 1..(Len(ac) + Len(b)) /\ ~(Len(a) + Len(c) + i <= Len(ac))
          /\ (Len(a) + Len(c) + i) - Len(ac) = i
      BY <1>1, <2>1
    <3>2. QED
      BY <2>2, <2>3, <3>1
  <2>8. QED
    BY <2>4, <2>5, <2>6, <2>7
<1>4. Range(line) = Range(part) \cup Range(c)
  <2>1. a \o c \in Seq(Message)
    BY ConcatProperties
  <2>2. Range((a \o c) \o b) = Range(a \o c) \cup Range(b)
    BY ONLY <2>1, b \in Seq(Message), Ranges
  <2>3. Range(a \o c) = Range(a) \cup Range(c)
    BY Ranges
  <2>4. Range(a \o b) = Range(a) \cup Range(b)
    BY Ranges
  <2>5. QED
    BY <2>2, <2>3, <2>4
<1> HIDE DEF line, part
<1>5. f \in [DOMAIN part -> DOMAIN line]
  BY <1>1, <1>2, <1>3
<1>6. ASSUME NEW i \in DOMAIN part PROVE part[i] = line[f[i]]
  <2>1. CASE i <= Len(a)
    BY <1>1, <1>2, <1>3, <1>6, <2>1
  <2>2. CASE ~(i <= Len(a))
    <3>1. i - Len(a) \in 1..Len(b) /\ f[i] = Len(a) + Len(c) + (i - Len(a))
      BY <1>1, <1>2, <1>6, <2>2
    <3>2. part[i] = b[i - Len(a)]
      BY <1>2, <1>6, <2>2
    <3>3. QED
      BY <1>3, <3>1, <3>2
  <2>3. QED
    BY <2>1, <2>2
<1>7. ASSUME NEW i \in DOMAIN part, NEW j \in DOMAIN part PROVE i < j <=> f[i] < f[j]
  BY <1>1, <1>2, <1>7
<1>8. ASSUME NEW j \in DOMAIN line, line[j] \in Range(sent) PROVE \E i \in DOMAIN part : j = f[i]
  <2>1. CASE j \in 1..Len(a)
    BY <1>1, <1>2, <2>1
  <2>2. CASE j \in (Len(a) + 1)..(Len(a) + Len(c))
    <3>1. j - Len(a) \in 1..Len(c) /\ j = Len(a) + (j - Len(a))
      BY <1>1, <2>2
    <3>2. line[j] = c[j - Len(a)]
      BY <1>3, <3>1
    <3>3. line[j] \in Range(c)
      BY <1>1, <3>1, <3>2 DEF Range
    <3>4. QED
      BY <1>8, <3>3
  <2>3. CASE j \in (Len(a) + Len(c) + 1)..(Len(a) + Len(c) + Len(b))
    <3>1. j - Len(c) \in DOMAIN part /\ f[j - Len(c)] = j
      BY <1>1, <1>2, <2>3
    <3>2. QED
      BY <3>1
  <2>4. \/ j \in 1..Len(a)
        \/ j \in (Len(a) + 1)..(Len(a) + Len(c))
        \/ j \in (Len(a) + Len(c) + 1)..(Len(a) + Len(c) + Len(b))
    BY <1>1, <1>3, <1>8
  <2>5. QED
    BY ONLY <2>1, <2>2, <2>3, <2>4
<1> HIDE DEF f
<1>9. Ordered(line, sent) <=> Ordered(part, sent)
  BY <1>5, <1>6, <1>7, <1>8, PartOrdered
<1>10. Conserved(line, sent, lost) <=> Conserved(part, sent, lost)
  BY <1>4, <1>9 DEF Conserved
<1>11. QED
  BY <1>10 DEF line, part

\* A message nobody has seen goes to the end of the line it is sent to.
LEMMA ConservedMore ==
  ASSUME NEW line \in Seq(Message), NEW sent \in Seq(Message), NEW m \in Message, NEW lost,
         m \notin Range(line), m \notin Range(sent), m \notin lost, Conserved(line, sent, lost)
  PROVE  Conserved(line \o <<m>>, Append(sent, m), lost)
<1> DEFINE l2 == line \o <<m>>
           s2 == Append(sent, m)
<1>1. /\ DOMAIN line = 1..Len(line) /\ DOMAIN sent = 1..Len(sent) /\ Len(line) \in Nat /\ Len(sent) \in Nat
      /\ <<m>> \in Seq(Message)
  BY LenProperties
<1>2. /\ DOMAIN l2 = 1..(Len(line) + 1) /\ l2[Len(line) + 1] = m
      /\ \A i \in 1..Len(line) : l2[i] = line[i]
  <2>1. l2 = Append(line, m)
    BY AppendIsConcat
  <2> HIDE DEF l2
  <2>2. QED
    BY <2>1, AppendProperties, LenProperties
<1>3. /\ DOMAIN s2 = 1..(Len(sent) + 1) /\ s2[Len(sent) + 1] = m
      /\ \A i \in 1..Len(sent) : s2[i] = sent[i]
  BY AppendProperties, LenProperties
<1>4. Range(l2) = Range(line) \cup {m} /\ Range(s2) = Range(sent) \cup {m}
  <2>1. Append(sent, m) = sent \o <<m>>
    BY AppendIsConcat
  <2>2. Range(line \o <<m>>) = Range(line) \cup Range(<<m>>)
    BY ONLY <1>1, line \in Seq(Message), Ranges
  <2>3. Range(sent \o <<m>>) = Range(sent) \cup Range(<<m>>)
    BY ONLY <1>1, sent \in Seq(Message), Ranges
  <2>4. QED
    BY <2>1, <2>2, <2>3, SingleIsInjective
<1> HIDE DEF l2, s2
<1>5. Range(s2) \cap Range(l2) = Range(s2) \ lost
  BY <1>4 DEF Conserved
<1>6. Ordered(l2, s2)
  <2> SUFFICES ASSUME NEW i \in DOMAIN l2, NEW j \in DOMAIN l2,
                      NEW k \in DOMAIN s2, NEW l \in DOMAIN s2, l2[i] = s2[k], l2[j] = s2[l]
               PROVE  i < j <=> k < l
    BY DEF Ordered
  <2>1. \A n \in DOMAIN l2 : n \in 1..Len(line) \/ n = Len(line) + 1
    BY <1>1, <1>2
  <2>2. \A n \in DOMAIN s2 : n \in 1..Len(sent) \/ n = Len(sent) + 1
    BY <1>1, <1>3
  <2>3. (\A n \in 1..Len(line) : l2[n] # m /\ l2[n] = line[n]) /\ (\A n \in 1..Len(sent) : s2[n] # m /\ s2[n] = sent[n])
    BY <1>1, <1>2, <1>3 DEF Range
  <2>4. i = Len(line) + 1 <=> k = Len(sent) + 1
    BY <1>2, <1>3, <2>1, <2>2, <2>3
  <2>5. j = Len(line) + 1 <=> l = Len(sent) + 1
    BY <1>2, <1>3, <2>1, <2>2, <2>3
  <2>6. CASE i \in 1..Len(line) /\ j \in 1..Len(line)
    <3>1. k \in 1..Len(sent) /\ l \in 1..Len(sent)
      BY <1>1, <2>2, <2>4, <2>5, <2>6
    <3>2. line[i] = sent[k] /\ line[j] = sent[l]
      BY <2>3, <2>6, <3>1
    <3>3. QED
      BY <1>1, <2>6, <3>1, <3>2 DEF Conserved, Ordered
  <2>7. CASE i = Len(line) + 1
    BY <1>1, <1>2, <1>3, <2>1, <2>2, <2>4, <2>5, <2>7
  <2>8. CASE j = Len(line) + 1
    BY <1>1, <1>2, <1>3, <2>1, <2>2, <2>4, <2>5, <2>8
  <2>9. QED
    BY <2>1, <2>6, <2>7, <2>8
<1>7. QED
  BY <1>5, <1>6 DEF Conserved, l2, s2

\* A poll cuts the queue in two.
LEMMA PollCuts ==
  ASSUME NEW q \in Seq(UserMessage), NEW mode
  PROVE  Taken(q, mode) \o Left(q, mode) = q
<1> DEFINE n == TakeCount(q, mode)
<1>1. Len(q) \in Nat
  BY LenProperties
<1>2. n \in 0..Len(q)
  BY EmptySeq DEF TakeCount
<1> HIDE DEF n
<1>3. 1 \in 1..(Len(q) + 1) /\ n \in (1 - 1)..Len(q) /\ Len(q) \in n..Len(q)
  BY <1>1, <1>2
<1>4. SubSeq(q, 1, n) \o SubSeq(q, n + 1, Len(q)) = SubSeq(q, 1, Len(q))
  BY <1>3, ConcatAdjacentSubSeq
<1>5. QED
  BY <1>4, SubSeqFull DEF Taken, Left, n

LEMMA PollOfNone == \A mode : Taken(<<>>, mode) = <<>> /\ Left(<<>>, mode) = <<>>
<1> TAKE mode
<1>1. <<>> \in Seq(UserMessage)
  BY EmptySeq
<1>2. /\ Taken(<<>>, mode) \in Seq(UserMessage) /\ Left(<<>>, mode) \in Seq(UserMessage)
      /\ Taken(<<>>, mode) \o Left(<<>>, mode) = <<>>
  BY <1>1, PollTypes, PollCuts
<1>3. QED
  BY ONLY <1>2, ConcatEqualIffEmpty

\* r is what is left of q when some of its messages are taken out.
Within(r, q) ==
  \E f \in [DOMAIN r -> DOMAIN q] : /\ \A i \in DOMAIN r : r[i] = q[f[i]]
                                    /\ \A i, j \in DOMAIN r : i < j <=> f[i] < f[j]

\* A message that leaves a queue unsaid is lost; what stays in the queue keeps its place.
LEMMA Dropped ==
  ASSUME NEW a \in Seq(Message), NEW q \in Seq(Message), NEW r \in Seq(Message),
         NEW sent, NEW lost, NEW lostMore,
         Conserved(a \o q, sent, lost), Range(q) \subseteq Range(sent),
         Within(r, q), Range(sent) \ lostMore = (Range(sent) \ lost) \ (Range(q) \ Range(r))
  PROVE  Conserved(a \o r, sent, lostMore)
<1>0. PICK f \in [DOMAIN r -> DOMAIN q] : /\ \A i \in DOMAIN r : r[i] = q[f[i]]
                                         /\ \A i, j \in DOMAIN r : i < j <=> f[i] < f[j]
  BY DEF Within
<1> DEFINE line == a \o q
           part == a \o r
           g == [i \in 1..(Len(a) + Len(r)) |-> IF i <= Len(a) THEN i ELSE Len(a) + f[i - Len(a)]]
<1>1. /\ Len(a) \in Nat /\ Len(q) \in Nat /\ Len(r) \in Nat
      /\ DOMAIN a = 1..Len(a) /\ DOMAIN q = 1..Len(q) /\ DOMAIN r = 1..Len(r)
  BY LenProperties
<1>2. /\ DOMAIN line = 1..(Len(a) + Len(q))
      /\ \A i \in 1..(Len(a) + Len(q)) : line[i] = IF i <= Len(a) THEN a[i] ELSE q[i - Len(a)]
  <2>1. a \o q \in Seq(Message) /\ Len(a \o q) = Len(a) + Len(q)
    BY ConcatProperties
  <2>2. DOMAIN (a \o q) = 1..Len(a \o q)
    BY ONLY <2>1, LenProperties
  <2>3. QED
    BY <2>1, <2>2, ConcatProperties
<1>3. /\ DOMAIN part = 1..(Len(a) + Len(r))
      /\ \A i \in 1..(Len(a) + Len(r)) : part[i] = IF i <= Len(a) THEN a[i] ELSE r[i - Len(a)]
  <2>1. a \o r \in Seq(Message) /\ Len(a \o r) = Len(a) + Len(r)
    BY ConcatProperties
  <2>2. DOMAIN (a \o r) = 1..Len(a \o r)
    BY ONLY <2>1, LenProperties
  <2>3. QED
    BY <2>1, <2>2, ConcatProperties
<1>4. Range(line) = Range(a) \cup Range(q)
  BY Ranges
<1>5. Range(part) = Range(a) \cup Range(r)
  BY Ranges
<1> HIDE DEF line, part
<1>6. \A k \in 1..Len(q) : Len(a) + k \in DOMAIN line /\ line[Len(a) + k] = q[k]
  <2>1. ASSUME NEW k \in 1..Len(q)
        PROVE  Len(a) + k \in 1..(Len(a) + Len(q)) /\ ~(Len(a) + k <= Len(a)) /\ (Len(a) + k) - Len(a) = k
    BY <1>1
  <2>2. QED
    BY <1>2, <2>1
<1>7. g \in [DOMAIN part -> DOMAIN line]
  <2>1. ASSUME NEW i \in 1..(Len(a) + Len(r))
        PROVE  (IF i <= Len(a) THEN i ELSE Len(a) + f[i - Len(a)]) \in DOMAIN line
    <3>1. CASE i <= Len(a)
      BY <1>1, <1>2, <2>1, <3>1
    <3>2. CASE ~(i <= Len(a))
      <4>1. i - Len(a) \in DOMAIN r
        BY <1>1, <2>1, <3>2
      <4>2. f[i - Len(a)] \in 1..Len(q)
        BY <1>0, <1>1, <4>1
      <4>3. QED
        BY <1>6, <3>2, <4>2
    <3>3. QED
      BY <3>1, <3>2
  <2>2. QED
    BY <1>3, <2>1
<1>8. ASSUME NEW i \in DOMAIN part PROVE part[i] = line[g[i]]
  <2>1. CASE i <= Len(a)
    BY <1>1, <1>2, <1>3, <1>8, <2>1
  <2>2. CASE ~(i <= Len(a))
    <3>1. i - Len(a) \in DOMAIN r /\ g[i] = Len(a) + f[i - Len(a)]
      BY <1>1, <1>3, <1>8, <2>2
    <3>2. f[i - Len(a)] \in 1..Len(q) /\ r[i - Len(a)] = q[f[i - Len(a)]]
      BY <1>0, <1>1, <3>1
    <3>3. part[i] = r[i - Len(a)]
      BY <1>3, <1>8, <2>2
    <3>4. QED
      BY <1>6, <3>1, <3>2, <3>3
  <2>3. QED
    BY <2>1, <2>2
<1>9. ASSUME NEW i \in DOMAIN part, NEW j \in DOMAIN part PROVE i < j <=> g[i] < g[j]
  <2>1. /\ i \in 1..(Len(a) + Len(r)) /\ j \in 1..(Len(a) + Len(r))
        /\ g[i] = IF i <= Len(a) THEN i ELSE Len(a) + f[i - Len(a)]
        /\ g[j] = IF j <= Len(a) THEN j ELSE Len(a) + f[j - Len(a)]
    BY <1>3, <1>9
  <2>2. ~(i <= Len(a)) => i - Len(a) \in DOMAIN r /\ f[i - Len(a)] \in 1..Len(q)
    BY <1>0, <1>1, <2>1
  <2>3. ~(j <= Len(a)) => j - Len(a) \in DOMAIN r /\ f[j - Len(a)] \in 1..Len(q)
    BY <1>0, <1>1, <2>1
  <2> HIDE DEF g
  <2>4. CASE ~(i <= Len(a)) /\ ~(j <= Len(a))
    <3>1. i - Len(a) < j - Len(a) <=> f[i - Len(a)] < f[j - Len(a)]
      BY <1>0, <2>2, <2>3, <2>4
    <3> DEFINE x == f[i - Len(a)]
               y == f[j - Len(a)]
    <3>2. x \in Nat /\ y \in Nat /\ g[i] = Len(a) + x /\ g[j] = Len(a) + y /\ (i - Len(a) < j - Len(a) <=> x < y)
      BY <1>1, <2>1, <2>2, <2>3, <2>4, <3>1
    <3> HIDE DEF x, y
    <3>3. QED
      BY <1>1, <2>1, <3>2
  <2>5. CASE i <= Len(a) \/ j <= Len(a)
    BY <1>1, <2>1, <2>2, <2>3, <2>5
  <2>6. QED
    BY <2>4, <2>5
<1> HIDE DEF g
<1>10. Ordered(line, sent)
  BY DEF Conserved, line
<1>11. Ordered(part, sent)
  BY <1>7, <1>8, <1>9, <1>10, PartOrdered
<1>12. Range(a) \cap (Range(q) \ Range(r)) = {}
  <2> SUFFICES ASSUME NEW x \in Range(a), x \in Range(q), x \notin Range(r) PROVE FALSE
    OBVIOUS
  <2>1. PICK i \in 1..Len(a) : a[i] = x
    BY <1>1 DEF Range
  <2>2. PICK k \in 1..Len(q) : q[k] = x
    BY <1>1 DEF Range
  <2>3. PICK n \in DOMAIN sent : sent[n] = x
    <3>1. x \in Range(sent)
      OBVIOUS
    <3>2. QED
      BY ONLY <3>1 DEF Range
  <2>4. i \in DOMAIN line /\ line[i] = sent[n] /\ Len(a) + k \in DOMAIN line /\ line[Len(a) + k] = sent[n]
    BY <1>1, <1>2, <1>6, <2>1, <2>2, <2>3
  <2>5. i < Len(a) + k <=> n < n
    BY <1>10, <2>3, <2>4 DEF Ordered
  <2>6. Len(a) + k < i <=> n < n
    BY <1>10, <2>3, <2>4 DEF Ordered
  <2>7. i < Len(a) + k
    BY <1>1, <2>1, <2>2
  <2>8. ~(Len(a) + k < i)
    BY <1>1, <2>1, <2>2
  <2>9. QED
    BY <2>5, <2>6, <2>7, <2>8
<1>13. Range(sent) \cap Range(part) = Range(sent) \ lostMore
  <2>1. Range(sent) \cap Range(line) = Range(sent) \ lost
    BY DEF Conserved, line
  <2>2. Range(r) \subseteq Range(q)
    BY <1>0, <1>1 DEF Range
  <2>3. QED
    BY <1>4, <1>5, <1>12, <2>1, <2>2
<1>14. QED
  BY <1>11, <1>13 DEF Conserved, part

\* Where a message of a user can come from, and where none can wait.
Handed == Range(submitted) \cup Range(steered) \cup Range(followed)
Origins ==
  /\ Range(Transcript) \cap UserMessage \subseteq Handed /\ Range(pending) \subseteq Handed
  /\ gone \subseteq Handed
  /\ Range(submitted) \cap Range(steered) = {} /\ Range(submitted) \cap Range(followed) = {}
  /\ Range(steered) \cap Range(followed) = {}
  /\ phase \notin {"head", "skip", "finish"} => pending = <<>>

\* QueuesConserve with the lines split where a message enters them.
Lines(said, next, q1, q2, sent1, sent2, sent3, lost) ==
  /\ Conserved((said \o next) \o q1, sent1, lost)
  /\ Conserved((said \o next) \o q2, sent2, lost)
  /\ Conserved(said \o next, sent3, lost)
  /\ Range(q1) \subseteq Range(sent1) /\ Range(q2) \subseteq Range(sent2)

LEMMA LinesConserve ==
  /\ QueuesConserve <=>
       Lines(Transcript, pending, steeringQueue, followUpQueue, steered, followed, submitted, gone)
  /\ QueuesConserve' <=>
       Lines(Transcript', pending', steeringQueue', followUpQueue', steered', followed', submitted', gone')
<1>1. \A line, sent : InOrder(line, sent) <=> Conserved(line, sent, gone)
  BY DEF InOrder, Conserved, Ordered
<1>2. \A line, sent : InOrder(line, sent)' <=> Conserved(line', sent', gone')
  BY DEF InOrder, Conserved, Ordered
<1>3. QED
  BY <1>1, <1>2 DEF QueuesConserve, Lines

LEMMA UnconcernedBefore ==
  ASSUME NEW said \in Seq(Message), NEW c \in Seq(Message), NEW next \in Seq(Message), NEW q \in Seq(Message),
         NEW sent, NEW lost, Range(c) \cap Range(sent) = {}
  PROVE  Conserved(((said \o c) \o next) \o q, sent, lost) <=> Conserved((said \o next) \o q, sent, lost)
<1>1. next \o q \in Seq(Message)
  BY ConcatProperties
<1>2. ((said \o c) \o next) \o q = (said \o c) \o (next \o q)
  <2>1. said \o c \in Seq(Message)
    BY ConcatProperties
  <2>2. QED
    <3>1. \A r \in Seq(Message) : (r \o next) \o q = r \o (next \o q)
      BY ONLY next \in Seq(Message), q \in Seq(Message), Groups
    <3>2. QED
      BY ONLY <2>1, <3>1
<1>3. (said \o next) \o q = said \o (next \o q)
  BY Groups
<1>4. Conserved((said \o c) \o (next \o q), sent, lost) <=> Conserved(said \o (next \o q), sent, lost)
  BY <1>1, Unconcerned
<1>5. QED
  BY <1>2, <1>3, <1>4

\* What nobody sent through a queue makes no difference to any line.
LEMMA LinesUnconcerned ==
  ASSUME NEW said \in Seq(Message), NEW c \in Seq(Message), NEW next \in Seq(Message),
         NEW q1 \in Seq(Message), NEW q2 \in Seq(Message), NEW sent1, NEW sent2, NEW sent3, NEW lost,
         Range(c) \cap Range(sent1) = {}, Range(c) \cap Range(sent2) = {}, Range(c) \cap Range(sent3) = {}
  PROVE  Lines(said \o c, next, q1, q2, sent1, sent2, sent3, lost)
           <=> Lines(said, next, q1, q2, sent1, sent2, sent3, lost)
<1>1. ASSUME NEW q \in Seq(Message), NEW sent, Range(c) \cap Range(sent) = {}
      PROVE  Conserved(((said \o c) \o next) \o q, sent, lost) <=> Conserved((said \o next) \o q, sent, lost)
  BY <1>1, UnconcernedBefore
<1>2. Conserved((said \o c) \o next, sent3, lost) <=> Conserved(said \o next, sent3, lost)
  BY Unconcerned
<1>3. QED
  BY <1>1, <1>2 DEF Lines

\* A poll moves the head of a queue into what is said next, and no line sees it.
LEMMA LinesPolled ==
  ASSUME NEW said \in Seq(Message), NEW next \in Seq(Message),
         NEW q1 \in Seq(Message), NEW q2 \in Seq(Message), NEW r \in Seq(Message),
         NEW sent1, NEW sent2, NEW sent3, NEW lost,
         Range(sent1) \cap Range(sent2) = {}, Range(sent1) \cap Range(sent3) = {},
         next \o r = q1, Lines(said, <<>>, q1, q2, sent1, sent2, sent3, lost)
  PROVE  Lines(said, next, r, q2, sent1, sent2, sent3, lost)
<1>1. said \o <<>> = said /\ <<>> \in Seq(Message) /\ said \o next \in Seq(Message)
  BY ConcatEmptySeq, EmptySeq, ConcatProperties
<1>2. Range(q1) = Range(next) \cup Range(r)
  BY ONLY next \o r = q1, next \in Seq(Message), r \in Seq(Message), Ranges
<1>3. /\ Conserved(said \o q1, sent1, lost) /\ Conserved(said \o q2, sent2, lost) /\ Conserved(said, sent3, lost)
      /\ Range(q1) \subseteq Range(sent1) /\ Range(q2) \subseteq Range(sent2)
  BY <1>1 DEF Lines
<1>4. Range(next) \subseteq Range(sent1) /\ Range(r) \subseteq Range(sent1)
  BY <1>2, <1>3
<1>5. Conserved((said \o next) \o r, sent1, lost)
  <2>1. (said \o next) \o r = said \o (next \o r)
    <3>1. \A a \in Seq(Message) : (a \o next) \o r = a \o (next \o r)
      BY ONLY next \in Seq(Message), r \in Seq(Message), Groups
    <3>2. QED
      BY ONLY <3>1, said \in Seq(Message)
  <2>2. QED
    BY <1>3, <2>1
<1>6. Conserved((said \o next) \o q2, sent2, lost)
  <2>1. Range(next) \cap Range(sent2) = {}
    BY <1>4
  <2>2. QED
    BY <1>3, <2>1, Unconcerned
<1>7. Conserved(said \o next, sent3, lost)
  <2>1. Range(next) \cap Range(sent3) = {}
    BY <1>4
  <2>2. Conserved((said \o next) \o <<>>, sent3, lost) <=> Conserved(said \o <<>>, sent3, lost)
    BY <1>1, <2>1, Unconcerned
  <2>3. (said \o next) \o <<>> = said \o next
    BY ONLY <1>1, ConcatEmptySeq
  <2>4. QED
    BY <1>1, <1>3, <2>2, <2>3
<1>8. QED
  BY <1>3, <1>4, <1>5, <1>6, <1>7 DEF Lines

\* The two queues play the same part.
LEMMA LinesSwap ==
  \A said, next, q1, q2, sent1, sent2, sent3, lost :
    Lines(said, next, q1, q2, sent1, sent2, sent3, lost) <=> Lines(said, next, q2, q1, sent2, sent1, sent3, lost)
  BY DEF Lines

\* A new message at the end of one of the queues.
LEMMA LinesQueued ==
  ASSUME NEW said \in Seq(Message), NEW next \in Seq(Message), NEW q1 \in Seq(Message), NEW q2 \in Seq(Message),
         NEW sent1 \in Seq(Message), NEW sent2, NEW sent3, NEW lost, NEW m \in Message,
         m \notin Range(said), m \notin Range(next), m \notin Range(sent1), m \notin lost,
         Lines(said, next, q1, q2, sent1, sent2, sent3, lost)
  PROVE  Lines(said, next, Append(q1, m), q2, Append(sent1, m), sent2, sent3, lost)
<1>1. said \o next \in Seq(Message) /\ <<m>> \in Seq(Message)
  BY ConcatProperties
<1>2. (said \o next) \o q1 \in Seq(Message)
  BY ONLY <1>1, q1 \in Seq(Message), ConcatProperties
<1>3. Append(q1, m) = q1 \o <<m>> /\ Append(sent1, m) = sent1 \o <<m>>
  BY AppendIsConcat
<1>4. (said \o next) \o Append(q1, m) = ((said \o next) \o q1) \o <<m>>
  <2>1. (said \o next) \o (q1 \o <<m>>) = ((said \o next) \o q1) \o <<m>>
    <3>1. \A a \in Seq(Message) : a \o (q1 \o <<m>>) = (a \o q1) \o <<m>>
      BY ONLY <1>1, q1 \in Seq(Message), Groups
    <3>2. QED
      BY ONLY <1>1, <3>1
  <2>2. QED
    BY ONLY <1>3, <2>1
<1>5. m \notin Range((said \o next) \o q1)
  <2>1. Range((said \o next) \o q1) = Range(said \o next) \cup Range(q1)
    BY ONLY <1>1, q1 \in Seq(Message), Ranges
  <2>2. Range(said \o next) = Range(said) \cup Range(next)
    BY Ranges
  <2>3. m \notin Range(q1)
    BY DEF Lines
  <2>4. QED
    BY <2>1, <2>2, <2>3
<1>6. Conserved((said \o next) \o Append(q1, m), Append(sent1, m), lost)
  <2>1. Conserved((said \o next) \o q1, sent1, lost)
    BY DEF Lines
  <2>2. Conserved(((said \o next) \o q1) \o <<m>>, Append(sent1, m), lost)
    BY ONLY <1>2, <1>5, <2>1, sent1 \in Seq(Message), m \in Message, m \notin Range(sent1), m \notin lost,
            ConservedMore
  <2>3. QED
    BY <1>4, <2>2
<1>7. Range(Append(q1, m)) \subseteq Range(Append(sent1, m))
  <2>1. Range(q1 \o <<m>>) = Range(q1) \cup Range(<<m>>)
    BY ONLY <1>1, q1 \in Seq(Message), Ranges
  <2>2. Range(sent1 \o <<m>>) = Range(sent1) \cup Range(<<m>>)
    BY ONLY <1>1, sent1 \in Seq(Message), Ranges
  <2>3. Range(q1) \subseteq Range(sent1)
    BY DEF Lines
  <2>4. QED
    BY <1>3, <2>1, <2>2, <2>3
<1>8. QED
  BY <1>6, <1>7 DEF Lines

\* A new message that starts a run is said before what the run's first poll takes.
LEMMA LinesStarted ==
  ASSUME NEW said \in Seq(Message), NEW q1 \in Seq(Message), NEW q2 \in Seq(Message),
         NEW sent1, NEW sent2, NEW sent3 \in Seq(Message), NEW lost, NEW m \in Message,
         m \notin Range(said), m \notin Range(sent1), m \notin Range(sent2), m \notin Range(sent3), m \notin lost,
         Lines(said, <<>>, q1, q2, sent1, sent2, sent3, lost)
  PROVE  Lines(said \o <<m>>, <<>>, q1, q2, sent1, sent2, Append(sent3, m), lost)
<1>1. /\ said \o <<>> = said /\ <<>> \in Seq(Message) /\ <<m>> \in Seq(Message) /\ said \o <<m>> \in Seq(Message)
  <2>1. <<m>> \in Seq(Message)
    OBVIOUS
  <2>2. QED
    BY <2>1, ConcatEmptySeq, EmptySeq, ConcatProperties
<1>2. (said \o <<m>>) \o <<>> = said \o <<m>>
  BY ONLY <1>1, ConcatEmptySeq
<1>3. Range(<<m>>) = {m}
  BY SingleIsInjective
<1>4. Range(<<m>>) \cap Range(sent1) = {} /\ Range(<<m>>) \cap Range(sent2) = {}
  BY <1>3
<1>5. /\ Conserved(said \o q1, sent1, lost) /\ Conserved(said \o q2, sent2, lost) /\ Conserved(said, sent3, lost)
      /\ Range(q1) \subseteq Range(sent1) /\ Range(q2) \subseteq Range(sent2)
  BY <1>1 DEF Lines
<1>6. Conserved((said \o <<m>>) \o q1, sent1, lost)
  BY <1>1, <1>4, <1>5, Unconcerned
<1>7. Conserved((said \o <<m>>) \o q2, sent2, lost)
  BY <1>1, <1>4, <1>5, Unconcerned
<1>8. Conserved(said \o <<m>>, Append(sent3, m), lost)
  BY <1>5, ConservedMore
<1>9. QED
  BY <1>2, <1>5, <1>6, <1>7, <1>8 DEF Lines

\* What is said next may be counted as said.
LEMMA LinesMoved ==
  ASSUME NEW said \in Seq(Message), NEW next \in Seq(Message), NEW more \in Seq(Message),
         NEW q1, NEW q2, NEW sent1, NEW sent2, NEW sent3, NEW lost
  PROVE  Lines(said \o next, more, q1, q2, sent1, sent2, sent3, lost)
           <=> Lines(said, next \o more, q1, q2, sent1, sent2, sent3, lost)
<1>1. (said \o next) \o more = said \o (next \o more)
  BY ConcatAssociative
<1>2. QED
  BY <1>1 DEF Lines

\* No step loses a message, says one twice or changes their order.
LEMMA QueuesStep ==
  ASSUME Invariant, TypeOK', Origins, QueuesConserve, [Next]_vars
  PROVE  Origins' /\ QueuesConserve'
<1> TypeOK /\ (phase = "idle" => stream = <<>>)
  BY DEF Invariant
<1> USE DEF toolVars, apiVars, history
<1> DEFINE Goal == Origins' /\ QueuesConserve'
           Queued == <<steeringQueue, followUpQueue>>
           Sent   == <<submitted, steered, followed, gone>>
           Early  == phase' \in {"head", "skip", "finish"} \/ pending' = <<>>
<1>1. /\ Transcript \in Seq(Message) /\ Transcript' \in Seq(Message)
      /\ pending \in Seq(UserMessage) /\ pending' \in Seq(UserMessage)
      /\ steeringQueue \in Seq(UserMessage) /\ steeringQueue' \in Seq(UserMessage)
      /\ followUpQueue \in Seq(UserMessage) /\ followUpQueue' \in Seq(UserMessage)
      /\ submitted \in Seq(UserMessage) /\ steered \in Seq(UserMessage) /\ followed \in Seq(UserMessage)
  <2>1. Transcript \in Seq(Message)
    BY ConcatProperties DEF Transcript, TypeOK
  <2>2. Transcript' \in Seq(Message)
    BY ConcatProperties DEF Transcript, TypeOK
  <2>3. QED
    BY <2>1, <2>2 DEF TypeOK
<1>2. /\ pending \in Seq(Message) /\ pending' \in Seq(Message)
      /\ steeringQueue \in Seq(Message) /\ steeringQueue' \in Seq(Message)
      /\ followUpQueue \in Seq(Message) /\ followUpQueue' \in Seq(Message)
      /\ submitted \in Seq(Message) /\ steered \in Seq(Message) /\ followed \in Seq(Message)
      /\ <<>> \in Seq(Message)
  BY <1>1, MessageTypes, SeqMonotonic, EmptySeq
<1>3. Lines(Transcript, pending, steeringQueue, followUpQueue, steered, followed, submitted, gone)
  BY LinesConserve
<1>4. /\ Range(submitted) \subseteq UserMessage /\ Range(steered) \subseteq UserMessage
      /\ Range(followed) \subseteq UserMessage
  BY <1>1, RangeOfSeq
<1>5. /\ Range(steeringQueue) \subseteq Range(steered) /\ Range(followUpQueue) \subseteq Range(followed)
  BY <1>3 DEF Lines
<1>6. \A m \in UserMessage : \E i \in Inputs : m = User(i)
  BY DEF UserMessage, User
<1>7. ASSUME NEW c \in Seq(Message), Range(c) \cap UserMessage = {},
             Transcript' = Transcript \o c \/ Transcript = Transcript' \o c,
             UNCHANGED <<pending, Queued, Sent>>, Early
      PROVE  Goal
  <2>1. Range(c) \cap Range(steered) = {} /\ Range(c) \cap Range(followed) = {} /\ Range(c) \cap Range(submitted) = {}
    BY <1>4, <1>7
  <2>2. Lines(Transcript', pending, steeringQueue, followUpQueue, steered, followed, submitted, gone)
    <3>1. CASE Transcript' = Transcript \o c
      BY <1>1, <1>2, <1>3, <1>7, <2>1, <3>1, LinesUnconcerned
    <3>2. CASE Transcript = Transcript' \o c
      BY <1>1, <1>2, <1>3, <1>7, <2>1, <3>2, LinesUnconcerned
    <3>3. QED
      BY <1>7, <3>1, <3>2
  <2>3. QueuesConserve'
    BY <1>7, <2>2, LinesConserve
  <2>4. Range(Transcript') \cap UserMessage = Range(Transcript) \cap UserMessage
    <3>1. CASE Transcript' = Transcript \o c
      <4>1. Range(Transcript \o c) = Range(Transcript) \cup Range(c)
        BY <1>1, <1>7, Ranges
      <4>2. QED
        BY <1>7, <3>1, <4>1
    <3>2. CASE Transcript = Transcript' \o c
      <4>1. Range(Transcript' \o c) = Range(Transcript') \cup Range(c)
        BY <1>1, <1>7, Ranges
      <4>2. QED
        BY <1>7, <3>2, <4>1
    <3>3. QED
      BY <1>7, <3>1, <3>2
  <2>5. Origins'
    BY <1>7, <2>4 DEF Origins, Handed
  <2>6. QED
    BY <2>3, <2>5
<1>8. ASSUME Transcript' = Transcript, UNCHANGED <<pending, Queued, Sent>>, Early PROVE Goal
  <2>1. Transcript' = Transcript \o <<>> /\ Range(<<>>) \cap UserMessage = {}
    BY <1>1, <1>8, ConcatEmptySeq, NoneIsInjective
  <2>2. QED
    BY <1>2, <1>7, <1>8, <2>1
<1>9. ASSUME NEW m \in Message, m \notin UserMessage, UNCHANGED <<pending, Queued, Sent>>, Early,
             stream' = Append(stream, m), UNCHANGED messages
      PROVE  Goal
  <2>1. Transcript' = Append(Transcript, m)
    BY <1>9, TranscriptGrows
  <2>2. Transcript' = Transcript \o <<m>> /\ <<m>> \in Seq(Message)
    BY <1>1, <1>9, <2>1, AppendIsConcat
  <2>3. Range(<<m>>) \cap UserMessage = {}
    BY <1>9, SingleIsInjective
  <2>4. QED
    BY <1>7, <1>9, <2>2, <2>3
\* A poll of the steering queue, and one of the follow-up queue.
<1>10. ASSUME pending = <<>>, Transcript' = Transcript, pending' \o steeringQueue' = steeringQueue,
              UNCHANGED <<followUpQueue, Sent>>, Early
       PROVE  Goal
  <2>1. Range(steeringQueue) = Range(pending') \cup Range(steeringQueue')
    BY ONLY <1>2, <1>10, Ranges
  <2>2. Lines(Transcript, <<>>, steeringQueue, followUpQueue, steered, followed, submitted, gone)
    BY <1>3, <1>10
  <2>3. Lines(Transcript, pending', steeringQueue', followUpQueue, steered, followed, submitted, gone)
    BY <1>1, <1>2, <1>10, <2>2, LinesPolled DEF Origins
  <2>4. QueuesConserve'
    BY <1>10, <2>3, LinesConserve
  <2>5. Origins'
    BY <1>5, <1>10, <2>1 DEF Origins, Handed
  <2>6. QED
    BY <2>4, <2>5
<1>11. ASSUME pending = <<>>, Transcript' = Transcript, pending' \o followUpQueue' = followUpQueue,
              UNCHANGED <<steeringQueue, Sent>>, Early
       PROVE  Goal
  <2>1. Range(followUpQueue) = Range(pending') \cup Range(followUpQueue')
    BY ONLY <1>2, <1>11, Ranges
  <2>2. Lines(Transcript, <<>>, followUpQueue, steeringQueue, followed, steered, submitted, gone)
    BY <1>3, <1>11, LinesSwap
  <2>3. Lines(Transcript, pending', followUpQueue', steeringQueue, followed, steered, submitted, gone)
    BY <1>1, <1>2, <1>11, <2>2, LinesPolled DEF Origins
  <2>4. QueuesConserve'
    BY <1>11, <2>3, LinesConserve, LinesSwap
  <2>5. Origins'
    BY <1>5, <1>11, <2>1 DEF Origins, Handed
  <2>6. QED
    BY <2>4, <2>5
<1>12. ASSUME pending = <<>>, Transcript' = Transcript, UNCHANGED <<followUpQueue, Sent>>, Early,
              pending' = Taken(steeringQueue, SteeringMode), steeringQueue' = Left(steeringQueue, SteeringMode)
       PROVE  Goal
  BY <1>1, <1>10, <1>12, PollCuts
<1>13. ASSUME pending = <<>>, Transcript' = Transcript, UNCHANGED <<steeringQueue, Sent>>, Early,
              pending' = Taken(followUpQueue, FollowUpMode), followUpQueue' = Left(followUpQueue, FollowUpMode)
       PROVE  Goal
  BY <1>1, <1>11, <1>13, PollCuts
\* A message nobody has handed over yet.
<1>14. ASSUME NEW i \in Inputs, i \in Fresh
       PROVE  /\ User(i) \in Message /\ User(i) \in UserMessage
              /\ User(i) \notin Range(Transcript) /\ User(i) \notin Range(pending) /\ User(i) \notin gone
              /\ User(i) \notin Range(steered) /\ User(i) \notin Range(followed) /\ User(i) \notin Range(submitted)
              /\ Range(<<User(i)>>) = {User(i)} /\ <<User(i)>> \in Seq(Message)
  <2>1. User(i) \in Message /\ User(i) \in UserMessage
    BY MessageTypes
  <2>2. User(i) \notin Range(steered) /\ User(i) \notin Range(followed) /\ User(i) \notin Range(submitted)
    BY <1>14 DEF Fresh
  <2>3. User(i) \notin Range(Transcript) /\ User(i) \notin Range(pending) /\ User(i) \notin gone
    BY <2>1, <2>2 DEF Origins, Handed
  <2>4. QED
    BY <2>1, <2>2, <2>3, SingleIsInjective
<1>15. ASSUME NEW q \in Seq(Message), NEW i \in Inputs, i \in Fresh
       PROVE  Range(Append(q, User(i))) = Range(q) \cup {User(i)}
  <2>1. Append(q, User(i)) = q \o <<User(i)>>
    BY <1>14, <1>15, AppendIsConcat
  <2>2. Range(q \o <<User(i)>>) = Range(q) \cup Range(<<User(i)>>)
    BY <1>14, <1>15, Ranges
  <2>3. QED
    BY <1>14, <1>15, <2>1, <2>2
<1>16. ASSUME NEW i \in Inputs, steer(i) PROVE Goal
  <2>1. /\ i \in Fresh /\ steeringQueue' = Append(steeringQueue, User(i)) /\ steered' = Append(steered, User(i))
        /\ UNCHANGED <<messages, stream, pending, followUpQueue, submitted, followed, gone, phase>>
    BY <1>16 DEF steer
  <2>2. Transcript' = Transcript
    BY <2>1 DEF Transcript
  <2>3. Lines(Transcript, pending, steeringQueue', followUpQueue, steered', followed, submitted, gone)
    BY <1>1, <1>2, <1>3, <1>14, <2>1, LinesQueued
  <2>4. QueuesConserve'
    BY <2>1, <2>2, <2>3, LinesConserve
  <2>5. Range(steered') = Range(steered) \cup {User(i)}
    BY <1>2, <1>15, <2>1
  <2>6. Origins'
    BY <1>14, <2>1, <2>2, <2>5 DEF Origins, Handed
  <2>7. QED
    BY <2>4, <2>6
<1>17. ASSUME NEW i \in Inputs, followUp(i) PROVE Goal
  <2>1. /\ i \in Fresh /\ followUpQueue' = Append(followUpQueue, User(i)) /\ followed' = Append(followed, User(i))
        /\ UNCHANGED <<messages, stream, pending, steeringQueue, submitted, steered, gone, phase>>
    BY <1>17 DEF followUp
  <2>2. Transcript' = Transcript
    BY <2>1 DEF Transcript
  <2>3. Lines(Transcript, pending, followUpQueue, steeringQueue, followed, steered, submitted, gone)
    BY <1>3, LinesSwap
  <2>4. Lines(Transcript, pending, followUpQueue', steeringQueue, followed', steered, submitted, gone)
    BY <1>1, <1>2, <1>14, <2>1, <2>3, LinesQueued
  <2>5. QueuesConserve'
    BY <2>1, <2>2, <2>4, LinesConserve, LinesSwap
  <2>6. Range(followed') = Range(followed) \cup {User(i)}
    BY <1>2, <1>15, <2>1
  <2>7. Origins'
    BY <1>14, <2>1, <2>2, <2>6 DEF Origins, Handed
  <2>8. QED
    BY <2>5, <2>7
<1>18. ASSUME NEW i \in Inputs, prompt(i) PROVE Goal
  <2>1. /\ i \in Fresh /\ phase = "idle" /\ phase' = "head" /\ submitted' = Append(submitted, User(i))
        /\ pending' = <<User(i)>> \o Taken(steeringQueue, SteeringMode)
        /\ steeringQueue' = Left(steeringQueue, SteeringMode)
        /\ UNCHANGED <<messages, stream, followUpQueue, steered, followed, gone>>
    BY <1>18 DEF prompt, _runLoop
  <2>2. Transcript' = Transcript /\ pending = <<>>
    BY <2>1 DEF Transcript, Origins
  <2> DEFINE t == Taken(steeringQueue, SteeringMode)
             l == Left(steeringQueue, SteeringMode)
             m == User(i)
  <2>3. t \in Seq(Message) /\ l \in Seq(Message) /\ t \o l = steeringQueue
    BY <1>1, PollTypes, PollCuts, MessageTypes, SeqMonotonic
  <2>4. /\ m \in Message /\ m \in UserMessage
        /\ m \notin Range(Transcript) /\ m \notin Range(pending) /\ m \notin gone
        /\ m \notin Range(steered) /\ m \notin Range(followed) /\ m \notin Range(submitted)
        /\ Range(<<m>>) = {m} /\ <<m>> \in Seq(Message)
    BY <1>14, <2>1
  <2>5. pending' = <<m>> \o t /\ steeringQueue' = l /\ submitted' = Append(submitted, m)
    BY <2>1
  <2>6. Range(submitted') = Range(submitted) \cup {m}
    BY <1>2, <1>15, <2>1
  <2> HIDE DEF t, l, m
  <2>7. Lines(Transcript \o <<m>>, <<>>, steeringQueue, followUpQueue, steered, followed, submitted', gone)
    <3>1. Lines(Transcript, <<>>, steeringQueue, followUpQueue, steered, followed, submitted, gone)
      BY <1>3, <2>2
    <3>2. QED
      BY <1>1, <1>2, <2>4, <2>5, <3>1, LinesStarted
  <2>8. Transcript \o <<m>> \in Seq(Message)
    BY <1>1, <2>4, ConcatProperties
  <2>9. /\ Range(steered) \cap Range(followed) = {} /\ Range(steered) \cap Range(submitted') = {}
    BY <2>4, <2>6 DEF Origins
  <2>10. Lines(Transcript \o <<m>>, t, l, followUpQueue, steered, followed, submitted', gone)
    BY <1>2, <2>3, <2>7, <2>8, <2>9, LinesPolled
  <2>11. Lines(Transcript, <<m>> \o t, l, followUpQueue, steered, followed, submitted', gone)
    BY <1>1, <2>3, <2>4, <2>10, LinesMoved
  <2>12. QueuesConserve'
    <3>1. UNCHANGED <<followUpQueue, steered, followed, gone>>
      BY <2>1
    <3>2. QED
      BY <2>2, <2>5, <2>11, <3>1, LinesConserve
  <2>13. Range(pending') \subseteq Range(steered) \cup {m}
    <3>1. Range(<<m>> \o t) = Range(<<m>>) \cup Range(t)
      BY ONLY <2>3, <2>4, Ranges
    <3>2. Range(t \o l) = Range(t) \cup Range(l)
      BY ONLY <2>3, Ranges
    <3>3. QED
      BY <1>5, <2>3, <2>4, <2>5, <3>1, <3>2
  <2>14. Origins'
    <3>1. UNCHANGED <<steered, followed, gone>> /\ phase' = "head"
      BY <2>1
    <3>2. QED
      BY <2>2, <2>4, <2>6, <2>13, <3>1 DEF Origins, Handed
  <2>15. QED
    BY <2>12, <2>14
<1>19. CASE continue
  <2>1. /\ phase = "idle" /\ phase' = "head" /\ UNCHANGED <<messages, stream, Sent>>
    BY <1>19 DEF continue, _runLoop
  <2>2. Transcript' = Transcript /\ pending = <<>> /\ Early
    BY <2>1 DEF Transcript, Origins
  <2> DEFINE t == Taken(steeringQueue, SteeringMode)
             u == Taken(followUpQueue, FollowUpMode)
  <2>3. t \in Seq(Message) /\ u \in Seq(Message)
    BY <1>1, PollTypes, MessageTypes, SeqMonotonic
  <2>4. <<>> \o t = t /\ t \o <<>> = t /\ u \o <<>> = u
    BY <2>3, ConcatEmptySeq
  <2>5. CASE _runLoop(<<>>, steeringQueue, FALSE) /\ UNCHANGED followUpQueue
    <3>1. pending' = <<>> \o t /\ steeringQueue' = Left(steeringQueue, SteeringMode)
      BY <2>5 DEF _runLoop
    <3>2. QED
      BY <1>12, <2>1, <2>2, <2>4, <2>5, <3>1
  <2>6. CASE _runLoop(t, Left(steeringQueue, SteeringMode), TRUE) /\ UNCHANGED followUpQueue
    <3>1. pending' = t \o <<>> /\ steeringQueue' = Left(steeringQueue, SteeringMode)
      BY <2>6 DEF _runLoop
    <3>2. QED
      BY <1>12, <2>1, <2>2, <2>4, <2>6, <3>1
  <2>7. CASE /\ steeringQueue = <<>> /\ _runLoop(u, steeringQueue, FALSE)
             /\ followUpQueue' = Left(followUpQueue, FollowUpMode)
    <3>1. pending' = u \o Taken(<<>>, SteeringMode) /\ steeringQueue' = Left(<<>>, SteeringMode)
      BY <2>7 DEF _runLoop
    <3>2. pending' = u /\ UNCHANGED steeringQueue
      BY <2>4, <2>7, <3>1, PollOfNone
    <3>3. QED
      BY <1>13, <2>1, <2>2, <2>7, <3>2
  <2>8. QED
    BY <1>19, <2>5, <2>6, <2>7 DEF continue
<1>20. CASE abort
  BY <1>8, <1>20 DEF abort, Transcript, Origins
<1>21. ASSUME gone' = gone \cup ((Range(steeringQueue) \ Range(steeringQueue'))
                                   \cup (Range(followUpQueue) \ Range(followUpQueue'))),
              Within(steeringQueue', steeringQueue), Within(followUpQueue', followUpQueue),
              UNCHANGED <<messages, stream, pending, phase, submitted, steered, followed>>
       PROVE  Goal
  <2>1. Transcript' = Transcript
    BY <1>21 DEF Transcript
  <2> DEFINE r1 == steeringQueue'
             r2 == followUpQueue'
             a  == Transcript \o pending
             lost == gone'
  <2>2. /\ Range(steered) \ lost = (Range(steered) \ gone) \ (Range(steeringQueue) \ Range(r1))
        /\ Range(followed) \ lost = (Range(followed) \ gone) \ (Range(followUpQueue) \ Range(r2))
        /\ Range(submitted) \ lost = Range(submitted) \ gone
    BY <1>5, <1>21 DEF Origins
  <2>3. /\ r1 \in Seq(Message) /\ r2 \in Seq(Message) /\ a \in Seq(Message)
        /\ Within(r1, steeringQueue) /\ Within(r2, followUpQueue)
    BY <1>1, <1>2, <1>21, ConcatProperties
  <2>4. /\ Conserved(a \o steeringQueue, steered, gone) /\ Conserved(a \o followUpQueue, followed, gone)
        /\ Conserved(a, submitted, gone)
    BY <1>3 DEF Lines
  <2>5. UNCHANGED <<pending, steered, followed, submitted>> /\ Transcript' \o pending' = a
    BY <1>21, <2>1
  <2> HIDE DEF a, r1, r2, lost
  <2>6. Conserved(a \o r1, steered, lost)
    BY <1>2, <1>5, <2>2, <2>3, <2>4, Dropped
  <2>7. Conserved(a \o r2, followed, lost)
    BY <1>2, <1>5, <2>2, <2>3, <2>4, Dropped
  <2>8. Conserved(a, submitted, lost)
    BY <2>2, <2>4 DEF Conserved
  <2>9. Range(r1) \subseteq Range(steeringQueue) /\ Range(r2) \subseteq Range(followUpQueue)
    BY <2>3 DEF Range, Within
  <2>10. Lines(Transcript', pending', r1, r2, steered', followed', submitted', lost)
    BY <1>5, <2>5, <2>6, <2>7, <2>8, <2>9 DEF Lines
  <2>11. QueuesConserve'
    BY <2>10, LinesConserve DEF r1, r2, lost
  <2>12. Origins'
    BY <1>5, <1>21, <2>1 DEF Origins, Handed
  <2>13. QED
    BY <2>11, <2>12
<1>22. CASE drainUserMessages
  <2>1. ASSUME NEW q \in Seq(UserMessage), NEW r \in SystemOnly(q)
        PROVE  Range(q) \ Range(r) = {m \in Range(q) : ~System(m)} /\ Within(r, q)
    <3>0. PICK n \in 0..Len(q) : \E f \in [1..n -> 1..Len(q)] :
            /\ r = [k \in 1..n |-> q[f[k]]]
            /\ \A j, k \in 1..n : j < k => f[j] < f[k]
            /\ Range(f) = {i \in 1..Len(q) : System(q[i])}
      BY ONLY <2>1 DEF SystemOnly
    <3>1. PICK f \in [1..n -> 1..Len(q)] :
            /\ r = [k \in 1..n |-> q[f[k]]]
            /\ \A j, k \in 1..n : j < k => f[j] < f[k]
            /\ Range(f) = {i \in 1..Len(q) : System(q[i])}
      BY <3>0
    <3>2. Len(q) \in Nat /\ DOMAIN q = 1..Len(q) /\ DOMAIN r = 1..n /\ n \in Nat
      BY <2>1, <3>1, LenProperties
    <3>3. \A i \in DOMAIN r : r[i] = q[f[i]] /\ f[i] \in DOMAIN q
      BY <3>1, <3>2
    <3>4. ASSUME NEW i \in DOMAIN r, NEW j \in DOMAIN r PROVE i < j <=> f[i] < f[j]
      <4>1. /\ i \in 1..n /\ j \in 1..n /\ f[i] \in 1..Len(q) /\ f[j] \in 1..Len(q)
            /\ (i < j => f[i] < f[j]) /\ (j < i => f[j] < f[i])
        BY <3>1, <3>2, <3>4
      <4>2. i = j => f[i] = f[j]
        OBVIOUS
      <4> DEFINE x == f[i]
                 y == f[j]
      <4>3. /\ i \in 1..n /\ j \in 1..n /\ x \in 1..Len(q) /\ y \in 1..Len(q)
            /\ (i < j => x < y) /\ (j < i => y < x)
        BY <4>1
      <4>0. i = j => x = y
        BY <4>2
      <4> HIDE DEF x, y
      <4>4. i < j <=> x < y
        BY ONLY <3>2, <4>0, <4>3
      <4>5. QED
        BY <4>4 DEF x, y
    <3>5. \A i \in 1..Len(q) : System(q[i]) <=> \E k \in 1..n : f[k] = i
      BY <3>1, <3>2 DEF Range
    <3>6. ASSUME NEW m \in Range(q) PROVE m \in Range(r) <=> System(m)
      <4>1. PICK i \in 1..Len(q) : m = q[i]
        BY <3>2, <3>6 DEF Range
      <4>2. ASSUME System(m) PROVE m \in Range(r)
        <5>1. PICK k \in 1..n : f[k] = i
          BY <3>5, <4>1, <4>2
        <5>2. QED
          BY <3>2, <3>3, <4>1, <5>1 DEF Range
      <4>3. ASSUME m \in Range(r) PROVE System(m)
        <5>1. PICK k \in 1..n : m = r[k]
          BY <3>2, <4>3 DEF Range
        <5>2. m = q[f[k]] /\ f[k] \in 1..Len(q)
          BY <3>2, <3>3, <5>1
        <5>3. System(q[f[k]])
          BY <3>5, <5>2
        <5>4. QED
          BY <5>2, <5>3
      <4>4. QED
        BY <4>2, <4>3
    <3>7. f \in [DOMAIN r -> DOMAIN q]
      BY <3>1, <3>2
    <3>8. QED
      BY <3>3, <3>4, <3>6, <3>7 DEF Within
  <2>2. /\ gone' = gone \cup {m \in Range(steeringQueue) \cup Range(followUpQueue) : ~System(m)}
        /\ steeringQueue' \in SystemOnly(steeringQueue) /\ followUpQueue' \in SystemOnly(followUpQueue)
        /\ UNCHANGED <<messages, stream, pending, phase, submitted, steered, followed>>
    BY <1>22 DEF drainUserMessages
  <2>3. /\ Range(steeringQueue) \ Range(steeringQueue') = {m \in Range(steeringQueue) : ~System(m)}
        /\ Range(followUpQueue) \ Range(followUpQueue') = {m \in Range(followUpQueue) : ~System(m)}
    BY <1>1, <2>1, <2>2
  <2>4. Within(steeringQueue', steeringQueue) /\ Within(followUpQueue', followUpQueue)
    BY <1>1, <2>1, <2>2
  <2>5. gone' = gone \cup ((Range(steeringQueue) \ Range(steeringQueue')) \cup (Range(followUpQueue) \ Range(followUpQueue')))
    BY <2>2, <2>3
  <2>6. UNCHANGED <<messages, stream, pending, phase, submitted, steered, followed>>
    BY <2>2
  <2>7. QED
    BY <1>21, <2>4, <2>5, <2>6
<1>23. CASE clearAllQueues
  <2>1. /\ gone' = gone \cup Range(steeringQueue) \cup Range(followUpQueue)
        /\ steeringQueue' = <<>> /\ followUpQueue' = <<>>
        /\ UNCHANGED <<messages, stream, pending, phase, submitted, steered, followed>>
    BY <1>23 DEF clearAllQueues
  <2>2. \A q : Within(<<>>, q)
    <3> TAKE q
    <3>1. DOMAIN <<>> = {} /\ [x \in {} |-> x] \in [{} -> DOMAIN q]
      OBVIOUS
    <3>2. QED
      BY <3>1 DEF Within
  <2>3. gone' = gone \cup ((Range(steeringQueue) \ Range(steeringQueue')) \cup (Range(followUpQueue) \ Range(followUpQueue')))
    BY <2>1, NoneIsInjective
  <2>4. Within(steeringQueue', steeringQueue) /\ Within(followUpQueue', followUpQueue)
    BY <2>1, <2>2
  <2>5. QED
    BY <1>21, <2>1, <2>3, <2>4
<1>24. CASE removeLastError
  <2>1. /\ phase = "idle" /\ phase' = phase /\ messages # <<>> /\ Failed(Last(messages))
        /\ messages' = SubSeq(messages, 1, Len(messages) - 1) /\ stream' = stream /\ stream = <<>>
        /\ UNCHANGED <<pending, Queued, Sent>> /\ messages \in Seq(Message) /\ messages' \in Seq(Message)
    BY <1>24 DEF removeLastError, TypeOK
  <2>2. Transcript = messages /\ Transcript' = messages'
    BY <2>1, ConcatEmptySeq DEF Transcript
  <2> DEFINE n == Len(messages)
             c == SubSeq(messages, n, n)
  <2>3. n \in Nat \ {0} /\ DOMAIN messages = 1..n
    BY <2>1, EmptySeq, LenProperties
  <2>4. messages[n] \in Message /\ messages[n] \notin UserMessage
    BY <2>1, <2>3, ElementOfSeq DEF Failed, Last, UserMessage
  <2>5. \A i \in n..n : messages[i] \in Message
    BY <2>3, <2>4
  <2>6. c \in Seq(Message) /\ Len(c) = 1 /\ c[1] = messages[n]
    <3>1. /\ c \in Seq(Message) /\ Len(c) = n - n + 1
          /\ \A i \in 1..(n - n + 1) : c[i] = messages[n + i - 1]
      BY <2>3, <2>5, SubSeqProperties
    <3> HIDE DEF c
    <3>2. n - n + 1 = 1 /\ n + 1 - 1 = n /\ 1 \in 1..1
      BY <2>3
    <3>3. QED
      BY <3>1, <3>2
  <2>7. Transcript = Transcript' \o c
    <3>1. 1 \in 1..(n + 1) /\ n - 1 \in (1 - 1)..n /\ n \in (n - 1)..n /\ (n - 1) + 1 = n
      BY <2>3
    <3>2. SubSeq(messages, 1, n - 1) \o SubSeq(messages, (n - 1) + 1, n) = SubSeq(messages, 1, n)
      BY <2>1, <3>1, ConcatAdjacentSubSeq
    <3>3. SubSeq(messages, 1, n) = messages
      BY <2>1, SubSeqFull
    <3>4. QED
      BY <2>1, <2>2, <3>1, <3>2, <3>3
  <2> HIDE DEF c
  <2>8. Range(c) \cap UserMessage = {}
    <3>1. DOMAIN c = 1..1
      BY <2>6, LenProperties
    <3>2. QED
      BY <2>4, <2>6, <3>1 DEF Range
  <2>9. Early
    BY <2>1 DEF Origins
  <2>10. QED
    BY <1>7, <2>1, <2>6, <2>7, <2>8, <2>9
<1>25. CASE reset
  <2>1. /\ phase = "idle" /\ phase' = phase /\ messages' = <<>> /\ stream' = <<>>
        /\ steeringQueue' = <<>> /\ followUpQueue' = <<>> /\ pending = <<>> /\ pending' = <<>>
        /\ gone' = gone \cup Range(submitted) \cup Range(steered) \cup Range(followed)
        /\ UNCHANGED <<submitted, steered, followed>>
    BY <1>25 DEF reset, Origins
  <2>2. <<>> \o <<>> = <<>> /\ Range(<<>>) = {} /\ DOMAIN <<>> = {}
    BY ConcatEmptySeq, EmptySeq, NoneIsInjective
  <2>3. Transcript' = <<>>
    BY <2>1, <2>2 DEF Transcript
  <2>4. \A sent : Range(sent) \subseteq gone' => Conserved(<<>>, sent, gone')
    BY <2>2 DEF Conserved, Ordered
  <2>5. /\ Conserved(<<>>, steered, gone') /\ Conserved(<<>>, followed, gone') /\ Conserved(<<>>, submitted, gone')
    BY <2>1, <2>4
  <2>6. Lines(<<>>, <<>>, <<>>, <<>>, steered, followed, submitted, gone')
    BY <2>2, <2>5 DEF Lines
  <2>7. QueuesConserve'
    BY <2>1, <2>3, <2>6, LinesConserve
  <2>8. Origins'
    BY <2>1, <2>2, <2>3 DEF Origins, Handed
  <2>9. QED
    BY <2>7, <2>8
<1>26. ASSUME Agent PROVE Goal
  BY <1>16, <1>17, <1>18, <1>19, <1>20, <1>22, <1>23, <1>24, <1>25, <1>26 DEF Agent
<1>27. ASSUME Reader PROVE Goal
  <2>1. CASE readMessage
    <3>1. Transcript' = Transcript
      BY <2>1, ReadMoves DEF readMessage, Transcript, TypeOK
    <3>2. QED
      BY <1>8, <2>1, <3>1 DEF readMessage, Origins
  <2>2. CASE readAgentEnd
    BY <1>8, <2>2 DEF readAgentEnd, Origins, Transcript
  <2>3. QED
    BY <1>27, <2>1, <2>2 DEF Reader
<1>28. CASE inject
  <2>1. /\ phase = "head" /\ phase' = "head" /\ pending # <<>> /\ pending' = Tail(pending)
        /\ stream' = Append(stream, Head(pending)) /\ UNCHANGED <<messages, Queued, Sent>>
    BY <1>28 DEF inject
  <2> DEFINE m == Head(pending)
  <2>2. m \in UserMessage /\ m \in Message /\ Tail(pending) \in Seq(Message)
    BY <1>1, <1>2, <2>1, HeadTailProperties, MessageTypes
  <2>3. Transcript' = Append(Transcript, m)
    BY <2>1, <2>2, TranscriptGrows
  <2>4. Append(<<>>, m) \o Tail(pending) = <<>> \o pending
    BY <1>2, <2>1, ReadMoves
  <2>5. Append(<<>>, m) = <<m>> /\ <<>> \o pending = pending /\ <<m>> \in Seq(Message)
    BY <1>2, <2>2, ConcatEmptySeq
  <2>6. pending = <<m>> \o pending'
    BY <2>1, <2>4, <2>5
  <2>7. Transcript' = Transcript \o <<m>>
    BY <1>1, <2>2, <2>3, AppendIsConcat
  <2> HIDE DEF m
  <2>8. Lines(Transcript, <<m>> \o pending', steeringQueue, followUpQueue, steered, followed, submitted, gone)
    BY <1>3, <2>6
  <2>9. Lines(Transcript \o <<m>>, pending', steeringQueue, followUpQueue, steered, followed, submitted, gone)
    BY <1>1, <1>2, <2>5, <2>8, LinesMoved
  <2>10. QueuesConserve'
    BY <2>1, <2>7, <2>9, LinesConserve
  <2>11. Range(pending) = {m} \cup Range(pending') /\ Range(Transcript') = Range(Transcript) \cup {m}
    <3>1. Range(<<m>> \o pending') = Range(<<m>>) \cup Range(pending')
      BY ONLY <1>2, <2>5, Ranges
    <3>2. Range(Transcript \o <<m>>) = Range(Transcript) \cup Range(<<m>>)
      BY ONLY <1>1, <2>5, Ranges
    <3>3. QED
      BY <2>6, <2>7, <3>1, <3>2, SingleIsInjective
  <2>12. Origins'
    BY <2>1, <2>11 DEF Origins, Handed
  <2>13. QED
    BY <2>10, <2>12
<1>29. CASE askModel
  BY <1>8, <1>29 DEF askModel, Transcript
<1>30. ASSUME NEW l \in CallLists, NEW stop \in StopReason, streamAssistantResponse(l, stop) PROVE Goal
  <2>1. Said(l, stop) \in Message /\ Said(l, stop) \notin UserMessage
    BY MessageTypes DEF Said, UserMessage
  <2>2. phase = "model" /\ stream' = Append(stream, Said(l, stop)) /\ UNCHANGED <<messages, pending, Queued, Sent>>
    BY <1>30 DEF streamAssistantResponse
  <2>3. Early
    BY <2>2 DEF Origins
  <2>4. QED
    BY <1>9, <2>1, <2>2, <2>3
<1>31. ASSUME NEW c \in Calls, emitToolCallOutcome(c), UNCHANGED <<messages, pending, Queued, Sent>>, Early
       PROVE  Goal
  <2>1. Result(c) \in Message /\ Result(c) \notin UserMessage
    BY <1>31, MessageTypes DEF Result, UserMessage
  <2>2. QED
    BY <1>9, <1>31, <2>1 DEF emitToolCallOutcome
<1>32. CASE prepareToolCall
  <2>1. phase = "prepare" /\ todo # <<>> /\ UNCHANGED <<messages, pending, Queued, Sent>>
    BY <1>32 DEF prepareToolCall
  <2>2. Early /\ Head(todo) \in Calls
    BY <2>1, HeadTailProperties DEF Origins, TypeOK
  <2>3. stream' = stream \/ emitToolCallOutcome(Head(todo))
    BY <1>32 DEF prepareToolCall
  <2>4. stream' = stream => Transcript' = Transcript
    BY <2>1 DEF Transcript
  <2>5. QED
    BY <1>8, <1>31, <2>1, <2>2, <2>3, <2>4
<1>33. CASE skipToolCall \/ finalizeExecutedToolCall
  <2>1. /\ phase \in {"skip", "run"} /\ runnable # <<>> /\ emitToolCallOutcome(Head(runnable))
        /\ UNCHANGED <<messages, pending, Queued, Sent>>
        /\ phase = "skip" => phase' = "skip"
    BY <1>33 DEF skipToolCall, finalizeExecutedToolCall
  <2>2. Early /\ Head(runnable) \in Calls
    BY <2>1, HeadTailProperties DEF Origins, TypeOK
  <2>3. QED
    BY <1>31, <2>1, <2>2
<1>34. ASSUME NEW c \in Calls, executePreparedToolCall(c) PROVE Goal
  BY <1>8, <1>34 DEF executePreparedToolCall, Transcript, Origins
<1>35. CASE afterToolCallThrows
  <2>1. Said(<<>>, "error") \in Message /\ Said(<<>>, "error") \notin UserMessage
    BY MessageTypes, ConstantsAssumption DEF StopReason, Said, UserMessage
  <2>2. /\ stream' = Append(stream, Said(<<>>, "error")) /\ UNCHANGED <<messages, pending, Queued, Sent>>
        /\ phase = "run"
    BY <1>35 DEF afterToolCallThrows
  <2>3. Early
    BY <2>2 DEF Origins
  <2>4. QED
    BY <1>9, <2>1, <2>2, <2>3
<1>36. CASE pollAfterCall \/ pollAfterTools \/ pollAfterTurn
  <2>1. /\ phase \in {"poll", "run", "turnEnd"}
        /\ pending' = Taken(steeringQueue, SteeringMode) /\ steeringQueue' = Left(steeringQueue, SteeringMode)
        /\ UNCHANGED <<messages, stream, followUpQueue, Sent>> /\ Early
    BY <1>36 DEF pollAfterCall, pollAfterTools, pollAfterTurn
  <2>2. pending = <<>> /\ Transcript' = Transcript
    BY <2>1 DEF Origins, Transcript
  <2>3. QED
    BY <1>12, <2>1, <2>2
<1>37. CASE finishTools
  BY <1>8, <1>37 DEF finishTools, Transcript
<1>38. CASE pollFollowUp
  <2>1. /\ phase = "followUp"
        /\ pending' = Taken(followUpQueue, FollowUpMode) /\ followUpQueue' = Left(followUpQueue, FollowUpMode)
        /\ UNCHANGED <<messages, stream, steeringQueue, Sent>> /\ Early
    BY <1>38 DEF pollFollowUp
  <2>2. pending = <<>> /\ Transcript' = Transcript
    BY <2>1 DEF Origins, Transcript
  <2>3. QED
    BY <1>13, <2>1, <2>2
<1>39. CASE UNCHANGED vars
  BY <1>8, <1>39 DEF vars, Transcript, Origins
<1>40. QED
  BY <1>26, <1>27, <1>28, <1>29, <1>30, <1>32, <1>33, <1>34, <1>35, <1>36, <1>37, <1>38, <1>39
     DEF Next, Loop

\* A message handed to the Agent stands once in what is said, about to be said or queued, in the
\* order in which it was handed over, until it is drained, cleared or reset: for all interleavings
\* of callers, polls and the reader, in both modes of both queues.
THEOREM QueuedMessagesKept == Spec => []QueuesConserve
<1>1. Init => Origins /\ QueuesConserve
  <2> SUFFICES ASSUME Init PROVE Origins /\ QueuesConserve
    OBVIOUS
  <2>1. /\ messages = <<>> /\ stream = <<>> /\ pending = <<>> /\ steeringQueue = <<>> /\ followUpQueue = <<>>
        /\ submitted = <<>> /\ steered = <<>> /\ followed = <<>> /\ gone = {}
    BY DEF Init
  <2>2. <<>> \o <<>> = <<>> /\ Range(<<>>) = {} /\ DOMAIN <<>> = {}
    BY ConcatEmptySeq, EmptySeq, NoneIsInjective
  <2>3. Transcript = <<>>
    BY <2>1, <2>2 DEF Transcript
  <2>4. Conserved(<<>>, <<>>, {})
    BY <2>2 DEF Conserved, Ordered
  <2>5. Lines(<<>>, <<>>, <<>>, <<>>, <<>>, <<>>, <<>>, {})
    BY <2>2, <2>4 DEF Lines
  <2>6. QueuesConserve
    BY <2>1, <2>3, <2>5, LinesConserve
  <2>7. Origins
    BY <2>1, <2>2, <2>3 DEF Origins, Handed
  <2>8. QED
    BY <2>6, <2>7
<1>2. Invariant /\ Invariant' /\ (Origins /\ QueuesConserve) /\ [Next]_vars => (Origins /\ QueuesConserve)'
  BY QueuesStep DEF Invariant
<1>3. QED
  BY <1>1, <1>2, InvariantHolds, PTL DEF Spec
=============================================================================
