----------------------------- MODULE MCAgentLoop -----------------------------
(* Instances of AgentLoop for TLC: the settings of the cfg, or else sequential *)
(* execution, queues emptied at one go and an afterToolCall hook that throws.  *)
EXTENDS AgentLoop

CONSTANTS c1, c2, i1, i2, i3

MCCalls == {c1, c2}

\* Two calls asked for together: the order in which they fail, run or are skipped.
MCPairLists == {<<>>, <<c1, c2>>}

VARIABLE other  \* the run is under the other settings

Other == INSTANCE AgentLoop WITH
  Inputs <- {i1, i2}, SystemInputs <- {}, ToolExecution <- "sequential",
  SteeringMode <- "all", FollowUpMode <- "all"

EitherInit == Init /\ other \in BOOLEAN
EitherNext == (IF other THEN Other!Next ELSE Next) /\ UNCHANGED other

EitherSpec ==
  /\ EitherInit /\ [][EitherNext]_<<vars, other>>
  /\ WF_vars((Reader \/ IF other THEN Other!Loop ELSE Loop) /\ UNCHANGED other)
=============================================================================
