----------------------------- MODULE PaneHistory -----------------------------
(* PaneProcess with a record of whether anything has overlapped, so that one *)
(* run asks what holds until then and what holds whatever happens.         *)
EXTENDS PaneProcess

VARIABLE apart  \* history: nothing has overlapped so far

Busy == \E o \in Ops : pc[o] \notin {"new", "done"}

\* An operation begins during another or when a restart is due, a process crashes during
\* one, or outlives SIGTERM.
Overlap ==
  \/ \E o \in Ops : begin(o) /\ (Busy \/ managed.restartTimer)
  \/ \E p \in Procs \ signalled : processExit(p) /\ Busy
  \/ \E o \in Ops : forceKill(o)

HistoryInit == Init /\ apart = TRUE

HistoryNext == Next /\ apart' = (apart /\ ~Overlap)

HistorySpec == HistoryInit /\ [][HistoryNext]_<<vars, apart>> /\ Fairness

-----------------------------------------------------------------------------
(* Properties that overlaps break (see the README)                          *)

\* As long as nothing overlaps, a running process that nobody has told to exit is the
\* one the slot holds, so that killProcess can reach it.
ApartRunningIsManaged == apart => RunningIsManaged

\* As long as nothing overlaps, the bridge talks to the process of the slot, and only
\* that is said to be ready.
ApartBridgeFollows == apart => BridgeFollows

\* "Destroy a pane and shut down its agent process" (pane-manager.ts:279): once the pane
\* is deleted nothing of it runs or will, if nothing overlapped.
ApartDestroyedIsDown == apart => DestroyedIsDown
=============================================================================
