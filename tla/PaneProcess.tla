----------------------------- MODULE PaneProcess -----------------------------
(***************************************************************************)
(* The agent process of a studio pane: the "agent" slot of                 *)
(* apps/studio/src/main/process-manager.ts, and the operations of          *)
(* pane-manager.ts that restart it or take it down with the pane.          *)
(*                                                                         *)
(* Promise continuations and the 'error' event of a failed spawn come      *)
(* before the next event: an action that starts from an event is enabled   *)
(* only in a Quiet state.                                                  *)
(***************************************************************************)
EXTENDS Integers, FiniteSets

CONSTANTS
  Procs,      \* bound: the processes that can be spawned
  NoProc,
  Restarts,   \* calls of restartPaneAgent
  Destroys,   \* calls of destroyPane
  MaxBackoff, \* BACKOFF_MAX_MS, in units of BACKOFF_INITIAL_MS
  MayCrash,   \* a process may exit unasked
  MayFail,    \* a spawn may fail
  MayHang     \* a process may outlive SIGTERM by KILL_GRACE_MS

ASSUME PaneAssumption ==
  /\ NoProc \notin Procs /\ IsFiniteSet(Procs)
  /\ Restarts \cap Destroys = {} /\ IsFiniteSet(Restarts)
  /\ MaxBackoff \in Nat \ {0}
  /\ {MayCrash, MayFail, MayHang} \subseteq BOOLEAN

Ops == Restarts \cup Destroys

VARIABLES
  managed,   \* the ManagedProcess record of the slot
  spawned,   \* processes spawned so far
  running, failing, \* those that run, and those whose 'error' event is due
  signalled, forced, \* those sent SIGTERM, SIGKILL
  attached,  \* the process the bridge is attached to
  attachTimers, \* number of attachBridge calls due 200 ms after a restart
  polling,   \* waitForAgentReady polls the agent
  pc,        \* how far each operation is
  killing,   \* the process whose exit its killProcess waits for
  destroyed  \* the pane was deleted

processes == <<spawned, running, failing>>
signals   == <<signalled, forced>>
bridge    == <<attached, attachTimers, polling>>
calls     == <<pc, killing, destroyed>>
vars      == <<managed, processes, signals, bridge, calls>>

-----------------------------------------------------------------------------
(* The ManagedProcess record *)

\* spawnAgent makes p the process of the slot.
startedAs(m, p) == [m EXCEPT !.intentionalKill = FALSE, !.proc = p, !.state = "starting"]

scheduleRestart(m) == [m EXCEPT !.restartTimer = TRUE]

\* Mutant: a crash is noted, and nothing else.
onExitOnly(m) == [m EXCEPT !.proc = NoProc, !.state = IF m.intentionalKill THEN "stopped" ELSE "crashed"]

\* The 'exit' handler, of whichever process it is.
onExit(m) ==
  IF m.intentionalKill
  THEN [m EXCEPT !.proc = NoProc, !.state = "stopped"]
  ELSE scheduleRestart([m EXCEPT !.proc = NoProc, !.state = "crashed"])

\* The 'error' handler.
onError(m) ==
  LET crashed == [m EXCEPT !.proc = NoProc, !.state = "crashed"]
  IN IF m.intentionalKill THEN crashed ELSE scheduleRestart(crashed)

\* Mutant: no cap.
nextBackoffUncapped(ms) == 2 * ms

\* The delay doubles up to its cap.
nextBackoff(ms) == IF 2 * ms < MaxBackoff THEN 2 * ms ELSE MaxBackoff

-----------------------------------------------------------------------------
\* createPane has spawned the agent and attached the bridge.
Init ==
  \E p \in Procs :
    /\ managed = [proc |-> p, state |-> "starting", backoffMs |-> 1,
                  restartTimer |-> FALSE, intentionalKill |-> FALSE]
    /\ spawned = {p} /\ running = {p} /\ failing = {}
    /\ signalled = {} /\ forced = {}
    /\ attached = p /\ attachTimers = 0 /\ polling = TRUE
    /\ pc = [o \in Ops |-> "new"] /\ killing = [o \in Ops |-> NoProc]
    /\ destroyed = FALSE

\* Nothing is left to do before the next event.
Quiet == failing = {} /\ \A o \in Ops : pc[o] # "killed"

\* Bound on processes: each restart under way or to come has one left, each process that
\* is or may be killed for hanging too, and a crash takes one more.
Left == Cardinality(Procs \ spawned)
Due == Cardinality({o \in Restarts : pc[o] # "done"})
Hanging == IF MayHang THEN Cardinality({o \in Ops : pc[o] # "done"}) + Cardinality(forced \cap running) ELSE 0
Spare == Left > Due + Hanging + (IF managed.restartTimer THEN 1 ELSE 0)

\* A process is spawned, or its spawn fails.
spawn(p) ==
  /\ p \in Procs \ spawned
  /\ spawned' = spawned \cup {p}
  /\ \/ running' = running \cup {p} /\ UNCHANGED failing
     \/ MayFail /\ Spare /\ failing' = failing \cup {p} /\ UNCHANGED running

spawnError(p) ==
  /\ p \in failing
  /\ failing' = failing \ {p}
  /\ managed' = onError(managed)
  /\ UNCHANGED <<spawned, running, signals, bridge, calls>>

\* A process exits: the manager's handler, then the bridge's, then the killProcess calls
\* that wait for it.
processExit(p) ==
  /\ Quiet /\ p \in running
  /\ p \in signalled \/ (MayCrash /\ Spare)
  /\ running' = running \ {p}
  /\ managed' = onExit(managed)
  /\ attached' = IF attached = p THEN NoProc ELSE attached
  /\ pc' = [o \in Ops |-> IF pc[o] = "killing" /\ killing[o] = p THEN "killed" ELSE pc[o]]
  /\ UNCHANGED <<spawned, failing, signals, attachTimers, polling, killing, destroyed>>

\* Mutant: the timer stays set.
restartTimerStays ==
  /\ Quiet /\ managed.restartTimer /\ Left > Due
  /\ \E p \in Procs :
       /\ spawn(p)
       /\ managed' = startedAs([managed EXCEPT !.backoffMs = nextBackoff(@)], p)
  /\ attachTimers' = attachTimers + 1
  /\ UNCHANGED <<signals, attached, polling, calls>>

\* The timer of scheduleRestart.
restartTimerFires ==
  /\ Quiet /\ managed.restartTimer /\ Left > Due
  /\ IF managed.intentionalKill
     THEN /\ managed' = [managed EXCEPT !.restartTimer = FALSE]
          /\ UNCHANGED <<processes, attachTimers>>
     ELSE \E p \in Procs :
            /\ spawn(p)
            /\ managed' = startedAs([managed EXCEPT !.restartTimer = FALSE, !.backoffMs = nextBackoff(@)], p)
            /\ attachTimers' = attachTimers + 1
  /\ UNCHANGED <<signals, attached, polling, calls>>

\* attachBridge, 200 ms after 'agent-restarting'.
attachBridge ==
  /\ Quiet /\ attachTimers > 0
  /\ attachTimers' = attachTimers - 1
  /\ IF managed.proc = NoProc
     THEN UNCHANGED <<attached, polling>>
     ELSE attached' = managed.proc /\ polling' = TRUE
  /\ UNCHANGED <<managed, processes, signals, calls>>

\* The attached agent answers getState; another poll may be going on.
agentReady ==
  /\ Quiet /\ polling /\ attached \in running
  /\ managed' = [managed EXCEPT !.state = "ready", !.backoffMs = 1]
  /\ polling' \in BOOLEAN
  /\ UNCHANGED <<processes, signals, attached, attachTimers, calls>>

\* 15 s without an answer.
pollEnds ==
  /\ Quiet /\ polling
  /\ polling' = FALSE
  /\ UNCHANGED <<managed, processes, signals, attached, attachTimers, calls>>

-----------------------------------------------------------------------------
(* restartPaneAgent and destroyPane *)

\* The call, up to abortCurrentTurn.
begin(o) ==
  /\ Quiet /\ pc[o] = "new" /\ ~destroyed
  /\ pc' = [pc EXCEPT ![o] = "aborting"]
  /\ UNCHANGED <<managed, processes, signals, bridge, killing, destroyed>>

\* Mutant: the exit that follows is not marked as wanted.
killUnmarked(o) ==
  IF managed.proc = NoProc
  THEN pc' = [pc EXCEPT ![o] = "killed"] /\ UNCHANGED <<managed, signals, killing>>
  ELSE /\ managed' = [managed EXCEPT !.restartTimer = FALSE]
       /\ signalled' = signalled \cup {managed.proc}
       /\ killing' = [killing EXCEPT ![o] = managed.proc]
       /\ pc' = [pc EXCEPT ![o] = "killing"]
       /\ UNCHANGED forced

\* Mutant: the exit is not awaited.
killUnawaited(o) ==
  /\ pc' = [pc EXCEPT ![o] = "killed"]
  /\ IF managed.proc = NoProc
     THEN UNCHANGED <<managed, signals, killing>>
     ELSE /\ managed' = [managed EXCEPT !.intentionalKill = TRUE, !.restartTimer = FALSE]
          /\ signalled' = signalled \cup {managed.proc}
          /\ killing' = [killing EXCEPT ![o] = managed.proc]
          /\ UNCHANGED forced

\* Mutant: the restart timer is not cleared.
killKeepsTimer(o) ==
  IF managed.proc = NoProc
  THEN pc' = [pc EXCEPT ![o] = "killed"] /\ UNCHANGED <<managed, signals, killing>>
  ELSE /\ managed' = [managed EXCEPT !.intentionalKill = TRUE]
       /\ signalled' = signalled \cup {managed.proc}
       /\ killing' = [killing EXCEPT ![o] = managed.proc]
       /\ pc' = [pc EXCEPT ![o] = "killing"]
       /\ UNCHANGED forced

\* killProcess returns at once when the slot has no process, timer or not.
killProcess(o) ==
  IF managed.proc = NoProc
  THEN pc' = [pc EXCEPT ![o] = "killed"] /\ UNCHANGED <<managed, signals, killing>>
  ELSE /\ managed' = [managed EXCEPT !.intentionalKill = TRUE, !.restartTimer = FALSE]
       /\ signalled' = signalled \cup {managed.proc}
       /\ killing' = [killing EXCEPT ![o] = managed.proc]
       /\ pc' = [pc EXCEPT ![o] = "killing"]
       /\ UNCHANGED forced

\* The turn is aborted: a restart detaches the bridge, and both kill the process.
turnAborted(o) ==
  /\ Quiet /\ pc[o] = "aborting"
  /\ attached' = IF o \in Restarts THEN NoProc ELSE attached
  /\ killProcess(o)
  /\ UNCHANGED <<processes, attachTimers, polling, destroyed>>

\* Mutant: the test of exitCode is inverted and guards both.
forceKillInverted(o) ==
  /\ Quiet /\ MayHang /\ pc[o] = "killing" /\ killing[o] \notin running
  /\ forced' = forced \cup {killing[o]}
  /\ pc' = [pc EXCEPT ![o] = "killed"]
  /\ UNCHANGED <<managed, processes, signalled, bridge, killing, destroyed>>

\* No exit within KILL_GRACE_MS: SIGKILL, and killProcess resolves without it.
forceKill(o) ==
  /\ Quiet /\ MayHang /\ pc[o] = "killing"
  /\ forced' = forced \cup {killing[o]}
  /\ pc' = [pc EXCEPT ![o] = "killed"]
  /\ UNCHANGED <<managed, processes, signalled, bridge, killing, destroyed>>

\* restartPaneAgent goes on: spawn and attach.
respawn(o) ==
  /\ o \in Restarts /\ pc[o] = "killed"
  /\ \E p \in Procs :
       /\ spawn(p)
       /\ managed' = startedAs(managed, p)
       /\ attached' = p
  /\ polling' = TRUE
  /\ pc' = [pc EXCEPT ![o] = "done"]
  /\ UNCHANGED <<signals, attachTimers, killing, destroyed>>

\* destroyPane goes on: the pane is deleted.
delete(o) ==
  /\ o \in Destroys /\ pc[o] = "killed"
  /\ destroyed' = TRUE
  /\ pc' = [pc EXCEPT ![o] = "done"]
  /\ UNCHANGED <<managed, processes, signals, bridge, killing>>

-----------------------------------------------------------------------------
Events == (\E p \in Procs : processExit(p)) \/ restartTimerFires \/ attachBridge \/ agentReady \/ pollEnds
Continue == (\E p \in Procs : spawnError(p)) \/ (\E o \in Ops : respawn(o) \/ delete(o))

Next == \/ Events \/ Continue
        \/ \E o \in Ops : begin(o) \/ turnAborted(o) \/ forceKill(o)

Spec == Init /\ [][Next]_vars

\* Continuations run, timers fire, an aborted turn settles (its requests time out) and
\* SIGKILL ends a process.  No process has to heed SIGTERM, no agent to answer.
Fairness ==
  /\ WF_vars(Continue) /\ WF_vars(restartTimerFires) /\ WF_vars(attachBridge)
  /\ \A o \in Ops : WF_vars(turnAborted(o)) /\ WF_vars(forceKill(o))
  /\ \A p \in Procs : WF_vars(p \in forced /\ processExit(p))

FairSpec == Spec /\ Fairness

-----------------------------------------------------------------------------
(* Properties *)

\* The state is well-formed.
TypeOK ==
  /\ managed \in [proc : Procs \cup {NoProc}, state : {"stopped", "starting", "ready", "crashed"},
                  backoffMs : 1..MaxBackoff, restartTimer : BOOLEAN, intentionalKill : BOOLEAN]
  /\ spawned \in SUBSET Procs /\ running \in SUBSET spawned /\ failing \in SUBSET spawned
  /\ signalled \in SUBSET spawned /\ forced \in SUBSET signalled
  /\ attached \in Procs \cup {NoProc} /\ attachTimers \in Nat /\ polling \in BOOLEAN
  /\ pc \in [Ops -> {"new", "aborting", "killing", "killed", "done"}]
  /\ killing \in [Ops -> Procs \cup {NoProc}] /\ destroyed \in BOOLEAN

\* "Each pane has its own agent process" (apps/studio/ARCHITECTURE.md:748): of the
\* processes that run, all but one have been told to exit.
OneAgent == \A p, q \in running \ signalled : p = q

\* A running process that nobody has told to exit is the one the slot holds, so that
\* killProcess can reach it.
RunningIsManaged == running \ signalled \subseteq {managed.proc}

\* The bridge talks to the process of the slot, and only that is said to be ready.
BridgeFollows ==
  /\ attached \in running => attached = managed.proc
  /\ managed.state = "ready" => managed.proc \in running

\* "Destroy a pane and shut down its agent process" (pane-manager.ts:279): once the pane
\* is deleted nothing of it runs or will.
DestroyedIsDown == destroyed => running \subseteq signalled /\ ~managed.restartTimer

\* A crashed agent is either about to be restarted or was meant to be killed, and a
\* killed one is not restarted.
CrashIsHandled ==
  /\ managed.state = "crashed" => managed.restartTimer \/ managed.intentionalKill
  /\ managed.intentionalKill => ~managed.restartTimer

\* After a crash the agent is started again.
Recovers == managed.state = "crashed" ~> managed.state # "crashed"

\* restartPaneAgent and destroyPane return, whatever the process does.
OperationsReturn == \A o \in Ops : pc[o] = "aborting" ~> pc[o] = "done"
=============================================================================
