-------------------------- MODULE PaneProcess_proofs --------------------------
(***************************************************************************)
(* Proofs about PaneProcess, for any number of processes and operations.   *)
(***************************************************************************)
EXTENDS PaneHistory, TLAPS

States == {"stopped", "starting", "ready", "crashed"}
Record == [proc : Procs \cup {NoProc}, state : States, backoffMs : 1..MaxBackoff,
           restartTimer : BOOLEAN, intentionalKill : BOOLEAN]

-----------------------------------------------------------------------------
(* What the handlers make of the record. *)

LEMMA ExitOfRecord ==
  ASSUME NEW m \in Record
  PROVE  /\ onExit(m) \in Record /\ onExit(m).proc = NoProc
         /\ onExit(m).intentionalKill = m.intentionalKill
         /\ onExit(m).state \in {"stopped", "crashed"}
         /\ m.intentionalKill => onExit(m).restartTimer = m.restartTimer /\ onExit(m).state = "stopped"
         /\ ~m.intentionalKill => onExit(m).restartTimer = TRUE
BY DEF onExit, scheduleRestart, Record, States

LEMMA ErrorOfRecord ==
  ASSUME NEW m \in Record
  PROVE  /\ onError(m) \in Record /\ onError(m).proc = NoProc
         /\ onError(m).intentionalKill = m.intentionalKill
         /\ onError(m).state = "crashed"
         /\ m.intentionalKill => onError(m).restartTimer = m.restartTimer
         /\ ~m.intentionalKill => onError(m).restartTimer = TRUE
BY DEF onError, scheduleRestart, Record, States

LEMMA StartOfRecord ==
  ASSUME NEW m \in Record, NEW p \in Procs
  PROVE  /\ startedAs(m, p) \in Record /\ startedAs(m, p).proc = p
         /\ startedAs(m, p).intentionalKill = FALSE
         /\ startedAs(m, p).state = "starting"
         /\ startedAs(m, p).restartTimer = m.restartTimer
BY DEF startedAs, Record, States

LEMMA OneIsABackoff == 1 \in 1..MaxBackoff
BY PaneAssumption

LEMMA BackoffIsCapped == \A ms \in 1..MaxBackoff : nextBackoff(ms) \in 1..MaxBackoff
BY PaneAssumption DEF nextBackoff

\* What the timer makes of the record before it spawns.
LEMMA TimerOfRecord ==
  ASSUME NEW m \in Record
  PROVE  LET n == [m EXCEPT !.restartTimer = FALSE, !.backoffMs = nextBackoff(@)]
         IN n \in Record /\ n.restartTimer = FALSE
<1>1. nextBackoff(m.backoffMs) \in 1..MaxBackoff
  BY BackoffIsCapped DEF Record
<1> QED
  BY <1>1 DEF Record

-----------------------------------------------------------------------------
(* Types *)

\* The slot holds a process that was spawned, and who waits for an exit has asked for it.
TypeInvariant ==
  /\ TypeOK
  /\ managed.proc \in spawned \cup {NoProc}
  /\ \A o \in Ops : pc[o] = "killing" => killing[o] \in signalled

LEMMA RecordIsTyped == TypeOK => managed \in Record
BY DEF TypeOK, Record, States

LEMMA SpawnTypes ==
  ASSUME TypeInvariant, NEW p, spawn(p)
  PROVE  /\ p \in Procs /\ p \notin spawned /\ p \in spawned' /\ spawned \subseteq spawned'
         /\ spawned' \in SUBSET Procs /\ running' \in SUBSET spawned' /\ failing' \in SUBSET spawned'
         /\ running \cup failing \cup {p} = running' \cup failing'
BY DEF TypeInvariant, TypeOK, spawn

LEMMA TypeInit == Init => TypeInvariant
<1> SUFFICES ASSUME Init PROVE TypeInvariant
  OBVIOUS
<1>1. PICK p \in Procs :
        /\ managed = [proc |-> p, state |-> "starting", backoffMs |-> 1,
                      restartTimer |-> FALSE, intentionalKill |-> FALSE]
        /\ spawned = {p} /\ running = {p} /\ failing = {}
        /\ signalled = {} /\ forced = {}
        /\ attached = p /\ attachTimers = 0 /\ polling = TRUE
        /\ pc = [o \in Ops |-> "new"] /\ killing = [o \in Ops |-> NoProc]
        /\ destroyed = FALSE
  BY DEF Init
<1>2. managed \in Record /\ managed.proc = p
  BY <1>1, OneIsABackoff DEF Record, States
<1> QED
  BY <1>1, <1>2 DEF TypeInvariant, TypeOK, Record, States

LEMMA TypeStep == TypeInvariant /\ [Next]_vars => TypeInvariant'
<1> SUFFICES ASSUME TypeInvariant, [Next]_vars PROVE TypeInvariant'
  OBVIOUS
<1>0. managed \in Record
  BY RecordIsTyped DEF TypeInvariant
<1>1. ASSUME NEW p \in Procs, processExit(p) PROVE TypeInvariant'
  <2>1. managed' \in Record /\ managed'.proc = NoProc
    BY <1>0, <1>1, ExitOfRecord DEF processExit
  <2>2. pc' \in [Ops -> {"new", "aborting", "killing", "killed", "done"}]
        /\ \A o \in Ops : pc'[o] = "killing" => pc[o] = "killing"
    BY <1>1 DEF processExit, TypeInvariant, TypeOK
  <2> QED
    BY <1>1, <2>1, <2>2 DEF processExit, TypeInvariant, TypeOK, signals, Record, States
<1>2. CASE restartTimerFires
  <2>1. CASE managed.intentionalKill
    <3>1. managed' \in Record /\ managed'.proc = managed.proc
      BY <1>0, <1>2, <2>1 DEF restartTimerFires, Record
    <3> QED
      BY <1>2, <2>1, <3>1 DEF restartTimerFires, TypeInvariant, TypeOK, processes, signals, calls, Record, States
  <2>2. CASE ~managed.intentionalKill
    <3>1. PICK p \in Procs :
            /\ spawn(p)
            /\ managed' = startedAs([managed EXCEPT !.restartTimer = FALSE, !.backoffMs = nextBackoff(@)], p)
            /\ attachTimers' = attachTimers + 1
      BY <1>2, <2>2 DEF restartTimerFires
    <3>2. managed' \in Record /\ managed'.proc = p
      BY <1>0, <3>1, TimerOfRecord, StartOfRecord
    <3>3. attachTimers' \in Nat
      BY <3>1 DEF TypeInvariant, TypeOK
    <3>4. /\ p \in spawned' /\ spawned \subseteq spawned' /\ spawned' \in SUBSET Procs
          /\ running' \in SUBSET spawned' /\ failing' \in SUBSET spawned'
      BY <3>1, SpawnTypes
    <3>5. UNCHANGED <<signals, attached, polling, calls>>
      BY <1>2 DEF restartTimerFires
    <3> QED
      BY <3>2, <3>3, <3>4, <3>5 DEF TypeInvariant, TypeOK, signals, calls, Record, States
  <2> QED
    BY <2>1, <2>2
<1>3. CASE attachBridge
  <2>1. attachTimers' \in Nat
    BY <1>3 DEF attachBridge, TypeInvariant, TypeOK
  <2> QED
    BY <1>3, <2>1 DEF attachBridge, TypeInvariant, TypeOK, processes, signals, calls
<1>4. CASE agentReady
  <2>1. managed' \in Record /\ managed'.proc = managed.proc
    BY <1>0, <1>4, OneIsABackoff DEF agentReady, Record, States
  <2> QED
    BY <1>4, <2>1 DEF agentReady, TypeInvariant, TypeOK, processes, signals, calls, Record, States
<1>5. CASE pollEnds
  BY <1>5 DEF pollEnds, TypeInvariant, TypeOK, processes, signals, calls
<1>6. ASSUME NEW p \in Procs, spawnError(p) PROVE TypeInvariant'
  <2>1. managed' \in Record /\ managed'.proc = NoProc
    BY <1>0, <1>6, ErrorOfRecord DEF spawnError
  <2> QED
    BY <1>6, <2>1 DEF spawnError, TypeInvariant, TypeOK, signals, bridge, calls, Record, States
<1>7. ASSUME NEW o \in Ops, respawn(o) PROVE TypeInvariant'
  <2>1. PICK p \in Procs : spawn(p) /\ managed' = startedAs(managed, p) /\ attached' = p
    BY <1>7 DEF respawn
  <2>2. managed' \in Record /\ managed'.proc = p
    BY <1>0, <2>1, StartOfRecord
  <2>3. /\ p \in spawned' /\ spawned \subseteq spawned' /\ spawned' \in SUBSET Procs
        /\ running' \in SUBSET spawned' /\ failing' \in SUBSET spawned'
    BY <2>1, SpawnTypes
  <2> QED
    BY <1>7, <2>1, <2>2, <2>3 DEF respawn, TypeInvariant, TypeOK, signals, Record, States
<1>8. ASSUME NEW o \in Ops, delete(o) PROVE TypeInvariant'
  BY <1>8 DEF delete, TypeInvariant, TypeOK, processes, signals, bridge
<1>9. ASSUME NEW o \in Ops, begin(o) PROVE TypeInvariant'
  BY <1>9 DEF begin, TypeInvariant, TypeOK, processes, signals, bridge
<1>10. ASSUME NEW o \in Ops, turnAborted(o) PROVE TypeInvariant'
  <2>1. CASE managed.proc = NoProc
    BY <1>10, <2>1 DEF turnAborted, killProcess, TypeInvariant, TypeOK, processes, signals
  <2>2. CASE managed.proc # NoProc
    <3>1. managed' \in Record /\ managed'.proc = managed.proc
      BY <1>0, <1>10, <2>2 DEF turnAborted, killProcess, Record
    <3> QED
      BY <1>10, <2>2, <3>1 DEF turnAborted, killProcess, TypeInvariant, TypeOK, processes, signals, Record, States
  <2> QED
    BY <2>1, <2>2
<1>11. ASSUME NEW o \in Ops, forceKill(o) PROVE TypeInvariant'
  BY <1>11 DEF forceKill, TypeInvariant, TypeOK, processes, bridge
<1>12. CASE UNCHANGED vars
  BY <1>12 DEF vars, TypeInvariant, TypeOK, processes, signals, bridge, calls
<1> QED
  BY <1>1, <1>2, <1>3, <1>4, <1>5, <1>6, <1>7, <1>8, <1>9, <1>10, <1>11, <1>12 DEF Next, Events, Continue

\* The state is well-formed, whatever overlaps and fails.
THEOREM TypeCorrect == Spec => []TypeOK
<1>1. Spec => []TypeInvariant
  BY TypeInit, TypeStep, PTL DEF Spec
<1>2. TypeInvariant => TypeOK
  BY DEF TypeInvariant
<1> QED
  BY <1>1, <1>2, PTL

-----------------------------------------------------------------------------
(* Crashes *)

\* No step leaves a crash unhandled.
LEMMA CrashStep == TypeInvariant /\ CrashIsHandled /\ [Next]_vars => CrashIsHandled'
<1> SUFFICES ASSUME TypeInvariant, CrashIsHandled, [Next]_vars PROVE CrashIsHandled'
  OBVIOUS
<1>0. managed \in Record
  BY RecordIsTyped DEF TypeInvariant
<1>1. ASSUME NEW p \in Procs, processExit(p) PROVE CrashIsHandled'
  BY <1>0, <1>1, ExitOfRecord DEF processExit, CrashIsHandled
<1>2. CASE restartTimerFires
  <2>1. CASE managed.intentionalKill
    BY <1>0, <1>2, <2>1 DEF restartTimerFires, CrashIsHandled, Record
  <2>2. CASE ~managed.intentionalKill
    <3>1. PICK p \in Procs :
            managed' = startedAs([managed EXCEPT !.restartTimer = FALSE, !.backoffMs = nextBackoff(@)], p)
      BY <1>2, <2>2 DEF restartTimerFires
    <3> QED
      BY <1>0, <3>1, TimerOfRecord, StartOfRecord DEF CrashIsHandled
  <2> QED
    BY <2>1, <2>2
<1>3. CASE agentReady
  BY <1>0, <1>3 DEF agentReady, CrashIsHandled, Record
<1>4. ASSUME NEW p \in Procs, spawnError(p) PROVE CrashIsHandled'
  BY <1>0, <1>4, ErrorOfRecord DEF spawnError, CrashIsHandled
<1>5. ASSUME NEW o \in Ops, respawn(o) PROVE CrashIsHandled'
  <2>1. PICK p \in Procs : managed' = startedAs(managed, p)
    BY <1>5 DEF respawn
  <2> QED
    BY <1>0, <2>1, StartOfRecord DEF CrashIsHandled
<1>6. ASSUME NEW o \in Ops, turnAborted(o) PROVE CrashIsHandled'
  BY <1>0, <1>6 DEF turnAborted, killProcess, CrashIsHandled, Record
<1>7. ASSUME UNCHANGED managed PROVE CrashIsHandled'
  BY <1>7 DEF CrashIsHandled
<1>8. CASE attachBridge \/ pollEnds \/ UNCHANGED vars
  BY <1>7, <1>8 DEF attachBridge, pollEnds, vars
<1>9. ASSUME NEW o \in Ops, delete(o) \/ begin(o) \/ forceKill(o) PROVE CrashIsHandled'
  BY <1>7, <1>9 DEF delete, begin, forceKill
<1> QED
  BY <1>1, <1>2, <1>3, <1>4, <1>5, <1>6, <1>8, <1>9 DEF Next, Events, Continue

\* A crashed agent is about to be restarted or was meant to be killed, and a killed one is
\* not restarted, whatever overlaps and fails.
THEOREM CrashesAreHandled == Spec => []CrashIsHandled
<1>1. Init => CrashIsHandled
  BY DEF Init, CrashIsHandled
<1>2. TypeInvariant /\ CrashIsHandled /\ [Next]_vars => TypeInvariant' /\ CrashIsHandled'
  BY TypeStep, CrashStep
<1> QED
  BY <1>1, <1>2, TypeInit, PTL DEF Spec

-----------------------------------------------------------------------------
(* One agent, when operations and crashes do not overlap *)

BusyOp(o) == o \in Ops /\ pc[o] \in {"aborting", "killing", "killed"}

\* No process but that of the slot is there, and it was sent SIGTERM only if somebody
\* waits for its exit.
SlotHoldsAll ==
  /\ running \cup failing \subseteq {managed.proc} /\ running \cap failing = {}
  /\ managed.restartTimer => managed.proc = NoProc
  /\ running \cap signalled # {} => \E o \in Ops : pc[o] = "killing"

\* One operation is under way, with the restart timer off and no spawn that failed.
OneOperation ==
  /\ \A o, q \in Ops : BusyOp(o) /\ BusyOp(q) => o = q
  /\ \A o \in Ops : BusyOp(o) => ~managed.restartTimer /\ failing = {}

\* killProcess waits for the process of the slot, and returns when it is empty.
KillWaits ==
  /\ \A o \in Ops : pc[o] = "killing" => killing[o] = managed.proc /\ managed.intentionalKill
  /\ \A o \in Ops : pc[o] = "killed" => managed.proc = NoProc

\* Of a deleted pane nothing is left, and nobody is at work on it.
Down == destroyed => managed.proc = NoProc /\ ~managed.restartTimer /\ \A o \in Ops : ~BusyOp(o)

ReadyRuns == managed.state = "ready" => managed.proc \in running

ApartInvariant == TypeInvariant /\ SlotHoldsAll /\ OneOperation /\ KillWaits /\ Down /\ ReadyRuns

\* An empty slot means that no process is there.
LEMMA EmptySlot ==
  ASSUME TypeInvariant, SlotHoldsAll, managed.proc = NoProc
  PROVE  running = {} /\ failing = {}
BY PaneAssumption DEF TypeInvariant, TypeOK, SlotHoldsAll

\* A fresh process in the empty slot.
LEMMA FreshInSlot ==
  ASSUME TypeInvariant, running = {}, failing = {}, NEW p, spawn(p),
         managed'.proc = p, managed'.restartTimer = FALSE, UNCHANGED signals
  PROVE  SlotHoldsAll'
<1>1. p \notin signalled /\ signalled' = signalled
  BY DEF TypeInvariant, TypeOK, spawn, signals
<1>2. running' \cup failing' = {p} /\ running' \cap failing' = {}
  BY DEF spawn
<1> QED
  BY <1>1, <1>2 DEF SlotHoldsAll

LEMMA ApartInit == Init => ApartInvariant
<1> SUFFICES ASSUME Init PROVE ApartInvariant
  OBVIOUS
<1>1. TypeInvariant
  BY TypeInit
<1>2. \A o \in Ops : pc[o] = "new"
  BY DEF Init
<1>3. SlotHoldsAll /\ Down /\ ReadyRuns
  BY DEF Init, SlotHoldsAll, Down, ReadyRuns
<1>4. OneOperation /\ KillWaits
  BY <1>2 DEF OneOperation, KillWaits, BusyOp
<1> QED
  BY <1>1, <1>3, <1>4 DEF ApartInvariant

\* The invariant but for types.
Slot == SlotHoldsAll /\ OneOperation /\ KillWaits /\ Down /\ ReadyRuns

LEMMA ExitStep ==
  ASSUME ~Overlap, ApartInvariant, NEW p \in Procs, processExit(p)
  PROVE  Slot'
<1> USE DEF ApartInvariant
<1>0. managed \in Record
  BY RecordIsTyped DEF TypeInvariant
<1>1. p = managed.proc /\ running' = {} /\ failing' = {} /\ signalled' = signalled
  BY DEF processExit, SlotHoldsAll, Quiet, signals
<1>2. managed'.proc = NoProc /\ managed'.state # "ready"
      /\ (managed.intentionalKill => managed'.restartTimer = managed.restartTimer)
  BY <1>0, ExitOfRecord DEF processExit
<1>3. SlotHoldsAll' /\ ReadyRuns'
  BY <1>1, <1>2 DEF SlotHoldsAll, ReadyRuns
<1>4. \A o \in Ops : pc'[o] = IF pc[o] = "killing" /\ killing[o] = p THEN "killed" ELSE pc[o]
  BY DEF processExit
<1> HIDE DEF ApartInvariant
<1>9. ASSUME NEW o \in Ops, BusyOp(o)' PROVE BusyOp(o)
  BY <1>4, <1>9 DEF BusyOp
<1> USE DEF ApartInvariant
<1>5. KillWaits'
  BY <1>1, <1>2, <1>4 DEF KillWaits, processExit
<1>6. ASSUME NEW o \in Ops, BusyOp(o)' PROVE ~managed'.restartTimer
  <2>1. BusyOp(o) /\ Busy
    BY <1>6, <1>9 DEF Busy, BusyOp
  <2>2. p \in signalled /\ p \in running
    BY <2>1 DEF processExit, Overlap
  <2>3. managed.intentionalKill
    BY <2>2 DEF SlotHoldsAll, KillWaits
  <2> QED
    BY <1>2, <2>1, <2>3 DEF OneOperation
<1>7. OneOperation'
  <2>1. \A o, q \in Ops : BusyOp(o)' /\ BusyOp(q)' => o = q
    BY <1>9 DEF OneOperation
  <2>2. \A o \in Ops : BusyOp(o)' => ~managed'.restartTimer /\ failing' = {}
    BY <1>1, <1>6
  <2> QED
    BY <2>1, <2>2 DEF OneOperation
<1>8. Down'
  BY <1>1, PaneAssumption DEF Down, processExit
<1> QED
  BY <1>3, <1>5, <1>7, <1>8 DEF Slot

LEMMA TimerStep ==
  ASSUME ApartInvariant, restartTimerFires
  PROVE  Slot'
<1> USE DEF ApartInvariant
<1>0. managed \in Record
  BY RecordIsTyped DEF TypeInvariant
<1>1. /\ managed.restartTimer /\ managed.proc = NoProc
      /\ UNCHANGED <<signals, calls>>
  BY DEF restartTimerFires, SlotHoldsAll
<1>2. running = {} /\ failing = {}
  BY <1>1, EmptySlot
<1>3. ~destroyed /\ \A o \in Ops : ~BusyOp(o)
  BY <1>1 DEF Down, OneOperation
<1>4. ~destroyed' /\ \A o \in Ops : ~BusyOp(o)' /\ pc'[o] = pc[o] /\ pc[o] \notin {"killing", "killed"}
  BY <1>1, <1>3 DEF calls, BusyOp
<1>5. OneOperation' /\ KillWaits' /\ Down'
  BY <1>4 DEF OneOperation, KillWaits, Down
<1>6. CASE managed.intentionalKill
  <2>1. managed'.proc = NoProc /\ managed'.state = managed.state /\ managed'.restartTimer = FALSE
    BY <1>0, <1>1, <1>6 DEF restartTimerFires, Record
  <2>2. running' = {} /\ failing' = {}
    BY <1>2, <1>6 DEF restartTimerFires, processes
  <2> QED
    BY <1>2, <1>5, <2>1, <2>2 DEF Slot, SlotHoldsAll, ReadyRuns
<1>7. CASE ~managed.intentionalKill
  <2>1. PICK p \in Procs :
          /\ spawn(p)
          /\ managed' = startedAs([managed EXCEPT !.restartTimer = FALSE, !.backoffMs = nextBackoff(@)], p)
    BY <1>7 DEF restartTimerFires
  <2> DEFINE idle == [managed EXCEPT !.restartTimer = FALSE, !.backoffMs = nextBackoff(@)]
  <2>4. idle \in Record /\ idle.restartTimer = FALSE
    BY <1>0, TimerOfRecord
  <2>5. managed' = startedAs(idle, p)
    BY <2>1
  <2> HIDE DEF idle
  <2>2. managed'.proc = p /\ managed'.restartTimer = FALSE /\ managed'.state = "starting"
    BY <2>4, <2>5, StartOfRecord
  <2>3. SlotHoldsAll'
    BY <1>1, <1>2, <2>1, <2>2, FreshInSlot
  <2> QED
    BY <1>5, <2>2, <2>3 DEF Slot, ReadyRuns
<1> QED
  BY <1>6, <1>7

LEMMA ErrorStep ==
  ASSUME ApartInvariant, NEW p \in Procs, spawnError(p)
  PROVE  Slot'
<1> USE DEF ApartInvariant
<1>0. managed \in Record
  BY RecordIsTyped DEF TypeInvariant
<1>1. managed'.proc = NoProc /\ managed'.state = "crashed"
  BY <1>0, ErrorOfRecord DEF spawnError
<1>2. p \in failing /\ p = managed.proc /\ running' = {} /\ failing' = {}
  BY DEF spawnError, SlotHoldsAll
<1>3. ~destroyed /\ \A o \in Ops : ~BusyOp(o)
  BY <1>2, PaneAssumption DEF Down, OneOperation
<1>4. ~destroyed' /\ \A o \in Ops : ~BusyOp(o)' /\ pc'[o] = pc[o] /\ pc[o] \notin {"killing", "killed"}
  BY <1>3 DEF spawnError, calls, BusyOp
<1>5. OneOperation' /\ KillWaits' /\ Down'
  BY <1>4 DEF OneOperation, KillWaits, Down
<1> QED
  BY <1>1, <1>2, <1>5 DEF Slot, SlotHoldsAll, ReadyRuns

LEMMA RespawnStep ==
  ASSUME ApartInvariant, NEW o \in Ops, respawn(o)
  PROVE  Slot'
<1> USE DEF ApartInvariant
<1>0. managed \in Record
  BY RecordIsTyped DEF TypeInvariant
<1>1. managed.proc = NoProc /\ ~managed.restartTimer /\ BusyOp(o)
  BY DEF respawn, KillWaits, OneOperation, BusyOp
<1>2. running = {} /\ failing = {}
  BY <1>1, EmptySlot
<1>3. PICK p \in Procs : spawn(p) /\ managed' = startedAs(managed, p)
  BY DEF respawn
<1>4. managed'.proc = p /\ managed'.restartTimer = FALSE /\ managed'.state = "starting"
  BY <1>0, <1>1, <1>3, StartOfRecord DEF Record
<1>5. SlotHoldsAll'
  BY <1>2, <1>3, <1>4, FreshInSlot DEF respawn
<1>6. \A q \in Ops : ~BusyOp(q)' /\ pc'[q] \notin {"killing", "killed"}
  <2>1. \A q \in Ops : q # o => ~BusyOp(q) /\ pc'[q] = pc[q]
    BY <1>1 DEF OneOperation, respawn, TypeInvariant, TypeOK
  <2>2. pc'[o] = "done"
    BY DEF respawn, TypeInvariant, TypeOK
  <2> QED
    BY <2>1, <2>2 DEF BusyOp
<1>7. ~destroyed'
  BY <1>1 DEF Down, respawn
<1> QED
  BY <1>4, <1>5, <1>6, <1>7 DEF Slot, OneOperation, KillWaits, Down, ReadyRuns

LEMMA DeleteStep ==
  ASSUME ApartInvariant, NEW o \in Ops, delete(o)
  PROVE  Slot'
<1> USE DEF ApartInvariant
<1>1. managed.proc = NoProc /\ ~managed.restartTimer /\ BusyOp(o)
  BY DEF delete, KillWaits, OneOperation, BusyOp
<1>2. running' = {} /\ failing' = {} /\ managed' = managed
  BY <1>1, EmptySlot DEF delete, processes
<1>3. \A q \in Ops : ~BusyOp(q)' /\ pc'[q] \notin {"killing", "killed"}
  <2>1. \A q \in Ops : q # o => ~BusyOp(q) /\ pc'[q] = pc[q]
    BY <1>1 DEF OneOperation, delete, TypeInvariant, TypeOK
  <2>2. pc'[o] = "done"
    BY DEF delete, TypeInvariant, TypeOK
  <2> QED
    BY <2>1, <2>2 DEF BusyOp
<1>4. managed.state # "ready"
  BY <1>1, <1>2 DEF ReadyRuns, delete, processes
<1> QED
  BY <1>1, <1>2, <1>3, <1>4 DEF Slot, SlotHoldsAll, OneOperation, KillWaits, Down, ReadyRuns

LEMMA BeginStep ==
  ASSUME ~Overlap, ApartInvariant, NEW o \in Ops, begin(o)
  PROVE  Slot'
<1> USE DEF ApartInvariant
<1>1. ~managed.restartTimer /\ failing = {} /\ ~destroyed /\ \A q \in Ops : ~BusyOp(q)
  BY DEF begin, Quiet, Busy, BusyOp, Overlap
<1>2. /\ pc'[o] = "aborting" /\ \A q \in Ops : q # o => pc'[q] = pc[q]
      /\ UNCHANGED <<managed, processes, signals, killing, destroyed>>
  BY DEF begin, TypeInvariant, TypeOK
<1>3. \A q \in Ops : (BusyOp(q)' => q = o) /\ pc'[q] \notin {"killing", "killed"}
  BY <1>1, <1>2 DEF BusyOp
<1>4. running \cap signalled = {}
  BY <1>1 DEF SlotHoldsAll, BusyOp
<1> QED
  BY <1>1, <1>2, <1>3, <1>4 DEF Slot, SlotHoldsAll, OneOperation, KillWaits, Down, ReadyRuns, processes, signals

LEMMA AbortedStep ==
  ASSUME ApartInvariant, NEW o \in Ops, turnAborted(o)
  PROVE  Slot'
<1> USE DEF ApartInvariant
<1>0. managed \in Record
  BY RecordIsTyped DEF TypeInvariant
<1>1. BusyOp(o) /\ ~managed.restartTimer /\ failing = {} /\ ~destroyed /\ pc[o] = "aborting"
  BY DEF turnAborted, OneOperation, Down, BusyOp
<1>2. \A q \in Ops : q # o => ~BusyOp(q) /\ pc[q] \notin {"killing", "killed"}
  BY <1>1 DEF OneOperation, BusyOp
<1>3. UNCHANGED <<processes, destroyed>>
  BY DEF turnAborted
<1>4. CASE managed.proc = NoProc
  <2>1. pc'[o] = "killed" /\ (\A q \in Ops : q # o => pc'[q] = pc[q])
        /\ UNCHANGED <<managed, signals, killing>>
    BY <1>4 DEF turnAborted, killProcess, TypeInvariant, TypeOK
  <2>2. running = {}
    BY <1>4, EmptySlot
  <2>3. \A q \in Ops : (BusyOp(q)' => q = o) /\ pc'[q] # "killing" /\ (pc'[q] = "killed" => q = o)
    BY <1>2, <2>1 DEF BusyOp
  <2> QED
    BY <1>1, <1>3, <1>4, <2>1, <2>2, <2>3
    DEF Slot, SlotHoldsAll, OneOperation, KillWaits, Down, ReadyRuns, processes, signals
<1>5. CASE managed.proc # NoProc
  <2>1. /\ pc'[o] = "killing" /\ killing'[o] = managed.proc
        /\ \A q \in Ops : q # o => pc'[q] = pc[q]
        /\ managed'.proc = managed.proc /\ managed'.intentionalKill = TRUE
        /\ managed'.restartTimer = FALSE /\ managed'.state = managed.state
    BY <1>0, <1>5 DEF turnAborted, killProcess, TypeInvariant, TypeOK, Record
  <2>2. \A q \in Ops : (BusyOp(q)' => q = o) /\ pc'[q] # "killed" /\ (pc'[q] = "killing" => q = o)
    BY <1>2, <2>1 DEF BusyOp
  <2> QED
    BY <1>1, <1>3, <2>1, <2>2
    DEF Slot, SlotHoldsAll, OneOperation, KillWaits, Down, ReadyRuns, processes
<1> QED
  BY <1>4, <1>5

\* Steps that leave the slot, its processes and the operations alone.
LEMMA OtherStep ==
  ASSUME ApartInvariant, UNCHANGED <<processes, signals, calls>>,
         managed'.proc = managed.proc, managed'.restartTimer = managed.restartTimer,
         managed'.intentionalKill = managed.intentionalKill,
         managed'.state = managed.state \/ managed.proc \in running
  PROVE  Slot'
BY DEF ApartInvariant, Slot, SlotHoldsAll, OneOperation, KillWaits, Down, ReadyRuns, BusyOp,
       processes, signals, calls

LEMMA ReadyStep ==
  ASSUME ApartInvariant, agentReady
  PROVE  Slot'
<1>1. managed \in Record
  BY RecordIsTyped DEF ApartInvariant, TypeInvariant
<1>2. managed'.proc = managed.proc /\ managed'.restartTimer = managed.restartTimer
      /\ managed'.intentionalKill = managed.intentionalKill
  BY <1>1 DEF agentReady, Record
<1>3. managed.proc \in running
  BY DEF agentReady, ApartInvariant, SlotHoldsAll
<1>4. UNCHANGED <<processes, signals, calls>>
  BY DEF agentReady
<1> QED
  BY <1>2, <1>3, <1>4, OtherStep

LEMMA ApartStep ==
  ASSUME ~Overlap, ApartInvariant, [Next]_vars
  PROVE  ApartInvariant'
<1>1. TypeInvariant'
  BY TypeStep DEF ApartInvariant
<1>2. ASSUME NEW p \in Procs, processExit(p) PROVE Slot'
  BY <1>2, ExitStep
<1>3. ASSUME restartTimerFires PROVE Slot'
  BY <1>3, TimerStep
<1>4. ASSUME agentReady PROVE Slot'
  BY <1>4, ReadyStep
<1>5. ASSUME attachBridge \/ pollEnds \/ UNCHANGED vars PROVE Slot'
  <2>1. UNCHANGED <<managed, processes, signals, calls>>
    BY <1>5 DEF attachBridge, pollEnds, vars
  <2> QED
    BY <2>1, OtherStep
<1>6. ASSUME NEW p \in Procs, spawnError(p) PROVE Slot'
  BY <1>6, ErrorStep
<1>7. ASSUME NEW o \in Ops, respawn(o) \/ delete(o) \/ begin(o) \/ turnAborted(o) PROVE Slot'
  BY <1>7, RespawnStep, DeleteStep, BeginStep, AbortedStep
<1>8. ASSUME NEW o \in Ops, forceKill(o) PROVE FALSE
  BY <1>8 DEF Overlap
<1>9. Slot'
  BY <1>2, <1>3, <1>4, <1>5, <1>6, <1>7, <1>8 DEF Next, Events, Continue
<1> QED
  BY <1>1, <1>9 DEF Slot, ApartInvariant

LEMMA ApartInvariantHolds == HistorySpec => [](apart => ApartInvariant)
<1>1. HistoryInit => (apart => ApartInvariant)
  BY ApartInit DEF HistoryInit
<1>2. (apart => ApartInvariant) /\ [HistoryNext]_<<vars, apart>> => (apart => ApartInvariant)'
  <2> SUFFICES ASSUME apart => ApartInvariant, [HistoryNext]_<<vars, apart>>, apart'
               PROVE  ApartInvariant'
    OBVIOUS
  <2>1. CASE HistoryNext
    <3>1. apart /\ ~Overlap /\ Next
      BY <2>1 DEF HistoryNext
    <3> QED
      BY <3>1, ApartStep
  <2>2. CASE UNCHANGED <<vars, apart>>
    <3>1. ApartInvariant /\ UNCHANGED vars
      BY <2>2
    <3>2. TypeInvariant'
      BY <3>1, TypeStep DEF ApartInvariant
    <3>3. Slot'
      BY <3>1, OtherStep DEF vars
    <3> QED
      BY <3>2, <3>3 DEF Slot, ApartInvariant
  <2> QED
    BY <2>1, <2>2
<1> QED
  BY <1>1, <1>2, PTL DEF HistorySpec

\* As long as operations and crashes do not overlap and processes heed SIGTERM, at most
\* one process runs that was not told to exit, and it is the one killProcess can reach.
THEOREM OneAgentOfThePane == HistorySpec => []ApartRunningIsManaged
<1>1. (apart => ApartInvariant) => ApartRunningIsManaged
  BY DEF ApartInvariant, SlotHoldsAll, RunningIsManaged, ApartRunningIsManaged
<1> QED
  BY <1>1, ApartInvariantHolds, PTL

\* Until then the bridge talks to the process of the slot, and what is said to be ready
\* runs.
THEOREM BridgeFollowsTheSlot == HistorySpec => []ApartBridgeFollows
<1>1. (apart => ApartInvariant) => ApartBridgeFollows
  BY DEF ApartInvariant, SlotHoldsAll, ReadyRuns, BridgeFollows, ApartBridgeFollows
<1> QED
  BY <1>1, ApartInvariantHolds, PTL

\* Until then nothing of a deleted pane runs or will.
THEOREM DestroyedStaysDown == HistorySpec => []ApartDestroyedIsDown
<1>1. (apart => ApartInvariant) => ApartDestroyedIsDown
  <2> SUFFICES ASSUME ApartInvariant, destroyed PROVE running = {} /\ ~managed.restartTimer
    BY DEF ApartDestroyedIsDown, DestroyedIsDown
  <2>1. managed.proc = NoProc /\ ~managed.restartTimer
    BY DEF ApartInvariant, Down
  <2> QED
    BY <2>1, EmptySlot DEF ApartInvariant
<1> QED
  BY <1>1, ApartInvariantHolds, PTL
==============================================================================
