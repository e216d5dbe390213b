---------------------- MODULE TurnOrchestrator_proofs ----------------------
(***************************************************************************)
(* Proofs that the response lock of TurnOrchestrator loses no turn,        *)
(* although it may be released more often than it was taken; and that, as  *)
(* long as nothing fails, it serializes turns, the agent is free whenever  *)
(* it is asked, each turn is closed by the end of its own run, and the     *)
(* safety timer is paused while the user decides.                          *)
(***************************************************************************)
EXTENDS TurnHistory, SequenceTheorems, FiniteSetTheorems, TLAPS

\* What the proof needs of the types.
LockTypes ==
  /\ state \in [Turns -> {"new", "queued", "generating", "idle", "aborted"}]
  /\ lockHeld \in BOOLEAN /\ lockQueue \in Seq(Turns)
  /\ granted \in SUBSET Turns /\ listening \in SUBSET Turns

Waiting(t) == t \in granted \/ \E i \in 1..Len(lockQueue) : lockQueue[i] = t

LockInvariant == LockTypes /\ NoTurnIsLost

\* What is left of a sequence after its first k elements.
LEMMA RestOfSequence ==
  ASSUME NEW S, NEW s \in Seq(S), NEW k \in 0..Len(s)
  PROVE  /\ SubSeq(s, k + 1, Len(s)) \in Seq(S)
         /\ Len(SubSeq(s, k + 1, Len(s))) = Len(s) - k
         /\ \A i \in 1..Len(s) - k : SubSeq(s, k + 1, Len(s))[i] = s[k + i]
<1>1. Len(s) \in Nat /\ k \in Nat
  BY LenProperties
<1> DEFINE m == k + 1
           n == Len(s)
<1>2. m \in Int /\ n \in Int
  BY <1>1
<1>3. \A i \in m..n : s[i] \in S
  BY <1>1, ElementOfSeq
<1> HIDE DEF m, n
<1>4. /\ SubSeq(s, m, n) \in Seq(S)
      /\ Len(SubSeq(s, m, n)) = IF m <= n THEN n - m + 1 ELSE 0
      /\ \A i \in 1..n - m + 1 : SubSeq(s, m, n)[i] = s[m + i - 1]
  BY <1>2, <1>3, SubSeqProperties, Z3
<1>5. (IF m <= n THEN n - m + 1 ELSE 0) = Len(s) - k /\ n - m + 1 = Len(s) - k
  BY <1>1 DEF m, n
<1>6. \A i \in 1..Len(s) - k : m + i - 1 = k + i
  BY <1>1 DEF m
<1>7. \A i \in 1..Len(s) - k : SubSeq(s, m, n)[i] = s[k + i]
  <2> SUFFICES ASSUME NEW i \in 1..Len(s) - k
               PROVE  SubSeq(s, m, n)[i] = s[k + i]
    OBVIOUS
  <2>1. SubSeq(s, m, n)[i] = s[m + i - 1]
    BY <1>4, <1>5
  <2> QED
    BY <1>6, <2>1
<1> QED
  BY <1>4, <1>5, <1>7 DEF m, n

\* A release, n-fold, keeps the queue behind a held lock, and whoever waited still waits,
\* or is now granted the lock; only those taken from granted on purpose may be missing.
LEMMA ReleaseLosesNobody ==
  ASSUME LockInvariant, NEW n \in Nat, NEW left \in SUBSET granted, releaseLock(n, left)
  PROVE  /\ lockHeld' \in BOOLEAN /\ lockQueue' \in Seq(Turns) /\ granted' \in SUBSET Turns
         /\ lockQueue' # <<>> => lockHeld'
         /\ \A t \in Turns : Waiting(t) => Waiting(t)' \/ t \in granted \ left
<1> DEFINE k == IF n <= Len(lockQueue) THEN n ELSE Len(lockQueue)
<1>1. lockQueue \in Seq(Turns) /\ Len(lockQueue) \in Nat /\ granted \subseteq Turns /\ lockHeld \in BOOLEAN
  BY LenProperties DEF LockInvariant, LockTypes
<1>2. k \in 0..Len(lockQueue) /\ k \in Nat
  BY <1>1
<1>3. /\ granted' = left \cup {lockQueue[i] : i \in 1..k}
      /\ lockQueue' = SubSeq(lockQueue, k + 1, Len(lockQueue))
      /\ lockHeld' = (lockHeld /\ n = k)
  BY DEF releaseLock
<1>4. /\ lockQueue' \in Seq(Turns)
      /\ Len(lockQueue') = Len(lockQueue) - k
      /\ \A i \in 1..Len(lockQueue) - k : lockQueue'[i] = lockQueue[k + i]
  BY <1>1, <1>2, <1>3, RestOfSequence
<1>5. granted' \in SUBSET Turns
  BY <1>1, <1>2, <1>3, ElementOfSeq
<1>6. lockQueue' # <<>> => lockHeld'
  <2> SUFFICES ASSUME lockQueue' # <<>> PROVE lockHeld'
    OBVIOUS
  <2>1. Len(lockQueue') # 0
    BY <1>4, EmptySeq
  <2>2. k = n /\ Len(lockQueue) # 0
    BY <1>1, <1>2, <1>4, <2>1
  <2>3. lockQueue # <<>>
    BY <2>2
  <2> QED
    BY <1>3, <2>2, <2>3 DEF LockInvariant, NoTurnIsLost
<1>7. ASSUME NEW t \in Turns, Waiting(t), t \notin granted \ left
      PROVE  Waiting(t)'
  <2>1. CASE t \in granted
    BY <1>3, <1>7, <2>1 DEF Waiting
  <2>2. ASSUME NEW i \in 1..Len(lockQueue), lockQueue[i] = t
        PROVE  Waiting(t)'
    <3>1. CASE i <= k
      BY <1>1, <1>2, <1>3, <2>2, <3>1 DEF Waiting
    <3>2. CASE ~(i <= k)
      <4>1. i - k \in 1..Len(lockQueue) - k /\ k + (i - k) = i
        BY <1>1, <1>2, <3>2
      <4> QED
        BY <1>4, <2>2, <4>1 DEF Waiting
    <3> QED
      BY <3>1, <3>2
  <2> QED
    BY <1>7, <2>1, <2>2 DEF Waiting
<1> QED
  BY <1>3, <1>4, <1>5, <1>6, <1>7

\* The lock is well-formed and nobody is lost at the start.
LEMMA LockInit == Init => LockInvariant
<1> SUFFICES ASSUME Init PROVE LockInvariant
  OBVIOUS
<1>1. lockQueue \in Seq(Turns)
  BY EmptySeq DEF Init
<1> QED
  BY <1>1 DEF Init, LockInvariant, LockTypes, NoTurnIsLost

\* Nothing is lost by a release in a step that queues nobody, and in which only turns
\* that are not queued are taken from those granted the lock.
LEMMA ReleaseStep ==
  ASSUME LockInvariant, NEW n \in Nat, NEW left \in SUBSET granted, releaseLock(n, left),
         state' \in [Turns -> {"new", "queued", "generating", "idle", "aborted"}],
         listening' \in SUBSET Turns,
         \A t \in Turns : state'[t] = "queued" => state[t] = "queued" /\ t \notin granted \ left
  PROVE  LockInvariant'
<1>1. /\ lockHeld' \in BOOLEAN /\ lockQueue' \in Seq(Turns) /\ granted' \in SUBSET Turns
      /\ lockQueue' # <<>> => lockHeld'
      /\ \A t \in Turns : Waiting(t) => Waiting(t)' \/ t \in granted \ left
  BY ReleaseLosesNobody
<1>2. \A t \in Turns : state'[t] = "queued" => Waiting(t)'
  BY <1>1 DEF LockInvariant, NoTurnIsLost, Waiting
<1> QED
  BY <1>1, <1>2 DEF LockInvariant, LockTypes, NoTurnIsLost, Waiting

\* Turns that leave for "idle" leave for a known state, and join no queue.
LEMMA IdleIsKnown ==
  ASSUME LockInvariant, NEW S, toIdle(S)
  PROVE  /\ state' \in [Turns -> {"new", "queued", "generating", "idle", "aborted"}]
         /\ \A t \in Turns : state'[t] = "queued" => state[t] = "queued"
BY DEF LockInvariant, LockTypes, toIdle

\* Steps that leave the lock and the turns alone.
LEMMA OtherStep ==
  ASSUME LockInvariant, UNCHANGED <<state, lock>>, listening' \in SUBSET Turns
  PROVE  LockInvariant'
BY DEF LockInvariant, LockTypes, NoTurnIsLost, lock

\* Every action keeps the invariant.
LEMMA LockStep == LockInvariant /\ [Next]_vars => LockInvariant'
<1> SUFFICES ASSUME LockInvariant, [Next]_vars
             PROVE  LockInvariant'
  OBVIOUS
<1>0. /\ state \in [Turns -> {"new", "queued", "generating", "idle", "aborted"}]
      /\ granted \in SUBSET Turns /\ listening \in SUBSET Turns /\ lockQueue \in Seq(Turns)
  BY DEF LockInvariant, LockTypes
<1>a. 1 \in Nat
  OBVIOUS
<1>b. \A S : S \in SUBSET listening => Cardinality(S) \in Nat
  <2>1. \A S : S \in SUBSET listening => S \in SUBSET Turns
    BY <1>0
  <2> QED
    BY <2>1, TurnAssumption, FS_Subset, FS_CardinalityType
<1>1. ASSUME NEW t \in Turns, submitTurn(t)
      PROVE  LockInvariant'
  <2>1. state' = [state EXCEPT ![t] = "queued"] /\ UNCHANGED listening /\ acquireLock(t)
    BY <1>1 DEF submitTurn, timers
  <2>2. CASE lockHeld
    <3>1. lockQueue' = Append(lockQueue, t) /\ UNCHANGED <<lockHeld, granted>>
      BY <2>1, <2>2 DEF acquireLock
    <3>2. /\ lockQueue' \in Seq(Turns) /\ Len(lockQueue') = Len(lockQueue) + 1 /\ Len(lockQueue) \in Nat
          /\ \A i \in 1..Len(lockQueue) : lockQueue'[i] = lockQueue[i]
          /\ lockQueue'[Len(lockQueue) + 1] = t
      BY ONLY <1>0, <3>1, t \in Turns, AppendProperties, LenProperties
    <3>3. \A u \in Turns : state'[u] = "queued" => u \in granted' \/ \E i \in 1..Len(lockQueue') : lockQueue'[i] = u
      <4> SUFFICES ASSUME NEW u \in Turns, state'[u] = "queued"
                   PROVE  u \in granted' \/ \E i \in 1..Len(lockQueue') : lockQueue'[i] = u
        OBVIOUS
      <4>1. CASE u = t
        <5>1. Len(lockQueue) + 1 \in 1..Len(lockQueue')
          BY <3>2
        <5> QED
          BY <3>2, <4>1, <5>1
      <4>2. CASE u # t
        <5>1. state[u] = "queued"
          BY <1>0, <2>1, <4>2
        <5>2. u \in granted \/ \E i \in 1..Len(lockQueue) : lockQueue[i] = u
          BY <5>1 DEF LockInvariant, NoTurnIsLost
        <5>3. \A i \in 1..Len(lockQueue) : i \in 1..Len(lockQueue')
          BY <3>2
        <5> QED
          BY <3>1, <3>2, <5>2, <5>3
      <4> QED
        BY <4>1, <4>2
    <3> QED
      BY <1>0, <2>1, <2>2, <3>1, <3>2, <3>3 DEF LockInvariant, LockTypes, NoTurnIsLost
  <2>3. CASE ~lockHeld
    <3>1. lockHeld' = TRUE /\ granted' = granted \cup {t} /\ UNCHANGED lockQueue
      BY <2>1, <2>3 DEF acquireLock
    <3> QED
      BY <1>0, <2>1, <3>1 DEF LockInvariant, LockTypes, NoTurnIsLost
  <2> QED
    BY <2>2, <2>3
<1>2. ASSUME NEW t \in Turns, runAborted(t)
      PROVE  LockInvariant'
  <2>1. releaseLock(1, granted \ {t}) /\ UNCHANGED <<state, listening>> /\ state[t] = "aborted"
    BY <1>2 DEF runAborted, timers
  <2>2. \A u \in Turns : state'[u] = "queued" => state[u] = "queued" /\ u \notin granted \ (granted \ {t})
    BY <2>1
  <2>3. granted \ {t} \in SUBSET granted
    OBVIOUS
  <2> QED
    BY <1>0, <1>a, <2>1, <2>2, <2>3, ReleaseStep
<1>3. ASSUME NEW t \in Turns, runTurn(t)
      PROVE  LockInvariant'
  <2>1. /\ granted' = granted \ {t} /\ state' = [state EXCEPT ![t] = "generating"]
        /\ listening' = listening \cup {t} /\ UNCHANGED <<lockHeld, lockQueue>>
    BY <1>3 DEF runTurn
  <2> QED
    BY <1>0, <2>1 DEF LockInvariant, LockTypes, NoTurnIsLost
<1>4. ASSUME NEW t \in Turns, promptFails(t)
      PROVE  LockInvariant'
  <2>1. /\ state' = [state EXCEPT ![t] = "idle"] /\ listening' = listening \ {t}
        /\ releaseLock(1, granted)
    BY <1>4 DEF promptFails
  <2>2. \A u \in Turns : state'[u] = "queued" => state[u] = "queued" /\ u \notin granted \ granted
    BY <1>0, <2>1
  <2> QED
    BY <1>0, <1>a, <2>1, <2>2, ReleaseStep
<1>5. CASE abortReturns
  <2>1. releaseLock(1, granted) /\ UNCHANGED <<state, listening>>
    BY <1>5 DEF abortReturns, timers
  <2> QED
    BY <1>0, <1>a, <2>1, ReleaseStep
<1>6. CASE abortCurrentTurn
  <2>1. /\ currentTurn # NoTurn /\ state' = [state EXCEPT ![currentTurn] = "aborted"]
        /\ listening' \in SUBSET listening /\ UNCHANGED lock
    BY <1>6 DEF abortCurrentTurn, clear
  <2> QED
    BY <1>0, <2>1 DEF LockInvariant, LockTypes, NoTurnIsLost, lock
<1>7. ASSUME NEW t \in Turns, firstActivityTimeout(t) \/ safetyTimeout(t)
      PROVE  LockInvariant'
  <2>1. toIdle({t}) /\ releaseLock(1, granted) /\ listening' \in SUBSET listening
    BY <1>7 DEF firstActivityTimeout, safetyTimeout, clear
  <2>2. /\ state' \in [Turns -> {"new", "queued", "generating", "idle", "aborted"}]
        /\ \A u \in Turns : state'[u] = "queued" => state[u] = "queued"
    BY <2>1, IdleIsKnown
  <2> QED
    BY <1>0, <1>a, <2>1, <2>2, ReleaseStep
<1>8. CASE receiveEnd
  <2>1. toIdle(Hearing) /\ releaseLock(Cardinality(Hearing), granted) /\ listening' \in SUBSET listening
    BY <1>8 DEF receiveEnd, clear
  <2>2. /\ state' \in [Turns -> {"new", "queued", "generating", "idle", "aborted"}]
        /\ \A u \in Turns : state'[u] = "queued" => state[u] = "queued"
    BY <2>1, IdleIsKnown
  <2>3. Cardinality(Hearing) \in Nat
    BY <1>b DEF Hearing
  <2> QED
    BY <1>0, <2>1, <2>2, <2>3, ReleaseStep
<1>9. CASE processExit
  <2>1. toIdle(listening) /\ releaseLock(Cardinality(listening), granted) /\ listening' \in SUBSET listening
    BY <1>9 DEF processExit, clear
  <2>2. /\ state' \in [Turns -> {"new", "queued", "generating", "idle", "aborted"}]
        /\ \A u \in Turns : state'[u] = "queued" => state[u] = "queued"
    BY <2>1, IdleIsKnown
  <2>3. Cardinality(listening) \in Nat
    BY <1>b
  <2> QED
    BY <1>0, <2>1, <2>2, <2>3, ReleaseStep
<1>10. CASE \/ requestTimeout \/ receiveEvent \/ receiveAccepted \/ receiveStopped
            \/ approvalRequest \/ respondToApproval \/ attach
            \/ agentTakesPrompt \/ agentTakesAbort \/ agentStops
            \/ agentWorks \/ agentAsks \/ agentEnds \/ UNCHANGED vars
  <2>1. UNCHANGED <<state, lock, listening>>
    BY <1>10 DEF requestTimeout, receiveEvent, receiveAccepted, receiveStopped, approvalRequest,
                 respondToApproval, attach, agentTakesPrompt, agentTakesAbort, agentStops,
                 agentWorks, agentAsks, agentEnds, vars, timers, Host
  <2> QED
    BY <1>0, <2>1, OtherStep
<1> QED
  BY <1>1, <1>2, <1>3, <1>4, <1>5, <1>6, <1>7, <1>8, <1>9, <1>10
     DEF Next, Continue, Timeouts, ReadLine, Commands

\* However many of the things that end a turn release the lock (orchestrator.ts:213-220,
\* called at 143, 166, 224, 257, 436, 461, 481 and 509), no queued turn is forgotten.
THEOREM NoTurnIsEverLost == Spec => []NoTurnIsLost
<1>1. LockInvariant => NoTurnIsLost
  BY DEF LockInvariant
<1> QED
  BY LockInit, LockStep, <1>1, PTL DEF Spec

-----------------------------------------------------------------------------
(***************************************************************************)
(* As long as nothing fails the lock is a token: it is free, or one turn   *)
(* is granted it, or one turn generates, or one abort waits for its reply. *)
(* Each step hands it on exactly once.                                     *)
(***************************************************************************)

Generating == {t \in Turns : state[t] = "generating"}

NoAbort == aborting = {} /\ aborted = {}

Free     == ~lockHeld /\ granted = {} /\ Generating = {} /\ NoAbort
Granted  == lockHeld /\ (\E t \in Turns : granted = {t}) /\ Generating = {} /\ NoAbort
Held     == /\ lockHeld /\ granted = {} /\ NoAbort
            /\ \E t \in Turns : Generating = {t} /\ currentTurnCleanup = t
Aborting == /\ lockHeld /\ granted = {} /\ Generating = {}
            /\ \E t \in Turns : \/ (aborting = {t} /\ aborted = {})
                               \/ (aborting = {} /\ aborted = {t})

\* Who generates listens, and nobody else does; no request has failed.
Served ==
  /\ listening = Generating
  /\ up /\ request \in [Turns -> {"none", "pending", "settled"}]
  /\ currentTurn # NoTurn => currentTurn \in Turns /\ state[currentTurn] # "new"

TokenInvariant == (Free \/ Granted \/ Held \/ Aborting) /\ Served

\* The lock is handed on once: it becomes free, or the first of the queue is granted it.
LEMMA ReleaseHandsOn ==
  ASSUME LockInvariant, lockHeld, releaseLock(1, {})
  PROVE  \/ ~lockHeld' /\ granted' = {}
         \/ lockHeld' /\ \E t \in Turns : granted' = {t}
<1>1. lockQueue \in Seq(Turns) /\ Len(lockQueue) \in Nat
  BY LenProperties DEF LockInvariant, LockTypes
<1>2. CASE 1 <= Len(lockQueue)
  <2>1. granted' = {lockQueue[i] : i \in 1..1} /\ lockHeld'
    BY <1>2 DEF releaseLock
  <2>2. granted' = {lockQueue[1]}
    BY <2>1
  <2>3. lockQueue[1] \in Turns
    BY <1>1, <1>2, ElementOfSeq
  <2> QED
    BY <2>1, <2>2, <2>3
<1>3. CASE ~(1 <= Len(lockQueue))
  <2>1. Len(lockQueue) = 0
    BY <1>1, <1>3
  <2> DEFINE k == IF 1 <= Len(lockQueue) THEN 1 ELSE Len(lockQueue)
  <2>2. k = 0
    BY <1>3, <2>1
  <2>3. granted' = {} \cup {lockQueue[i] : i \in 1..k} /\ lockHeld' = (lockHeld /\ 1 = k)
    BY DEF releaseLock
  <2> HIDE DEF k
  <2>4. 1..k = {} /\ 1 # k
    BY <2>2
  <2> QED
    BY <2>3, <2>4
<1> QED
  BY <1>2, <1>3

\* When the lock has been handed on, nothing else holds it.
LEMMA HandedOn ==
  ASSUME LockInvariant, lockHeld, releaseLock(1, {}), (Generating = {} /\ NoAbort)'
  PROVE  (Free \/ Granted)'
BY ReleaseHandsOn DEF Free, Granted

\* Steps after which the token is where it was.
LEMMA TokenStays ==
  ASSUME TokenInvariant,
         UNCHANGED <<state, currentTurn, lock, currentTurnCleanup, listening, request, aborting,
                     aborted, up>>
  PROVE  TokenInvariant'
BY DEF TokenInvariant, Free, Granted, Held, Aborting, Served, Generating, NoAbort, lock

\* Each step that is no failure hands the token on once, or leaves it.
LEMMA TokenStep ==
  ASSUME ~AbortQueued, LockInvariant, LockInvariant', TokenInvariant, [Next]_vars, ~Failure
  PROVE  TokenInvariant'
<1>0. /\ state \in [Turns -> {"new", "queued", "generating", "idle", "aborted"}]
      /\ NoTurn \notin Turns
  BY TurnAssumption DEF LockInvariant, LockTypes
<1>1. ASSUME NEW t \in Turns, submitTurn(t)
      PROVE  TokenInvariant'
  <2>1. /\ state' = [state EXCEPT ![t] = "queued"] /\ state[t] = "new" /\ currentTurn' = t
        /\ granted = {} /\ aborted = {} /\ acquireLock(t)
        /\ UNCHANGED <<currentTurnCleanup, listening, request, aborting, aborted, up>>
    BY <1>1 DEF submitTurn, Quiet, timers, agent
  <2>2. Generating' = Generating
    BY <1>0, <2>1 DEF Generating
  <2>3. Served'
    BY <1>0, <2>1, <2>2 DEF TokenInvariant, Served
  <2>4. CASE lockHeld
    <3>1. UNCHANGED <<lockHeld, granted>>
      BY <2>1, <2>4 DEF acquireLock
    <3> QED
      BY <2>1, <2>2, <2>3, <3>1 DEF TokenInvariant, Free, Granted, Held, Aborting, NoAbort
  <2>5. CASE ~lockHeld
    <3>1. lockHeld' /\ granted' = {t}
      BY <2>1, <2>5 DEF acquireLock
    <3>2. Free
      BY <2>5 DEF TokenInvariant, Granted, Held, Aborting
    <3> QED
      BY <2>1, <2>2, <2>3, <3>1, <3>2 DEF TokenInvariant, Free, Granted, NoAbort
  <2> QED
    BY <2>4, <2>5
<1>2. ASSUME NEW t \in Turns, runAborted(t)
      PROVE  TokenInvariant'
  <2>1. t \in granted /\ releaseLock(1, granted \ {t})
        /\ UNCHANGED <<state, currentTurn, currentTurnCleanup, listening, request, aborting, aborted, up>>
    BY <1>2 DEF runAborted, timers, agent
  <2>2. Granted /\ granted = {t}
    BY <2>1 DEF TokenInvariant, Free, Granted, Held, Aborting
  <2>3. granted \ {t} = {}
    BY <2>2
  <2>4. releaseLock(1, {})
    BY <2>1, <2>3
  <2>5. (Generating = {} /\ NoAbort)'
    BY <2>1, <2>2 DEF Granted, Generating, NoAbort
  <2>6. (Free \/ Granted)'
    BY <2>2, <2>4, <2>5, HandedOn DEF Granted
  <2> QED
    BY <2>1, <2>6 DEF TokenInvariant, Served, Generating
<1>3. ASSUME NEW t \in Turns, runTurn(t)
      PROVE  TokenInvariant'
  <2>1. /\ t \in granted /\ granted' = granted \ {t} /\ listening' = listening \cup {t}
        /\ state' = [state EXCEPT ![t] = "generating"] /\ currentTurnCleanup' = t
        /\ UNCHANGED <<currentTurn, lockHeld, aborting, aborted, up>>
    BY <1>3 DEF runTurn
  <2>2. Granted /\ granted = {t}
    BY <2>1 DEF TokenInvariant, Free, Granted, Held, Aborting
  <2>3. Generating' = {t} /\ listening' = {t}
    BY <1>0, <2>1, <2>2 DEF Generating, Granted, TokenInvariant, Served
  <2>4. request' \in [Turns -> {"none", "pending", "settled"}]
    <3>1. up /\ request \in [Turns -> {"none", "pending", "settled"}]
      BY DEF TokenInvariant, Served
    <3>2. request' = [request EXCEPT ![t] = "pending"]
      BY <1>3, <3>1 DEF runTurn
    <3> QED
      BY <3>1, <3>2
  <2>5. Held'
    BY <2>1, <2>2, <2>3 DEF Held, Granted, NoAbort
  <2>6. currentTurn # NoTurn => currentTurn \in Turns /\ state'[currentTurn] # "new"
    BY <1>0, <2>1 DEF TokenInvariant, Served
  <2> QED
    BY <2>1, <2>3, <2>4, <2>5, <2>6 DEF TokenInvariant, Served
<1>4. ASSUME NEW t \in Turns, promptFails(t)
      PROVE  TokenInvariant'
  BY <1>4 DEF promptFails, TokenInvariant, Served
<1>5. CASE abortReturns
  <2>1. /\ \E t \in aborted : aborted' = aborted \ {t}
        /\ releaseLock(1, granted)
        /\ UNCHANGED <<state, currentTurn, currentTurnCleanup, listening, request, aborting, up>>
    BY <1>5 DEF abortReturns, timers, agent
  <2>2. Aborting /\ aborting = {} /\ \E t \in Turns : aborted = {t}
    BY <2>1 DEF TokenInvariant, Free, Granted, Held, Aborting, NoAbort
  <2>3. releaseLock(1, {}) /\ (Generating = {} /\ NoAbort)'
    BY <2>1, <2>2 DEF Aborting, Generating, NoAbort
  <2>4. (Free \/ Granted)'
    BY <2>2, <2>3, HandedOn DEF Aborting
  <2> QED
    BY <2>1, <2>4 DEF TokenInvariant, Served, Generating
<1>6. CASE abortCurrentTurn
  <2>1. /\ currentTurn # NoTurn /\ state[currentTurn] \notin {"idle", "aborted", "queued"}
        /\ state' = [state EXCEPT ![currentTurn] = "aborted"]
        /\ clear({currentTurnCleanup}) /\ currentTurnCleanup' = NoTurn
        /\ UNCHANGED <<currentTurn, lockHeld, granted, request, up>>
    BY <1>6 DEF abortCurrentTurn, lock
  <2>2. currentTurn \in Turns /\ state[currentTurn] = "generating"
    BY <1>0, <2>1 DEF TokenInvariant, Served
  <2>3. currentTurn \in Generating
    BY <2>2 DEF Generating
  <2>4. Held /\ Generating = {currentTurn} /\ currentTurnCleanup = currentTurn
    BY <2>3 DEF TokenInvariant, Free, Granted, Held, Aborting
  <2>5. Generating' = {}
    BY <1>0, <2>1, <2>4 DEF Generating
  <2>6. listening' = {}
    BY <2>1, <2>4 DEF clear, TokenInvariant, Served
  <2>7. aborting' = {currentTurn} /\ aborted' = {}
    BY <1>6, <2>4 DEF abortCurrentTurn, Held, NoAbort, TokenInvariant, Served
  <2>8. Aborting'
    <3>1. \E t \in Turns : aborting' = {t} /\ aborted' = {}
      BY <2>2, <2>7
    <3> QED
      BY <2>1, <2>4, <2>5, <3>1 DEF Aborting, Held
  <2>9. currentTurn # NoTurn => currentTurn \in Turns /\ state'[currentTurn] # "new"
    BY <1>0, <2>1, <2>2
  <2> QED
    BY <2>1, <2>5, <2>6, <2>8, <2>9 DEF TokenInvariant, Served
<1>7. CASE receiveEnd
  <2>1. /\ toIdle(Hearing) /\ releaseLock(Cardinality(Hearing), granted) /\ clear(Hearing)
        /\ Quiet
        /\ UNCHANGED <<currentTurn, currentTurnCleanup, request, aborting, aborted, up>>
    BY <1>7 DEF receiveEnd, Receive
  <2>2. Hearing = Generating
    BY DEF Hearing, TokenInvariant, Served, Generating
  <2>3. Generating' = {} /\ listening' = {}
    BY <1>0, <2>1, <2>2 DEF toIdle, clear, Generating, TokenInvariant, Served
  <2>4. Served'
    <3>1. currentTurn # NoTurn => currentTurn \in Turns /\ state'[currentTurn] # "new"
      BY <1>0, <2>1 DEF toIdle, TokenInvariant, Served
    <3> QED
      BY <2>1, <2>3, <3>1 DEF TokenInvariant, Served
  <2>5. CASE Held
    <3>1. \E t \in Turns : Hearing = {t}
      BY <2>2, <2>5 DEF Held
    <3>2. Cardinality(Hearing) = 1
      BY <3>1, FS_Singleton
    <3>3. releaseLock(1, {}) /\ lockHeld
      BY <2>1, <2>5, <3>2 DEF Held
    <3>4. NoAbort'
      BY <2>1, <2>5 DEF Held, NoAbort
    <3> QED
      BY <2>3, <2>4, <3>3, <3>4, HandedOn DEF TokenInvariant
  <2>6. CASE ~Held
    <3>1. Hearing = {}
      BY <2>2, <2>6 DEF TokenInvariant, Free, Granted, Aborting
    <3>2. Cardinality(Hearing) = 0
      BY <3>1, FS_EmptySet
    <3>3. Len(lockQueue) \in Nat
      BY LenProperties DEF LockInvariant, LockTypes
    <3>4. granted' = granted \cup {lockQueue[i] : i \in 1..0} /\ lockHeld' = lockHeld
      BY <2>1, <3>2, <3>3 DEF releaseLock, LockInvariant, LockTypes
    <3>5. granted' = granted
      BY <3>4
    <3> QED
      BY <2>1, <2>3, <2>4, <2>6, <3>4, <3>5 DEF TokenInvariant, Free, Granted, Aborting, NoAbort
  <2> QED
    BY <2>5, <2>6
<1>8. CASE receiveStopped
  <2>1. UNCHANGED <<state, currentTurn, lock, currentTurnCleanup, listening, request, up>>
    BY <1>8 DEF receiveStopped
  <2> DEFINE of == Head(replies).of
  <2>2. \/ of \in aborting /\ aborting' = aborting \ {of} /\ aborted' = aborted \cup {of}
        \/ UNCHANGED <<aborting, aborted>>
    BY <1>8 DEF receiveStopped
  <2> HIDE DEF of
  <2>3. CASE of \in aborting /\ aborting' = aborting \ {of} /\ aborted' = aborted \cup {of}
    <3>1. Aborting /\ of \in Turns /\ aborting = {of} /\ aborted = {}
      BY <2>3 DEF TokenInvariant, Free, Granted, Held, Aborting, NoAbort
    <3>2. aborting' = {} /\ aborted' = {of}
      BY <2>3, <3>1
    <3>3. Aborting'
      BY <2>1, <3>1, <3>2 DEF Aborting, Generating, lock
    <3> QED
      BY <2>1, <3>3 DEF TokenInvariant, Served, Generating
  <2>4. CASE UNCHANGED <<aborting, aborted>>
    BY <2>1, <2>4, TokenStays
  <2> QED
    BY <2>2, <2>3, <2>4
<1>9. CASE receiveAccepted
  <2>1. UNCHANGED <<state, currentTurn, lock, currentTurnCleanup, listening, aborting, aborted, up>>
    BY <1>9 DEF receiveAccepted
  <2> DEFINE of == Head(replies).of
  <2>2. request' = [request EXCEPT ![of] = "settled"] \/ request' = request
    BY <1>9 DEF receiveAccepted
  <2> HIDE DEF of
  <2>3. request' \in [Turns -> {"none", "pending", "settled"}]
    BY <2>2 DEF TokenInvariant, Served
  <2> QED
    BY <2>1, <2>3 DEF TokenInvariant, Free, Granted, Held, Aborting, Served, Generating, NoAbort, lock
<1>10. CASE Timeouts \/ processExit
  BY <1>10 DEF Failure
<1>11. CASE attach
  BY <1>11 DEF attach, TokenInvariant, Served
<1>12. CASE \/ receiveEvent \/ approvalRequest \/ respondToApproval
            \/ agentTakesPrompt \/ agentTakesAbort \/ agentStops
            \/ agentWorks \/ agentAsks \/ agentEnds \/ UNCHANGED vars
  <2>1. UNCHANGED <<state, currentTurn, lock, currentTurnCleanup, listening, request, aborting,
                    aborted, up>>
    BY <1>12 DEF receiveEvent, approvalRequest, respondToApproval, agentTakesPrompt, agentTakesAbort,
                 agentStops, agentWorks, agentAsks, agentEnds, vars, timers, agent, Host
  <2> QED
    BY <2>1, TokenStays
<1> QED
  BY <1>1, <1>2, <1>3, <1>4, <1>5, <1>6, <1>7, <1>8, <1>9, <1>10, <1>11, <1>12
     DEF Next, Continue, ReadLine, Commands

\* "Serializes concurrent inputs via a response lock" (orchestrator.ts:3), for any number of
\* turns submitted, aborted and asking for approval in any order: as long as nothing fails and
\* no queued turn is aborted, one turn generates at a time.
THEOREM TurnsAreSerialized ==
  ASSUME ~AbortQueued
  PROVE  HistorySpec => []CalmOneGenerating
<1> DEFINE Inv == LockInvariant /\ (Calm => TokenInvariant)
<1>1. HistoryInit => Inv
  <2> SUFFICES ASSUME Init PROVE TokenInvariant
    BY LockInit DEF HistoryInit
  <2>1. Generating = {}
    BY DEF Init, Generating
  <2> QED
    BY <2>1 DEF Init, TokenInvariant, Free, Served, NoAbort
<1>2. Inv /\ [HistoryNext]_historyVars => Inv'
  <2> SUFFICES ASSUME Inv, [HistoryNext]_historyVars PROVE Inv'
    OBVIOUS
  <2>1. [Next]_vars
    BY DEF HistoryNext, historyVars
  <2>2. LockInvariant'
    BY <2>1, LockStep
  <2>3. ASSUME Calm' PROVE TokenInvariant'
    <3>1. CASE HistoryNext
      <4>1. ~Failure /\ Calm
        BY <2>3, <3>1 DEF HistoryNext, Calm
      <4> QED
        BY <2>1, <2>2, <4>1, TokenStep
    <3>2. CASE UNCHANGED historyVars
      <4>1. Calm
        BY <2>3, <3>2 DEF Calm, historyVars
      <4>2. UNCHANGED vars
        BY <3>2 DEF historyVars
      <4> QED
        BY <4>1, <4>2, TokenStays DEF vars, timers, agent
    <3> QED
      BY <3>1, <3>2
  <2> QED
    BY <2>2, <2>3
<1>3. Inv => CalmOneGenerating
  BY DEF TokenInvariant, Free, Granted, Held, Aborting, Generating, CalmOneGenerating, OneGenerating
<1> HIDE DEF Inv
<1> QED
  BY <1>1, <1>2, <1>3, PTL DEF HistorySpec
-----------------------------------------------------------------------------
(***************************************************************************)
(* Nor does the token move before the agent is done: between the host and  *)
(* the agent there is one turn at a time, asked for, worked on or ended,   *)
(* and when its end or the reply to an abort is read nothing else is left. *)
(***************************************************************************)

AgentLine == [type : {"event", "accepted", "stopped", "end", "ask"}, of : Turns \cup {NoTurn}]

Prompt(t) == [type |-> "prompt", of |-> t]
Abort(t)  == [type |-> "abort", of |-> t]

\* What is unread says that the run goes on, that it ended, that the agent has stopped, or
\* nothing: only an agent_end that follows the reply to an abort may be left.
GoesOn      == \A i \in 1..Len(replies) : replies[i].type \notin {"end", "stopped"}
HasEnded(t) == /\ replies # <<>> /\ replies[Len(replies)] = Line("end", t)
               /\ \A i \in 1..(Len(replies) - 1) : replies[i].type \notin {"end", "stopped"}
HasStopped(t) ==
  \E i \in 1..Len(replies) :
    /\ replies[i] = Line("stopped", t)
    /\ \A j \in 1..Len(replies) : j # i => replies[j].type # "stopped"
    /\ i = Len(replies) \/ (i = Len(replies) - 1 /\ replies[Len(replies)].type = "end")
AtMostLate == replies = <<>> \/ (Len(replies) = 1 /\ replies[1].type = "end")

AtRest == commands = <<>> /\ run = NoTurn /\ stopping = <<>> /\ AtMostLate

Serves(t) ==
  /\ stopping = <<>>
  /\ \/ commands = <<Prompt(t)>> /\ run = NoTurn /\ replies = <<>>
     \/ commands = <<>> /\ run = t /\ GoesOn
     \/ commands = <<>> /\ run = NoTurn /\ HasEnded(t)

Stops(t) ==
  \/ stopping = <<>> /\ commands = <<Prompt(t), Abort(t)>> /\ run = NoTurn /\ replies = <<>>
  \/ stopping = <<>> /\ commands = <<Abort(t)>> /\ run = t /\ GoesOn
  \/ stopping = <<>> /\ commands = <<Abort(t)>> /\ run = NoTurn /\ (replies = <<>> \/ HasEnded(t))
  \/ stopping = <<t>> /\ commands = <<>> /\ run = t /\ GoesOn
  \/ stopping = <<>> /\ commands = <<>> /\ run = NoTurn /\ HasStopped(t)

AgentInvariant ==
  /\ replies \in Seq(AgentLine)
  /\ Free \/ Granted \/ aborted # {} => AtRest
  /\ Held => Serves(currentTurnCleanup)
  /\ aborting # {} => \E t \in Turns : aborting = {t} /\ Stops(t)

\* The commands a turn writes: its prompt, and the abort that may follow it.
LEMMA CommandLines ==
  ASSUME NEW t
  PROVE  /\ <<Prompt(t)>> # <<>> /\ <<Abort(t)>> # <<>> /\ <<Prompt(t), Abort(t)>> # <<>>
         /\ Head(<<Prompt(t)>>) = Prompt(t) /\ Tail(<<Prompt(t)>>) = <<>>
         /\ Head(<<Prompt(t), Abort(t)>>) = Prompt(t) /\ Tail(<<Prompt(t), Abort(t)>>) = <<Abort(t)>>
         /\ Head(<<Abort(t)>>) = Abort(t) /\ Tail(<<Abort(t)>>) = <<>>
         /\ Append(<<>>, Abort(t)) = <<Abort(t)>> /\ Append(<<Prompt(t)>>, Abort(t)) = <<Prompt(t), Abort(t)>>
         /\ Prompt(t).type = "prompt" /\ Prompt(t).of = t /\ Abort(t).type = "abort" /\ Abort(t).of = t
         /\ <<Prompt(t)>> # <<Abort(t)>> /\ <<Prompt(t), Abort(t)>> # <<Abort(t)>>
         /\ <<Prompt(t)>> # <<Prompt(t), Abort(t)>>
<1> DEFINE p == Prompt(t)
           a == Abort(t)
<1>1. p.type = "prompt" /\ p.of = t /\ a.type = "abort" /\ a.of = t
  BY DEF Prompt, Abort
<1> HIDE DEF p, a
<1>2. <<p>> # <<>> /\ <<a>> # <<>> /\ <<p, a>> # <<>>
  OBVIOUS
<1>3. /\ Head(<<p>>) = p /\ Head(<<p, a>>) = p /\ Head(<<a>>) = a
  OBVIOUS
<1>4. Tail(<<p>>) = <<>>
  OBVIOUS
<1>5. Tail(<<a>>) = <<>>
  OBVIOUS
<1>6. Tail(<<p, a>>) = <<a>>
  OBVIOUS
<1>7. p # a
  BY <1>1
<1>8. <<p>> # <<a>> /\ <<p, a>> # <<a>>
  BY <1>3, <1>7
<1>9. <<p>> # <<p, a>>
  BY <1>2, <1>4, <1>6
<1>10. Append(<<>>, a) = <<a>>
  OBVIOUS
<1>11. Append(<<p>>, a) = <<p, a>>
  <2> DEFINE s == Append(<<p>>, a)
  <2>1. <<p>> \in Seq({p, a}) /\ Len(<<p>>) = 1 /\ <<p>>[1] = p /\ a \in {p, a}
    OBVIOUS
  <2>2. s \in Seq({p, a}) /\ Len(s) = 2 /\ s[1] = p /\ s[2] = a
    BY <2>1, AppendProperties
  <2> HIDE DEF s
  <2>3. <<p, a>> \in Seq({p, a}) /\ Len(<<p, a>>) = 2 /\ <<p, a>>[1] = p /\ <<p, a>>[2] = a
    OBVIOUS
  <2>4. \A i \in 1..2 : i = 1 \/ i = 2
    OBVIOUS
  <2>5. s = <<p, a>>
    BY <2>2, <2>3, <2>4, SeqEqual
  <2> QED
    BY <2>5 DEF s
<1> QED
  BY <1>1, <1>2, <1>3, <1>4, <1>5, <1>6, <1>8, <1>9, <1>10, <1>11 DEF p, a

\* A line is pushed behind those unread.
LEMMA AfterAppend ==
  ASSUME replies \in Seq(AgentLine), NEW l \in AgentLine, replies' = Append(replies, l)
  PROVE  /\ replies' \in Seq(AgentLine) /\ replies' # <<>> /\ Len(replies) \in Nat
         /\ Len(replies') = Len(replies) + 1 /\ replies'[Len(replies')] = l
         /\ \A i \in 1..Len(replies) : replies'[i] = replies[i]
<1>1. /\ Append(replies, l) \in Seq(AgentLine) /\ Len(replies) \in Nat
      /\ Len(Append(replies, l)) = Len(replies) + 1
      /\ Append(replies, l)[Len(replies) + 1] = l
      /\ \A i \in 1..Len(replies) : Append(replies, l)[i] = replies[i]
  BY AppendProperties, LenProperties
<1>2. replies' # <<>>
  BY <1>1, EmptySeq
<1> QED
  BY <1>1, <1>2

\* The first line is read.
LEMMA AfterTail ==
  ASSUME replies \in Seq(AgentLine), replies # <<>>, replies' = Tail(replies)
  PROVE  /\ replies' \in Seq(AgentLine) /\ Head(replies) = replies[1]
         /\ Len(replies) \in Nat \ {0} /\ Len(replies') = Len(replies) - 1
         /\ (Len(replies) = 1) = (replies' = <<>>)
         /\ \A i \in 1..Len(replies') : replies'[i] = replies[i + 1]
<1>1. /\ replies' \in Seq(AgentLine) /\ Head(replies) = replies[1]
      /\ Len(replies) \in Nat \ {0} /\ Len(replies') = Len(replies) - 1
      /\ \A i \in 1..Len(replies') : replies'[i] = replies[i + 1]
  BY HeadTailProperties, EmptySeq, LenProperties
<1>2. (Len(replies') = 0) = (replies' = <<>>)
  BY <1>1, EmptySeq
<1> QED
  BY <1>1, <1>2

\* What a new line says of the run.
LEMMA LineSaid ==
  ASSUME replies \in Seq(AgentLine), NEW l \in AgentLine, replies' = Append(replies, l)
  PROVE  /\ GoesOn /\ l.type \notin {"end", "stopped"} => GoesOn'
         /\ \A t \in Turns : GoesOn /\ l = Line("end", t) => HasEnded(t)'
         /\ \A t \in Turns : l = Line("stopped", t) /\ (HasEnded(t) \/ replies = <<>> \/ GoesOn) => HasStopped(t)'
         /\ \A t \in Turns : l.type = "end" /\ HasStopped(t) /\ replies[Len(replies)].type = "stopped" => HasStopped(t)'
<1>1. /\ replies' # <<>> /\ Len(replies) \in Nat
      /\ Len(replies') = Len(replies) + 1 /\ replies'[Len(replies')] = l
      /\ \A i \in 1..Len(replies) : replies'[i] = replies[i]
  BY AfterAppend
<1>2. ASSUME GoesOn, l.type \notin {"end", "stopped"} PROVE GoesOn'
  BY <1>1, <1>2 DEF GoesOn
<1>3. ASSUME NEW t \in Turns, GoesOn, l = Line("end", t) PROVE HasEnded(t)'
  BY <1>1, <1>3 DEF GoesOn, HasEnded
<1>4. ASSUME NEW t \in Turns, l = Line("stopped", t), HasEnded(t) \/ replies = <<>> \/ GoesOn
      PROVE  HasStopped(t)'
  <2>1. ASSUME NEW i \in 1..Len(replies) PROVE replies'[i].type # "stopped"
    <3>1. replies[i].type # "stopped"
      BY <1>1, <1>4, EmptySeq DEF HasEnded, GoesOn, Line
    <3> QED
      BY <1>1, <3>1
  <2>2. \A j \in 1..Len(replies') : j # Len(replies') => replies'[j].type # "stopped"
    BY <1>1, <2>1
  <2>3. Len(replies') \in 1..Len(replies')
    BY <1>1
  <2> QED
    BY <1>1, <1>4, <2>2, <2>3 DEF HasStopped
<1>5. ASSUME NEW t \in Turns, l.type = "end", HasStopped(t), replies[Len(replies)].type = "stopped"
      PROVE  HasStopped(t)'
  <2>1. PICK i \in 1..Len(replies) :
          /\ replies[i] = Line("stopped", t)
          /\ \A j \in 1..Len(replies) : j # i => replies[j].type # "stopped"
          /\ i = Len(replies) \/ (i = Len(replies) - 1 /\ replies[Len(replies)].type = "end")
    BY <1>5 DEF HasStopped
  <2>2. i = Len(replies) /\ i = Len(replies') - 1 /\ i \in 1..Len(replies')
    BY <1>1, <1>5, <2>1
  <2>3. \A j \in 1..Len(replies') : j # i => replies'[j].type # "stopped"
    BY <1>1, <1>5, <2>1
  <2> QED
    BY <1>1, <1>5, <2>1, <2>2, <2>3 DEF HasStopped
<1> QED
  BY <1>2, <1>3, <1>4, <1>5

\* What is left to read when a line has been read.
LEMMA LineRead ==
  ASSUME replies \in Seq(AgentLine), replies # <<>>, replies' = Tail(replies)
  PROVE  /\ GoesOn => GoesOn' /\ Head(replies).type \notin {"end", "stopped"}
         /\ \A t \in Turns : HasEnded(t) =>
              \/ Head(replies) = Line("end", t) /\ replies' = <<>>
              \/ Head(replies).type \notin {"end", "stopped"} /\ HasEnded(t)'
         /\ \A t \in Turns : HasStopped(t) =>
              \/ Head(replies) = Line("stopped", t) /\ AtMostLate'
              \/ Head(replies).type # "stopped" /\ HasStopped(t)'
         /\ AtMostLate => Head(replies).type = "end" /\ replies' = <<>>
<1>1. /\ Head(replies) = replies[1]
      /\ Len(replies) \in Nat \ {0} /\ Len(replies') = Len(replies) - 1
      /\ (Len(replies) = 1) = (replies' = <<>>)
      /\ \A i \in 1..Len(replies') : replies'[i] = replies[i + 1]
  BY AfterTail
<1>2. ASSUME GoesOn PROVE GoesOn' /\ Head(replies).type \notin {"end", "stopped"}
  BY <1>1, <1>2 DEF GoesOn
<1>3. ASSUME Len(replies) # 1
      PROVE  /\ replies'[Len(replies')] = replies[Len(replies)]
             /\ \A i \in 1..(Len(replies') - 1) : i + 1 \in 1..(Len(replies) - 1)
             /\ 1 \in 1..(Len(replies) - 1)
  BY <1>1, <1>3
<1>4. ASSUME NEW t \in Turns, HasEnded(t)
      PROVE  \/ Head(replies) = Line("end", t) /\ replies' = <<>>
             \/ Head(replies).type \notin {"end", "stopped"} /\ HasEnded(t)'
  BY <1>1, <1>3, <1>4 DEF HasEnded
<1>5. ASSUME NEW t \in Turns, HasStopped(t)
      PROVE  \/ Head(replies) = Line("stopped", t) /\ AtMostLate'
             \/ Head(replies).type # "stopped" /\ HasStopped(t)'
  <2>1. PICK i \in 1..Len(replies) :
          /\ replies[i] = Line("stopped", t)
          /\ \A j \in 1..Len(replies) : j # i => replies[j].type # "stopped"
          /\ i = Len(replies) \/ (i = Len(replies) - 1 /\ replies[Len(replies)].type = "end")
    BY <1>5 DEF HasStopped
  <2>2. CASE i = 1
    <3>1. Len(replies') = 0 \/ (Len(replies') = 1 /\ replies'[1].type = "end")
      <4>1. CASE Len(replies) = 1
        BY <1>1, <4>1
      <4>2. CASE Len(replies) # 1
        <5>1. Len(replies) = 2 /\ replies[2].type = "end"
          BY <1>1, <2>1, <2>2, <4>2
        <5>2. 1 \in 1..Len(replies') /\ 1 + 1 = 2
          BY <1>1, <5>1
        <5>3. replies'[1] = replies[2]
          BY <1>1, <5>2
        <5> QED
          BY <1>1, <5>1, <5>3
      <4> QED
        BY <4>1, <4>2
    <3>2. Len(replies') = 0 => replies' = <<>>
      BY <1>1
    <3> QED
      BY <1>1, <2>1, <2>2, <3>1, <3>2 DEF AtMostLate
  <2>3. CASE i # 1
    <3>0. i \in Int /\ Len(replies) \in Int /\ 1 <= i /\ i <= Len(replies) /\ Len(replies') = Len(replies) - 1
      BY <1>1
    <3> DEFINE k == i - 1
    <3>1. k \in 1..Len(replies') /\ k + 1 = i /\ 1 \in 1..Len(replies) /\ Len(replies) # 1
      BY <1>1, <2>3, <3>0
    <3> HIDE DEF k
    <3>2. replies'[k] = Line("stopped", t) /\ Head(replies).type # "stopped"
      <4>1. replies'[k] = replies[k + 1]
        BY <1>1, <3>1
      <4>2. replies[1].type # "stopped"
        BY <2>1, <2>3, <3>1
      <4>3. Head(replies) = replies[1]
        BY <1>1
      <4>4. replies[k + 1] = Line("stopped", t)
        BY <2>1, <3>1
      <4> QED
        BY <4>1, <4>2, <4>3, <4>4
    <3>3. ASSUME NEW j \in 1..Len(replies'), j # k
          PROVE  replies'[j].type # "stopped"
      <4>1. j + 1 \in 1..Len(replies) /\ j + 1 # k + 1 /\ replies'[j] = replies[j + 1]
        BY <1>1, <3>1, <3>3
      <4> QED
        BY <2>1, <3>1, <4>1
    <3>4. k = Len(replies') \/ (k = Len(replies') - 1 /\ replies'[Len(replies')].type = "end")
      <4>1. CASE i = Len(replies)
        BY ONLY <3>0, <4>1 DEF k
      <4>2. CASE i = Len(replies) - 1 /\ replies[Len(replies)].type = "end"
        <5>1. k = Len(replies') - 1
          BY ONLY <3>0, <4>2 DEF k
        <5>2. replies'[Len(replies')] = replies[Len(replies)]
          BY <1>3, <3>1
        <5> QED
          BY <4>2, <5>1, <5>2
      <4> QED
        BY <2>1, <4>1, <4>2
    <3> QED
      BY <3>1, <3>2, <3>3, <3>4 DEF HasStopped
  <2> QED
    BY <2>2, <2>3
<1>6. ASSUME AtMostLate PROVE Head(replies).type = "end" /\ replies' = <<>>
  BY <1>1, <1>6 DEF AtMostLate
<1> QED
  BY <1>2, <1>4, <1>5, <1>6

\* Steps in which no turn begins or ends and no abort is asked for or answered.
LEMMA AgentKeeps ==
  ASSUME TokenInvariant, AgentInvariant, Generating' = Generating,
         UNCHANGED <<aborting, aborted, currentTurnCleanup>>,
         AtRest => AtRest' /\ replies' \in Seq(AgentLine),
         \A t \in Turns : Held /\ Serves(t) => Serves(t)' /\ replies' \in Seq(AgentLine),
         \A t \in Turns : Stops(t) => Stops(t)' /\ replies' \in Seq(AgentLine)
  PROVE  AgentInvariant'
<1>1. CASE Held
  <2>1. PICK t \in Turns : Generating = {t} /\ currentTurnCleanup = t
    BY <1>1 DEF Held
  <2>2. Serves(t) /\ NoAbort
    BY <1>1, <2>1 DEF AgentInvariant, Held
  <2>3. Serves(t)' /\ replies' \in Seq(AgentLine)
    BY <1>1, <2>2
  <2>4. ~Free' /\ ~Granted' /\ aborted' = {} /\ aborting' = {}
    BY <2>1, <2>2 DEF Free, Granted, NoAbort
  <2> QED
    BY <2>1, <2>3, <2>4 DEF AgentInvariant
<1>2. CASE Free \/ Granted \/ aborted # {}
  <2>1. AtRest' /\ replies' \in Seq(AgentLine) /\ aborting = {} /\ Generating = {}
    BY <1>2 DEF AgentInvariant, TokenInvariant, Free, Granted, Held, Aborting, NoAbort
  <2>2. ~Held' /\ aborting' = {}
    BY <2>1 DEF Held
  <2> QED
    BY <2>1, <2>2 DEF AgentInvariant
<1>3. CASE aborting # {} /\ aborted = {}
  <2>1. PICK t \in Turns : aborting = {t} /\ Stops(t)
    BY <1>3 DEF AgentInvariant
  <2>2. Stops(t)' /\ replies' \in Seq(AgentLine)
    BY <2>1
  <2>3. Generating = {}
    BY <1>3 DEF TokenInvariant, Free, Granted, Held, Aborting, NoAbort
  <2>4. ~Free' /\ ~Granted' /\ aborted' = {} /\ ~Held'
    BY <1>3, <2>3 DEF Free, Granted, Held, NoAbort
  <2> QED
    BY <2>2, <2>4 DEF AgentInvariant
<1> QED
  BY <1>1, <1>2, <1>3 DEF TokenInvariant, Aborting

\* The agent answers an abort behind the agent_end of the run, or before it.
LEMMA AnswersInOrder ==
  ASSUME NEW t \in Turns, agentStops, replies \in Seq(AgentLine), stopping = <<t>>, run = t
  PROVE  \/ replies' = Append(Append(replies, Line("end", t)), Line("stopped", t))
         \/ replies' = Append(Append(replies, Line("stopped", t)), Line("end", t))
<1> DEFINE e == Line("end", t)
           a == Line("stopped", t)
           answers == [i \in 1..Len(stopping) |-> Line("stopped", stopping[i])]
<1>1. e \in AgentLine /\ a \in AgentLine
  BY DEF Line, AgentLine
<1>2. answers = <<a>>
  <2>1. Len(stopping) = 1 /\ stopping[1] = t
    OBVIOUS
  <2>2. answers = [i \in 1..1 |-> Line("stopped", stopping[i])]
    BY <2>1
  <2>3. \A i \in 1..1 : Line("stopped", stopping[i]) = a
    BY <2>1
  <2>4. answers = [i \in 1..1 |-> a]
    BY <2>2, <2>3
  <2> HIDE DEF a, answers
  <2>5. <<a>> = [i \in 1..1 |-> a]
    OBVIOUS
  <2> QED
    BY <2>4, <2>5
<1>3. replies' = Append(replies, e) \o answers \/ replies' = Append(replies \o answers, e)
  BY DEF agentStops
<1> HIDE DEF e, a, answers
<1> DEFINE r == Append(replies, e)
<1>4. r \in Seq(AgentLine) /\ replies \o <<a>> = Append(replies, a)
  BY <1>1, AppendProperties, AppendIsConcat
<1> HIDE DEF r
<1>5. r \o <<a>> = Append(r, a)
  BY <1>1, <1>4, AppendIsConcat
<1>6. replies' = r \o <<a>> \/ replies' = Append(replies \o <<a>>, e)
  BY <1>2, <1>3 DEF r
<1> QED
  BY <1>4, <1>5, <1>6 DEF r, e, a

\* What is unread then says that the agent has stopped.
LEMMA AgentAnswers ==
  ASSUME NEW t \in Turns, agentStops, replies \in Seq(AgentLine), stopping = <<t>>, run = t, GoesOn
  PROVE  replies' \in Seq(AgentLine) /\ HasStopped(t)'
<1> DEFINE e == Line("end", t)
           a == Line("stopped", t)
           r == Append(replies, e)
           q == Append(replies, a)
<1>1. e \in AgentLine /\ a \in AgentLine /\ e.type = "end" /\ a.type = "stopped" /\ a = Line("stopped", t)
      /\ e = Line("end", t)
  BY DEF Line, AgentLine
<1>3. replies' = Append(r, a) \/ replies' = Append(q, e)
  BY AnswersInOrder
<1> HIDE DEF e, a
<1>4. /\ r \in Seq(AgentLine) /\ Len(replies) \in Nat /\ Len(r) = Len(replies) + 1
      /\ \A i \in 1..Len(replies) : r[i] = replies[i]
      /\ r[Len(replies) + 1] = e
  BY <1>1, AppendProperties, LenProperties
<1>5. /\ q \in Seq(AgentLine) /\ Len(q) = Len(replies) + 1
      /\ \A i \in 1..Len(replies) : q[i] = replies[i]
      /\ q[Len(replies) + 1] = a
  BY <1>1, AppendProperties, LenProperties
<1>6. \A i \in 1..Len(replies) : replies[i].type # "stopped"
  BY DEF GoesOn
<1>8. CASE replies' = Append(r, a)
  <2> HIDE DEF r
  <2>1. /\ replies' \in Seq(AgentLine) /\ Len(replies') = Len(r) + 1
        /\ \A i \in 1..Len(r) : replies'[i] = r[i]
        /\ replies'[Len(r) + 1] = a
    BY ONLY <1>8, <1>4, <1>1, AppendProperties, LenProperties
  <2>2. \A i \in 1..Len(r) : replies'[i].type # "stopped"
    <3>1. \A i \in 1..Len(r) : i \in 1..Len(replies) \/ i = Len(replies) + 1
      BY <1>4
    <3>2. \A i \in 1..Len(r) : r[i].type # "stopped"
      BY <1>1, <1>4, <1>6, <3>1
    <3> QED
      BY <2>1, <3>2
  <2>3. Len(replies') \in 1..Len(replies') /\ \A j \in 1..Len(replies') : j # Len(replies') => j \in 1..Len(r)
    BY <1>4, <2>1
  <2>4. replies'[Len(replies')] = Line("stopped", t)
    BY <1>1, <2>1
  <2>5. \A j \in 1..Len(replies') : j # Len(replies') => replies'[j].type # "stopped"
    BY <2>2, <2>3
  <2> QED
    BY <2>1, <2>3, <2>4, <2>5 DEF HasStopped
<1>9. CASE replies' = Append(q, e)
  <2> HIDE DEF q
  <2>1. /\ replies' \in Seq(AgentLine) /\ Len(replies') = Len(q) + 1
        /\ \A i \in 1..Len(q) : replies'[i] = q[i]
        /\ replies'[Len(q) + 1] = e
    BY ONLY <1>9, <1>5, <1>1, AppendProperties, LenProperties
  <2>2. Len(q) \in 1..Len(replies') /\ Len(q) = Len(replies') - 1 /\ Len(q) \in 1..Len(q)
    BY <1>4, <1>5, <2>1
  <2>3. replies'[Len(q)] = Line("stopped", t) /\ replies'[Len(replies')].type = "end"
    BY <1>1, <1>4, <1>5, <2>1, <2>2
  <2>4. ASSUME NEW j \in 1..Len(replies'), j # Len(q)
        PROVE  replies'[j].type # "stopped"
    <3>1. j \in 1..Len(replies) \/ j = Len(replies')
      BY <1>4, <1>5, <2>1, <2>4
    <3>2. CASE j \in 1..Len(replies)
      <4>1. j \in 1..Len(q)
        BY <1>4, <1>5, <3>2
      <4> QED
        BY <1>5, <1>6, <2>1, <3>2, <4>1
    <3>3. CASE j = Len(replies')
      BY <2>3, <3>3
    <3> QED
      BY <3>1, <3>2, <3>3
  <2> DEFINE k == Len(q)
  <2>5. /\ k \in 1..Len(replies') /\ replies'[k] = Line("stopped", t)
        /\ \A j \in 1..Len(replies') : j # k => replies'[j].type # "stopped"
        /\ k = Len(replies') - 1 /\ replies'[Len(replies')].type = "end"
    BY <2>2, <2>3, <2>4
  <2> HIDE DEF k
  <2>6. HasStopped(t)'
    BY <2>5 DEF HasStopped
  <2> QED
    BY <2>1, <2>6
<1> QED
  BY <1>3, <1>8, <1>9

\* The approvals asked for are added behind the lines unread.
LEMMA AsksBehind ==
  ASSUME NEW t \in Turns, agentAsks, replies \in Seq(AgentLine), run = t
  PROVE  /\ replies' \in Seq(AgentLine) /\ Len(replies) \in Nat
         /\ \A i \in 1..Len(replies) : replies'[i] = replies[i]
         /\ \A i \in 1..Len(replies') : i \in 1..Len(replies) \/ replies'[i] = Line("ask", t)
<1>1. PICK n \in 1..MaxAsks : replies' = replies \o [i \in 1..n |-> Line("ask", run)]
  BY DEF agentAsks
<1> DEFINE l == Line("ask", run)
           s == [i \in 1..n |-> l]
<1>2. l \in AgentLine /\ n \in Nat /\ l = Line("ask", t)
  BY TurnAssumption DEF Line, AgentLine
<1> HIDE DEF l
<1>3. s \in Seq(AgentLine) /\ Len(s) = n /\ \A i \in 1..n : s[i] = l
  BY <1>2
<1> HIDE DEF s
<1>4. replies' = replies \o s
  BY <1>1 DEF l, s
<1>5. /\ replies' \in Seq(AgentLine) /\ Len(replies') = Len(replies) + Len(s)
      /\ \A i \in 1..Len(replies) + Len(s) : replies'[i] = IF i <= Len(replies) THEN replies[i] ELSE s[i - Len(replies)]
  BY <1>3, <1>4, ConcatProperties
<1>6. Len(replies) \in Nat
  BY LenProperties
<1>7. ASSUME NEW i \in 1..Len(replies) PROVE replies'[i] = replies[i]
  BY <1>2, <1>3, <1>5, <1>6
<1>8. ASSUME NEW i \in 1..Len(replies'), i \notin 1..Len(replies) PROVE replies'[i] = Line("ask", t)
  <2>1. ~(i <= Len(replies)) /\ i - Len(replies) \in 1..n /\ i \in 1..Len(replies) + Len(s)
    BY <1>2, <1>3, <1>5, <1>6, <1>8
  <2> QED
    BY <1>2, <1>3, <1>5, <2>1
<1> QED
  BY <1>5, <1>6, <1>7, <1>8

\* They are no end of the run.
LEMMA AgentAsksOn ==
  ASSUME NEW t \in Turns, agentAsks, replies \in Seq(AgentLine), run = t, GoesOn
  PROVE  replies' \in Seq(AgentLine) /\ GoesOn'
<1>1. Line("ask", t).type = "ask"
  BY DEF Line
<1> QED
  BY <1>1, AsksBehind DEF GoesOn

\* The agent works, ends or stops the one turn it was asked for.
LEMMA AgentWorksOn ==
  ASSUME TokenInvariant, AgentInvariant, ~Failure,
         \/ agentTakesPrompt \/ agentTakesAbort \/ agentStops
         \/ agentWorks \/ agentAsks \/ agentEnds
  PROVE  AgentInvariant'
<1>1. /\ Generating' = Generating /\ UNCHANGED <<aborting, aborted, currentTurnCleanup>>
      /\ replies \in Seq(AgentLine) /\ NoTurn \notin Turns
  BY TurnAssumption DEF agentTakesPrompt, agentTakesAbort, agentStops, agentWorks, agentAsks, agentEnds,
     Host, Generating, AgentInvariant
<1>2. ~AtRest
  BY DEF AtRest, agentTakesPrompt, agentTakesAbort, agentStops, agentWorks, agentAsks, agentEnds
<1>3. ASSUME NEW t \in Turns
      PROVE  \A k \in {"event", "accepted", "stopped", "end", "ask"} : Line(k, t) \in AgentLine
  BY <1>3 DEF Line, AgentLine
<1>5. ASSUME NEW t \in Turns, Serves(t) \/ Stops(t)
      PROVE  /\ Serves(t) => Serves(t)' /\ replies' \in Seq(AgentLine)
             /\ Stops(t) => Stops(t)' /\ replies' \in Seq(AgentLine)
  <2>1. CASE agentTakesPrompt
    <3>1. Head(commands) = Prompt(t) /\ run = NoTurn /\ replies = <<>> /\ stopping = <<>>
      BY <1>5, <2>1 DEF agentTakesPrompt, Serves, Stops, Prompt, Abort
    <3>2. run' = t /\ replies' = Append(replies, Line("accepted", t)) /\ stopping' = <<>>
      BY <1>1, <2>1, <3>1 DEF agentTakesPrompt, Failure, Prompt
    <3>3. replies' \in Seq(AgentLine) /\ GoesOn'
      <4>1. GoesOn
        BY <3>1, EmptySeq DEF GoesOn
      <4>2. Line("accepted", t) \in AgentLine /\ Line("accepted", t).type = "accepted"
        BY <1>3 DEF Line
      <4> QED
        BY <1>1, <3>2, <4>1, <4>2, AfterAppend, LineSaid
    <3>4. commands' = Tail(commands)
      BY <2>1 DEF agentTakesPrompt
    <3>5. ASSUME Serves(t) PROVE Serves(t)'
      <4>1. commands = <<Prompt(t)>>
        BY <1>1, <3>1, <3>5 DEF Serves, HasEnded
      <4>2. commands' = <<>>
        BY <3>4, <4>1, CommandLines
      <4> QED
        BY <3>2, <3>3, <4>2 DEF Serves
    <3>6. ASSUME Stops(t) PROVE Stops(t)'
      <4>1. commands = <<Prompt(t), Abort(t)>>
        <5>1. Head(commands) # Abort(t)
          BY <3>1, CommandLines
        <5>2. commands # <<Abort(t)>> /\ run # t /\ commands # <<>>
          BY <1>1, <2>1, <3>1, <5>1, CommandLines DEF agentTakesPrompt
        <5> QED
          BY <3>6, <5>2 DEF Stops
      <4>2. commands' = <<Abort(t)>>
        BY <3>4, <4>1, CommandLines
      <4> QED
        BY <3>2, <3>3, <4>2 DEF Stops
    <3> QED
      BY <3>3, <3>5, <3>6
  <2>2. CASE agentTakesAbort
    <3>1. commands = <<Abort(t)>> /\ stopping = <<>> /\ ((run = t /\ GoesOn) \/ (run = NoTurn /\ (replies = <<>> \/ HasEnded(t))))
      <4>1. commands # <<>> /\ commands # <<Prompt(t)>> /\ commands # <<Prompt(t), Abort(t)>>
        <5>1. commands # <<>> /\ Head(commands).type = "abort"
          BY <2>2 DEF agentTakesAbort
        <5> QED
          BY <5>1, CommandLines
      <4> QED
        BY <1>5, <4>1 DEF Serves, Stops
    <3>2. ~Serves(t)
      BY <3>1, CommandLines DEF Serves
    <3>3. commands' = <<>>
      BY <2>2, <3>1, CommandLines DEF agentTakesAbort
    <3>6. Head(commands).of = t
      <4>1. Head(commands) = Abort(t)
        BY <3>1, CommandLines
      <4>2. Abort(t).of = t
        BY DEF Abort
      <4> QED
        BY <4>1, <4>2
    <3>4. CASE run = t
      <4>1. stopping' = <<t>> /\ UNCHANGED <<run, replies>>
        <5>1. stopping' = Append(<<>>, t)
          BY <1>1, <2>2, <3>1, <3>4, <3>6 DEF agentTakesAbort
        <5>2. Append(<<>>, t) = <<t>>
          OBVIOUS
        <5> QED
          BY <1>1, <2>2, <3>4, <5>1, <5>2 DEF agentTakesAbort
      <4> QED
        BY <1>1, <3>1, <3>2, <3>3, <3>4, <4>1 DEF Stops, GoesOn
    <3>5. CASE run = NoTurn
      <4>1. replies' = Append(replies, Line("stopped", t)) /\ run' = NoTurn /\ stopping' = <<>>
        BY <2>2, <3>1, <3>5, <3>6 DEF agentTakesAbort
      <4>2. Line("stopped", t) \in AgentLine /\ (replies = <<>> \/ HasEnded(t))
        BY <1>1, <1>3, <3>1, <3>5
      <4>3. HasStopped(t)' /\ replies' \in Seq(AgentLine)
        BY <1>1, <4>1, <4>2, AfterAppend, LineSaid
      <4> QED
        BY <3>2, <3>3, <4>1, <4>3 DEF Stops
    <3> QED
      BY <3>1, <3>4, <3>5
  <2>3. CASE agentStops
    <3>1. stopping = <<t>> /\ commands = <<>> /\ run = t /\ GoesOn /\ ~Serves(t)
      <4>1. stopping # <<>> /\ run # NoTurn
        BY <2>3 DEF agentStops
      <4> QED
        BY <1>1, <1>5, <4>1 DEF Serves, Stops
    <3>2. run' = NoTurn /\ stopping' = <<>> /\ commands' = <<>>
      BY <2>3, <3>1 DEF agentStops
    <3>3. replies' \in Seq(AgentLine) /\ HasStopped(t)'
      BY <1>1, <2>3, <3>1, AgentAnswers
    <3> QED
      BY <3>1, <3>2, <3>3 DEF Stops
  <2>4. CASE agentWorks \/ agentAsks \/ agentEnds
    <3>1. run = t /\ stopping = <<>> /\ GoesOn /\ UNCHANGED <<commands, stopping>>
      BY <1>1, <1>5, <2>4 DEF agentWorks, agentAsks, agentEnds, Serves, Stops
    <3>2. CASE agentWorks \/ agentAsks
      <4>1. replies' \in Seq(AgentLine) /\ GoesOn'
        <5>1. CASE agentWorks
          <6>1. Line("event", t) \in AgentLine /\ Line("event", t).type = "event"
            BY <1>3 DEF Line
          <6> QED
            BY <1>1, <3>1, <5>1, <6>1, AfterAppend, LineSaid DEF agentWorks
        <5>2. CASE agentAsks
          BY <1>1, <3>1, <5>2, AgentAsksOn
        <5> QED
          BY <3>2, <5>1, <5>2
      <4>2. run' = run
        BY <3>2 DEF agentWorks, agentAsks
      <4> QED
        BY <1>1, <3>1, <4>1, <4>2 DEF Serves, Stops
    <3>3. CASE agentEnds
      <4>1. replies' = Append(replies, Line("end", t)) /\ run' = NoTurn
        BY <3>1, <3>3 DEF agentEnds, Failure
      <4>2. replies' \in Seq(AgentLine) /\ HasEnded(t)'
        BY <1>1, <1>3, <3>1, <4>1, AfterAppend, LineSaid
      <4> QED
        BY <1>1, <3>1, <4>1, <4>2 DEF Serves, Stops
    <3> QED
      BY <2>4, <3>2, <3>3
  <2> QED
    BY <2>1, <2>2, <2>3, <2>4
<1> QED
  BY <1>1, <1>2, <1>5, AgentKeeps

\* The host reads what the agent has said of the one turn it was asked for.
LEMMA HostReads ==
  ASSUME TokenInvariant, TokenInvariant', AgentInvariant,
         receiveEvent \/ receiveAccepted \/ receiveStopped \/ receiveEnd \/ approvalRequest
  PROVE  AgentInvariant'
<1>1. /\ replies \in Seq(AgentLine) /\ replies # <<>> /\ replies' = Tail(replies)
      /\ UNCHANGED <<commands, run, stopping, currentTurnCleanup>> /\ NoTurn \notin Turns
  BY TurnAssumption DEF AgentInvariant, receiveEvent, receiveAccepted, receiveStopped, receiveEnd,
     approvalRequest, Receive
<1>2. /\ replies' \in Seq(AgentLine)
      /\ AtRest => Head(replies).type = "end" /\ AtRest'
  <2>1. AtMostLate => Head(replies).type = "end" /\ replies' = <<>>
    BY <1>1, LineRead
  <2> QED
    BY <1>1, <2>1, AfterTail DEF AtRest, AtMostLate
<1>3. ASSUME NEW t \in Turns
      PROVE  /\ Serves(t) => \/ Head(replies).type \notin {"end", "stopped"} /\ Serves(t)'
                             \/ Head(replies) = Line("end", t) /\ AtRest'
             /\ Stops(t) => \/ Head(replies).type # "stopped" /\ Stops(t)'
                            \/ Head(replies) = Line("stopped", t) /\ AtRest'
  <2>1. /\ GoesOn => GoesOn' /\ Head(replies).type \notin {"end", "stopped"}
        /\ HasEnded(t) => \/ Head(replies) = Line("end", t) /\ replies' = <<>>
                          \/ Head(replies).type \notin {"end", "stopped"} /\ HasEnded(t)'
        /\ HasStopped(t) => \/ Head(replies) = Line("stopped", t) /\ AtMostLate'
                            \/ Head(replies).type # "stopped" /\ HasStopped(t)'
    BY <1>1, LineRead
  <2>2. ASSUME Serves(t)
        PROVE  \/ Head(replies).type \notin {"end", "stopped"} /\ Serves(t)'
               \/ Head(replies) = Line("end", t) /\ AtRest'
    <3>1. CASE run = t
      <4>1. stopping = <<>> /\ commands = <<>> /\ GoesOn
        BY <1>1, <2>2, <3>1 DEF Serves
      <4> QED
        BY <1>1, <2>1, <3>1, <4>1 DEF Serves
    <3>2. CASE run # t
      <4>1. stopping = <<>> /\ commands = <<>> /\ run = NoTurn /\ HasEnded(t)
        BY <1>1, <2>2, <3>2 DEF Serves
      <4> QED
        BY <1>1, <2>1, <4>1 DEF Serves, AtRest, AtMostLate
    <3> QED
      BY <3>1, <3>2
  <2>3. ASSUME Stops(t)
        PROVE  \/ Head(replies).type # "stopped" /\ Stops(t)'
               \/ Head(replies) = Line("stopped", t) /\ AtRest'
    <3>1. CASE run = t
      <4>1. GoesOn /\ ((stopping = <<>> /\ commands = <<Abort(t)>>) \/ (stopping = <<t>> /\ commands = <<>>))
        BY <1>1, <2>3, <3>1 DEF Stops
      <4> QED
        BY <1>1, <2>1, <3>1, <4>1 DEF Stops
    <3>2. CASE run # t /\ commands = <<Abort(t)>>
      <4>1. stopping = <<>> /\ run = NoTurn /\ HasEnded(t)
        BY <1>1, <2>3, <3>2, CommandLines DEF Stops
      <4>2. Head(replies).type # "stopped" /\ (replies' = <<>> \/ HasEnded(t)')
        BY <2>1, <4>1 DEF Line
      <4> QED
        BY <1>1, <3>2, <4>1, <4>2 DEF Stops
    <3>3. CASE run # t /\ commands # <<Abort(t)>>
      <4>1. stopping = <<>> /\ commands = <<>> /\ run = NoTurn /\ HasStopped(t)
        BY <1>1, <2>3, <3>3 DEF Stops
      <4> QED
        BY <1>1, <2>1, <4>1 DEF Stops, AtRest
    <3> QED
      BY <3>1, <3>2, <3>3
  <2> QED
    BY <2>2, <2>3
<1>4. CASE receiveEvent \/ receiveAccepted \/ approvalRequest
  <2>1. Head(replies).type \notin {"end", "stopped"}
    BY <1>4 DEF receiveEvent, receiveAccepted, approvalRequest, Receive
  <2>2. Generating' = Generating /\ UNCHANGED <<aborting, aborted>>
    BY <1>4 DEF receiveEvent, receiveAccepted, approvalRequest, Generating
  <2>3. \A t \in Turns : (Serves(t) => Serves(t)') /\ (Stops(t) => Stops(t)')
    BY <1>3, <2>1 DEF Line
  <2> QED
    BY <1>1, <1>2, <2>1, <2>2, <2>3, AgentKeeps
<1>5. CASE receiveStopped
  <2>1. Head(replies).type = "stopped" /\ Generating' = Generating
    BY <1>5 DEF receiveStopped, Receive, Generating
  <2>2. ~Held
    <3> SUFFICES ASSUME Held PROVE FALSE
      OBVIOUS
    <3>1. currentTurnCleanup \in Turns /\ Serves(currentTurnCleanup)
      BY DEF Held, AgentInvariant
    <3> QED
      BY <1>3, <2>1, <3>1 DEF Line
  <2>3. aborting # {} /\ aborted = {} /\ Generating = {}
    BY <1>2, <2>1, <2>2 DEF TokenInvariant, AgentInvariant, Aborting, NoAbort
  <2>4. PICK t \in Turns : aborting = {t} /\ Stops(t)
    BY <2>3 DEF AgentInvariant
  <2>5. Head(replies) = Line("stopped", t) /\ AtRest'
    BY <1>3, <2>1, <2>4
  <2>6. aborting' = {}
    <3>1. Head(replies).of = t
      BY <2>5 DEF Line
    <3> QED
      BY <1>5, <2>4, <3>1 DEF receiveStopped
  <2>7. ~Held'
    BY <2>1, <2>3 DEF Held
  <2> QED
    BY <1>2, <2>5, <2>6, <2>7 DEF AgentInvariant
<1>6. CASE receiveEnd
  <2>1. Head(replies).type = "end" /\ UNCHANGED <<aborting, aborted>> /\ toIdle(Hearing)
    BY <1>6 DEF receiveEnd, Receive
  <2>2. Hearing = Generating
    BY DEF Hearing, TokenInvariant, Served, Generating
  <2>3. Generating' = {}
    BY <2>1, <2>2 DEF toIdle, Generating
  <2>4. CASE Held
    <3>1. PICK t \in Turns : Generating = {t} /\ currentTurnCleanup = t
      BY <2>4 DEF Held
    <3>2. Serves(t) /\ NoAbort
      BY <2>4, <3>1 DEF AgentInvariant, Held
    <3>3. Head(replies) = Line("end", t) /\ AtRest'
      BY <1>3, <2>1, <3>2
    <3>4. ~Held' /\ aborting' = {}
      BY <2>1, <2>3, <3>2 DEF Held, NoAbort
    <3> QED
      BY <1>2, <3>1, <3>3, <3>4 DEF AgentInvariant
  <2>5. CASE ~Held
    <3>1. Generating = {}
      BY <2>5 DEF TokenInvariant, Free, Granted, Aborting
    <3>2. \A t \in Turns : Stops(t) => Stops(t)'
      BY <1>3, <2>1 DEF Line
    <3> QED
      BY <1>1, <1>2, <2>1, <2>3, <2>5, <3>1, <3>2, AgentKeeps
  <2> QED
    BY <2>4, <2>5
<1> QED
  BY <1>4, <1>5, <1>6

\* Every step that is no failure keeps host and agent at one turn.
LEMMA AgentStep ==
  ASSUME ~AbortQueued, ~Overtaken, LockInvariant, LockInvariant', TokenInvariant, TokenInvariant',
         AgentInvariant, [Next]_vars, ~Failure
  PROVE  AgentInvariant'
<1>0. /\ state \in [Turns -> {"new", "queued", "generating", "idle", "aborted"}]
      /\ NoTurn \notin Turns /\ replies \in Seq(AgentLine)
  BY TurnAssumption DEF LockInvariant, LockTypes, AgentInvariant
<1>1. ASSUME UNCHANGED <<commands, replies, run, stopping, aborting, aborted, currentTurnCleanup>>,
             Generating' = Generating
      PROVE  AgentInvariant'
  <2>1. (AtRest => AtRest') /\ \A t \in Turns : (Serves(t) => Serves(t)') /\ (Stops(t) => Stops(t)')
    BY <1>1 DEF AtRest, AtMostLate, Serves, Stops, GoesOn, HasEnded, HasStopped
  <2> QED
    BY <1>0, <1>1, <2>1, AgentKeeps
<1>2. ASSUME NEW t \in Turns, submitTurn(t) \/ runAborted(t)
      PROVE  AgentInvariant'
  <2>1. Generating' = Generating
    BY <1>0, <1>2 DEF submitTurn, runAborted, Generating
  <2> QED
    BY <1>1, <1>2, <2>1 DEF submitTurn, runAborted, agent
<1>3. ASSUME NEW t \in Turns, runTurn(t)
      PROVE  AgentInvariant'
  <2>1. /\ t \in granted /\ state' = [state EXCEPT ![t] = "generating"] /\ currentTurnCleanup' = t
        /\ UNCHANGED <<aborting, aborted, replies, run, stopping>>
    BY <1>3 DEF runTurn
  <2>2. Granted
    BY <2>1 DEF TokenInvariant, Free, Held, Aborting
  <2>3. AtRest /\ NoAbort /\ replies = <<>>
    <3>1. AtRest /\ NoAbort
      BY <2>2 DEF AgentInvariant, Granted
    <3>2. ~\E i \in 1..Len(replies) : replies[i].type = "end"
      BY <1>3 DEF Overtaken
    <3> QED
      BY <3>1, <3>2 DEF AtRest, AtMostLate
  <2>4. commands' = <<Prompt(t)>>
    BY <1>3, <2>3 DEF runTurn, TokenInvariant, Served, AtRest, Prompt
  <2>5. Serves(t)'
    BY <2>1, <2>3, <2>4 DEF Serves, AtRest
  <2>6. t \in Generating'
    BY <1>0, <2>1 DEF Generating
  <2>7. ~Free' /\ ~Granted' /\ aborted' = {} /\ aborting' = {}
    BY <2>1, <2>3, <2>6 DEF Free, Granted, NoAbort
  <2> QED
    BY <1>0, <2>1, <2>5, <2>7 DEF AgentInvariant
<1>4. ASSUME NEW t \in Turns, promptFails(t)
      PROVE  AgentInvariant'
  BY <1>4 DEF promptFails, TokenInvariant, Served
<1>5. CASE abortReturns
  <2>1. /\ \E t \in aborted : aborted' = aborted \ {t}
        /\ UNCHANGED <<state, aborting, commands, replies, run, stopping>>
    BY <1>5 DEF abortReturns, agent
  <2>2. aborted # {} /\ aborting = {} /\ Generating = {}
    BY <2>1 DEF TokenInvariant, Free, Granted, Held, Aborting, NoAbort
  <2>3. AtRest' /\ Generating' = {}
    BY <2>1, <2>2 DEF AgentInvariant, AtRest, AtMostLate, Generating
  <2>4. ~Held' /\ aborting' = {}
    BY <2>1, <2>2, <2>3 DEF Held
  <2> QED
    BY <1>0, <2>1, <2>3, <2>4 DEF AgentInvariant
<1>6. CASE abortCurrentTurn
  <2>1. /\ currentTurn # NoTurn /\ state[currentTurn] \notin {"idle", "aborted", "queued"}
        /\ state' = [state EXCEPT ![currentTurn] = "aborted"]
        /\ UNCHANGED <<replies, run, stopping>>
    BY <1>6 DEF abortCurrentTurn
  <2>2. currentTurn \in Generating
    BY <1>0, <2>1 DEF TokenInvariant, Served, Generating
  <2>3. Held /\ Generating = {currentTurn} /\ currentTurnCleanup = currentTurn /\ currentTurn \in Turns
    BY <2>2 DEF TokenInvariant, Free, Granted, Held, Aborting, Generating
  <2>4. /\ aborting' = {currentTurn} /\ aborted' = {} /\ commands' = Append(commands, Abort(currentTurn))
    BY <1>6, <2>3 DEF abortCurrentTurn, Held, NoAbort, TokenInvariant, Served, Abort
  <2>5. Serves(currentTurn)
    BY <2>3 DEF AgentInvariant
  <2>6. Stops(currentTurn)'
    <3>1. (GoesOn => GoesOn') /\ \A t \in Turns : HasEnded(t) => HasEnded(t)'
      BY <2>1 DEF GoesOn, HasEnded
    <3>2. \E t \in Turns : t = currentTurn /\ Stops(t)' /\ UNCHANGED currentTurn
      <4>1. UNCHANGED currentTurn
        BY <1>6 DEF abortCurrentTurn
      <4>2. PICK t \in Turns : t = currentTurn
        BY <2>3
      <4>3. Serves(t)
        BY <2>5, <4>2
      <4>4. Stops(t)'
        <5>1. stopping' = <<>> /\ run' = run /\ replies' = replies
          BY <2>1, <4>3 DEF Serves
        <5>2. CASE commands = <<Prompt(t)>> /\ run = NoTurn /\ replies = <<>>
          <6>1. commands' = <<Prompt(t), Abort(t)>>
            BY <2>4, <4>2, <5>2, CommandLines
          <6> QED
            BY <5>1, <5>2, <6>1 DEF Stops
        <5>3. CASE commands = <<>> /\ (run = t /\ GoesOn)
          <6>1. commands' = <<Abort(t)>>
            BY <2>4, <4>2, <5>3, CommandLines
          <6> QED
            BY <3>1, <5>1, <5>3, <6>1 DEF Stops
        <5>4. CASE commands = <<>> /\ (run = NoTurn /\ HasEnded(t))
          <6>1. commands' = <<Abort(t)>>
            BY <2>4, <4>2, <5>4, CommandLines
          <6> QED
            BY <3>1, <5>1, <5>4, <6>1 DEF Stops
        <5> QED
          BY <4>3, <5>2, <5>3, <5>4 DEF Serves
      <4> QED
        BY <4>1, <4>2, <4>4
    <3> QED
      BY <3>2
  <2>7. UNCHANGED currentTurn
    BY <1>6 DEF abortCurrentTurn
  <2>8. \E t \in Turns : aborting' = {t} /\ Stops(t)'
    BY <2>3, <2>4, <2>6, <2>7
  <2>9. Generating' = {}
    BY <1>0, <2>1, <2>3 DEF Generating
  <2>10. ~Free' /\ ~Granted' /\ ~Held' /\ aborted' = {}
    BY <2>4, <2>9 DEF Free, Granted, Held, NoAbort
  <2> QED
    BY <1>0, <2>1, <2>8, <2>10 DEF AgentInvariant
<1>7. CASE Timeouts \/ processExit
  BY <1>7 DEF Failure
<1>8. CASE attach
  BY <1>8 DEF attach, TokenInvariant, Served
<1>9. CASE respondToApproval \/ UNCHANGED vars
  <2>1. Generating' = Generating
    BY <1>9 DEF respondToApproval, vars, Generating
  <2> QED
    BY <1>1, <1>9, <2>1 DEF respondToApproval, vars, agent
<1> QED
  BY <1>2, <1>3, <1>4, <1>5, <1>6, <1>7, <1>8, <1>9, AgentWorksOn, HostReads
     DEF Next, Continue, ReadLine, Commands

\* All three invariants hold as long as nothing fails and no late agent_end
\* is overtaken.
LEMMA ServedInOrder ==
  ASSUME ~AbortQueued
  PROVE  HistorySpec => [](LockInvariant /\ (InOrder => TokenInvariant /\ AgentInvariant))
<1> DEFINE Inv == LockInvariant /\ (InOrder => TokenInvariant /\ AgentInvariant)
<1>1. HistoryInit => Inv
  <2> SUFFICES ASSUME Init PROVE TokenInvariant /\ AgentInvariant
    BY LockInit DEF HistoryInit
  <2>1. Generating = {}
    BY DEF Init, Generating
  <2>2. TokenInvariant
    BY <2>1 DEF Init, TokenInvariant, Free, Served, NoAbort
  <2>3. AtRest /\ ~Held /\ aborting = {}
    BY <2>1 DEF Init, AtRest, AtMostLate, Held
  <2> QED
    BY <2>2, <2>3, EmptySeq DEF AgentInvariant, Init, NoAbort
<1>2. Inv /\ [HistoryNext]_historyVars => Inv'
  <2> SUFFICES ASSUME Inv, [HistoryNext]_historyVars PROVE Inv'
    OBVIOUS
  <2>1. [Next]_vars
    BY DEF HistoryNext, historyVars
  <2>2. LockInvariant'
    BY <2>1, LockStep
  <2>3. ASSUME InOrder' PROVE TokenInvariant' /\ AgentInvariant'
    <3>1. CASE HistoryNext
      <4>1. ~Failure /\ ~Overtaken /\ InOrder
        BY <2>3, <3>1 DEF HistoryNext, InOrder, Calm
      <4>2. TokenInvariant'
        BY <2>1, <2>2, <4>1, TokenStep
      <4> QED
        BY <2>1, <2>2, <4>1, <4>2, AgentStep
    <3>2. CASE UNCHANGED historyVars
      <4>1. InOrder
        BY <2>3, <3>2 DEF InOrder, Calm, historyVars
      <4>2. UNCHANGED vars
        BY <3>2 DEF historyVars
      <4>3. TokenInvariant'
        BY <4>1, <4>2, TokenStays DEF vars, timers, agent
      <4>5. /\ Generating' = Generating
            /\ UNCHANGED <<commands, replies, run, stopping, aborting, aborted, currentTurnCleanup>>
        BY <4>2 DEF vars, agent, Generating
      <4>6. (AtRest => AtRest') /\ \A t \in Turns : (Serves(t) => Serves(t)') /\ (Stops(t) => Stops(t)')
        BY <4>5 DEF AtRest, AtMostLate, Serves, Stops, GoesOn, HasEnded, HasStopped
      <4>7. replies' \in Seq(AgentLine)
        BY <4>1, <4>5 DEF AgentInvariant
      <4> QED
        BY <4>1, <4>3, <4>5, <4>6, <4>7, AgentKeeps
    <3> QED
      BY <3>1, <3>2
  <2> QED
    BY <2>2, <2>3
<1> HIDE DEF Inv
<1>3. HistorySpec => []Inv
  BY <1>1, <1>2, PTL DEF HistorySpec
<1> QED
  BY <1>3 DEF Inv

\* The agent is never asked for a turn while it works on another, as long as nothing fails: an
\* abort that is waited for leaves it free, whether the agent_end of the aborted run is read
\* before the reply or after, until a turn starts in between.
THEOREM AgentIsFree ==
  ASSUME ~AbortQueued
  PROVE  HistorySpec => []CalmPromptFindsAgentFree
<1>1. TokenInvariant /\ AgentInvariant => PromptFindsAgentFree
  <2> SUFFICES ASSUME TokenInvariant, AgentInvariant, commands # <<>>, Head(commands).type = "prompt"
               PROVE  run = NoTurn
    BY DEF PromptFindsAgentFree
  <2>1. \E t \in Turns : Serves(t) \/ Stops(t)
    BY DEF TokenInvariant, AgentInvariant, AtRest, Held, Aborting
  <2> QED
    BY <2>1 DEF Serves, Stops, Prompt, Abort
<1>2. LockInvariant /\ (InOrder => TokenInvariant /\ AgentInvariant) => CalmPromptFindsAgentFree
  BY <1>1 DEF CalmPromptFindsAgentFree
<1> QED
  BY <1>2, ServedInOrder, PTL

\* An agent_end that finds a turn generating is that of its run.
LEMMA EndIsOwn ==
  ASSUME TokenInvariant, AgentInvariant, receiveEnd, NEW t \in Generating
  PROVE  Head(replies).of = t
<1>1. replies \in Seq(AgentLine) /\ replies # <<>> /\ replies' = Tail(replies) /\ Head(replies).type = "end"
  BY DEF AgentInvariant, receiveEnd, Receive
<1>2. t \in Turns /\ Serves(t)
  BY DEF TokenInvariant, AgentInvariant, Free, Granted, Held, Aborting, Generating
<1>3. GoesOn \/ HasEnded(t)
  BY <1>1, <1>2 DEF Serves
<1>4. Head(replies) = Line("end", t)
  BY <1>1, <1>2, <1>3, LineRead
<1> QED
  BY <1>4 DEF Line

\* A turn is closed by the end of its own run, as long as nothing fails: the agent_end of an
\* aborted run, read before the reply to the abort or after, reaches the next turn only if that
\* turn has started before it is read.
THEOREM TurnsEndWithTheirRun ==
  ASSUME ~AbortQueued
  PROVE  HistorySpec => CalmEndsWithItsOwnRun
<1> DEFINE Inv == LockInvariant /\ (InOrder => TokenInvariant /\ AgentInvariant)
           Own == \A t \in Turns : InOrder /\ receiveEnd /\ state[t] = "generating" /\ state'[t] = "idle"
                                   => Head(replies).of = t
<1>1. Inv /\ [HistoryNext]_historyVars => [Own]_vars
  <2> SUFFICES ASSUME Inv, NEW t \in Turns, InOrder, receiveEnd, state[t] = "generating"
               PROVE  Head(replies).of = t
    BY DEF historyVars
  <2>1. t \in Generating
    BY DEF Generating
  <2> QED
    BY <2>1, EndIsOwn
<1>2. HistorySpec => []Inv
  BY ServedInOrder
<1> HIDE DEF Inv
<1> QED
  BY <1>1, <1>2, PTL DEF HistorySpec, CalmEndsWithItsOwnRun
-----------------------------------------------------------------------------
(***************************************************************************)
(* The pause of the safety timer.  An approval is open only during a run,  *)
(* and no turn is granted the lock meanwhile; so nothing sets a timer that *)
(* the request has paused, unless several approvals are asked for.         *)
(***************************************************************************)

\* At most one approval is asked for or open, and only during a run.
OneAsk ==
  /\ asks \in {0, 1}
  /\ asks = 1 => run # NoTurn
  /\ \A i \in 1..Len(replies) : replies[i].type = "ask" =>
       /\ asks = 0 /\ run # NoTurn
       /\ \A j \in 1..Len(replies) : replies[j].type = "ask" => j = i

TimersPaused ==
  /\ safetyTimer \subseteq listening
  /\ asks = 1 => safetyTimer = {} /\ listening \subseteq approvalPending

\* The host reads or writes a line, or neither.
LEMMA HostKeepsOneAsk ==
  ASSUME OneAsk, replies \in Seq(AgentLine), UNCHANGED run,
         \/ UNCHANGED <<asks, replies>>
         \/ asks = 1 /\ asks' = 0 /\ UNCHANGED replies
         \/ /\ replies # <<>> /\ replies' = Tail(replies)
            /\ asks' = IF Head(replies).type = "ask" THEN asks + 1 ELSE asks
  PROVE  OneAsk'
<1>1. CASE UNCHANGED <<asks, replies>>
  BY <1>1 DEF OneAsk
<1>2. CASE asks = 1 /\ asks' = 0 /\ UNCHANGED replies
  BY <1>2 DEF OneAsk
<1>3. CASE /\ replies # <<>> /\ replies' = Tail(replies)
           /\ asks' = IF Head(replies).type = "ask" THEN asks + 1 ELSE asks
  <2>1. /\ Head(replies) = replies[1]
        /\ Len(replies) \in Nat \ {0} /\ Len(replies') = Len(replies) - 1
        /\ \A i \in 1..Len(replies') : replies'[i] = replies[i + 1]
    BY <1>3, AfterTail
  <2>2. \A i \in 1..Len(replies') : i + 1 \in 1..Len(replies) /\ i + 1 # 1
    BY <2>1
  <2>3. 1 \in 1..Len(replies)
    BY <2>1
  <2>4. CASE replies[1].type = "ask"
    <3>1. asks = 0 /\ run # NoTurn /\ asks' = 1
      <4>1. asks = 0 /\ run # NoTurn
        BY <2>3, <2>4 DEF OneAsk
      <4>2. asks' = asks + 1
        BY <1>3, <2>1, <2>4
      <4> QED
        BY <4>1, <4>2
    <3>2. \A i \in 1..Len(replies') : replies'[i].type # "ask"
      BY <2>1, <2>2, <2>3, <2>4 DEF OneAsk
    <3> QED
      BY <3>1, <3>2 DEF OneAsk
  <2>5. CASE replies[1].type # "ask"
    <3>1. asks' = asks
      BY <1>3, <2>1, <2>5
    <3>2. ASSUME NEW i \in 1..Len(replies'), replies'[i].type = "ask",
                 NEW j \in 1..Len(replies'), replies'[j].type = "ask"
          PROVE  asks = 0 /\ run # NoTurn /\ j = i
      <4>1. asks = 0 /\ run # NoTurn /\ j + 1 = i + 1
        BY <2>1, <2>2, <3>2 DEF OneAsk
      <4> QED
        BY <2>1, <4>1
    <3> QED
      BY <3>1, <3>2 DEF OneAsk
  <2> QED
    BY <2>4, <2>5
<1> QED
  BY <1>1, <1>2, <1>3

\* The agent writes other lines behind those unread.
LEMMA OtherLine ==
  ASSUME OneAsk, replies \in Seq(AgentLine), UNCHANGED asks,
         NEW l \in AgentLine, replies' = Append(replies, l), l.type # "ask",
         run' # NoTurn \/ run = NoTurn
  PROVE  OneAsk'
<1>1. /\ Len(replies) \in Nat /\ Len(replies') = Len(replies) + 1
      /\ replies'[Len(replies')] = l
      /\ \A i \in 1..Len(replies) : replies'[i] = replies[i]
  BY AfterAppend
<1>2. ASSUME NEW i \in 1..Len(replies'), replies'[i].type = "ask"
      PROVE  i \in 1..Len(replies) /\ replies[i].type = "ask"
  BY <1>1, <1>2
<1> QED
  BY <1>2 DEF OneAsk

\* No approval is open or asked for.
LEMMA NothingAsked ==
  ASSUME OneAsk, replies \in Seq(AgentLine), Asked = 0
  PROVE  asks = 0 /\ \A i \in 1..Len(replies) : replies[i].type # "ask"
<1> DEFINE A == {i \in 1..Len(replies) : replies[i].type = "ask"}
<1>1. IsFiniteSet(1..Len(replies)) /\ A \subseteq 1..Len(replies)
  BY LenProperties, FS_Interval
<1> HIDE DEF A
<1>2. IsFiniteSet(A) /\ Cardinality(A) \in Nat
  BY <1>1, FS_Subset, FS_CardinalityType
<1>3. asks + Cardinality(A) = 0
  BY DEF A, Asked
<1>4. asks = 0 /\ Cardinality(A) = 0
  BY <1>2, <1>3 DEF OneAsk
<1>5. A = {}
  BY <1>2, <1>4, FS_EmptySet
<1> QED
  BY <1>4, <1>5 DEF A

\* The lines of a run that stops ask for nothing.
LEMMA StopsUnasked ==
  ASSUME NEW t \in Turns, agentStops, replies \in Seq(AgentLine), stopping = <<t>>, run = t,
         \A i \in 1..Len(replies) : replies[i].type # "ask"
  PROVE  \A i \in 1..Len(replies') : replies'[i].type # "ask"
<1> DEFINE e == Line("end", t)
           a == Line("stopped", t)
<1>1. e \in AgentLine /\ a \in AgentLine /\ e.type # "ask" /\ a.type # "ask"
  BY DEF Line, AgentLine
<1>2. replies' = Append(Append(replies, e), a) \/ replies' = Append(Append(replies, a), e)
  BY AnswersInOrder
<1> HIDE DEF e, a
<1>3. ASSUME NEW x \in {e, a}, NEW y \in {e, a}, replies' = Append(Append(replies, x), y)
      PROVE  \A i \in 1..Len(replies') : replies'[i].type # "ask"
  <2> DEFINE r == Append(replies, x)
  <2>1. /\ r \in Seq(AgentLine) /\ Len(replies) \in Nat /\ Len(r) = Len(replies) + 1
        /\ \A i \in 1..Len(replies) : r[i] = replies[i]
        /\ r[Len(replies) + 1] = x
    BY <1>1, AppendProperties, LenProperties
  <2>2. replies' = Append(r, y) /\ y \in AgentLine
    BY <1>1, <1>3
  <2> HIDE DEF r
  <2>3. /\ Len(replies') = Len(r) + 1 /\ replies'[Len(r) + 1] = y
        /\ \A i \in 1..Len(r) : replies'[i] = r[i]
    BY ONLY <2>1, <2>2, AppendProperties, LenProperties
  <2>4. \A i \in 1..Len(r) : r[i].type # "ask"
    <3>1. \A i \in 1..Len(r) : i \in 1..Len(replies) \/ i = Len(replies) + 1
      BY <2>1
    <3> QED
      BY <1>1, <1>3, <2>1, <3>1
  <2>5. \A i \in 1..Len(replies') : i \in 1..Len(r) \/ i = Len(r) + 1
    BY <2>1, <2>3
  <2> QED
    BY <1>1, <1>3, <2>3, <2>4, <2>5
<1> QED
  BY <1>2, <1>3

\* What the agent does.
LEMMA AgentKeepsOneAsk ==
  ASSUME AgentInvariant, TokenInvariant, OneAsk, ~Failure, ~Several,
         \/ agentTakesPrompt \/ agentTakesAbort \/ agentStops
         \/ agentWorks \/ agentAsks \/ agentEnds
  PROVE  OneAsk'
<1>1. replies \in Seq(AgentLine) /\ UNCHANGED asks /\ NoTurn \notin Turns
  BY TurnAssumption DEF AgentInvariant, agentTakesPrompt, agentTakesAbort, agentStops,
     agentWorks, agentAsks, agentEnds
<1>2. ASSUME NEW t \in Turns \cup {NoTurn}
      PROVE  \A k \in {"event", "accepted", "stopped", "end", "ask"} :
               Line(k, t) \in AgentLine /\ Line(k, t).type = k
  BY <1>2 DEF Line, AgentLine
<1>3. PICK t \in Turns : Serves(t) \/ Stops(t)
  <2>1. ~AtRest
    BY DEF AtRest, agentTakesPrompt, agentTakesAbort, agentStops, agentWorks, agentAsks, agentEnds
  <2> QED
    BY <2>1 DEF TokenInvariant, AgentInvariant, Held, Aborting
<1>4. run \in Turns \cup {NoTurn} /\ (run # NoTurn => run = t)
  BY <1>3 DEF Serves, Stops
<1>5. CASE agentTakesPrompt
  <2>1. Head(commands) = Prompt(t) /\ run = NoTurn
    <3>1. commands # <<>> /\ Head(commands).type = "prompt"
      BY <1>5 DEF agentTakesPrompt
    <3>2. commands # <<Abort(t)>>
      <4>1. Head(<<Abort(t)>>) = Abort(t) /\ Abort(t).type = "abort"
        BY CommandLines
      <4> QED
        BY <3>1, <4>1
    <3>3. commands \in {<<Prompt(t)>>, <<Prompt(t), Abort(t)>>} /\ run = NoTurn
      BY <1>3, <3>1, <3>2 DEF Serves, Stops
    <3> QED
      BY <3>3, CommandLines
  <2>2. Head(commands).of = t
    BY <2>1, CommandLines
  <2>3. run' = t /\ replies' = Append(replies, Line("accepted", t))
    BY <1>1, <1>5, <2>1, <2>2 DEF agentTakesPrompt, Failure
  <2> QED
    BY <1>1, <1>2, <2>3, OtherLine
<1>6. CASE agentTakesAbort
  <2>1. CASE run = NoTurn
    <3>1. commands # <<>> /\ Head(commands).type = "abort"
      BY <1>6 DEF agentTakesAbort
    <3>2. commands = <<Abort(t)>>
      <4>1. commands # <<Prompt(t)>> /\ commands # <<Prompt(t), Abort(t)>>
        BY <3>1, CommandLines
      <4> QED
        BY <1>3, <3>1, <4>1 DEF Serves, Stops
    <3>3. Head(commands).of = t
      <4>1. Head(commands) = Abort(t)
        BY <3>2, CommandLines
      <4> QED
        BY <4>1 DEF Abort
    <3>4. replies' = Append(replies, Line("stopped", t))
      BY <1>6, <2>1, <3>3 DEF agentTakesAbort
    <3>5. run' = run
      BY <1>6 DEF agentTakesAbort
    <3> QED
      BY <1>1, <1>2, <2>1, <3>4, <3>5, OtherLine
  <2>2. CASE run # NoTurn
    BY <1>6, <2>2 DEF agentTakesAbort, OneAsk
  <2> QED
    BY <2>1, <2>2
<1>7. CASE agentStops \/ agentEnds
  <2>1. Asked = 0
    BY <1>7 DEF agentStops, agentEnds
  <2>2. asks = 0 /\ \A i \in 1..Len(replies) : replies[i].type # "ask"
    BY <1>1, <2>1, NothingAsked
  <2>3. CASE agentEnds
    <3>1. replies' = Append(replies, Line("end", run))
      BY <2>3 DEF agentEnds
    <3>2. Line("end", run) \in AgentLine /\ Line("end", run).type = "end"
      BY <1>2, <1>4
    <3>3. \A i \in 1..Len(replies') : replies'[i].type # "ask"
      <4>1. /\ Len(replies) \in Nat /\ Len(replies') = Len(replies) + 1
            /\ replies'[Len(replies')] = Line("end", run)
            /\ \A i \in 1..Len(replies) : replies'[i] = replies[i]
        BY <1>1, <3>1, <3>2, AfterAppend
      <4> QED
        BY <2>2, <3>2, <4>1
    <3> QED
      BY <1>1, <2>2, <3>3 DEF OneAsk
  <2>4. CASE agentStops
    <3>1. run = t /\ stopping = <<t>> /\ GoesOn
      BY <1>1, <1>3, <1>4, <2>4 DEF agentStops, Serves, Stops
    <3>2. \A i \in 1..Len(replies') : replies'[i].type # "ask"
      BY <1>1, <2>2, <2>4, <3>1, StopsUnasked
    <3> QED
      BY <1>1, <2>2, <3>2 DEF OneAsk
  <2> QED
    BY <1>7, <2>3, <2>4
<1>8. CASE agentWorks
  BY <1>1, <1>2, <1>4, <1>8, OtherLine DEF agentWorks
<1>9. CASE agentAsks
  <2>1. asks = 0 /\ \A i \in 1..Len(replies) : replies[i].type # "ask"
    BY <1>1, <1>9, NothingAsked DEF agentAsks
  <2>2. replies' = Append(replies, Line("ask", run)) /\ run' = run /\ run # NoTurn
    BY <1>9 DEF agentAsks, Several
  <2>3. Line("ask", run) \in AgentLine
    BY <1>2, <1>4
  <2>4. /\ Len(replies) \in Nat /\ Len(replies') = Len(replies) + 1
        /\ \A i \in 1..Len(replies) : replies'[i] = replies[i]
    BY <1>1, <2>2, <2>3, AfterAppend
  <2>5. \A i \in 1..Len(replies') : replies'[i].type = "ask" => i = Len(replies')
    BY <2>1, <2>4
  <2> QED
    BY <1>1, <2>1, <2>2, <2>5 DEF OneAsk
<1> QED
  BY <1>5, <1>6, <1>7, <1>8, <1>9

\* Every step that is no failure keeps the timers paused.
LEMMA AskStep ==
  ASSUME TokenInvariant, AgentInvariant, OneAsk, TimersPaused, [Next]_vars, ~Failure, ~Several
  PROVE  OneAsk' /\ TimersPaused'
<1>1. replies \in Seq(AgentLine)
  BY DEF AgentInvariant
<1>2. ASSUME UNCHANGED <<asks, replies, run, listening, safetyTimer, approvalPending>>
      PROVE  OneAsk' /\ TimersPaused'
  BY <1>1, <1>2, HostKeepsOneAsk DEF TimersPaused
<1>3. ASSUME NEW t \in Turns, submitTurn(t) \/ runAborted(t)
      PROVE  OneAsk' /\ TimersPaused'
  BY <1>2, <1>3 DEF submitTurn, runAborted, agent, timers
<1>4. ASSUME NEW t \in Turns, runTurn(t)
      PROVE  OneAsk' /\ TimersPaused'
  <2>1. t \in granted /\ UNCHANGED <<asks, replies, run>>
    BY <1>4 DEF runTurn
  <2>2. asks = 0
    BY <2>1 DEF TokenInvariant, Free, Held, Aborting, AgentInvariant, AtRest, OneAsk
  <2>3. listening' = listening \cup {t} /\ safetyTimer' = safetyTimer \cup {t}
    BY <1>4 DEF runTurn
  <2> QED
    BY <1>1, <2>1, <2>2, <2>3, HostKeepsOneAsk DEF TimersPaused
<1>5. ASSUME NEW t \in Turns, promptFails(t)
      PROVE  OneAsk' /\ TimersPaused'
  BY <1>5 DEF promptFails, TokenInvariant, Served
<1>6. CASE abortReturns \/ attach \/ UNCHANGED vars
  BY <1>2, <1>6 DEF abortReturns, attach, vars, agent, timers
<1>7. CASE abortCurrentTurn
  <2>1. UNCHANGED <<asks, replies, run>>
    BY <1>7 DEF abortCurrentTurn
  <2>2. clear({currentTurnCleanup})
    BY <1>7 DEF abortCurrentTurn
  <2> QED
    BY <1>1, <2>1, <2>2, HostKeepsOneAsk DEF TimersPaused, clear
<1>8. CASE respondToApproval
  <2>1. asks = 1 /\ asks' = 0 /\ UNCHANGED <<replies, run, listening>>
    BY <1>8 DEF respondToApproval, OneAsk
  <2>2. safetyTimer' = safetyTimer \cup listening
    BY <1>8 DEF respondToApproval
  <2> QED
    BY <1>1, <2>1, <2>2, HostKeepsOneAsk DEF TimersPaused
<1>9. CASE receiveEvent \/ receiveAccepted \/ receiveStopped \/ receiveEnd
  <2>1. /\ replies # <<>> /\ replies' = Tail(replies) /\ Head(replies).type # "ask"
        /\ UNCHANGED <<asks, run>>
    BY <1>9 DEF receiveEvent, receiveAccepted, receiveStopped, receiveEnd, Receive
  <2>2. \/ safetyTimer' \subseteq safetyTimer \cup (listening \ approvalPending)
           /\ UNCHANGED <<listening, approvalPending>>
        \/ clear(Hearing)
    BY <1>9 DEF receiveEvent, receiveAccepted, receiveStopped, receiveEnd, heardBy, Hearing
  <2>3. TimersPaused'
    BY <2>1, <2>2 DEF TimersPaused, clear
  <2> QED
    BY <1>1, <2>1, <2>3, HostKeepsOneAsk
<1>10. CASE approvalRequest
  <2>1. /\ replies # <<>> /\ replies' = Tail(replies) /\ Head(replies).type = "ask"
        /\ asks' = asks + 1 /\ UNCHANGED <<run, listening>>
        /\ approvalPending' = approvalPending \cup listening
        /\ safetyTimer' = safetyTimer \ listening
    BY <1>10 DEF approvalRequest, Receive
  <2> QED
    BY <1>1, <2>1, HostKeepsOneAsk DEF TimersPaused
<1>11. CASE \/ agentTakesPrompt \/ agentTakesAbort \/ agentStops
            \/ agentWorks \/ agentAsks \/ agentEnds
  <2>1. UNCHANGED <<asks, listening, safetyTimer, approvalPending>>
    BY <1>11 DEF agentTakesPrompt, agentTakesAbort, agentStops, agentWorks, agentAsks, agentEnds,
       Host, timers
  <2> QED
    BY <1>11, <2>1, AgentKeepsOneAsk DEF TimersPaused
<1>12. CASE Timeouts \/ processExit
  BY <1>12 DEF Failure
<1> QED
  BY <1>3, <1>4, <1>5, <1>6, <1>7, <1>8, <1>9, <1>10, <1>11, <1>12
     DEF Next, Continue, ReadLine, Commands

\* The safety timer of a turn stays paused while the user decides (orchestrator.ts:263), as
\* long as nothing fails and one approval is open at a time, aborted turns included.
THEOREM NoTimeoutMeanwhile ==
  ASSUME ~AbortQueued
  PROVE  HistorySpec => []CalmNoTimeoutWhileDeciding
<1> DEFINE Inv == LockInvariant /\ (InOrder => TokenInvariant /\ AgentInvariant)
           Alone  == InOrder /\ "several" \notin seen
           Paused == Alone => OneAsk /\ TimersPaused
<1>1. HistoryInit => Paused
  <2> SUFFICES ASSUME Init PROVE OneAsk /\ TimersPaused
    BY DEF HistoryInit
  <2>1. Len(replies) = 0
    BY EmptySeq DEF Init
  <2> QED
    BY <2>1 DEF Init, OneAsk, TimersPaused
<1>2. Inv /\ Paused /\ [HistoryNext]_historyVars => Paused'
  <2> SUFFICES ASSUME Inv, Paused, [HistoryNext]_historyVars, Alone'
               PROVE  OneAsk' /\ TimersPaused'
    OBVIOUS
  <2>1. [Next]_vars
    BY DEF HistoryNext, historyVars
  <2>2. CASE HistoryNext
    <3>1. ~Failure /\ ~Several /\ Alone
      BY <2>2 DEF HistoryNext, InOrder, Calm
    <3> QED
      BY <2>1, <3>1, AskStep
  <2>3. CASE UNCHANGED historyVars
    <3>1. Alone /\ UNCHANGED vars
      BY <2>3 DEF InOrder, Calm, historyVars
    <3> QED
      BY <3>1 DEF vars, agent, timers, OneAsk, TimersPaused
  <2> QED
    BY <2>2, <2>3
<1>3. Paused => CalmNoTimeoutWhileDeciding
  BY DEF OneAsk, TimersPaused, CalmNoTimeoutWhileDeciding, NoTimeoutWhileDeciding
<1>4. HistorySpec => []Inv
  BY ServedInOrder
<1> HIDE DEF Inv, Paused
<1> QED
  BY <1>1, <1>2, <1>3, <1>4, PTL DEF HistorySpec
=============================================================================
