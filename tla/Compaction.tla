----------------------------- MODULE Compaction -----------------------------
(***************************************************************************)
(* Compaction of a session (core/compaction/compaction.ts): where the path *)
(* of entries is cut, which messages the summary is made from, and what    *)
(* the model is shown afterwards (buildSessionContext).  The summary is    *)
(* written while the session goes on, so that preparing a compaction and   *)
(* entering it are two steps.                                              *)
(*                                                                         *)
(* An entry is known by its place in the path.  The text of a summary      *)
(* stands for the messages it was made from.                               *)
(***************************************************************************)
EXTENDS Integers, Sequences, FiniteSetsExt

CONSTANTS
  KeepRecent,  \* keepRecentTokens
  Sizes,       \* sizes of messages, in tokens
  MaxEntries,  \* bound: entries of the path
  AnyTime      \* a compaction may be prepared when the last result has not been answered

ASSUME CompactionAssumption ==
  KeepRecent \in Nat /\ Sizes \subseteq Nat /\ MaxEntries \in Nat /\ AnyTime \in BOOLEAN

\* "custom" stands for messages of extensions and branch summaries, "settings" for the
\* entries that are no part of the context.
Message == {"user", "assistant", "result", "bash"}
Type    == Message \cup {"custom", "settings", "compaction"}

\* kept and summarised are those of a compaction.
Entry == [type : Type, size : Nat, kept : Nat, summarised : SUBSET Nat]

VARIABLES
  path,         \* the entries from the root to the leaf
  open,         \* calls of the last assistant message without a result
  preparation   \* the compaction under way

vars == <<path, open, preparation>>

None        == [kept |-> 0, summarised |-> {}]
Preparation == [kept : Nat, summarised : SUBSET Nat]

IsMessage(e)  == e.type \in Message
InContext(e)  == IsMessage(e) \/ e.type = "custom"
StartsTurn(e) == e.type \in {"user", "bash", "custom"}

\* Mutant: a path may be cut at a result.
CutsAnywhere(e) == InContext(e)

\* findValidCutPoints
IsCutPoint(e) == e.type \in {"user", "assistant", "bash", "custom"}

\* collectMessages: the messages among the entries from a up to and without b.
Messages(p, a, b) == {i \in a..(b - 1) : i \in DOMAIN p /\ InContext(p[i])}

\* The last compaction before an entry, or 0.
CompactionBefore(p, n) == Max({0} \cup {i \in DOMAIN p : p[i].type = "compaction" /\ i < n})

LastCompaction(p)     == CompactionBefore(p, Len(p) + 1)
PreviousCompaction(p) == CompactionBefore(p, LastCompaction(p))

-----------------------------------------------------------------------------
(* What the model is shown: buildSessionContext *)

\* Those shown as they are: after the compaction, and what it kept.
Shown(p) == LET c == LastCompaction(p)
            IN {i \in DOMAIN p : InContext(p[i]) /\ (c = 0 \/ i > c \/ i >= p[c].kept)}

\* The messages the summary was made from.
Summarised(p) == LET c == LastCompaction(p) IN IF c = 0 THEN {} ELSE p[c].summarised

-----------------------------------------------------------------------------
(* Where to cut: findCutPoint *)

\* The tokens from an entry to the end of the path.
Tokens(p, i) == MapThenSumSet(LAMBDA j : IF IsMessage(p[j]) THEN p[j].size ELSE 0, i..Len(p))

\* The first cut point at or after the last entry behind which enough is kept, or the
\* first of all.
CutPoint(p, start) ==
  LET points == {i \in start..Len(p) : IsCutPoint(p[i])}
      enough == {i \in start..Len(p) : IsMessage(p[i]) /\ Tokens(p, i) >= KeepRecent}
      after  == {i \in points : enough # {} /\ i >= Max(enough)}
  IN Min(IF after # {} THEN after ELSE points)

\* Entries that are no messages are kept with the message that follows.
WithSettings(p, start, cut) ==
  Min({k \in start..cut : \A j \in k..(cut - 1) : ~IsMessage(p[j]) /\ p[j].type # "compaction"})

\* The first entry kept: the first of all if there is no cut point.
FirstKept(p, start) ==
  IF \A i \in start..Len(p) : ~IsCutPoint(p[i]) THEN start
  ELSE WithSettings(p, start, CutPoint(p, start))

\* findTurnStartIndex: where the turn begins that is cut in two, or 0.
TurnStart(p, start, cut) ==
  IF p[cut].type = "user" \/ ~\E i \in start..Len(p) : IsCutPoint(p[i]) THEN 0
  ELSE Max({0} \cup {i \in start..cut : StartsTurn(p[i])})

\* Mutant: the beginning of a turn cut in two is not summarised.
SummaryWithoutPrefix(p, start, cut) ==
  Messages(p, start, IF TurnStart(p, start, cut) = 0 THEN cut ELSE TurnStart(p, start, cut)) \cup Summarised(p)

\* compact: the messages before the cut and the previous summary; when a turn is cut in
\* two, its beginning and what was before it are summarised apart, and the previous
\* summary goes into the latter, if there is any.
Summary(p, start, cut) ==
  LET turn    == TurnStart(p, start, cut)
      history == Messages(p, start, IF turn = 0 THEN cut ELSE turn)
      prefix  == IF turn = 0 THEN {} ELSE Messages(p, turn, cut)
  IN IF prefix # {} /\ history = {} THEN prefix
     ELSE history \cup prefix \cup Summarised(p)

-----------------------------------------------------------------------------
Init == path = <<>> /\ open = 0 /\ preparation = None

Add(type, size) ==
  /\ Len(path) < MaxEntries
  /\ path' = Append(path, [type |-> type, size |-> size, kept |-> 0, summarised |-> {}])
  /\ UNCHANGED preparation

\* An assistant speaks, perhaps with a call.
assistant(calls, size) == open = 0 /\ Add("assistant", size) /\ open' = calls

toolResult(size) == open > 0 /\ Add("result", size) /\ open' = open - 1

\* Other messages wait until the calls are answered.
message(type, size) == open = 0 /\ Add(type, size) /\ UNCHANGED open

settings == Add("settings", 0) /\ UNCHANGED open

\* The run is over: an assistant has answered the last result.
AtRest ==
  LET said == {i \in DOMAIN path : IsMessage(path[i])}
  IN open = 0 /\ (said # {} => path[Max(said)].type # "result")

\* prepareCompaction: what has been said since the last compaction is cut.
prepareCompaction ==
  /\ preparation = None /\ path # <<>> /\ path[Len(path)].type # "compaction"
  /\ AtRest \/ (AnyTime /\ open = 0)
  /\ LET start == LastCompaction(path) + 1
         cut   == FirstKept(path, start)
     IN preparation' = [kept |-> cut, summarised |-> Summary(path, start, cut)]
  /\ UNCHANGED <<path, open>>

\* Mutant: what is kept begins one entry later.
appendKeepsLess ==
  /\ preparation # None /\ Len(path) < MaxEntries
  /\ path' = Append(path, [type |-> "compaction", size |-> 0, kept |-> preparation.kept + 1,
                           summarised |-> preparation.summarised])
  /\ preparation' = None
  /\ UNCHANGED open

\* appendCompaction, with the leaf where the session has got to.
appendCompaction ==
  /\ preparation # None /\ Len(path) < MaxEntries
  /\ path' = Append(path, [type |-> "compaction", size |-> 0, kept |-> preparation.kept,
                           summarised |-> preparation.summarised])
  /\ preparation' = None
  /\ UNCHANGED open

\* Cancelled, or the model failed.
compactionFails == preparation # None /\ preparation' = None /\ UNCHANGED <<path, open>>

Next ==
  \/ \E size \in Sizes : \/ \E calls \in 0..1 : assistant(calls, size)
                         \/ toolResult(size)
                         \/ \E type \in {"user", "bash", "custom"} : message(type, size)
  \/ settings
  \/ prepareCompaction \/ appendCompaction \/ compactionFails

Spec == Init /\ [][Next]_vars

-----------------------------------------------------------------------------
(* Properties *)

\* The entries and the compaction under way are well-formed, and a compaction keeps from
\* an entry before it.
TypeOK ==
  /\ path \in Seq(Entry) /\ open \in 0..1 /\ preparation \in Preparation
  /\ \A c \in DOMAIN path : path[c].type = "compaction" => path[c].kept \in 1..(c - 1)

\* Everything said since the last compaction but one is shown to the model, or was part
\* of what its summary was made from, wherever the path is cut, whatever turns, shell
\* commands and settings it has, and whatever is said while the summary is written.
RecentIsKept ==
  \A i \in DOMAIN path : InContext(path[i]) /\ i > PreviousCompaction(path)
                         => i \in Shown(path) \cup Summarised(path)

\* A result is shown with the message that called for it: providers refuse one without.
ResultsFollowCalls ==
  \A i \in Shown(path) : path[i].type = "result" =>
     \E j \in Shown(path) : /\ j < i /\ path[j].type = "assistant"
                            /\ \A k \in (j + 1)..(i - 1) : path[k].type # "assistant"

\* "Messages to summarize (will be discarded after summary)" (compaction.ts:606) and
\* "PRESERVE all existing information from the previous summary" (compaction.ts:465):
\* whatever is no longer shown is in the summary.
NothingIsLost == \A i \in DOMAIN path : InContext(path[i]) => i \in Shown(path) \cup Summarised(path)

\* "Nothing to compact (session too small)" (compaction-orchestrator.ts:111): a compaction
\* leaves something out.
NotInVain == preparation # None => preparation.summarised \ Summarised(path) # {}
=============================================================================
