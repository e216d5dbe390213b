-------------------------- MODULE Compaction_proofs --------------------------
(***************************************************************************)
(* Proofs about Compaction: its type invariant, that nothing said since    *)
(* the last compaction but one is lost, and that no result is shown        *)
(* without its call, for every budget, every size of messages and every    *)
(* length of the path.                                                     *)
(***************************************************************************)
EXTENDS Compaction, WellFoundedInduction, TLAPS

\* The place c is 0 or that of the last compaction before n.
IsLast(p, n, c) ==
  /\ c = 0 \/ (c \in DOMAIN p /\ p[c].type = "compaction" /\ c < n)
  /\ \A i \in DOMAIN p : p[i].type = "compaction" /\ i < n => i <= c

\* A compaction and those under way cover what was said since the one before.
Covers(p, from, upto, kept, summarised) ==
  \A i \in DOMAIN p : from < i /\ i < upto /\ InContext(p[i]) => i >= kept \/ i \in summarised

PathCovered ==
  LET c == LastCompaction(path)
  IN c # 0 => Covers(path, PreviousCompaction(path), c, path[c].kept, path[c].summarised)

PreparationCovers ==
  preparation # None =>
    /\ preparation.kept \in 1..Len(path)
    /\ Covers(path, LastCompaction(path), Len(path) + 1, preparation.kept, preparation.summarised)

Inv == TypeOK /\ PathCovered /\ PreparationCovers

-----------------------------------------------------------------------------
(* Least and greatest *)

LEMMA MinOf ==
  ASSUME NEW S \in SUBSET Nat, S # {}
  PROVE  Min(S) \in S /\ \A i \in S : Min(S) <= i
<1> DEFINE R == {ss \in Nat \X Nat : ss[1] < ss[2]}
<1>1. IsWellFoundedOn(R, Nat)
  BY NatLessThanWellFounded, Zenon DEF OpToRel
<1>2. PICK m \in S : \A i \in S : ~ (<<i, m>> \in R)
  <2> HIDE DEF R
  <2> QED
    BY <1>1, WFMin
<1>3. \A i \in S : m <= i
  <2> TAKE i \in S
  <2>1. ~ (<<i, m>> \in R) /\ i \in Nat /\ m \in Nat
    BY <1>2
  <2>2. i < m => <<i, m>> \in R
    BY ONLY <2>1
  <2> QED
    BY ONLY <2>1, <2>2
<1> QED
  BY ONLY <1>3 DEF Min

LEMMA MaxOf ==
  ASSUME NEW n \in Nat, NEW S \in SUBSET (0..n), S # {}
  PROVE  Max(S) \in S /\ \A i \in S : i <= Max(S)
<1> DEFINE T == {n - i : i \in S}
<1>1. T \in SUBSET Nat /\ T # {}
  <2>1. \A i \in S : n - i \in Nat
    OBVIOUS
  <2> QED
    BY <2>1
<1> DEFINE m == Min(T)
<1>2. m \in T /\ \A j \in T : m <= j
  <2> HIDE DEF T
  <2> QED
    BY <1>1, MinOf
<1>3. PICK k \in S : m = n - k
  BY <1>2
<1>4. \A i \in S : i <= k
  <2> TAKE i \in S
  <2>1. m <= n - i
    BY <1>2
  <2>2. i \in 0..n /\ k \in 0..n /\ m = n - k
    BY <1>3
  <2> QED
    BY ONLY <2>1, <2>2, n \in Nat
<1> QED
  BY <1>4 DEF Max

\* The last compaction is one, and there is none behind it.
LEMMA LastOf ==
  ASSUME NEW p \in Seq(Entry), NEW n \in Nat
  PROVE  CompactionBefore(p, n) \in 0..Len(p) /\ IsLast(p, n, CompactionBefore(p, n))
<1> DEFINE S == {0} \cup {i \in DOMAIN p : p[i].type = "compaction" /\ i < n}
<1>1. S \in SUBSET (0..Len(p)) /\ S # {} /\ Len(p) \in Nat
  OBVIOUS
<1>2. Max(S) \in S /\ \A i \in S : i <= Max(S)
  BY <1>1, MaxOf
<1> QED
  BY <1>1, <1>2 DEF CompactionBefore, IsLast

\* There is only one such place.
LEMMA LastIsUnique ==
  ASSUME NEW p \in Seq(Entry), NEW n \in Nat, NEW c \in 0..Len(p), IsLast(p, n, c)
  PROVE  CompactionBefore(p, n) = c
<1>1. CompactionBefore(p, n) \in 0..Len(p) /\ IsLast(p, n, CompactionBefore(p, n))
  BY LastOf
<1>2. c <= CompactionBefore(p, n) /\ CompactionBefore(p, n) <= c
  BY <1>1 DEF IsLast
<1> QED
  BY <1>1, <1>2

-----------------------------------------------------------------------------
(* Longer paths *)

\* Adding an entry leaves the others where they are.
LEMMA Longer ==
  ASSUME NEW p \in Seq(Entry), NEW e \in Entry
  PROVE  LET q == Append(p, e)
         IN /\ q \in Seq(Entry) /\ Len(q) = Len(p) + 1 /\ Len(p) \in Nat
            /\ DOMAIN p = 1..Len(p) /\ DOMAIN q = 1..(Len(p) + 1)
            /\ q[Len(p) + 1] = e /\ \A i \in DOMAIN p : i \in DOMAIN q /\ q[i] = p[i]
OBVIOUS

\* What is before an entry of the path does not change when the path grows.
LEMMA BeforeStays ==
  ASSUME NEW p \in Seq(Entry), NEW e \in Entry, NEW n \in Nat, n <= Len(p) + 1
  PROVE  CompactionBefore(Append(p, e), n) = CompactionBefore(p, n)
<1> DEFINE q == Append(p, e)
           c == CompactionBefore(p, n)
<1>1. c \in 0..Len(p) /\ IsLast(p, n, c)
  BY LastOf
<1>2. /\ q \in Seq(Entry) /\ Len(q) = Len(p) + 1 /\ Len(p) \in Nat
      /\ DOMAIN p = 1..Len(p) /\ DOMAIN q = 1..(Len(p) + 1)
      /\ \A i \in DOMAIN p : q[i] = p[i]
  BY Longer
<1> HIDE DEF q, c
<1>3. IsLast(q, n, c) /\ c \in 0..Len(q)
  BY <1>1, <1>2 DEF IsLast
<1>4. CompactionBefore(q, n) = c
  BY <1>2, <1>3, LastIsUnique
<1> QED
  BY <1>4 DEF q, c

\* An entry that is no compaction leaves the last one where it is, and a compaction
\* becomes the last.
LEMMA LastAfter ==
  ASSUME NEW p \in Seq(Entry), NEW e \in Entry
  PROVE  LastCompaction(Append(p, e)) = IF e.type = "compaction" THEN Len(p) + 1 ELSE LastCompaction(p)
<1> DEFINE q == Append(p, e)
           c == CompactionBefore(p, Len(p) + 1)
           d == IF e.type = "compaction" THEN Len(p) + 1 ELSE c
<1>1. /\ q \in Seq(Entry) /\ Len(q) = Len(p) + 1 /\ Len(p) \in Nat
      /\ DOMAIN p = 1..Len(p) /\ DOMAIN q = 1..(Len(p) + 1)
      /\ q[Len(p) + 1] = e /\ \A i \in DOMAIN p : q[i] = p[i]
  BY Longer
<1>2. c \in 0..Len(p) /\ IsLast(p, Len(p) + 1, c)
  <2>1. Len(p) + 1 \in Nat
    BY <1>1
  <2> QED
    BY <2>1, LastOf
<1> HIDE DEF q, c
<1>3. IsLast(q, Len(q) + 1, d) /\ d \in 0..Len(q)
  BY <1>1, <1>2 DEF IsLast
<1>4. CompactionBefore(q, Len(q) + 1) = d
  <2>1. Len(q) + 1 \in Nat
    BY <1>1
  <2> HIDE DEF d
  <2> QED
    BY <1>1, <1>3, <2>1, LastIsUnique
<1> QED
  BY <1>4 DEF LastCompaction, q, c

-----------------------------------------------------------------------------
(* The cut *)

\* The first entry kept is one of those since the last compaction.
LEMMA CutIsInside ==
  ASSUME NEW p \in Seq(Entry), NEW start \in 1..Len(p)
  PROVE  FirstKept(p, start) \in start..Len(p)
<1>1. CASE \A i \in start..Len(p) : ~IsCutPoint(p[i])
  BY <1>1 DEF FirstKept
<1>2. CASE \E i \in start..Len(p) : IsCutPoint(p[i])
  <2> DEFINE points == {i \in start..Len(p) : IsCutPoint(p[i])}
             enough == {i \in start..Len(p) : IsMessage(p[i]) /\ Tokens(p, i) >= KeepRecent}
             after  == {i \in points : enough # {} /\ i >= Max(enough)}
             cut    == CutPoint(p, start)
  <2>1. cut \in start..Len(p)
    <3>1. cut = Min(IF after # {} THEN after ELSE points)
      BY DEF CutPoint
    <3>2. points # {} /\ points \in SUBSET (start..Len(p)) /\ after \in SUBSET points
      BY <1>2
    <3> HIDE DEF points, enough, after, cut
    <3> DEFINE S == IF after # {} THEN after ELSE points
    <3>3. S # {} /\ S \in SUBSET (start..Len(p)) /\ S \in SUBSET Nat
      BY <3>2
    <3> HIDE DEF S
    <3>4. Min(S) \in S
      BY <3>3, MinOf
    <3> QED
      BY <3>1, <3>3, <3>4 DEF S
  <2> HIDE DEF cut
  <2> DEFINE S == {k \in start..cut : \A j \in k..(cut - 1) : ~IsMessage(p[j]) /\ p[j].type # "compaction"}
  <2>2. cut \in S /\ S \in SUBSET Nat
    BY <2>1
  <2>3. WithSettings(p, start, cut) = Min(S)
    BY DEF WithSettings
  <2>4. Min(S) \in S
    <3> HIDE DEF S
    <3> QED
      BY <2>2, MinOf
  <2>5. FirstKept(p, start) = Min(S)
    BY <1>2, <2>3 DEF FirstKept, cut
  <2> QED
    BY <2>1, <2>4, <2>5
<1> QED
  BY <1>1, <1>2

\* The summary is made from every message since the last compaction that is not kept.
LEMMA SummaryCovers ==
  ASSUME NEW p \in Seq(Entry), NEW start \in 1..Len(p), NEW cut \in start..Len(p)
  PROVE  Messages(p, start, cut) \subseteq Summary(p, start, cut)
<1> DEFINE turn == TurnStart(p, start, cut)
<1>1. turn = 0 \/ turn \in start..cut
  <2>1. CASE turn = 0
    BY <2>1
  <2>2. CASE turn # 0
    <3> DEFINE S == {0} \cup {i \in start..cut : StartsTurn(p[i])}
    <3>1. turn = Max(S)
      BY <2>2 DEF TurnStart
    <3>2. S \in SUBSET (0..Len(p)) /\ S # {} /\ Len(p) \in Nat
      OBVIOUS
    <3> HIDE DEF S, turn
    <3>3. Max(S) \in S
      BY <3>2, MaxOf
    <3> QED
      BY <2>2, <3>1, <3>3 DEF S
  <2> QED
    BY <2>1, <2>2
<1> DEFINE history == Messages(p, start, IF turn = 0 THEN cut ELSE turn)
           prefix  == IF turn = 0 THEN {} ELSE Messages(p, turn, cut)
<1>2. Messages(p, start, cut) \subseteq history \cup prefix
  <2> HIDE DEF turn
  <2>1. CASE turn = 0
    BY <2>1
  <2>2. CASE turn \in start..cut
    BY <2>2 DEF Messages
  <2> QED
    BY <1>1, <2>1, <2>2
<1>3. Summary(p, start, cut) = IF prefix # {} /\ history = {} THEN prefix
                               ELSE history \cup prefix \cup Summarised(p)
  BY DEF Summary
<1> HIDE DEF history, prefix
<1> QED
  BY <1>2, <1>3

\* The messages of a summary are places of the path.
LEMMA SummaryType ==
  ASSUME NEW p \in Seq(Entry), NEW start \in 1..Len(p), NEW cut \in start..Len(p)
  PROVE  Summary(p, start, cut) \subseteq Nat
<1>1. \A a, b : Messages(p, a, b) \subseteq Nat
  <2>1. DOMAIN p = 1..Len(p) /\ Len(p) \in Nat
    OBVIOUS
  <2> QED
    BY <2>1 DEF Messages
<1>2. Summarised(p) \subseteq Nat
  <2> DEFINE c == LastCompaction(p)
  <2>1. c = 0 \/ c \in DOMAIN p
    <3>1. Len(p) + 1 \in Nat
      OBVIOUS
    <3> QED
      BY <3>1, LastOf DEF LastCompaction
  <2>2. \A i \in DOMAIN p : p[i].summarised \subseteq Nat
    <3> TAKE i \in DOMAIN p
    <3>1. p[i] \in Entry
      OBVIOUS
    <3>2. \A e \in Entry : e.summarised \in SUBSET Nat
      BY DEF Entry
    <3> QED
      BY <3>1, <3>2
  <2> HIDE DEF c
  <2>3. Summarised(p) = IF c = 0 THEN {} ELSE p[c].summarised
    BY DEF Summarised, c
  <2> QED
    BY <2>1, <2>2, <2>3
<1> QED
  BY <1>1, <1>2 DEF Summary

-----------------------------------------------------------------------------
(* The steps *)

\* An entry that is no compaction does not touch what compactions cover.
LEMMA AddKeepsInv ==
  ASSUME Inv, NEW e \in Entry, e.type # "compaction", path' = Append(path, e),
         open' \in 0..1, preparation' = preparation
  PROVE  Inv'
<1> DEFINE q == Append(path, e)
           c == LastCompaction(path)
<1>1. /\ path \in Seq(Entry) /\ q \in Seq(Entry) /\ Len(q) = Len(path) + 1 /\ Len(path) \in Nat
      /\ DOMAIN path = 1..Len(path) /\ DOMAIN q = 1..(Len(path) + 1)
      /\ q[Len(path) + 1] = e /\ \A i \in DOMAIN path : q[i] = path[i]
  BY Longer DEF Inv, TypeOK
<1>2. LastCompaction(q) = c
  BY <1>1, LastAfter
<1>3. c \in 0..Len(path) /\ IsLast(path, Len(path) + 1, c)
  <2>1. Len(path) + 1 \in Nat
    BY <1>1
  <2> QED
    BY <1>1, <2>1, LastOf DEF LastCompaction
<1>4. PreviousCompaction(q) = PreviousCompaction(path)
  <2>1. c \in Nat /\ c <= Len(path) + 1
    BY <1>1, <1>3
  <2>2. CompactionBefore(q, c) = CompactionBefore(path, c)
    BY <1>1, <2>1, BeforeStays
  <2> QED
    BY <1>2, <2>2 DEF PreviousCompaction
<1> HIDE DEF q, c
<1>5. path' = q
  BY DEF q
<1>6. TypeOK'
  BY <1>1, <1>5 DEF Inv, TypeOK
<1>7. PathCovered'
  <2>1. c # 0 => Covers(q, PreviousCompaction(path), c, q[c].kept, q[c].summarised)
    BY <1>1, <1>3 DEF Inv, PathCovered, Covers, c
  <2> QED
    BY <1>2, <1>4, <1>5, <2>1 DEF PathCovered
<1>8. PreparationCovers'
  <2> SUFFICES ASSUME preparation # None
               PROVE  /\ preparation.kept \in 1..Len(q)
                      /\ Covers(q, c, Len(q) + 1, preparation.kept, preparation.summarised)
    BY <1>2, <1>5 DEF PreparationCovers
  <2>1. preparation.kept \in 1..Len(path)
        /\ Covers(path, c, Len(path) + 1, preparation.kept, preparation.summarised)
    BY DEF Inv, PreparationCovers, c
  <2> QED
    BY <1>1, <2>1 DEF Covers
<1> QED
  BY <1>6, <1>7, <1>8 DEF Inv

\* What is prepared covers the path since the last compaction.
LEMMA PrepareKeepsInv ==
  ASSUME Inv, prepareCompaction
  PROVE  Inv'
<1> DEFINE start == LastCompaction(path) + 1
           cut   == FirstKept(path, start)
           made  == Summary(path, start, cut)
<1>1. path \in Seq(Entry) /\ Len(path) \in Nat /\ Len(path) + 1 \in Nat /\ DOMAIN path = 1..Len(path)
  BY DEF Inv, TypeOK
<1>2. LastCompaction(path) \in 0..Len(path) /\ IsLast(path, Len(path) + 1, LastCompaction(path))
  BY <1>1, LastOf DEF LastCompaction
<1>3. start \in 1..Len(path)
  <2>1. path # <<>> /\ path[Len(path)].type # "compaction"
    BY DEF prepareCompaction
  <2> QED
    BY <1>1, <1>2, <2>1 DEF IsLast
<1>4. cut \in start..Len(path)
  <2> HIDE DEF start
  <2> QED
    BY <1>1, <1>3, CutIsInside
<1>5. made \subseteq Nat /\ Messages(path, start, cut) \subseteq made
  <2> HIDE DEF start, cut
  <2> QED
    BY <1>1, <1>3, <1>4, SummaryType, SummaryCovers
<1>6. preparation' = [kept |-> cut, summarised |-> made] /\ path' = path /\ open' = open
  BY DEF prepareCompaction
<1> HIDE DEF cut, made
<1>7. TypeOK'
  BY <1>1, <1>3, <1>4, <1>5, <1>6 DEF Inv, TypeOK, Preparation
<1>8. PathCovered'
  BY <1>6 DEF Inv, PathCovered, LastCompaction, PreviousCompaction
<1>9. PreparationCovers'
  <2>1. cut \in 1..Len(path)
    BY <1>3, <1>4
  <2>2. Covers(path, LastCompaction(path), Len(path) + 1, cut, made)
    BY <1>1, <1>2, <1>3, <1>4, <1>5 DEF Covers, Messages
  <2>3. LastCompaction(path)' = LastCompaction(path)
    BY <1>6 DEF LastCompaction
  <2> QED
    BY <1>6, <2>1, <2>2, <2>3 DEF PreparationCovers
<1> QED
  BY <1>7, <1>8, <1>9 DEF Inv

\* The compaction entered covers what was said since the one before.
LEMMA AppendKeepsInv ==
  ASSUME Inv, appendCompaction
  PROVE  Inv'
<1> DEFINE e == [type |-> "compaction", size |-> 0, kept |-> preparation.kept,
                 summarised |-> preparation.summarised]
           q == Append(path, e)
           c == LastCompaction(path)
           n == Len(path) + 1
<1>1. path \in Seq(Entry) /\ preparation \in Preparation /\ preparation # None
  BY DEF Inv, TypeOK, appendCompaction
<1>2. e \in Entry
  BY <1>1 DEF Entry, Type, Preparation
<1>3. e.type = "compaction" /\ e.kept = preparation.kept /\ e.summarised = preparation.summarised
  OBVIOUS
<1>4. path' = q /\ preparation' = None /\ open' = open
  BY DEF appendCompaction
<1> HIDE DEF e
<1>5. /\ q \in Seq(Entry) /\ Len(q) = n /\ n \in Nat /\ Len(path) \in Nat
      /\ DOMAIN path = 1..Len(path) /\ DOMAIN q = 1..n
      /\ q[n] = e /\ \A i \in DOMAIN path : q[i] = path[i]
  BY <1>1, <1>2, Longer
<1>6. LastCompaction(q) = n
  BY <1>1, <1>2, <1>3, LastAfter
<1>7. PreviousCompaction(q) = c
  <2>1. CompactionBefore(q, n) = CompactionBefore(path, n)
    BY <1>1, <1>2, <1>5, BeforeStays
  <2> QED
    BY <1>6, <2>1 DEF PreviousCompaction, LastCompaction
<1>8. preparation.kept \in 1..Len(path)
      /\ Covers(path, c, n, preparation.kept, preparation.summarised)
  BY <1>1 DEF Inv, PreparationCovers
<1> HIDE DEF q, c
<1>9. TypeOK'
  <2>1. \A i \in DOMAIN q : q[i].type = "compaction" => q[i].kept \in 1..(i - 1)
    BY <1>3, <1>5, <1>8 DEF Inv, TypeOK
  <2>2. None \in Preparation
    BY DEF None, Preparation
  <2> QED
    BY <1>4, <1>5, <2>1, <2>2 DEF Inv, TypeOK
<1>10. PathCovered'
  <2>1. Covers(q, c, n, q[n].kept, q[n].summarised)
    BY <1>3, <1>5, <1>8 DEF Covers
  <2> QED
    BY <1>4, <1>6, <1>7, <2>1 DEF PathCovered
<1>11. PreparationCovers'
  BY <1>4 DEF PreparationCovers
<1> QED
  BY <1>9, <1>10, <1>11 DEF Inv

LEMMA InitInv == Init => Inv
<1> SUFFICES ASSUME Init PROVE Inv
  OBVIOUS
<1>1. path = <<>> /\ open = 0 /\ preparation = None
  BY DEF Init
<1>2. TypeOK
  BY <1>1 DEF TypeOK, None, Preparation
<1>3. PathCovered
  <2>1. <<>> \in Seq(Entry) /\ Len(<<>>) = 0 /\ 0 + 1 \in Nat
    OBVIOUS
  <2>2. CompactionBefore(<<>>, Len(<<>>) + 1) \in 0..0
    BY <2>1, LastOf
  <2> QED
    BY <1>1, <2>2 DEF PathCovered, LastCompaction
<1> QED
  BY <1>1, <1>2, <1>3 DEF Inv, PreparationCovers

LEMMA NextInv == Inv /\ [Next]_vars => Inv'
<1> SUFFICES ASSUME Inv, [Next]_vars PROVE Inv'
  OBVIOUS
<1>1. ASSUME NEW type \in Type \ {"compaction"}, NEW size \in Nat, Add(type, size), open' \in 0..1
      PROVE  Inv'
  <2> DEFINE e == [type |-> type, size |-> size, kept |-> 0, summarised |-> {}]
  <2>1. e \in Entry /\ e.type # "compaction"
    BY DEF Entry
  <2>2. path' = Append(path, e) /\ preparation' = preparation
    BY <1>1 DEF Add
  <2> HIDE DEF e
  <2> QED
    BY <1>1, <2>1, <2>2, AddKeepsInv
<1>2. Sizes \subseteq Nat /\ open \in 0..1
  BY CompactionAssumption DEF Inv, TypeOK
<1>3. ASSUME NEW size \in Sizes, NEW calls \in 0..1, assistant(calls, size)
      PROVE  Inv'
  <2>1. Add("assistant", size) /\ open' \in 0..1 /\ size \in Nat /\ "assistant" \in Type \ {"compaction"}
    BY <1>2, <1>3 DEF assistant, Type, Message
  <2> QED
    BY <1>1, <2>1
<1>4. ASSUME NEW size \in Sizes, toolResult(size)
      PROVE  Inv'
  <2>1. Add("result", size) /\ open' \in 0..1 /\ size \in Nat /\ "result" \in Type \ {"compaction"}
    BY <1>2, <1>4 DEF toolResult, Type, Message
  <2> QED
    BY <1>1, <2>1
<1>5. ASSUME NEW size \in Sizes, NEW type \in {"user", "bash", "custom"}, message(type, size)
      PROVE  Inv'
  <2>1. Add(type, size) /\ open' \in 0..1 /\ size \in Nat /\ type \in Type \ {"compaction"}
    BY <1>2, <1>5 DEF message, Type, Message
  <2> QED
    BY <1>1, <2>1
<1>6. CASE settings
  <2>1. Add("settings", 0) /\ open' \in 0..1 /\ "settings" \in Type \ {"compaction"}
    BY <1>2, <1>6 DEF settings, Type, Message
  <2> QED
    BY <1>1, <2>1
<1>7. CASE prepareCompaction
  BY <1>7, PrepareKeepsInv
<1>8. CASE appendCompaction
  BY <1>8, AppendKeepsInv
<1>9. CASE compactionFails
  <2>1. path' = path /\ open' = open /\ preparation' = None /\ None \in Preparation
    BY <1>9 DEF compactionFails, None, Preparation
  <2> QED
    BY <2>1 DEF Inv, TypeOK, PathCovered, PreparationCovers, LastCompaction, PreviousCompaction
<1>10. CASE UNCHANGED vars
  <2>1. path' = path /\ open' = open /\ preparation' = preparation
    BY <1>10 DEF vars
  <2> QED
    BY <2>1 DEF Inv, TypeOK, PathCovered, PreparationCovers, LastCompaction, PreviousCompaction
<1> QED
  BY <1>3, <1>4, <1>5, <1>6, <1>7, <1>8, <1>9, <1>10 DEF Next

LEMMA InvHolds == Spec => []Inv
BY InitInv, NextInv, PTL DEF Spec

-----------------------------------------------------------------------------
(* Theorems *)

\* The entries of a path and the compaction under way stay well-formed, and a compaction
\* keeps from an entry before it.
THEOREM TypeCorrect == Spec => []TypeOK
<1>1. Inv => TypeOK
  BY DEF Inv
<1> QED
  BY <1>1, InvHolds, PTL

\* What was said since the last compaction but one is shown to the model or summarised.
THEOREM KeepsRecent == Spec => []RecentIsKept
<1>1. Inv => RecentIsKept
  <2> SUFFICES ASSUME Inv, NEW i \in DOMAIN path, InContext(path[i]), i > PreviousCompaction(path)
               PROVE  i \in Shown(path) \cup Summarised(path)
    BY DEF RecentIsKept
  <2> DEFINE c == LastCompaction(path)
  <2>1. path \in Seq(Entry) /\ Len(path) \in Nat /\ Len(path) + 1 \in Nat /\ DOMAIN path = 1..Len(path)
    BY DEF Inv, TypeOK
  <2>2. c \in 0..Len(path) /\ IsLast(path, Len(path) + 1, c)
    BY <2>1, LastOf DEF LastCompaction
  <2>3. PreviousCompaction(path) \in Nat
    BY <2>1, <2>2, LastOf DEF PreviousCompaction
  <2>4. c # 0 => Covers(path, PreviousCompaction(path), c, path[c].kept, path[c].summarised)
    BY DEF Inv, PathCovered
  <2>5. Shown(path) = {j \in DOMAIN path : InContext(path[j]) /\ (c = 0 \/ j > c \/ j >= path[c].kept)}
        /\ Summarised(path) = IF c = 0 THEN {} ELSE path[c].summarised
    BY DEF Shown, Summarised
  <2> HIDE DEF c
  <2>6. CASE c = 0 \/ i > c
    BY <2>5, <2>6
  <2>7. CASE c # 0 /\ i < c
    BY <2>1, <2>2, <2>3, <2>4, <2>5, <2>7 DEF Covers
  <2>8. CASE c # 0 /\ i = c
    BY <2>2, <2>8 DEF IsLast, InContext, IsMessage, Message
  <2> QED
    BY <2>1, <2>2, <2>6, <2>7, <2>8
<1> QED
  BY <1>1, InvHolds, PTL

-----------------------------------------------------------------------------
(* Results and their calls *)

\* Before i, and not before from, an assistant has spoken, and the path is not cut since.
Asked(p, from, i) == \E j \in from..(i - 1) : /\ p[j].type = "assistant"
                                              /\ \A k \in (j + 1)..(i - 1) : ~IsCutPoint(p[k])

\* No result behind from is separated from its call, nor will that to come be.
Unsplit(p, from, calls) ==
  /\ \A i \in DOMAIN p : i >= from /\ p[i].type = "result" => Asked(p, from, i)
  /\ calls > 0 => Asked(p, from, Len(p) + 1)

\* The first entry that the last compaction keeps.
ShownFrom(p) == IF LastCompaction(p) = 0 THEN 1 ELSE p[LastCompaction(p)].kept

Answered ==
  /\ Unsplit(path, 1, open)
  /\ Unsplit(path, ShownFrom(path), open)
  /\ preparation # None => Unsplit(path, preparation.kept, open)

\* What the last compaction keeps begins before what comes next.
LEMMA ShownFromType ==
  ASSUME Inv PROVE ShownFrom(path) \in 1..(Len(path) + 1)
<1>1. path \in Seq(Entry) /\ Len(path) \in Nat /\ Len(path) + 1 \in Nat /\ DOMAIN path = 1..Len(path)
  BY DEF Inv, TypeOK
<1>2. LastCompaction(path) \in 0..Len(path) /\ IsLast(path, Len(path) + 1, LastCompaction(path))
  BY <1>1, LastOf DEF LastCompaction
<1>3. CASE LastCompaction(path) = 0
  BY <1>1, <1>3 DEF ShownFrom
<1>4. CASE LastCompaction(path) # 0
  <2>1. path[LastCompaction(path)].kept \in 1..(LastCompaction(path) - 1)
    BY <1>2, <1>4 DEF Inv, TypeOK, IsLast
  <2> QED
    BY <1>1, <1>2, <1>4, <2>1 DEF ShownFrom
<1> QED
  BY <1>3, <1>4

\* A call is answered before anything else is said, so that no entry comes in between.
LEMMA LongerUnsplit ==
  ASSUME NEW p \in Seq(Entry), NEW e \in Entry, NEW from \in 1..(Len(p) + 1), NEW calls \in 0..1,
         NEW left \in 0..1, Unsplit(p, from, calls),
         \/ e.type = "assistant" /\ calls = 0
         \/ e.type = "result" /\ calls = 1 /\ left = 0
         \/ e.type \in {"user", "bash", "custom"} /\ calls = 0 /\ left = 0
         \/ e.type \in {"settings", "compaction"} /\ left = calls
  PROVE  Unsplit(Append(p, e), from, left)
<1> DEFINE q == Append(p, e)
           n == Len(p) + 1
<1>1. /\ Len(q) = n /\ Len(p) \in Nat /\ n \in Nat
      /\ DOMAIN p = 1..Len(p) /\ DOMAIN q = 1..n
      /\ q[n] = e /\ \A i \in DOMAIN p : q[i] = p[i]
  BY Longer
<1> HIDE DEF q
<1>2. ASSUME NEW i \in 1..n, Asked(p, from, i) PROVE Asked(q, from, i)
  <2>1. PICK j \in from..(i - 1) : p[j].type = "assistant" /\ \A k \in (j + 1)..(i - 1) : ~IsCutPoint(p[k])
    BY <1>2 DEF Asked
  <2>2. \A k \in from..(i - 1) : q[k] = p[k]
    BY <1>1
  <2>3. \A k \in (j + 1)..(i - 1) : k \in from..(i - 1)
    BY <1>1
  <2> QED
    BY <2>1, <2>2, <2>3 DEF Asked
<1>3. ASSUME NEW i \in DOMAIN q, i >= from, q[i].type = "result" PROVE Asked(q, from, i)
  <2>1. CASE i = n
    <3>1. calls = 1
      BY <1>1, <1>3, <2>1
    <3> QED
      BY <1>1, <1>2, <2>1, <3>1 DEF Unsplit
  <2>2. CASE i # n
    <3>1. i \in DOMAIN p /\ p[i].type = "result"
      BY <1>1, <1>3, <2>2
    <3> QED
      BY <1>1, <1>2, <1>3, <3>1 DEF Unsplit
  <2> QED
    BY <2>1, <2>2
<1>4. ASSUME left > 0 PROVE Asked(q, from, n + 1)
  <2>1. CASE e.type = "assistant"
    <3>1. n \in from..(n + 1 - 1) /\ \A k \in (n + 1)..(n + 1 - 1) : ~IsCutPoint(q[k])
      BY <1>1
    <3> QED
      BY <1>1, <2>1, <3>1 DEF Asked
  <2>2. CASE e.type \in {"settings", "compaction"} /\ calls > 0
    <3>1. Asked(q, from, n)
      BY <1>1, <1>2, <2>2 DEF Unsplit
    <3>2. PICK j \in from..(n - 1) : q[j].type = "assistant" /\ \A k \in (j + 1)..(n - 1) : ~IsCutPoint(q[k])
      BY <3>1 DEF Asked
    <3>3. ~IsCutPoint(q[n])
      BY <1>1, <2>2 DEF IsCutPoint
    <3>4. j \in from..(n + 1 - 1) /\ \A k \in (j + 1)..(n + 1 - 1) : k = n \/ k \in (j + 1)..(n - 1)
      BY <1>1
    <3> QED
      BY <3>2, <3>3, <3>4 DEF Asked
  <2> QED
    BY <1>4, <2>1, <2>2
<1> QED
  BY <1>1, <1>3, <1>4 DEF Unsplit, q

\* Where the path is cut there is a message that may come first, with no message before it
\* that is kept, or there is no such message at all.
LEMMA CutIsBefore ==
  ASSUME NEW p \in Seq(Entry), NEW start \in 1..Len(p), \E i \in start..Len(p) : IsCutPoint(p[i])
  PROVE  \E c \in FirstKept(p, start)..Len(p) :
            IsCutPoint(p[c]) /\ \A j \in FirstKept(p, start)..(c - 1) : ~IsMessage(p[j])
<1> DEFINE points == {i \in start..Len(p) : IsCutPoint(p[i])}
           enough == {i \in start..Len(p) : IsMessage(p[i]) /\ Tokens(p, i) >= KeepRecent}
           after  == {i \in points : enough # {} /\ i >= Max(enough)}
           cut    == CutPoint(p, start)
<1>1. cut \in points
  <2>1. cut = Min(IF after # {} THEN after ELSE points)
    BY DEF CutPoint
  <2>2. points # {} /\ points \in SUBSET Nat /\ after \in SUBSET points
    OBVIOUS
  <2> HIDE DEF points, enough, after, cut
  <2> DEFINE S == IF after # {} THEN after ELSE points
  <2>3. S # {} /\ S \in SUBSET points /\ S \in SUBSET Nat
    BY <2>2
  <2> HIDE DEF S
  <2>4. Min(S) \in S
    BY <2>3, MinOf
  <2> QED
    BY <2>1, <2>3, <2>4 DEF S
<1> HIDE DEF cut
<1> DEFINE S == {k \in start..cut : \A j \in k..(cut - 1) : ~IsMessage(p[j]) /\ p[j].type # "compaction"}
<1>2. cut \in S /\ S \in SUBSET Nat /\ cut \in start..Len(p) /\ IsCutPoint(p[cut])
  BY <1>1
<1>3. FirstKept(p, start) = Min(S)
  BY DEF FirstKept, WithSettings, cut
<1>4. Min(S) \in S
  <2> HIDE DEF S
  <2> QED
    BY <1>2, MinOf
<1>5. /\ FirstKept(p, start) \in start..cut
      /\ \A j \in FirstKept(p, start)..(cut - 1) : ~IsMessage(p[j])
  BY <1>3, <1>4
<1>6. cut \in FirstKept(p, start)..Len(p)
  BY <1>2, <1>5
<1> QED
  BY <1>2, <1>5, <1>6

\* A path at rest is not cut between a call and its result.
LEMMA CutUnsplit ==
  ASSUME NEW p \in Seq(Entry), NEW start \in 1..Len(p), Unsplit(p, 1, 0),
         LET said == {i \in DOMAIN p : IsMessage(p[i])} IN said # {} => p[Max(said)].type # "result"
  PROVE  Unsplit(p, FirstKept(p, start), 0)
<1> DEFINE cut == FirstKept(p, start)
<1>1. Len(p) \in Nat /\ DOMAIN p = 1..Len(p) /\ cut \in start..Len(p)
  BY CutIsInside
<1> HIDE DEF cut
<1> SUFFICES ASSUME NEW i \in DOMAIN p, i >= cut, p[i].type = "result"
             PROVE  Asked(p, cut, i)
  BY DEF Unsplit, cut
<1>2. PICK j \in 1..(i - 1) : p[j].type = "assistant" /\ \A k \in (j + 1)..(i - 1) : ~IsCutPoint(p[k])
  BY <1>1 DEF Unsplit, Asked
<1>3. CASE \E k \in start..Len(p) : IsCutPoint(p[k])
  <2>1. PICK c \in cut..Len(p) : IsCutPoint(p[c]) /\ \A k \in cut..(c - 1) : ~IsMessage(p[k])
    BY <1>3, CutIsBefore DEF cut
  <2>2. IsMessage(p[i]) /\ ~IsCutPoint(p[i])
    BY DEF IsMessage, Message, IsCutPoint
  <2>3. c < i
    <3>1. i \notin cut..(c - 1) /\ i # c
      BY <2>1, <2>2
    <3> QED
      BY <1>1, <3>1
  <2>4. c <= j
    <3>1. c \notin (j + 1)..(i - 1)
      BY <1>2, <2>1
    <3> QED
      BY <1>1, <2>3, <3>1
  <2>5. j \in cut..(i - 1)
    BY <1>1, <2>1, <2>4
  <2> QED
    BY <1>2, <2>5 DEF Asked
<1>4. CASE \A k \in start..Len(p) : ~IsCutPoint(p[k])
  <2> DEFINE said == {k \in DOMAIN p : IsMessage(p[k])}
  <2>1. i \in said /\ said # {} /\ said \in SUBSET (0..Len(p))
    BY <1>1 DEF IsMessage, Message
  <2>2. p[Max(said)].type # "result"
    BY <2>1
  <2> HIDE DEF said
  <2>3. Max(said) \in said /\ i <= Max(said)
    BY <1>1, <2>1, MaxOf
  <2>4. Max(said) \in start..Len(p) /\ IsMessage(p[Max(said)])
    BY <1>1, <2>1, <2>3 DEF said
  <2>5. IsCutPoint(p[Max(said)])
    BY <2>2, <2>4 DEF IsMessage, Message, IsCutPoint
  <2> QED
    BY <1>4, <2>4, <2>5
<1> QED
  BY <1>3, <1>4

\* A step of the session separates no result from its call.
LEMMA AnsweredStep ==
  ASSUME ~AnyTime, Inv, Answered, [Next]_vars
  PROVE  Answered'
<1>1. /\ path \in Seq(Entry) /\ Len(path) \in Nat /\ open \in 0..1 /\ 1 \in 1..(Len(path) + 1)
      /\ DOMAIN path = 1..Len(path) /\ Len(path) + 1 \in Nat /\ preparation \in Preparation
  BY DEF Inv, TypeOK
<1>2. ASSUME NEW e \in Entry, path' = Append(path, e), open' \in 0..1,
             \/ e.type = "assistant" /\ open = 0
             \/ e.type = "result" /\ open = 1 /\ open' = 0
             \/ e.type \in {"user", "bash", "custom"} /\ open = 0 /\ open' = 0
             \/ e.type \in {"settings", "compaction"} /\ open' = open
      PROVE  \A from \in 1..(Len(path) + 1) : Unsplit(path, from, open) => Unsplit(path', from, open')
  BY <1>1, <1>2, LongerUnsplit
<1>3. ASSUME NEW type \in Type \ {"compaction"}, NEW size \in Nat, Add(type, size), open' \in 0..1,
             \/ type = "assistant" /\ open = 0
             \/ type = "result" /\ open = 1 /\ open' = 0
             \/ type \in {"user", "bash", "custom"} /\ open = 0 /\ open' = 0
             \/ type = "settings" /\ open' = open
      PROVE  Answered'
  <2> DEFINE e == [type |-> type, size |-> size, kept |-> 0, summarised |-> {}]
  <2>1. e \in Entry /\ e.type = type
    BY DEF Entry
  <2>2. path' = Append(path, e) /\ preparation' = preparation
    BY <1>3 DEF Add
  <2> HIDE DEF e
  <2>3. \A from \in 1..(Len(path) + 1) : Unsplit(path, from, open) => Unsplit(path', from, open')
    BY <1>2, <1>3, <2>1, <2>2
  <2>4. LastCompaction(path') = LastCompaction(path)
    BY <1>1, <1>3, <2>1, <2>2, LastAfter
  <2>5. LastCompaction(path) \in 0..Len(path)
    BY <1>1, LastOf DEF LastCompaction
  <2>6. ShownFrom(path') = ShownFrom(path)
    <3>1. \A i \in DOMAIN path : path'[i] = path[i]
      BY <1>1, <2>1, <2>2, Longer
    <3> QED
      BY <1>1, <2>4, <2>5, <3>1 DEF ShownFrom
  <2>7. ShownFrom(path) \in 1..(Len(path) + 1)
    BY ShownFromType
  <2>8. preparation # None => preparation.kept \in 1..(Len(path) + 1)
    BY <1>1 DEF Inv, PreparationCovers
  <2> QED
    BY <1>1, <2>2, <2>3, <2>6, <2>7, <2>8 DEF Answered
<1>4. ASSUME NEW size \in Sizes, NEW calls \in 0..1, assistant(calls, size)
      PROVE  Answered'
  <2>1. /\ Add("assistant", size) /\ open' \in 0..1 /\ size \in Nat /\ "assistant" \in Type \ {"compaction"}
        /\ open = 0
    BY <1>4, CompactionAssumption DEF assistant, Type, Message
  <2> QED
    BY <1>3, <2>1
<1>5. ASSUME NEW size \in Sizes, toolResult(size)
      PROVE  Answered'
  <2>1. /\ Add("result", size) /\ open' = 0 /\ open = 1 /\ size \in Nat /\ "result" \in Type \ {"compaction"}
    BY <1>1, <1>5, CompactionAssumption DEF toolResult, Type, Message
  <2> QED
    BY <1>3, <2>1
<1>6. ASSUME NEW size \in Sizes, NEW type \in {"user", "bash", "custom"}, message(type, size)
      PROVE  Answered'
  <2>1. /\ Add(type, size) /\ open' = 0 /\ open = 0 /\ size \in Nat /\ type \in Type \ {"compaction"}
    BY <1>6, CompactionAssumption DEF message, Type, Message
  <2> QED
    BY <1>3, <2>1
<1>7. CASE settings
  <2>1. Add("settings", 0) /\ open' = open /\ "settings" \in Type \ {"compaction"}
    BY <1>7 DEF settings, Type, Message
  <2> QED
    BY <1>1, <1>3, <2>1
<1>8. CASE prepareCompaction
  <2> DEFINE start == LastCompaction(path) + 1
  <2>1. start \in 1..Len(path)
    <3>1. LastCompaction(path) \in 0..Len(path) /\ IsLast(path, Len(path) + 1, LastCompaction(path))
      BY <1>1, LastOf DEF LastCompaction
    <3>2. path # <<>> /\ path[Len(path)].type # "compaction"
      BY <1>8 DEF prepareCompaction
    <3> QED
      BY <1>1, <3>1, <3>2 DEF IsLast
  <2>2. preparation'.kept = FirstKept(path, start) /\ path' = path /\ open' = open
    BY <1>8 DEF prepareCompaction
  <2>3. AtRest
    BY <1>8 DEF prepareCompaction
  <2> HIDE DEF start
  <2>4. open = 0 /\ Unsplit(path, 1, 0)
    BY <2>3 DEF AtRest, Answered
  <2>5. Unsplit(path, FirstKept(path, start), 0)
    BY <1>1, <2>1, <2>3, <2>4, CutUnsplit DEF AtRest
  <2> QED
    BY <2>2, <2>4, <2>5 DEF Answered
<1>9. CASE appendCompaction
  <2> DEFINE e == [type |-> "compaction", size |-> 0, kept |-> preparation.kept,
                   summarised |-> preparation.summarised]
  <2>1. e \in Entry /\ e.type = "compaction" /\ e.kept = preparation.kept
    BY <1>1 DEF Entry, Type, Preparation
  <2>2. path' = Append(path, e) /\ preparation' = None /\ open' = open /\ preparation # None
    BY <1>9 DEF appendCompaction
  <2> HIDE DEF e
  <2>3. \A from \in 1..(Len(path) + 1) : Unsplit(path, from, open) => Unsplit(path', from, open')
    BY <1>1, <1>2, <2>1, <2>2
  <2>4. LastCompaction(path') = Len(path) + 1 /\ path'[Len(path) + 1] = e
    BY <1>1, <2>1, <2>2, LastAfter, Longer
  <2>5. ShownFrom(path') = preparation.kept
    BY <1>1, <2>1, <2>4 DEF ShownFrom
  <2>6. preparation.kept \in 1..(Len(path) + 1)
    BY <1>1, <2>2 DEF Inv, PreparationCovers
  <2> QED
    BY <1>1, <2>2, <2>3, <2>5, <2>6 DEF Answered
<1>10. CASE compactionFails
  BY <1>10 DEF compactionFails, Answered
<1>11. CASE UNCHANGED vars
  BY <1>11 DEF vars, Answered
<1> QED
  BY <1>4, <1>5, <1>6, <1>7, <1>8, <1>9, <1>10, <1>11 DEF Next

\* As long as compactions are prepared when a run is over, no result is shown without the
\* message that called for it, wherever the path is cut and whatever is said while the
\* summary is written.
THEOREM ResultsKeepCalls == ASSUME ~AnyTime PROVE Spec => []ResultsFollowCalls
<1>1. Init => Inv /\ Answered
  <2>1. Init => Answered
    BY DEF Init, Answered, Unsplit
  <2> QED
    BY <2>1, InitInv
<1>2. Inv /\ Answered /\ [Next]_vars => Inv' /\ Answered'
  BY NextInv, AnsweredStep
<1>3. Inv /\ Answered => ResultsFollowCalls
  <2> SUFFICES ASSUME Inv, Answered, NEW i \in Shown(path), path[i].type = "result"
               PROVE  \E j \in Shown(path) : /\ j < i /\ path[j].type = "assistant"
                                             /\ \A k \in (j + 1)..(i - 1) : path[k].type # "assistant"
    BY DEF ResultsFollowCalls
  <2> DEFINE c == LastCompaction(path)
  <2>1. path \in Seq(Entry) /\ Len(path) \in Nat /\ Len(path) + 1 \in Nat /\ DOMAIN path = 1..Len(path)
    BY DEF Inv, TypeOK
  <2>2. c \in 0..Len(path) /\ IsLast(path, Len(path) + 1, c)
    BY <2>1, LastOf DEF LastCompaction
  <2>3. Shown(path) = {j \in DOMAIN path : InContext(path[j]) /\ (c = 0 \/ j > c \/ j >= path[c].kept)}
    BY DEF Shown
  <2>4. ShownFrom(path) = (IF c = 0 THEN 1 ELSE path[c].kept) /\ (c # 0 => path[c].kept \in 1..(c - 1))
    BY <2>2 DEF ShownFrom, IsLast, Inv, TypeOK
  <2> HIDE DEF c
  <2>5. i \in DOMAIN path /\ i >= ShownFrom(path)
    BY <2>1, <2>2, <2>3, <2>4
  <2>6. PICK j \in ShownFrom(path)..(i - 1) : /\ path[j].type = "assistant"
                                              /\ \A k \in (j + 1)..(i - 1) : ~IsCutPoint(path[k])
    BY <2>5 DEF Answered, Unsplit, Asked
  <2>7. j \in Shown(path)
    BY <2>1, <2>2, <2>3, <2>4, <2>5, <2>6 DEF InContext, IsMessage, Message
  <2>8. j < i
    BY <2>1, <2>2, <2>4, <2>5
  <2> QED
    BY <2>6, <2>7, <2>8 DEF IsCutPoint
<1> QED
  BY <1>1, <1>2, <1>3, PTL DEF Spec
=============================================================================
