------------------------- MODULE AgentSession_proofs -------------------------
(***************************************************************************)
(* Proofs about the session of an agent: its display follows the agent's   *)
(* queue, its transcript is what its file says, and its files hold what    *)
(* was said in them and nothing else, each unless a disturbance happens    *)
(* that breaks it, for any number of messages, sessions and compactions.   *)
(*                                                                         *)
(* Every invariant has three parts in common: TypeOK; Stages, at which     *)
(* await each activity can be while another is at one of its own; and      *)
(* Placed, in which one place each message is.  To these come Displayed    *)
(* for the display, Saves for transcript and file, Right for the files.    *)
(***************************************************************************)
EXTENDS SessionHistory, SequenceTheorems, WellFoundedInduction, TLAPS

(* Numbers and sequences *)

LEMMA MinOf ==
  ASSUME NEW S \in SUBSET Nat, S # {}
  PROVE  Min(S) \in S /\ \A i \in S : Min(S) <= i
<1> DEFINE R == {ss \in Nat \X Nat : ss[1] < ss[2]}
<1>1. IsWellFoundedOn(R, Nat)
  BY NatLessThanWellFounded, Zenon DEF OpToRel
<1>2. PICK m \in S : \A i \in S : ~ (<<i, m>> \in R)
  <2> HIDE DEF R
  <2> QED
    BY <1>1, WFMin
<1>3. \A i \in S : m <= i
  <2> TAKE i \in S
  <2>1. ~ (<<i, m>> \in R) /\ i \in Nat /\ m \in Nat
    BY <1>2
  <2>2. i < m => <<i, m>> \in R
    BY ONLY <2>1
  <2> QED
    BY ONLY <2>1, <2>2
<1> QED
  BY ONLY <1>3 DEF Min

LEMMA MaxOf ==
  ASSUME NEW n \in Nat, NEW S \in SUBSET (0..n), S # {}
  PROVE  Max(S) \in S /\ \A i \in S : i <= Max(S)
<1> DEFINE T == {n - i : i \in S}
<1>1. T \in SUBSET Nat /\ T # {}
  <2>1. \A i \in S : n - i \in Nat
    OBVIOUS
  <2> QED
    BY <2>1
<1> DEFINE m == Min(T)
<1>2. m \in T /\ \A j \in T : m <= j
  <2> HIDE DEF T
  <2> QED
    BY <1>1, MinOf
<1>3. PICK k \in S : m = n - k
  BY <1>2
<1>4. \A i \in S : i <= k
  <2> TAKE i \in S
  <2>1. m <= n - i
    BY <1>2
  <2>2. i \in 0..n /\ k \in 0..n /\ m = n - k
    BY <1>3
  <2> QED
    BY ONLY <2>1, <2>2, n \in Nat
<1> QED
  BY <1>4 DEF Max

\* Each number in turn: what holds of 0, and of n + 1 if of n, holds of all up to n.
LEMMA UpTo ==
  ASSUME NEW n \in Nat, NEW T \in SUBSET (0..n), 0 \in T,
         \A i \in 1..n : i - 1 \in T => i \in T
  PROVE  T = 0..n
<1> SUFFICES ASSUME (0..n) \ T # {} PROVE FALSE
  OBVIOUS
<1> DEFINE m == Min((0..n) \ T)
<1>1. m \in (0..n) \ T /\ \A i \in (0..n) \ T : m <= i
  BY MinOf
<1> HIDE DEF m
<1>2. m \in 1..n /\ m - 1 \in 0..n /\ ~(m <= m - 1)
  BY <1>1
<1>3. m - 1 \in T
  BY <1>1, <1>2
<1> QED
  BY <1>1, <1>2, <1>3

\* What Append, Tail and \o do to the elements and to their set.
LEMMA Appended ==
  ASSUME NEW S, NEW s \in Seq(S), NEW e \in S
  PROVE  /\ Append(s, e) \in Seq(S) /\ Len(Append(s, e)) = Len(s) + 1 /\ Len(s) \in Nat
         /\ \A i \in 1..Len(s) : Append(s, e)[i] = s[i]
         /\ Append(s, e)[Len(s) + 1] = e
         /\ Range(Append(s, e)) = Range(s) \cup {e}
         /\ Append(s, e) = s \o <<e>> /\ Append(s, e) # s
<1>1. /\ Append(s, e) \in Seq(S) /\ Len(Append(s, e)) = Len(s) + 1 /\ Len(s) \in Nat
      /\ \A i \in 1..Len(s) : Append(s, e)[i] = s[i]
      /\ Append(s, e)[Len(s) + 1] = e
      /\ Append(s, e) = s \o <<e>>
  BY AppendProperties, AppendIsConcat, LenProperties
<1>2. Range(Append(s, e)) = {Append(s, e)[i] : i \in 1..Len(s) + 1} /\ Range(s) = {s[i] : i \in 1..Len(s)}
  <2>1. Range(Append(s, e)) = {Append(s, e)[i] : i \in 1..Len(Append(s, e))}
    BY <1>1, RangeEquality
  <2>2. Range(s) = {s[i] : i \in 1..Len(s)}
    BY RangeEquality
  <2> QED
    BY <1>1, <2>1, <2>2
<1>3. 1..Len(s) + 1 = (1..Len(s)) \cup {Len(s) + 1}
  BY <1>1
<1>4. Len(Append(s, e)) # Len(s)
  BY <1>1
<1> QED
  BY <1>1, <1>2, <1>3, <1>4

LEMMA Tailed ==
  ASSUME NEW S, NEW s \in Seq(S), s # <<>>
  PROVE  /\ Tail(s) \in Seq(S) /\ Len(Tail(s)) = Len(s) - 1 /\ Len(s) \in Nat \ {0}
         /\ \A i \in 1..Len(Tail(s)) : i + 1 \in 1..Len(s) /\ Tail(s)[i] = s[i + 1]
         /\ Head(s) = s[1] /\ Head(s) \in S /\ 1 \in 1..Len(s)
         /\ Range(s) = Range(Tail(s)) \cup {Head(s)}
<1>1. /\ Tail(s) \in Seq(S) /\ Len(Tail(s)) = Len(s) - 1 /\ Len(s) \in Nat \ {0}
      /\ \A i \in 1..Len(Tail(s)) : Tail(s)[i] = s[i + 1]
      /\ Head(s) = s[1] /\ Head(s) \in S
  BY HeadTailProperties, EmptySeq
<1>2. \A i \in 1..Len(Tail(s)) : i + 1 \in 1..Len(s)
  <2>1. \A n \in Nat : \A i \in 1..(n - 1) : i + 1 \in 1..n
    OBVIOUS
  <2> QED
    BY ONLY <1>1, <2>1
<1>3. Range(Tail(s)) = {Tail(s)[i] : i \in 1..Len(Tail(s))} /\ Range(s) = {s[i] : i \in 1..Len(s)}
  <2>1. \A t \in Seq(S) : Range(t) = {t[i] : i \in 1..Len(t)}
    BY ONLY RangeEquality
  <2> QED
    BY ONLY <1>1, <2>1, s \in Seq(S)
<1>4. \A j \in 1..Len(s) : j = 1 \/ (j - 1 \in 1..Len(Tail(s)) /\ (j - 1) + 1 = j)
  BY <1>1
<1>5. 1 \in 1..Len(s)
  BY <1>1
<1>6. \A x : x \in Range(s) <=> x \in Range(Tail(s)) \cup {Head(s)}
  <2> TAKE x
  <2>1. ASSUME x \in Range(s) PROVE x \in Range(Tail(s)) \cup {Head(s)}
    <3>1. PICK j \in 1..Len(s) : x = s[j]
      BY <1>3, <2>1
    <3>2. CASE j = 1
      BY <1>1, <3>1, <3>2
    <3>3. CASE j - 1 \in 1..Len(Tail(s)) /\ (j - 1) + 1 = j
      <4>1. x = Tail(s)[j - 1]
        BY <1>1, <3>1, <3>3
      <4> QED
        BY <1>3, <3>3, <4>1
    <3> QED
      BY <1>4, <3>2, <3>3
  <2>2. ASSUME x \in Range(Tail(s)) \cup {Head(s)} PROVE x \in Range(s)
    <3>1. CASE x = Head(s)
      BY <1>1, <1>3, <1>5, <3>1
    <3>2. CASE x \in Range(Tail(s))
      <4>1. PICK i \in 1..Len(Tail(s)) : x = Tail(s)[i]
        BY <1>3, <3>2
      <4> QED
        BY <1>1, <1>2, <1>3, <4>1
    <3> QED
      BY <2>2, <3>1, <3>2
  <2> QED
    BY <2>1, <2>2
<1> QED
  BY <1>1, <1>2, <1>5, <1>6

\* The same, for all sequences at once.
LEMMA JoinedAll ==
  ASSUME NEW S
  PROVE  \A s, t \in Seq(S) : s \o t \in Seq(S) /\ Range(s \o t) = Range(s) \cup Range(t)
BY ConcatProperties, RangeConcatenation

LEMMA Grouped ==
  ASSUME NEW S, NEW s \in Seq(S), NEW t \in Seq(S)
  PROVE  \A r \in Seq(S) : (r \o s) \o t = r \o (s \o t)
<1> TAKE r \in Seq(S)
<1> QED
  BY ConcatAssociative

LEMMA Joined ==
  ASSUME NEW S, NEW s \in Seq(S), NEW t \in Seq(S)
  PROVE  /\ s \o t \in Seq(S) /\ Len(s \o t) = Len(s) + Len(t) /\ Len(s) \in Nat /\ Len(t) \in Nat
         /\ \A i \in 1..Len(s) : (s \o t)[i] = s[i]
         /\ \A i \in 1..Len(t) : (s \o t)[Len(s) + i] = t[i]
         /\ Range(s \o t) = Range(s) \cup Range(t)
         /\ t = <<>> => s \o t = s
         /\ t # <<>> => s \o t # s
<1>1. /\ s \o t \in Seq(S) /\ Len(s \o t) = Len(s) + Len(t) /\ Len(s) \in Nat /\ Len(t) \in Nat
      /\ \A i \in 1..Len(s) + Len(t) : (s \o t)[i] = IF i <= Len(s) THEN s[i] ELSE t[i - Len(s)]
  BY ConcatProperties, LenProperties
<1>2. ASSUME NEW i \in 1..Len(s) PROVE (s \o t)[i] = s[i]
  <2>1. i \in 1..Len(s) + Len(t) /\ i <= Len(s)
    BY <1>1
  <2> QED
    BY <1>1, <2>1
<1>3. ASSUME NEW i \in 1..Len(t) PROVE (s \o t)[Len(s) + i] = t[i]
  <2>1. Len(s) + i \in 1..Len(s) + Len(t) /\ ~(Len(s) + i <= Len(s)) /\ (Len(s) + i) - Len(s) = i
    BY <1>1
  <2> QED
    BY <1>1, <2>1
<1>4. t # <<>> => Len(t) > 0 /\ Len(s \o t) # Len(s)
  BY <1>1, EmptySeq
<1> QED
  BY <1>1, <1>2, <1>3, <1>4, RangeConcatenation, ConcatEmptySeq

-----------------------------------------------------------------------------
(* Rising sequences of messages *)

\* Messages are numbers, and 0, the end of a run, is none of them.
LEMMA MessagesAreNumbers == Messages \subseteq Nat /\ End \notin Messages
BY SessionAssumption DEF Messages, End

Rising(s) == \A i, j \in 1..Len(s) : i < j => s[i] < s[j]

LEMMA RisingAppended ==
  ASSUME NEW s \in Seq(Messages), NEW e \in Messages, Rising(s), \A m \in Range(s) : m < e
  PROVE  Rising(Append(s, e))
<1>1. \A i \in 1..Len(s) : s[i] < e
  BY RangeEquality
<1>2. /\ Len(Append(s, e)) = Len(s) + 1 /\ Len(s) \in Nat
      /\ \A i \in 1..Len(s) : Append(s, e)[i] = s[i]
      /\ Append(s, e)[Len(s) + 1] = e
  BY Appended
<1> SUFFICES ASSUME NEW i \in 1..Len(Append(s, e)), NEW j \in 1..Len(Append(s, e)), i < j
             PROVE  Append(s, e)[i] < Append(s, e)[j]
  BY DEF Rising
<1>3. i \in 1..Len(s) /\ (j \in 1..Len(s) \/ j = Len(s) + 1)
  BY <1>2
<1> QED
  BY <1>1, <1>2, <1>3 DEF Rising

LEMMA RisingTailed ==
  ASSUME NEW s \in Seq(Messages), s # <<>>, Rising(s)
  PROVE  Rising(Tail(s)) /\ Head(s) \notin Range(Tail(s))
<1>1. /\ Tail(s) \in Seq(Messages) /\ Len(Tail(s)) = Len(s) - 1 /\ Len(s) \in Nat \ {0}
      /\ \A i \in 1..Len(Tail(s)) : i + 1 \in 1..Len(s) /\ Tail(s)[i] = s[i + 1]
      /\ Head(s) = s[1] /\ Head(s) \in Messages /\ 1 \in 1..Len(s)
  BY Tailed
<1>2. ASSUME NEW i \in 1..Len(Tail(s)), NEW j \in 1..Len(Tail(s)), i < j
      PROVE  Tail(s)[i] < Tail(s)[j]
  <2>1. i + 1 < j + 1
    BY <1>1, <1>2
  <2> QED
    BY <1>1, <2>1 DEF Rising
<1>3. ASSUME NEW i \in 1..Len(Tail(s))
      PROVE  Tail(s)[i] # Head(s)
  <2>1. 1 < i + 1
    BY <1>1
  <2>2. s[1] < s[i + 1]
    BY <1>1, <2>1 DEF Rising
  <2>3. s[1] \in Nat
    BY <1>1 DEF Messages
  <2> QED
    BY <1>1, <2>2, <2>3
<1>4. Range(Tail(s)) = {Tail(s)[i] : i \in 1..Len(Tail(s))}
  BY <1>1, RangeEquality
<1> QED
  BY <1>2, <1>3, <1>4 DEF Rising

\* Rising sequences of the same messages are the same.
LEMMA RisingPrefix ==
  ASSUME NEW s \in Seq(Messages), NEW t \in Seq(Messages), Rising(s), Rising(t), Range(s) = Range(t),
         NEW i \in Nat, \A j \in 1..i : j \in 1..Len(s) /\ j \in 1..Len(t) /\ s[j] = t[j],
         i + 1 \in 1..Len(s)
  PROVE  i + 1 \in 1..Len(t) /\ t[i + 1] <= s[i + 1]
<1>1. Range(s) = {s[j] : j \in 1..Len(s)} /\ Range(t) = {t[j] : j \in 1..Len(t)}
  BY RangeEquality
<1>2. PICK k \in 1..Len(t) : s[i + 1] = t[k]
  BY <1>1
<1>3. Len(s) \in Nat /\ Len(t) \in Nat /\ s[i + 1] \in Nat
  <2>1. s[i + 1] \in Messages
    BY ElementOfSeq
  <2> QED
    BY <2>1, MessagesAreNumbers, LenProperties
<1>4. ~(k <= i)
  <2> SUFFICES ASSUME k \in 1..i PROVE FALSE
    BY <1>2
  <2>1. k \in 1..Len(s) /\ s[k] = t[k]
    OBVIOUS
  <2>2. k < i + 1
    OBVIOUS
  <2>3. s[k] < s[i + 1]
    BY <2>1, <2>2 DEF Rising
  <2> QED
    BY <1>2, <1>3, <2>1, <2>3
<1>5. i + 1 \in 1..Len(t) /\ (k = i + 1 \/ i + 1 < k)
  BY <1>2, <1>3, <1>4
<1>6. i + 1 < k => t[i + 1] < t[k]
  BY <1>2, <1>5 DEF Rising
<1>7. t[i + 1] \in Nat
  <2>1. t[i + 1] \in Messages
    BY <1>5, ElementOfSeq
  <2> QED
    BY <2>1, MessagesAreNumbers
<1> QED
  BY <1>2, <1>3, <1>5, <1>6, <1>7

LEMMA RisingSame ==
  ASSUME NEW s \in Seq(Messages), NEW t \in Seq(Messages), Rising(s), Rising(t), Range(s) = Range(t)
  PROVE  s = t
<1> DEFINE n == Len(s)
           Same(i) == i \in 1..Len(s) /\ i \in 1..Len(t) /\ s[i] = t[i]
           T == {i \in 0..n : \A j \in 1..i : Same(j)}
<1>1. n \in Nat /\ Len(t) \in Nat
  BY LenProperties
<1>2. T = 0..n
  <2>1. 0 \in T
    BY <1>1
  <2>2. ASSUME NEW i \in 1..n, i - 1 \in T PROVE i \in T
    <3>1. i - 1 \in Nat /\ (i - 1) + 1 = i /\ \A j \in 1..(i - 1) : Same(j)
      BY <2>2
    <3>2. i \in 1..Len(t) /\ t[i] <= s[i]
      BY <3>1, RisingPrefix
    <3>3. s[i] <= t[i]
      BY <3>1, <3>2, RisingPrefix
    <3>4. s[i] \in Nat /\ t[i] \in Nat
      <4>1. s[i] \in Messages /\ t[i] \in Messages
        BY <3>2, ElementOfSeq
      <4> QED
        BY <4>1, MessagesAreNumbers
    <3>5. Same(i)
      BY <3>2, <3>3, <3>4
    <3>6. \A j \in 1..i : j = i \/ j \in 1..(i - 1)
      BY <1>1
    <3>7. \A j \in 1..i : Same(j)
      BY <3>1, <3>5, <3>6
    <3> QED
      BY <3>7
  <2>3. T \in SUBSET (0..n)
    OBVIOUS
  <2> HIDE DEF T
  <2> QED
    BY <1>1, <2>1, <2>2, <2>3, UpTo
<1>3. \A j \in 1..n : Same(j)
  <2>1. n \in T
    BY <1>1, <1>2
  <2> QED
    BY <2>1
<1>4. Len(t) = n
  <2> SUFFICES ASSUME n + 1 \in 1..Len(t) PROVE FALSE
    <3>1. n <= Len(t)
      <4>1. n = 0 \/ n \in 1..n
        BY <1>1
      <4> QED
        BY <1>1, <1>3, <4>1
    <3> QED
      BY <1>1, <3>1
  <2>1. n + 1 \in 1..Len(s)
    BY <1>1, <1>3, RisingPrefix
  <2> QED
    BY <1>1, <2>1
<1> QED
  BY <1>3, <1>4, SeqEqual

LEMMA RisingRemoved ==
  ASSUME NEW s \in Seq(Messages), Rising(s), NEW e
  PROVE  /\ RemoveFirst(s, e) \in Seq(Messages) /\ Rising(RemoveFirst(s, e))
         /\ Range(RemoveFirst(s, e)) = Range(s) \ {e}
<1> DEFINE n == Len(s)
           I == {i \in 1..n : s[i] = e}
<1>0. n \in Nat /\ Range(s) = {s[i] : i \in 1..n}
  BY LenProperties, RangeEquality
<1>1. CASE I = {}
  <2>1. RemoveFirst(s, e) = s
    BY <1>1 DEF RemoveFirst
  <2> QED
    BY <1>0, <1>1, <2>1
<1>2. CASE I # {}
  <2> DEFINE k == Min(I)
             a == SubSeq(s, 1, k - 1)
             b == SubSeq(s, k + 1, n)
  <2>1. k \in 1..n /\ s[k] = e
    <3>1. I \in SUBSET Nat
      OBVIOUS
    <3>2. k \in I
      BY <1>2, <3>1, MinOf
    <3> QED
      BY <3>2
  <2>2. RemoveFirst(s, e) = a \o b
    BY <1>2 DEF RemoveFirst, RemoveAt, SelectInSeq
  <2> HIDE DEF k
  <2>3. a \in Seq(Messages) /\ Len(a) = k - 1 /\ \A i \in 1..(k - 1) : a[i] = s[i]
    <3>1. \A i \in 1..(k - 1) : s[i] \in Messages
      BY <1>0, <2>1, ElementOfSeq
    <3>2. 1 \in Int /\ k - 1 \in Int /\ k \in Nat /\ k >= 1
      BY <1>0, <2>1
    <3>3. /\ a \in Seq(Messages) /\ Len(a) = (IF 1 <= k - 1 THEN (k - 1) - 1 + 1 ELSE 0)
          /\ \A i \in 1..(k - 1) - 1 + 1 : a[i] = s[1 + i - 1]
      BY ONLY <3>1, <3>2, SubSeqProperties
    <3> HIDE DEF a
    <3>4. Len(a) = k - 1
      BY <3>2, <3>3
    <3>5. \A i \in 1..(k - 1) : i \in 1..(k - 1) - 1 + 1 /\ 1 + i - 1 = i
      BY <3>2
    <3> QED
      BY <3>3, <3>4, <3>5
  <2>4. b \in Seq(Messages) /\ Len(b) = n - k /\ \A i \in 1..(n - k) : b[i] = s[k + i]
    <3>1. \A i \in (k + 1)..n : s[i] \in Messages
      BY <1>0, <2>1, ElementOfSeq
    <3>2. k + 1 \in Int /\ n \in Int /\ k \in 1..n /\ n \in Nat
      BY <1>0, <2>1
    <3>3. /\ b \in Seq(Messages) /\ Len(b) = (IF k + 1 <= n THEN n - (k + 1) + 1 ELSE 0)
          /\ \A i \in 1..n - (k + 1) + 1 : b[i] = s[k + 1 + i - 1]
      BY ONLY <3>1, <3>2, SubSeqProperties
    <3> HIDE DEF b
    <3>4. Len(b) = n - k
      BY <3>2, <3>3
    <3>5. \A i \in 1..(n - k) : i \in 1..n - (k + 1) + 1 /\ k + 1 + i - 1 = k + i
      BY <3>2
    <3> QED
      BY <3>3, <3>4, <3>5
  <2> HIDE DEF a, b
  <2>5. /\ a \o b \in Seq(Messages) /\ Len(a \o b) = n - 1
        /\ \A i \in 1..(k - 1) : (a \o b)[i] = s[i]
        /\ \A i \in 1..(n - k) : (a \o b)[(k - 1) + i] = s[k + i]
    <3>1. /\ a \o b \in Seq(Messages) /\ Len(a \o b) = (k - 1) + (n - k)
          /\ \A i \in 1..(k - 1) : (a \o b)[i] = a[i]
          /\ \A i \in 1..(n - k) : (a \o b)[(k - 1) + i] = b[i]
      <4>1. a \in Seq(Messages) /\ b \in Seq(Messages)
        BY <2>3, <2>4
      <4>2. /\ a \o b \in Seq(Messages) /\ Len(a \o b) = Len(a) + Len(b)
            /\ \A i \in 1..Len(a) : (a \o b)[i] = a[i]
            /\ \A i \in 1..Len(b) : (a \o b)[Len(a) + i] = b[i]
        BY ONLY <4>1, Joined
      <4> QED
        BY <2>3, <2>4, <4>2
    <3>2. (k - 1) + (n - k) = n - 1
      BY <1>0, <2>1
    <3> QED
      BY <2>3, <2>4, <3>1, <3>2
  <2>6. ASSUME NEW i \in 1..(n - 1)
        PROVE  IF i < k THEN (a \o b)[i] = s[i] ELSE (a \o b)[i] = s[i + 1]
    <3>1. CASE i < k
      <4>1. i \in 1..(k - 1)
        BY <1>0, <2>1, <3>1
      <4> QED
        BY <2>5, <3>1, <4>1
    <3>2. CASE ~(i < k)
      <4>1. i - k + 1 \in 1..(n - k) /\ (k - 1) + (i - k + 1) = i /\ k + (i - k + 1) = i + 1
        BY <1>0, <2>1, <3>2
      <4> QED
        BY <2>5, <3>2, <4>1
    <3> QED
      BY <3>1, <3>2
  <2>7. Rising(a \o b)
    <3> SUFFICES ASSUME NEW i \in 1..(n - 1), NEW j \in 1..(n - 1), i < j
                 PROVE  (a \o b)[i] < (a \o b)[j]
      BY <2>5 DEF Rising
    <3> DEFINE p == IF i < k THEN i ELSE i + 1
               q == IF j < k THEN j ELSE j + 1
    <3>1. p \in 1..n /\ q \in 1..n /\ p < q
      BY <1>0, <2>1
    <3>2. s[p] < s[q]
      BY <3>1 DEF Rising
    <3> QED
      BY <2>6, <3>2
  <2>8. Range(a \o b) = {(a \o b)[i] : i \in 1..(n - 1)}
    <3>1. Range(a \o b) = {(a \o b)[i] : i \in 1..Len(a \o b)}
      BY <2>5, RangeEquality
    <3> QED
      BY <2>5, <3>1
  <2>9. ASSUME NEW x \in Range(a \o b) PROVE x \in Range(s) /\ x # e
    <3>1. PICK i \in 1..(n - 1) : x = (a \o b)[i]
      BY <2>8
    <3> DEFINE p == IF i < k THEN i ELSE i + 1
    <3>2. p \in 1..n /\ (p < k \/ k < p)
      BY <1>0, <2>1
    <3>a. x = s[p]
      BY <2>6, <3>1
    <3> HIDE DEF p
    <3>3. s[p] < s[k] \/ s[k] < s[p]
      BY <2>1, <3>2 DEF Rising
    <3>4. s[k] \in Nat
      <4>1. s[k] \in Messages
        BY <2>1, ElementOfSeq
      <4> QED
        BY <4>1, MessagesAreNumbers
    <3>5. s[p] # s[k]
      BY <3>3, <3>4
    <3> QED
      BY <1>0, <2>1, <3>2, <3>a, <3>5
  <2>10. ASSUME NEW x \in Range(s), x # e PROVE x \in Range(a \o b)
    <3>1. PICK i \in 1..n : x = s[i]
      BY <1>0
    <3>2. i < k \/ i > k
      BY <1>0, <2>1, <2>10, <3>1
    <3>3. CASE i < k
      <4>1. i \in 1..(n - 1)
        BY <1>0, <2>1, <3>3
      <4> QED
        BY <2>6, <2>8, <3>1, <3>3, <4>1
    <3>4. CASE i > k
      <4>1. i - 1 \in 1..(n - 1) /\ ~(i - 1 < k) /\ (i - 1) + 1 = i
        BY <1>0, <2>1, <3>4
      <4> QED
        BY <2>6, <2>8, <3>1, <4>1
    <3> QED
      BY <3>2, <3>3, <3>4
  <2> QED
    BY <2>2, <2>5, <2>7, <2>9, <2>10
<1> QED
  BY <1>1, <1>2

-----------------------------------------------------------------------------
(* What is in a file *)

\* MessagesOf is computed: a table of what the entries up to each one hold.
LEMMA MessagesOfFile ==
  ASSUME NEW f \in Seq(Entry)
  PROVE  MessagesOf(f) \in Seq(Entry) /\ Range(MessagesOf(f)) \subseteq Range(f)
<1> DEFINE n == Len(f)
           Part(i) == IF f[i].type = "message" THEN <<f[i]>> ELSE <<>>
           Table(h) == h = [i \in 0..n |-> IF i = 0 THEN <<>> ELSE h[i - 1] \o Part(i)]
           Partial(k, h) == DOMAIN h = 0..k /\ h[0] = <<>> /\ \A i \in 1..k : h[i] = h[i - 1] \o Part(i)
           T == {k \in 0..n : \E h : Partial(k, h)}
<1>0. n \in Nat
  BY LenProperties
<1>1. T = 0..n
  <2>1. 0 \in T
    <3>1. Partial(0, [i \in 0..0 |-> <<>>])
      OBVIOUS
    <3> HIDE DEF Partial
    <3>2. \E h : Partial(0, h)
      BY <3>1
    <3> QED
      BY <1>0, <3>2
  <2>2. ASSUME NEW k \in 1..n, k - 1 \in T PROVE k \in T
    <3>1. PICK g : Partial(k - 1, g)
      BY <2>2
    <3> DEFINE h == [i \in 0..k |-> IF i = k THEN g[k - 1] \o Part(k) ELSE g[i]]
    <3>2. h[0] = <<>> /\ DOMAIN h = 0..k
      BY <1>0, <3>1
    <3>3. ASSUME NEW i \in 1..k PROVE h[i] = h[i - 1] \o Part(i)
      <4>1. i \in 0..k /\ i - 1 \in 0..k /\ i - 1 # k /\ (i = k \/ i \in 1..(k - 1))
        BY <1>0
      <4> HIDE DEF Part
      <4> QED
        BY <3>1, <4>1
    <3> HIDE DEF h
    <3>4. Partial(k, h)
      BY <3>2, <3>3
    <3> QED
      BY <3>4
  <2>3. T \in SUBSET (0..n)
    OBVIOUS
  <2> HIDE DEF T
  <2> QED
    BY <1>0, <2>1, <2>2, <2>3, UpTo
<1>2. \E h : Table(h)
  <2>1. \E g : Partial(n, g)
    <3> HIDE DEF Partial
    <3>1. \A k \in 0..n : k \in T
      BY <1>1
    <3> QED
      BY <1>0, <3>1
  <2>2. PICK g : Partial(n, g)
    BY <2>1
  <2> DEFINE h == [i \in 0..n |-> g[i]]
  <2>3. Table(h)
    <3>1. ASSUME NEW i \in 0..n PROVE h[i] = IF i = 0 THEN <<>> ELSE h[i - 1] \o Part(i)
      <4>1. CASE i = 0
        BY <2>2, <4>1
      <4>2. CASE i # 0
        <5>1. i \in 1..n /\ i - 1 \in 0..n
          BY <1>0, <4>2
        <5> HIDE DEF Part
        <5> QED
          BY <2>2, <4>2, <5>1
      <4> QED
        BY <4>1, <4>2
    <3>2. h = [i \in 0..n |-> h[i]]
      OBVIOUS
    <3> HIDE DEF h, Part
    <3> QED
      BY <3>1, <3>2
  <2> QED
    BY <2>3
<1> DEFINE u == CHOOSE h : Table(h)
<1>3. Table(u)
  BY <1>2
<1>4. MessagesOf(f) = u[n]
  BY DEF MessagesOf
<1> HIDE DEF u
<1>5. u[0] = <<>> /\ \A i \in 1..n : u[i] = u[i - 1] \o Part(i)
  <2>1. ASSUME NEW i \in 0..n PROVE u[i] = IF i = 0 THEN <<>> ELSE u[i - 1] \o Part(i)
    BY <1>3
  <2>2. 0 \in 0..n /\ \A i \in 1..n : i \in 0..n /\ i # 0
    BY <1>0
  <2> HIDE DEF Part
  <2> QED
    BY <2>1, <2>2
<1> DEFINE Good == {i \in 0..n : u[i] \in Seq(Entry) /\ Range(u[i]) \subseteq Range(f)}
<1>6. Good = 0..n
  <2>1. 0 \in Good
    <3>1. u[0] \in Seq(Entry) /\ Range(u[0]) = {}
      BY <1>5, EmptySeq DEF Range
    <3> QED
      BY <1>0, <3>1
  <2>2. ASSUME NEW i \in 1..n, i - 1 \in Good PROVE i \in Good
    <3>1. f[i] \in Entry /\ f[i] \in Range(f)
      BY ElementOfSeq, RangeEquality
    <3>2. Part(i) \in Seq(Entry) /\ Range(Part(i)) \subseteq {f[i]}
      <4>1. <<f[i]>> \in Seq(Entry) /\ Range(<<f[i]>>) = {f[i]}
        BY <3>1 DEF Range
      <4>2. <<>> \in Seq(Entry) /\ Range(<<>>) = {}
        BY EmptySeq DEF Range
      <4> QED
        BY <4>1, <4>2
    <3>3. u[i - 1] \in Seq(Entry) /\ Range(u[i - 1]) \subseteq Range(f) /\ u[i] = u[i - 1] \o Part(i)
      BY <1>5, <2>2
    <3> HIDE DEF Part
    <3>4. u[i] \in Seq(Entry) /\ Range(u[i]) = Range(u[i - 1]) \cup Range(Part(i))
      BY <3>2, <3>3, Joined
    <3>5. Range(u[i]) \subseteq Range(f)
      BY <3>1, <3>2, <3>3, <3>4
    <3>6. i \in 0..n
      BY <1>0
    <3> QED
      BY <3>4, <3>5, <3>6
  <2>3. Good \in SUBSET (0..n)
    OBVIOUS
  <2> HIDE DEF Good
  <2> QED
    BY <1>0, <2>1, <2>2, <2>3, UpTo
<1>7. n \in Good
  BY <1>0, <1>6
<1> QED
  BY <1>4, <1>7

\* The last compaction of a file.
LEMMA LastOf ==
  ASSUME NEW f \in Seq(Entry)
  PROVE  /\ LastCompaction(f) \in 0..Len(f) /\ Len(f) \in Nat
         /\ LastCompaction(f) # 0 => f[LastCompaction(f)].type = "compaction"
         /\ \A i \in 1..Len(f) : f[i].type = "compaction" => i <= LastCompaction(f)
<1> DEFINE S == {0} \cup {i \in DOMAIN f : f[i].type = "compaction"}
<1>1. DOMAIN f = 1..Len(f) /\ Len(f) \in Nat
  BY LenProperties
<1>2. S \in SUBSET (0..Len(f)) /\ S # {}
  BY <1>1
<1>3. Max(S) \in S /\ \A i \in S : i <= Max(S)
  <2> HIDE DEF S
  <2> QED
    BY <1>1, <1>2, MaxOf
<1>4. LastCompaction(f) = Max(S)
  BY DEF LastCompaction
<1> QED
  BY <1>1, <1>2, <1>3, <1>4

\* What may be kept first has been said.
LEMMA KeepableIsSaid ==
  ASSUME NEW f \in Seq(Entry), NEW m \in Keepable(f)
  PROVE  m \in Messages /\ Said(m) \in Range(f)
<1>1. PICK i \in (LastCompaction(f) + 1)..Len(f) : m = f[i].of
  BY DEF Keepable
<1>2. i \in 1..Len(f) /\ ~(i <= LastCompaction(f))
  BY <1>1, LastOf
<1>3. f[i].type # "compaction"
  BY <1>2, LastOf
<1>4. f[i] \in Entry /\ f[i] \in Range(f)
  BY <1>2, ElementOfSeq, RangeEquality
<1>5. f[i] = Said(m)
  BY <1>1, <1>3, <1>4 DEF Entry, Said
<1> QED
  BY <1>1, <1>4, <1>5 DEF Entry

\* The parts of a context.
LEMMA PartsOfContext ==
  ASSUME NEW f \in Seq(Entry), LastCompaction(f) # 0
  PROVE  LET c     == LastCompaction(f)
             first == {i \in 1..(c - 1) : f[i] = Said(f[c].of)}
         IN /\ c \in 1..Len(f) /\ f[c] \in Entry /\ f[c] \in Range(f) /\ Len(f) \in Nat
            /\ first # {} => Min(first) \in 1..(c - 1)
            /\ first # {} => /\ SubSeq(f, Min(first), c - 1) \in Seq(Entry)
                             /\ Range(SubSeq(f, Min(first), c - 1)) \subseteq Range(f)
            /\ SubSeq(f, c + 1, Len(f)) \in Seq(Entry)
            /\ Len(SubSeq(f, c + 1, Len(f))) = Len(f) - c
            /\ \A i \in 1..Len(f) - c : SubSeq(f, c + 1, Len(f))[i] = f[c + i]
            /\ Range(SubSeq(f, c + 1, Len(f))) \subseteq Range(f)
<1> DEFINE c     == LastCompaction(f)
           first == {i \in 1..(c - 1) : f[i] = Said(f[c].of)}
           r     == SubSeq(f, c + 1, Len(f))
<1>1. c \in 1..Len(f) /\ Len(f) \in Nat
  BY LastOf
<1> HIDE DEF c
<1>2. f[c] \in Entry /\ f[c] \in Range(f)
  BY <1>1, ElementOfSeq, RangeEquality
<1>3. first # {} => Min(first) \in 1..(c - 1)
  <2>1. first \in SUBSET Nat
    BY <1>1
  <2>2. first # {} => Min(first) \in first
    <3> HIDE DEF first
    <3> QED
      BY <2>1, MinOf
  <2> QED
    BY <2>2
<1>4. \A i \in 1..Len(f) : f[i] \in Entry /\ f[i] \in Range(f)
  BY ElementOfSeq, RangeEquality
<1>5. ASSUME NEW a \in 1..(c - 1)
      PROVE  SubSeq(f, a, c - 1) \in Seq(Entry) /\ Range(SubSeq(f, a, c - 1)) \subseteq Range(f)
  <2> DEFINE p == SubSeq(f, a, c - 1)
  <2>1. a \in Int /\ c - 1 \in Int /\ \A i \in a..(c - 1) : f[i] \in Entry
    BY <1>1, <1>4
  <2>2. /\ p \in Seq(Entry)
        /\ Len(p) = (IF a <= c - 1 THEN (c - 1) - a + 1 ELSE 0)
        /\ \A i \in 1..(c - 1) - a + 1 : p[i] = f[a + i - 1]
    BY ONLY <2>1, SubSeqProperties
  <2> HIDE DEF p
  <2>3. Range(p) = {p[i] : i \in 1..Len(p)}
    BY <2>2, RangeEquality
  <2>4. \A i \in 1..Len(p) : i \in 1..(c - 1) - a + 1 /\ a + i - 1 \in 1..Len(f)
    BY <1>1, <2>2
  <2>5. p \in Seq(Entry) /\ Range(p) \subseteq Range(f)
    BY <1>4, <2>2, <2>3, <2>4
  <2> QED
    BY <2>5 DEF p
<1>6. r \in Seq(Entry) /\ Len(r) = Len(f) - c /\ (\A i \in 1..Len(f) - c : r[i] = f[c + i])
  <2>1. c + 1 \in Int /\ Len(f) \in Int /\ \A i \in (c + 1)..Len(f) : f[i] \in Entry
    BY <1>1, <1>4
  <2>2. /\ r \in Seq(Entry)
        /\ Len(r) = (IF c + 1 <= Len(f) THEN Len(f) - (c + 1) + 1 ELSE 0)
        /\ \A i \in 1..Len(f) - (c + 1) + 1 : r[i] = f[c + 1 + i - 1]
    BY ONLY <2>1, SubSeqProperties
  <2> HIDE DEF r
  <2>3. Len(r) = Len(f) - c
    BY <1>1, <2>2
  <2>4. \A i \in 1..Len(f) - c : i \in 1..Len(f) - (c + 1) + 1 /\ c + 1 + i - 1 = c + i
    BY <1>1
  <2> QED
    BY <2>2, <2>3, <2>4
<1>7. Range(r) \subseteq Range(f)
  <2> HIDE DEF r
  <2>1. Range(r) = {r[i] : i \in 1..Len(r)}
    BY <1>6, RangeEquality
  <2>2. \A i \in 1..Len(f) - c : c + i \in 1..Len(f)
    BY <1>1
  <2> QED
    BY <1>4, <1>6, <2>1, <2>2
<1>8. first # {} => /\ SubSeq(f, Min(first), c - 1) \in Seq(Entry)
                    /\ Range(SubSeq(f, Min(first), c - 1)) \subseteq Range(f)
  BY <1>3, <1>5
<1> QED
  BY <1>1, <1>2, <1>3, <1>6, <1>7, <1>8 DEF c

\* What the agent is given comes from the file.
LEMMA ContextInFile ==
  ASSUME NEW f \in Seq(Entry)
  PROVE  Context(f) \in Seq(Entry) /\ Range(Context(f)) \subseteq Range(f)
<1> DEFINE c     == LastCompaction(f)
           first == {i \in 1..(c - 1) : f[i] = Said(f[c].of)}
           part  == SubSeq(f, Min(first), c - 1)
           kept  == IF first = {} THEN <<>> ELSE MessagesOf(part)
           r     == SubSeq(f, c + 1, Len(f))
<1>1. CASE c = 0
  BY <1>1 DEF Context
<1>2. CASE c # 0
  <2>1. Context(f) = <<f[c]>> \o kept \o r
    BY <1>2 DEF Context
  <2>2. /\ f[c] \in Entry /\ f[c] \in Range(f)
        /\ first # {} => part \in Seq(Entry) /\ Range(part) \subseteq Range(f)
        /\ r \in Seq(Entry) /\ Range(r) \subseteq Range(f)
    BY <1>2, PartsOfContext
  <2> HIDE DEF c, first, part, r
  <2>3. kept \in Seq(Entry) /\ Range(kept) \subseteq Range(f)
    <3>1. CASE first = {}
      BY <3>1, EmptySeq DEF Range
    <3>2. CASE first # {}
      BY <2>2, <3>2, MessagesOfFile
    <3> QED
      BY <3>1, <3>2
  <2>4. <<f[c]>> \in Seq(Entry) /\ Range(<<f[c]>>) = {f[c]}
    BY <2>2 DEF Range
  <2> HIDE DEF kept
  <2>5. <<f[c]>> \o kept \in Seq(Entry) /\ Range(<<f[c]>> \o kept) = {f[c]} \cup Range(kept)
    <3>1. \A s, t \in Seq(Entry) : s \o t \in Seq(Entry) /\ Range(s \o t) = Range(s) \cup Range(t)
      BY JoinedAll
    <3> QED
      BY ONLY <2>3, <2>4, <3>1
  <2>6. (<<f[c]>> \o kept) \o r \in Seq(Entry)
        /\ Range((<<f[c]>> \o kept) \o r) = Range(<<f[c]>> \o kept) \cup Range(r)
    <3>1. \A s, t \in Seq(Entry) : s \o t \in Seq(Entry) /\ Range(s \o t) = Range(s) \cup Range(t)
      BY JoinedAll
    <3> QED
      BY ONLY <2>2, <2>5, <3>1
  <2> QED
    BY <2>1, <2>2, <2>3, <2>5, <2>6
<1> QED
  BY <1>1, <1>2

\* What is said after all else is shown after all else.
LEMMA ContextGrows ==
  ASSUME NEW f \in Seq(Entry), NEW g \in Seq(Entry), \A i \in 1..Len(g) : g[i].type = "message"
  PROVE  Context(f \o g) = Context(f) \o g
<1> DEFINE h     == f \o g
           c     == LastCompaction(f)
           first == {i \in 1..(c - 1) : f[i] = Said(f[c].of)}
           part  == SubSeq(f, Min(first), c - 1)
           kept  == IF first = {} THEN <<>> ELSE MessagesOf(part)
           r     == SubSeq(f, c + 1, Len(f))
<1>1. /\ h \in Seq(Entry) /\ Len(h) = Len(f) + Len(g) /\ Len(f) \in Nat /\ Len(g) \in Nat
      /\ \A i \in 1..Len(f) : h[i] = f[i]
      /\ \A i \in 1..Len(g) : h[Len(f) + i] = g[i]
  BY Joined
<1> HIDE DEF h
<1>2. LastCompaction(h) = c
  <2> DEFINE A == {i \in DOMAIN f : f[i].type = "compaction"}
             B == {i \in DOMAIN h : h[i].type = "compaction"}
  <2>1. DOMAIN f = 1..Len(f) /\ DOMAIN h = 1..Len(h)
    BY <1>1, LenProperties
  <2>2. ASSUME NEW i \in 1..Len(h), ~(i \in 1..Len(f)) PROVE h[i].type = "message"
    <3>1. i - Len(f) \in 1..Len(g) /\ Len(f) + (i - Len(f)) = i
      BY <1>1, <2>2
    <3> QED
      BY <1>1, <3>1
  <2>3. \A i \in 1..Len(f) : i \in 1..Len(h)
    BY <1>1
  <2>4. \A i : i \in A <=> i \in B
    BY <1>1, <2>1, <2>2, <2>3
  <2>5. A = B
    BY <2>4
  <2> HIDE DEF A, B
  <2>6. {0} \cup A = {0} \cup B
    BY <2>5
  <2> QED
    BY <2>6 DEF LastCompaction, A, B
<1>3. CASE c = 0
  BY <1>2, <1>3 DEF Context, h
<1>4. CASE c # 0
  <2> DEFINE firsth == {i \in 1..(c - 1) : h[i] = Said(h[c].of)}
             parth  == SubSeq(h, Min(firsth), c - 1)
             rh     == SubSeq(h, c + 1, Len(h))
  <2>1. Context(h) = <<h[c]>> \o (IF firsth = {} THEN <<>> ELSE MessagesOf(parth)) \o rh
    BY <1>2, <1>4 DEF Context
  <2>2. Context(f) = <<f[c]>> \o kept \o r
    BY <1>4 DEF Context
  <2>3. /\ c \in 1..Len(f) /\ f[c] \in Entry /\ (first # {} => Min(first) \in 1..(c - 1))
        /\ first # {} => part \in Seq(Entry)
        /\ r \in Seq(Entry) /\ Len(r) = Len(f) - c /\ (\A i \in 1..Len(f) - c : r[i] = f[c + i])
    BY <1>4, PartsOfContext
  <2>4. LastCompaction(h) # 0
    BY <1>2, <1>4
  <2>5. rh \in Seq(Entry) /\ Len(rh) = Len(h) - c /\ (\A i \in 1..Len(h) - c : rh[i] = h[c + i])
    <3> DEFINE d == LastCompaction(h)
    <3>1. /\ SubSeq(h, d + 1, Len(h)) \in Seq(Entry)
          /\ Len(SubSeq(h, d + 1, Len(h))) = Len(h) - d
          /\ \A i \in 1..Len(h) - d : SubSeq(h, d + 1, Len(h))[i] = h[d + i]
      BY <1>1, <2>4, PartsOfContext
    <3> HIDE DEF d
    <3>2. d = c
      BY <1>2 DEF d
    <3> HIDE DEF c
    <3> QED
      BY <3>1, <3>2
  <2> HIDE DEF c
  <2>6. firsth = first
    <3>1. \A i \in 1..(c - 1) : i \in 1..Len(f)
      BY <1>1, <2>3
    <3> QED
      BY <1>1, <2>3, <3>1
  <2>7. first # {} => parth = part
    <3> SUFFICES ASSUME first # {} PROVE parth = part
      OBVIOUS
    <3> HIDE DEF first, firsth
    <3>1. Min(firsth) = Min(first) /\ Min(first) \in 1..Len(f) /\ c - 1 \in 1..Len(f)
      <4>1. Min(first) \in 1..(c - 1) /\ c \in 1..Len(f) /\ Len(f) \in Nat
        BY <1>1, <2>3
      <4> QED
        BY <2>6, <4>1
    <3>2. \A i, j \in 1..Len(f) : SubSeq(h, i, j) = SubSeq(f, i, j)
      BY ONLY f \in Seq(Entry), g \in Seq(Entry), SubSeqOfConcat1 DEF h
    <3>3. SubSeq(h, Min(firsth), c - 1) = SubSeq(f, Min(first), c - 1)
      BY ONLY <3>1, <3>2
    <3> QED
      BY <3>3
  <2>8. rh = r \o g
    <3> HIDE DEF r, rh
    <3>1. /\ r \o g \in Seq(Entry) /\ Len(r \o g) = Len(r) + Len(g)
          /\ \A i \in 1..Len(r) : (r \o g)[i] = r[i]
          /\ \A i \in 1..Len(g) : (r \o g)[Len(r) + i] = g[i]
      <4>1. r \in Seq(Entry) /\ g \in Seq(Entry)
        BY <2>3
      <4> QED
        BY ONLY <4>1, Joined
    <3>2. Len(rh) = Len(r \o g)
      BY <1>1, <2>3, <2>5, <3>1
    <3>3. ASSUME NEW i \in 1..Len(rh) PROVE rh[i] = (r \o g)[i]
      <4>1. i \in 1..Len(h) - c /\ rh[i] = h[c + i]
        BY <2>5
      <4>2. CASE i <= Len(r)
        <5>1. i \in 1..Len(r) /\ i \in 1..Len(f) - c /\ c + i \in 1..Len(f)
          BY <1>1, <2>3, <4>1, <4>2
        <5> QED
          BY <1>1, <2>3, <3>1, <4>1, <5>1
      <4>3. CASE ~(i <= Len(r))
        <5>1. i - Len(r) \in 1..Len(g) /\ Len(r) + (i - Len(r)) = i /\ Len(f) + (i - Len(r)) = c + i
          BY <1>1, <2>3, <4>1, <4>3
        <5> QED
          BY <1>1, <3>1, <4>1, <5>1
      <4> QED
        BY <4>2, <4>3
    <3> QED
      BY <2>5, <3>1, <3>2, <3>3, SeqEqual
  <2>9. h[c] = f[c]
    BY <1>1, <2>3
  <2>10. kept \in Seq(Entry)
    <3> HIDE DEF first, part
    <3> QED
      BY <2>3, MessagesOfFile, EmptySeq
  <2>11. (IF firsth = {} THEN <<>> ELSE MessagesOf(parth)) = kept
    BY <2>6, <2>7
  <2> HIDE DEF first, firsth, part, parth, kept, r, rh
  <2>12. <<f[c]>> \o kept \in Seq(Entry)
    <3>1. <<f[c]>> \in Seq(Entry)
      BY <2>3
    <3>2. \A s, t \in Seq(Entry) : s \o t \in Seq(Entry)
      BY JoinedAll
    <3> QED
      BY ONLY <2>10, <3>1, <3>2
  <2>13. ((<<f[c]>> \o kept) \o r) \o g = (<<f[c]>> \o kept) \o (r \o g)
    <3>1. r \in Seq(Entry) /\ g \in Seq(Entry)
      BY <2>3
    <3>2. \A s \in Seq(Entry) : (s \o r) \o g = s \o (r \o g)
      BY ONLY <3>1, Grouped
    <3> QED
      BY ONLY <2>12, <3>2
  <2>14. Context(h) = (<<f[c]>> \o kept) \o (r \o g)
    BY <2>1, <2>8, <2>9, <2>11
  <2> QED
    BY <2>2, <2>13, <2>14 DEF h
<1> QED
  BY <1>3, <1>4

LEMMA ContextOfNone == Context(<<>>) = <<>>
<1>1. <<>> \in Seq(Entry) /\ Len(<<>>) = 0
  BY EmptySeq
<1>2. LastCompaction(<<>>) = 0
  <2>1. LastCompaction(<<>>) \in 0..Len(<<>>)
    BY <1>1, LastOf
  <2>2. LastCompaction(<<>>) \in 0..0
    BY <1>1, <2>1
  <2> QED
    BY <2>2
<1> QED
  BY <1>2 DEF Context

-----------------------------------------------------------------------------
(* What the state is made of *)

OrNone   == Messages \cup {End}
Handling == {"no", "extension", "seeking", "retrying", "compacting"}

TypeOK ==
  /\ home \in Seq(Sessions) /\ Len(home) <= MaxMessages
  /\ text \in Seq(Nat) /\ Len(text) = Len(home)
  /\ sessions \in Sessions /\ session \in 1..sessions
  /\ file \in [Sessions -> Seq(Entry)]
  /\ transcript \in Seq(Entry) /\ running \in BOOLEAN
  /\ queue \in Seq(Messages) /\ display \in Seq(Messages)
  /\ connected \in BOOLEAN
  /\ events \in Seq(OrNone) /\ handling \in Handling /\ answered \in BOOLEAN
  /\ autos \in [Callers -> OrNone] /\ abortable \in BOOLEAN
  /\ recovering \subseteq Callers /\ continues \in Nat
  /\ prompting \in [stage : {"none", "checking", "compacting", "ready"}, message : OrNone]
  /\ pending \in Seq(Entry)
  /\ changing \in [stage : {"none", "aborting", "opened"}, to : 0..MaxSessions, context : Seq(Entry)]
  /\ manual \in [stage : {"none", "aborting", "summarising"}, kept : OrNone]

\* How far the things under way are, and what keeps them apart.
HandlingStages ==
  /\ handling # "no" => events # <<>>
  /\ handling \in {"seeking", "retrying", "compacting"} => Head(events) = End
  /\ autos["event"] # 0 => handling = "compacting"

PromptStages ==
  /\ autos["prompt"] # 0 => prompting.stage = "compacting"
  /\ prompting.stage = "none" => prompting = NoPrompt
  /\ prompting # NoPrompt => prompting.message # End /\ changing = NoChange /\ manual = NoManual

ChangeStages ==
  /\ changing.stage = "none" => changing = NoChange
  /\ changing.stage = "aborting" => changing.to \in (1..(sessions + 1)) \ {session}
  /\ ~connected => changing # NoChange \/ manual # NoManual
  /\ manual.stage = "none" => manual = NoManual
  /\ manual.stage = "summarising" => manual.kept # End

\* Sessions to come have no entries, and only messages are kept aside.
Prepared ==
  /\ \A s \in Sessions : s > sessions => file[s] = <<>>
  /\ \A i \in 1..Len(pending) : pending[i].type = "message"

Stages == HandlingStages /\ PromptStages /\ ChangeStages /\ Prepared

\* The current session is one of the sessions.
LEMMA CurrentSession == TypeOK => session \in Sessions /\ Sessions \subseteq Nat /\ sessions \in Nat
BY SessionAssumption DEF TypeOK, Sessions

\* What is said or kept is an entry.
LEMMA Entries == \A m \in Messages : /\ Said(m) \in Entry /\ Said(m).type = "message" /\ Said(m).of = m
                                     /\ Summary(m) \in Entry /\ Summary(m).type = "compaction"
                                     /\ Summary(m).of = m
BY DEF Said, Summary, Entry

LEMMA SingleEntry ==
  ASSUME NEW e \in Entry
  PROVE  <<e>> \in Seq(Entry) /\ Len(<<e>>) = 1 /\ <<e>>[1] = e /\ Range(<<e>>) = {e} /\ <<e>> # <<>>
BY DEF Range

\* Entering entries, a new message, an event.
LEMMA Entered ==
  ASSUME TypeOK, NEW entries \in Seq(Entry), Enter(entries)
  PROVE  /\ file' \in [Sessions -> Seq(Entry)]
         /\ file'[session] = file[session] \o entries
         /\ \A s \in Sessions : s # session => file'[s] = file[s]
         /\ entries # <<>> => file' # file
         /\ entries = <<>> => file' = file
         /\ file[session] \in Seq(Entry)
<1>1. session \in Sessions /\ file \in [Sessions -> Seq(Entry)] /\ file[session] \in Seq(Entry)
  BY CurrentSession DEF TypeOK
<1>2. /\ file[session] \o entries \in Seq(Entry)
      /\ entries = <<>> => file[session] \o entries = file[session]
      /\ entries # <<>> => file[session] \o entries # file[session]
  BY <1>1, Joined
<1>3. file' = [file EXCEPT ![session] = file[session] \o entries]
  BY DEF Enter
<1> QED
  BY ONLY <1>1, <1>2, <1>3

LEMMA NewIsNew ==
  ASSUME TypeOK, IsNew
  PROVE  /\ New \in Messages /\ New = Len(home) + 1 /\ Len(home) \in Nat /\ Len(home') = New
         /\ home' \in Seq(Sessions) /\ Len(home') <= MaxMessages
         /\ home'[New] = session /\ \A m \in 1..Len(home) : home'[m] = home[m]
         /\ home' # home
<1>1. home \in Seq(Sessions) /\ session \in Sessions
  BY CurrentSession DEF TypeOK
<1>2. Len(home) < MaxMessages /\ home' = Append(home, session) /\ New = Len(home) + 1
  BY DEF IsNew, New
<1>3. /\ home' \in Seq(Sessions) /\ Len(home') = Len(home) + 1 /\ Len(home) \in Nat
      /\ \A m \in 1..Len(home) : home'[m] = home[m]
      /\ home'[Len(home) + 1] = session /\ home' # home
  BY ONLY <1>1, <1>2, Appended
<1>4. New \in Messages /\ Len(home') <= MaxMessages
  BY <1>2, <1>3, SessionAssumption DEF Messages
<1> QED
  BY <1>2, <1>3, <1>4

\* A new message has a text of its own or another's, or none.
LEMMA TextTypes ==
  ASSUME TypeOK, IsNew, Typed \/ \E isAnswer \in BOOLEAN : Untyped(isAnswer)
  PROVE  /\ text' \in Seq(Nat) /\ Len(text') = Len(home') /\ Len(text') = New
         /\ \A m \in 1..Len(home) : text'[m] = text[m]
<1>1. text \in Seq(Nat) /\ Len(text) = Len(home)
  BY DEF TypeOK
<1>2. New \in Nat /\ Len(home') = New /\ New = Len(home) + 1
  BY NewIsNew, MessagesAreNumbers
<1>3. Range(text) \subseteq Nat
  <2>1. Range(text) = {text[i] : i \in 1..Len(text)} /\ \A i \in 1..Len(text) : text[i] \in Nat
    BY ONLY <1>1, RangeEquality, ElementOfSeq
  <2> QED
    BY <2>1
<1>4. PICK t \in Nat : text' = Append(text, t)
  BY <1>2, <1>3 DEF Typed, Untyped, NoText
<1>5. /\ text' \in Seq(Nat) /\ Len(text') = Len(text) + 1
      /\ \A i \in 1..Len(text) : text'[i] = text[i]
  BY ONLY <1>1, <1>4, Appended
<1> QED
  BY <1>1, <1>2, <1>5

\* What is left when an answer is taken back.
LEMMA AnswerTaken ==
  ASSUME NEW t \in Seq(Entry)
  PROVE  WithoutAnswer(t) \in Seq(Entry) /\ Range(WithoutAnswer(t)) \subseteq Range(t)
<1>1. t # <<>> => Front(t) \in Seq(Entry) /\ Len(Front(t)) = Len(t) - 1
                  /\ \A i \in 1..Len(t) - 1 : Front(t)[i] = t[i]
  <2> SUFFICES ASSUME t # <<>> PROVE /\ Front(t) \in Seq(Entry) /\ Len(Front(t)) = Len(t) - 1
                                     /\ \A i \in 1..Len(t) - 1 : Front(t)[i] = t[i]
    OBVIOUS
  <2>1. Len(t) \in Nat \ {0} /\ \A i \in 1..Len(t) : t[i] \in Entry
    BY LenProperties, EmptySeq, ElementOfSeq
  <2>2. 1 \in Int /\ Len(t) - 1 \in Int /\ \A i \in 1..Len(t) - 1 : t[i] \in Entry
    BY <2>1
  <2>3. /\ SubSeq(t, 1, Len(t) - 1) \in Seq(Entry)
        /\ Len(SubSeq(t, 1, Len(t) - 1)) = (IF 1 <= Len(t) - 1 THEN (Len(t) - 1) - 1 + 1 ELSE 0)
        /\ \A i \in 1..(Len(t) - 1) - 1 + 1 : SubSeq(t, 1, Len(t) - 1)[i] = t[1 + i - 1]
    BY ONLY <2>2, SubSeqProperties
  <2>4. Front(t) = SubSeq(t, 1, Len(t) - 1)
    BY DEF Front
  <2> DEFINE f == SubSeq(t, 1, Len(t) - 1)
  <2>0. /\ f \in Seq(Entry) /\ Len(f) = (IF 1 <= Len(t) - 1 THEN (Len(t) - 1) - 1 + 1 ELSE 0)
        /\ \A i \in 1..(Len(t) - 1) - 1 + 1 : f[i] = t[1 + i - 1]
    BY <2>3
  <2> HIDE DEF f
  <2>5. f \in Seq(Entry) /\ Len(f) = Len(t) - 1
    <3>1. \A n \in Nat \ {0} : (IF 1 <= n - 1 THEN (n - 1) - 1 + 1 ELSE 0) = n - 1
      OBVIOUS
    <3> QED
      BY ONLY <2>0, <2>1, <3>1
  <2>6. \A i \in 1..Len(t) - 1 : i \in 1..(Len(t) - 1) - 1 + 1 /\ 1 + i - 1 = i
    BY <2>1
  <2>7. \A i \in 1..Len(t) - 1 : f[i] = t[i]
    BY ONLY <2>0, <2>6
  <2> QED
    BY <2>4, <2>5, <2>7 DEF f
<1>2. t # <<>> => Range(Front(t)) \subseteq Range(t)
  <2> SUFFICES ASSUME t # <<>> PROVE Range(Front(t)) \subseteq Range(t)
    OBVIOUS
  <2>1. /\ Range(Front(t)) = {Front(t)[i] : i \in 1..Len(Front(t))}
        /\ Range(t) = {t[i] : i \in 1..Len(t)}
    BY <1>1, RangeEquality
  <2>2. \A i \in 1..Len(t) - 1 : i \in 1..Len(t)
    BY LenProperties
  <2> QED
    BY <1>1, <2>1, <2>2
<1> QED
  BY <1>1, <1>2 DEF WithoutAnswer

LEMMA Emitted ==
  ASSUME TypeOK, NEW e \in OrNone, Emit(e)
  PROVE  events' \in Seq(OrNone) /\ (connected => events' = Append(events, e)) /\ (~connected => events' = events)
<1>1. events \in Seq(OrNone)
  BY DEF TypeOK
<1>2. Append(events, e) \in Seq(OrNone)
  BY <1>1, Appended
<1> QED
  BY <1>1, <1>2 DEF Emit

LEMMA EndedTypes ==
  ASSUME TypeOK, NEW m \in Messages, Ended(m)
  PROVE  /\ transcript' \in Seq(Entry) /\ events' \in Seq(OrNone) /\ transcript' # transcript
         /\ transcript' = transcript \o <<Said(m)>>
         /\ Range(transcript') = Range(transcript) \cup {Said(m)}
         /\ (connected => events' = Append(events, m)) /\ (~connected => events' = events)
<1>1. transcript \in Seq(Entry) /\ Said(m) \in Entry /\ m \in OrNone
  BY Entries DEF TypeOK, OrNone
<1>2. transcript' = Append(transcript, Said(m)) /\ Emit(m)
  BY DEF Ended
<1>3. /\ transcript' \in Seq(Entry) /\ transcript' # transcript /\ transcript' = transcript \o <<Said(m)>>
      /\ Range(transcript') = Range(transcript) \cup {Said(m)}
  BY ONLY <1>1, <1>2, Appended
<1> QED
  BY <1>1, <1>2, <1>3, Emitted

LEMMA SummaryTypes ==
  ASSUME TypeOK, NEW kept \in Messages, EnterSummary(kept)
  PROVE  /\ file' \in [Sessions -> Seq(Entry)] /\ file' # file
         /\ file'[session] = file[session] \o <<Summary(kept)>>
         /\ \A s \in Sessions : s # session => file'[s] = file[s]
         /\ transcript' \in Seq(Entry) /\ transcript' = Context(file'[session])
         /\ Range(transcript') \subseteq Range(file'[session])
<1>1. <<Summary(kept)>> \in Seq(Entry) /\ <<Summary(kept)>> # <<>>
  BY Entries, SingleEntry
<1>2. Enter(<<Summary(kept)>>) /\ transcript' = Context(file'[session])
  BY DEF EnterSummary
<1>3. /\ file' \in [Sessions -> Seq(Entry)] /\ file' # file
      /\ file'[session] = file[session] \o <<Summary(kept)>>
      /\ \A s \in Sessions : s # session => file'[s] = file[s]
  BY <1>1, <1>2, Entered
<1>4. file'[session] \in Seq(Entry)
  BY <1>3, CurrentSession
<1> QED
  BY <1>2, <1>3, <1>4, ContextInFile

\* The head of the queue of events, and what is left without it.
LEMMA HeadTaken ==
  ASSUME TypeOK, events # <<>>
  PROVE  /\ Tail(events) \in Seq(OrNone) /\ Len(Tail(events)) = Len(events) - 1 /\ Len(events) \in Nat \ {0}
         /\ \A i \in 1..Len(Tail(events)) : i + 1 \in 1..Len(events) /\ Tail(events)[i] = events[i + 1]
         /\ Head(events) = events[1] /\ Head(events) \in OrNone /\ 1 \in 1..Len(events)
BY Tailed DEF TypeOK

\* Whoever waits for a compaction goes on.
LEMMA ResumedTypes ==
  ASSUME TypeOK, Stages, NEW c \in Callers, autos[c] # 0, Resumes(c)
  PROVE  /\ events' \in Seq(OrNone) /\ handling' \in Handling
         /\ prompting' \in [stage : {"none", "checking", "compacting", "ready"}, message : OrNone]
         /\ c = "event" => /\ handling = "compacting" /\ events # <<>> /\ Head(events) = End
                           /\ events' = Tail(events) /\ handling' = "no" /\ prompting' = prompting
         /\ c = "prompt" => /\ prompting.stage = "compacting" /\ prompting'.stage = "ready"
                            /\ prompting'.message = prompting.message /\ UNCHANGED <<events, handling>>
<1>1. CASE c = "event"
  BY <1>1, HeadTaken DEF TypeOK, Stages, HandlingStages, Resumes, Handling
<1>2. CASE c = "prompt"
  BY <1>2 DEF TypeOK, Stages, PromptStages, Resumes, eventQueue
<1> QED
  BY <1>1, <1>2 DEF Callers

\* What is taken off the display leaves messages there.
LEMMA RemovedTypes ==
  ASSUME NEW s \in Seq(Messages), NEW e
  PROVE  RemoveFirst(s, e) \in Seq(Messages)
<1> DEFINE I == {i \in 1..Len(s) : s[i] = e}
           k == Min(I)
<1>1. CASE I = {}
  BY <1>1 DEF RemoveFirst
<1>2. CASE I # {}
  <2>1. RemoveFirst(s, e) = SubSeq(s, 1, k - 1) \o SubSeq(s, k + 1, Len(s))
    BY <1>2 DEF RemoveFirst, RemoveAt, SelectInSeq
  <2>2. k \in 1..Len(s) /\ Len(s) \in Nat
    <3>1. I \in SUBSET Nat
      OBVIOUS
    <3>2. k \in I
      BY <1>2, <3>1, MinOf
    <3> QED
      BY <3>2, LenProperties
  <2> HIDE DEF k
  <2>3. \A i \in 1..Len(s) : s[i] \in Messages
    BY ElementOfSeq
  <2>4. /\ 1 \in Int /\ k - 1 \in Int /\ k + 1 \in Int /\ Len(s) \in Int
        /\ \A i \in 1..(k - 1) : s[i] \in Messages
        /\ \A i \in (k + 1)..Len(s) : s[i] \in Messages
    BY <2>2, <2>3
  <2>5. SubSeq(s, 1, k - 1) \in Seq(Messages) /\ SubSeq(s, k + 1, Len(s)) \in Seq(Messages)
    BY ONLY <2>4, SubSeqProperties
  <2> QED
    BY <2>1, <2>5, ConcatProperties
<1> QED
  BY <1>1, <1>2

\* An automatic compaction begins with something to keep.
LEMMA AutoTypes ==
  ASSUME TypeOK, NEW c \in Callers, AutoBegins(c)
  PROVE  /\ autos' \in [Callers -> OrNone] /\ abortable' \in BOOLEAN
         /\ autos'[c] \in Messages /\ Said(autos'[c]) \in Range(file[session])
         /\ \A d \in Callers : d # c => autos'[d] = autos[d]
         /\ recovering' \subseteq Callers
         /\ transcript' \in Seq(Entry) /\ Range(transcript') \subseteq Range(transcript)
         /\ UNCHANGED <<home, text, saved, running, queue, display, connected, events, continues, manual, pending, changing>>
<1>1. file[session] \in Seq(Entry) /\ transcript \in Seq(Entry)
  BY CurrentSession DEF TypeOK
<1>2. PICK kept \in Keepable(file[session]) : autos' = [autos EXCEPT ![c] = kept]
  BY DEF AutoBegins
<1>3. kept \in Messages /\ Said(kept) \in Range(file[session])
  BY <1>1, KeepableIsSaid
<1>4. transcript' \in Seq(Entry) /\ Range(transcript') \subseteq Range(transcript)
  <2>1. WithoutAnswer(transcript) \in Seq(Entry) /\ Range(WithoutAnswer(transcript)) \subseteq Range(transcript)
    BY <1>1, AnswerTaken
  <2> QED
    BY <1>1, <2>1 DEF AutoBegins
<1>5. recovering' \subseteq Callers
  BY DEF AutoBegins, TypeOK
<1> QED
  BY <1>2, <1>3, <1>4, <1>5 DEF AutoBegins, TypeOK, OrNone

LEMMA TypeInit == Init => TypeOK /\ Stages
<1> SUFFICES ASSUME Init PROVE TypeOK /\ Stages
  OBVIOUS
<1>1. 1 \in Sessions /\ 0 \in 0..MaxSessions /\ 0 <= MaxMessages
  BY SessionAssumption DEF Sessions
<1>2. \A S : <<>> \in Seq(S)
  BY EmptySeq
<1>3. Len(<<>>) = 0
  OBVIOUS
<1>4. TypeOK
  <2>1. /\ home \in Seq(Sessions) /\ Len(home) <= MaxMessages /\ text \in Seq(Nat) /\ Len(text) = Len(home)
        /\ sessions \in Sessions /\ session \in 1..sessions
    BY <1>1, <1>2, <1>3 DEF Init
  <2>2. /\ file \in [Sessions -> Seq(Entry)] /\ transcript \in Seq(Entry) /\ pending \in Seq(Entry)
        /\ queue \in Seq(Messages) /\ display \in Seq(Messages) /\ events \in Seq(OrNone)
    BY <1>2 DEF Init
  <2>3. autos \in [Callers -> OrNone]
    BY DEF Init, OrNone, End
  <2>4. /\ prompting \in [stage : {"none", "checking", "compacting", "ready"}, message : OrNone]
        /\ manual \in [stage : {"none", "aborting", "summarising"}, kept : OrNone]
    BY DEF Init, OrNone, End, NoPrompt, NoManual
  <2>5. changing \in [stage : {"none", "aborting", "opened"}, to : 0..MaxSessions, context : Seq(Entry)]
    <3>1. <<>> \in Seq(Entry)
      BY <1>2
    <3> QED
      BY <1>1, <3>1 DEF Init, NoChange
  <2>6. /\ running \in BOOLEAN /\ connected \in BOOLEAN /\ abortable \in BOOLEAN /\ continues \in Nat
        /\ handling \in Handling /\ answered \in BOOLEAN /\ recovering \subseteq Callers
    BY DEF Init, Handling
  <2> QED
    BY <2>1, <2>2, <2>3, <2>4, <2>5, <2>6 DEF TypeOK
<1>5. Stages
  BY <1>3 DEF Init, Stages, HandlingStages, PromptStages, ChangeStages, Prepared, NoPrompt, NoChange, NoManual, Callers
<1> QED
  BY <1>4, <1>5

\* What a step leaves alone it leaves in order.
LEMMA StagesFrame ==
  ASSUME Stages
  PROVE  /\ UNCHANGED <<events, handling, autos>> => HandlingStages'
         /\ UNCHANGED <<autos, prompting, changing, manual>> => PromptStages'
         /\ UNCHANGED <<sessions, session, changing, manual, connected>> => ChangeStages'
         /\ UNCHANGED <<sessions, file, pending>> => Prepared'
BY DEF Stages, HandlingStages, PromptStages, ChangeStages, Prepared

\* Files grow at the current session.
LEMMA PreparedEntered ==
  ASSUME TypeOK, Stages, UNCHANGED <<sessions, pending>>,
         \A s \in Sessions : s # session => file'[s] = file[s]
  PROVE  Prepared'
<1>1. \A s \in Sessions : s > sessions => s # session
  BY CurrentSession DEF TypeOK
<1> QED
  BY <1>1 DEF Stages, Prepared

\* An event more does not disturb the handling of the first.
LEMMA HandlingMore ==
  ASSUME TypeOK, Stages, NEW e \in OrNone, Emit(e), UNCHANGED <<handling, autos>>
  PROVE  HandlingStages'
<1>1. CASE ~connected
  BY <1>1, StagesFrame DEF Emit
<1>2. CASE connected
  <2>1. events' = Append(events, e) /\ events \in Seq(OrNone)
    BY <1>2 DEF Emit, TypeOK
  <2>2. events' # <<>> /\ (events # <<>> => Head(events') = Head(events))
    BY ONLY <2>1, AppendProperties, HeadTailAppend
  <2> QED
    BY <2>2 DEF Stages, HandlingStages
<1> QED
  BY <1>1, <1>2

\* Handling is over with the head of the queue.
LEMMA HandlingLess ==
  ASSUME Stages, handling' = "no", autos'["event"] = 0
  PROVE  HandlingStages'
BY DEF HandlingStages

\* What is said in a run.
LEMMA TypesOfAgent ==
  ASSUME TypeOK, Stages, AgentSteps
  PROVE  TypeOK' /\ Stages'
<1>1. CASE says
  <2>1. IsNew /\ Ended(New) /\ (\E isAnswer \in BOOLEAN : Untyped(isAnswer))
        /\ UNCHANGED <<saved, running, queue, display, connected, handling, answered, compactions, prompting, pending, changing>>
    BY <1>1 DEF says
  <2>2. New \in Messages /\ New \in OrNone /\ home' \in Seq(Sessions) /\ Len(home') <= MaxMessages
    BY <2>1, NewIsNew DEF OrNone
  <2>3. transcript' \in Seq(Entry) /\ events' \in Seq(OrNone)
    BY <2>1, <2>2, EndedTypes
  <2>4. Emit(New)
    BY <2>1 DEF Ended
  <2>5. HandlingStages'
    BY <2>1, <2>2, <2>4, HandlingMore DEF compactions
  <2>6. text' \in Seq(Nat) /\ Len(text') = Len(home')
    BY <2>1, TextTypes
  <2> QED
    BY <2>1, <2>2, <2>3, <2>5, <2>6, StagesFrame DEF TypeOK, Stages, saved, compactions
<1>2. CASE steered
  <2>1. queue # <<>> /\ Ended(Head(queue)) /\ queue' = Tail(queue) /\ queue \in Seq(Messages)
        /\ UNCHANGED <<home, text, saved, running, display, connected, handling, answered, compactions, prompting, pending, changing>>
    BY <1>2 DEF steered, TypeOK
  <2>2. Head(queue) \in Messages /\ queue' \in Seq(Messages) /\ Head(queue) \in OrNone
    BY <2>1, Tailed DEF OrNone
  <2>3. transcript' \in Seq(Entry) /\ events' \in Seq(OrNone)
    BY <2>1, <2>2, EndedTypes
  <2>4. Emit(Head(queue))
    BY <2>1 DEF Ended
  <2>5. HandlingStages'
    BY <2>1, <2>2, <2>4, HandlingMore DEF compactions
  <2> QED
    BY <2>1, <2>2, <2>3, <2>5, StagesFrame DEF TypeOK, Stages, saved, compactions
<1>3. CASE runEnds
  <2>1. Emit(End) /\ running' = FALSE
        /\ UNCHANGED <<home, text, saved, transcript, queue, display, connected, handling, answered, compactions, prompting, pending, changing>>
    BY <1>3 DEF runEnds
  <2>2. End \in OrNone
    BY DEF OrNone
  <2>3. events' \in Seq(OrNone) /\ HandlingStages'
    BY <2>1, <2>2, Emitted, HandlingMore DEF compactions
  <2>4. TypeOK'
    BY <2>1, <2>3 DEF TypeOK, saved, compactions
  <2>5. Stages'
    BY <2>1, <2>3, StagesFrame DEF Stages, saved, compactions
  <2> QED
    BY <2>4, <2>5
<1>4. CASE continue
  <2>1. continues' \in Nat
        /\ UNCHANGED <<home, text, saved, display, connected, handling, answered, autos, abortable, recovering, manual, prompting, pending, changing>>
    BY <1>4 DEF continue, TypeOK
  <2>2. CASE UNCHANGED <<transcript, queue, events>>
    <3>1. running' \in BOOLEAN
      BY <1>4 DEF continue, agent, TypeOK
    <3>2. TypeOK'
      BY <2>1, <2>2, <3>1 DEF TypeOK, saved
    <3>3. Stages'
      BY <2>1, <2>2, StagesFrame DEF Stages, saved
    <3> QED
      BY <3>2, <3>3
  <2>3. CASE running' = TRUE /\ queue # <<>> /\ Ended(Head(queue)) /\ queue' = Tail(queue)
    <3>1. running' = TRUE /\ Ended(Head(queue)) /\ queue' = Tail(queue) /\ queue \in Seq(Messages) /\ queue # <<>>
      BY <2>3 DEF TypeOK
    <3>2. Head(queue) \in Messages /\ queue' \in Seq(Messages) /\ Head(queue) \in OrNone
      BY <3>1, Tailed DEF OrNone
    <3>3. transcript' \in Seq(Entry) /\ events' \in Seq(OrNone)
      BY <3>1, <3>2, EndedTypes
    <3>4. Emit(Head(queue))
      BY <3>1 DEF Ended
    <3>5. HandlingStages'
      BY <2>1, <3>2, <3>4, HandlingMore
    <3> QED
      BY <2>1, <3>1, <3>2, <3>3, <3>5, StagesFrame DEF TypeOK, Stages, saved
  <2> QED
    BY <1>4, <2>2, <2>3 DEF continue, agent
<1> QED
  BY <1>1, <1>2, <1>3, <1>4 DEF AgentSteps

\* The handling of an event.
LEMMA TypesOfEvents ==
  ASSUME TypeOK, Stages, EventSteps
  PROVE  TypeOK' /\ Stages'
<1>0. transcript \in Seq(Entry) /\ WithoutAnswer(transcript) \in Seq(Entry)
  BY AnswerTaken DEF TypeOK
<1>1. CASE eventBegins
  <2>1. events # <<>> /\ handling = "no" /\ handling' = "extension" /\ display' = RemoveFirst(display, Struck)
        /\ UNCHANGED <<home, text, saved, agent, connected, events, answered, compactions, prompting, pending, changing>>
    BY <1>1 DEF eventBegins
  <2>2. display' \in Seq(Messages)
    BY <2>1, RemovedTypes DEF TypeOK
  <2>3. HandlingStages'
    BY <2>1 DEF Stages, HandlingStages, compactions
  <2> QED
    BY <2>1, <2>2, <2>3, StagesFrame DEF TypeOK, Stages, saved, agent, compactions, Handling
<1>2. CASE eventPersists
  <2>1. /\ handling = "extension" /\ Head(events) # End /\ Enter(<<Said(Head(events))>>)
        /\ handling' = "no" /\ events' = Tail(events) /\ answered' \in BOOLEAN
        /\ UNCHANGED <<home, text, sessions, session, agent, display, connected, compactions, prompting, pending, changing>>
    BY <1>2 DEF eventPersists, TypeOK
  <2>2. events # <<>>
    BY <2>1 DEF Stages, HandlingStages
  <2>3. Head(events) \in Messages /\ events' \in Seq(OrNone)
    BY <2>1, <2>2, HeadTaken DEF OrNone
  <2>4. <<Said(Head(events))>> \in Seq(Entry)
    BY <2>3, Entries
  <2>5. file' \in [Sessions -> Seq(Entry)] /\ \A s \in Sessions : s # session => file'[s] = file[s]
    BY <2>1, <2>4, Entered
  <2>6. HandlingStages' /\ Prepared'
    BY <2>1, <2>5, HandlingLess, PreparedEntered DEF Stages, HandlingStages, compactions
  <2> QED
    BY <2>1, <2>3, <2>5, <2>6, StagesFrame DEF TypeOK, Stages, agent, compactions, Handling
<1>3. CASE endHandled
  <2>1. /\ handling \in {"extension", "seeking", "retrying"} /\ handling' = "no" /\ events' = Tail(events)
        /\ answered' = FALSE /\ transcript' \in {transcript, WithoutAnswer(transcript)}
        /\ UNCHANGED <<home, text, saved, running, queue, display, connected, compactions, prompting, pending, changing>>
    BY <1>3 DEF endHandled
  <2>2. events' \in Seq(OrNone) /\ transcript' \in Seq(Entry)
    BY <1>0, <2>1, HeadTaken DEF Stages, HandlingStages
  <2>3. HandlingStages'
    BY <2>1, HandlingLess DEF Stages, HandlingStages, compactions
  <2> QED
    BY <2>1, <2>2, <2>3, StagesFrame DEF TypeOK, Stages, saved, compactions, Handling
<1>4. CASE endCompacts
  <2>1. /\ handling # "no" /\ Head(events) = End /\ handling' = "compacting"
        /\ answered' = FALSE /\ UNCHANGED prompting /\ AutoBegins("event")
    BY <1>4 DEF endCompacts, EndIsRead, Stages, HandlingStages
  <2>2. /\ autos' \in [Callers -> OrNone] /\ abortable' \in BOOLEAN /\ autos'["prompt"] = autos["prompt"]
        /\ recovering' \subseteq Callers /\ transcript' \in Seq(Entry)
        /\ UNCHANGED <<home, text, saved, running, queue, display, connected, events, continues, manual, pending, changing>>
    BY <2>1, AutoTypes DEF Callers
  <2>3. HandlingStages'
    BY <2>1, <2>2 DEF Stages, HandlingStages
  <2>4. PromptStages'
    BY <2>1, <2>2 DEF Stages, PromptStages
  <2> QED
    BY <2>1, <2>2, <2>3, <2>4, StagesFrame DEF TypeOK, Stages, saved, Handling
<1>5. CASE endSeeks \/ endRetries
  <2>1. /\ handling \in {"extension", "seeking", "retrying"} /\ Head(events) = End
        /\ handling' \in {"seeking", "retrying"} /\ answered' = FALSE
        /\ transcript' \in {transcript, WithoutAnswer(transcript)}
        /\ UNCHANGED <<home, text, saved, running, queue, display, connected, events, compactions, prompting, pending, changing>>
    BY <1>5 DEF endSeeks, endRetries, EndIsRead, Stages, HandlingStages, agent
  <2>2. HandlingStages'
    BY <2>1 DEF Stages, HandlingStages, compactions
  <2> QED
    BY <1>0, <2>1, <2>2, StagesFrame DEF TypeOK, Stages, saved, compactions, Handling
<1>6. CASE retryDue
  <2>1. /\ handling \in {"extension", "seeking", "retrying"} /\ handling' = "no" /\ events' = Tail(events)
        /\ continues' = continues + 1 /\ answered' = FALSE
        /\ transcript' \in {transcript, WithoutAnswer(transcript)}
        /\ UNCHANGED <<home, text, saved, running, queue, display, connected, autos, abortable, recovering, manual, prompting, pending, changing>>
    BY <1>6 DEF retryDue, EndIsRead
  <2>2. events' \in Seq(OrNone) /\ continues' \in Nat /\ transcript' \in Seq(Entry)
    BY <1>0, <2>1, HeadTaken DEF Stages, HandlingStages, TypeOK
  <2>3. HandlingStages'
    BY <2>1, HandlingLess DEF Stages, HandlingStages
  <2> QED
    BY <2>1, <2>2, <2>3, StagesFrame DEF TypeOK, Stages, saved, agent, Handling
<1> QED
  BY <1>1, <1>2, <1>3, <1>4, <1>5, <1>6 DEF EventSteps

\* Automatic compactions come to an end.
LEMMA TypesOfAutos ==
  ASSUME TypeOK, Stages, NEW c \in Callers, autoDone(c) \/ autoFails(c)
  PROVE  TypeOK' /\ Stages'
<1>1. /\ autos[c] # 0 /\ autos' = [autos EXCEPT ![c] = 0] /\ abortable' = FALSE /\ Resumes(c)
      /\ UNCHANGED <<home, text, sessions, session, running, queue, display, connected, manual, pending, changing>>
  BY DEF autoDone, autoFails, saved, agent
<1>2. continues' \in Nat /\ answered' \in BOOLEAN /\ recovering' \subseteq Callers
  BY DEF autoDone, autoFails, Schedules, Resumes, eventQueue, TypeOK
<1>3. autos[c] \in Messages /\ autos' \in [Callers -> OrNone] /\ autos'[c] = 0
      /\ \A d \in Callers : d # c => autos'[d] = autos[d]
  BY <1>1 DEF TypeOK, OrNone, End
<1>4. /\ file' \in [Sessions -> Seq(Entry)] /\ transcript' \in Seq(Entry)
      /\ \A s \in Sessions : s # session => file'[s] = file[s]
  <2>1. CASE autoDone(c)
    <3>1. CASE EnterSummary(autos[c])
      BY <1>3, <3>1, SummaryTypes
    <3>2. CASE Enter(<<Summary(autos[c])>>) /\ transcript' = WithoutAnswer(Context(file'[session]))
      <4>1. <<Summary(autos[c])>> \in Seq(Entry)
        BY <1>3, Entries, SingleEntry
      <4>2. /\ file' \in [Sessions -> Seq(Entry)]
            /\ \A s \in Sessions : s # session => file'[s] = file[s]
        BY <3>2, <4>1, Entered
      <4>3. Context(file'[session]) \in Seq(Entry)
        BY <4>2, CurrentSession, ContextInFile
      <4> QED
        BY <3>2, <4>2, <4>3, AnswerTaken
    <3> QED
      BY <2>1, <3>1, <3>2 DEF autoDone
  <2>2. CASE autoFails(c)
    BY <2>2 DEF autoFails, TypeOK, saved, agent
  <2> QED
    BY <2>1, <2>2
<1>5. /\ events' \in Seq(OrNone) /\ handling' \in Handling
      /\ prompting' \in [stage : {"none", "checking", "compacting", "ready"}, message : OrNone]
      /\ c = "event" => handling' = "no" /\ prompting' = prompting
      /\ c = "prompt" => /\ prompting.stage = "compacting" /\ prompting'.stage = "ready"
                         /\ prompting'.message = prompting.message /\ UNCHANGED <<events, handling>>
  BY <1>1, ResumedTypes
<1>6. HandlingStages' /\ PromptStages'
  <2>1. CASE c = "event"
    <3>1. "prompt" \in Callers /\ "prompt" # c
      BY <2>1 DEF Callers
    <3>2. autos'["event"] = 0 /\ autos'["prompt"] = autos["prompt"] /\ handling' = "no" /\ prompting' = prompting
      BY <1>3, <1>5, <2>1, <3>1
    <3> QED
      BY <1>1, <3>2, HandlingLess DEF Stages, PromptStages
  <2>2. CASE c = "prompt"
    <3>1. "event" \in Callers /\ "event" # c
      BY <2>2 DEF Callers
    <3>2. /\ autos'["prompt"] = 0 /\ autos'["event"] = autos["event"] /\ UNCHANGED <<events, handling>>
          /\ prompting.stage = "compacting" /\ prompting'.stage = "ready"
          /\ prompting'.message = prompting.message
      BY <1>3, <1>5, <2>2, <3>1
    <3> QED
      BY <1>1, <3>2 DEF Stages, HandlingStages, PromptStages, NoPrompt
  <2> QED
    BY <2>1, <2>2 DEF Callers
<1>7. Prepared'
  BY <1>1, <1>4, PreparedEntered
<1> QED
  BY <1>1, <1>2, <1>3, <1>4, <1>5, <1>6, <1>7, StagesFrame DEF TypeOK, Stages

\* Messages kept aside are entered.
LEMMA PendingTypes ==
  ASSUME TypeOK, Stages, Enter(pending), transcript' = transcript \o pending
  PROVE  /\ file' \in [Sessions -> Seq(Entry)] /\ transcript' \in Seq(Entry)
         /\ \A s \in Sessions : s # session => file'[s] = file[s]
         /\ file'[session] = file[session] \o pending /\ file[session] \in Seq(Entry)
         /\ pending # <<>> => file' # file
         /\ pending = <<>> => file' = file /\ transcript' = transcript
         /\ Range(transcript') = Range(transcript) \cup Range(pending)
<1>1. transcript \in Seq(Entry) /\ pending \in Seq(Entry)
  BY DEF TypeOK
<1>2. /\ transcript \o pending \in Seq(Entry) /\ (pending = <<>> => transcript \o pending = transcript)
      /\ Range(transcript \o pending) = Range(transcript) \cup Range(pending)
  BY ONLY <1>1, Joined
<1> QED
  BY <1>1, <1>2, Entered

LEMMA TypesOfPrompts ==
  ASSUME TypeOK, Stages, Prompts
  PROVE  TypeOK' /\ Stages'
<1>1. CASE prompt
  <2>1. /\ prompting = NoPrompt /\ changing = NoChange /\ manual = NoManual /\ IsNew
        /\ prompting' = [stage |-> "checking", message |-> New]
        /\ transcript' = transcript \o pending /\ Enter(pending) /\ pending' = <<>>
        /\ UNCHANGED <<sessions, session, running, queue, display, connected, eventQueue, compactions, changing>>
    BY <1>1 DEF prompt
  <2>2. New \in Messages /\ New \in OrNone /\ home' \in Seq(Sessions) /\ Len(home') <= MaxMessages
    BY <2>1, NewIsNew DEF OrNone
  <2>3. /\ file' \in [Sessions -> Seq(Entry)] /\ transcript' \in Seq(Entry)
        /\ \A s \in Sessions : s # session => file'[s] = file[s]
    BY <2>1, PendingTypes
  <2>4. pending' \in Seq(Entry) /\ Len(pending') = 0
    BY <2>1, EmptySeq
  <2>5. PromptStages'
    <3>1. New # End
      BY <2>2, MessagesAreNumbers
    <3> QED
      BY <2>1, <3>1 DEF Stages, PromptStages, NoPrompt, compactions
  <2>6. Prepared'
    <3>1. \A s \in Sessions : s > sessions => s # session
      BY CurrentSession DEF TypeOK
    <3> QED
      BY <2>1, <2>3, <2>4, <3>1 DEF Stages, Prepared
  <2>7. text' \in Seq(Nat) /\ Len(text') = Len(home')
    BY <1>1, <2>1, TextTypes DEF prompt
  <2> QED
    BY <2>1, <2>2, <2>3, <2>4, <2>5, <2>6, <2>7, StagesFrame DEF TypeOK, Stages, eventQueue, compactions
<1>2. CASE promptCompacts
  <2>1. /\ prompting.stage = "checking" /\ AutoBegins("prompt")
        /\ prompting' = [prompting EXCEPT !.stage = "compacting"] /\ UNCHANGED <<handling, answered>>
    BY <1>2 DEF promptCompacts
  <2>2. /\ autos' \in [Callers -> OrNone] /\ abortable' \in BOOLEAN /\ autos'["event"] = autos["event"]
        /\ recovering' \subseteq Callers /\ transcript' \in Seq(Entry)
        /\ UNCHANGED <<home, text, saved, running, queue, display, connected, events, continues, manual, pending, changing>>
    BY <2>1, AutoTypes DEF Callers
  <2>3. prompting' \in [stage : {"none", "checking", "compacting", "ready"}, message : OrNone]
        /\ prompting'.stage = "compacting" /\ prompting'.message = prompting.message
    BY <2>1 DEF TypeOK
  <2>4. HandlingStages'
    BY <2>1, <2>2 DEF Stages, HandlingStages
  <2>5. PromptStages'
    BY <2>1, <2>2, <2>3 DEF Stages, PromptStages, NoPrompt
  <2> QED
    BY <2>1, <2>2, <2>3, <2>4, <2>5, StagesFrame DEF TypeOK, Stages, saved, agent
<1>3. CASE promptRuns
  <2>1. /\ prompting.stage \in {"checking", "ready"} /\ prompting' = NoPrompt
        /\ UNCHANGED <<home, text, saved, queue, display, connected, handling, answered, compactions, pending, changing>>
    BY <1>3 DEF promptRuns
  <2>2. prompting' \in [stage : {"none", "checking", "compacting", "ready"}, message : OrNone]
    BY <2>1 DEF NoPrompt, OrNone
  <2>3. PromptStages'
    BY <2>1 DEF Stages, PromptStages, NoPrompt, compactions
  <2>4. CASE UNCHANGED <<transcript, running, events>>
    <3>1. HandlingStages'
      BY <2>1, <2>4, StagesFrame DEF compactions
    <3> QED
      BY <2>1, <2>2, <2>3, <2>4, <3>1, StagesFrame DEF TypeOK, Stages, saved, compactions
  <2>5. CASE running' = TRUE /\ Ended(prompting.message)
    <3>1. prompting.message \in Messages \/ prompting.message = End
      BY DEF TypeOK, OrNone
    <3>2. prompting.message \in OrNone /\ Said(prompting.message) = Said(prompting.message)
      BY DEF TypeOK
    <3>3. prompting.message \in Messages
      BY <2>1, <3>1 DEF Stages, PromptStages, NoPrompt
    <3>4. transcript' \in Seq(Entry) /\ events' \in Seq(OrNone)
      BY <2>5, <3>3, EndedTypes
    <3>5. HandlingStages'
      BY <2>1, <2>5, <3>2, HandlingMore DEF Ended, compactions
    <3> QED
      BY <2>1, <2>2, <2>3, <2>5, <3>4, <3>5, StagesFrame DEF TypeOK, Stages, saved, compactions
  <2> QED
    BY <1>3, <2>4, <2>5 DEF promptRuns
<1>4. CASE promptRecovers
  <2>1. /\ prompting.stage = "checking" /\ prompting' = [prompting EXCEPT !.stage = "ready"]
        /\ transcript' = WithoutAnswer(transcript)
        /\ UNCHANGED <<home, text, saved, running, queue, display, connected, eventQueue, compactions, pending, changing>>
    BY <1>4 DEF promptRecovers
  <2>2. prompting' \in [stage : {"none", "checking", "compacting", "ready"}, message : OrNone]
        /\ prompting'.stage = "ready" /\ prompting'.message = prompting.message
    BY <2>1 DEF TypeOK
  <2>3. transcript' \in Seq(Entry)
    BY <2>1, AnswerTaken DEF TypeOK
  <2>4. PromptStages'
    BY <2>1, <2>2 DEF Stages, PromptStages, NoPrompt, compactions
  <2> QED
    BY <2>1, <2>2, <2>3, <2>4, StagesFrame DEF TypeOK, Stages, saved, eventQueue, compactions
<1> QED
  BY <1>1, <1>2, <1>3, <1>4 DEF Prompts

LEMMA TypesOfCalls ==
  ASSUME TypeOK, Stages, steer \/ clearQueue \/ recordBashResult
  PROVE  TypeOK' /\ Stages'
<1>1. CASE steer
  <2>1. /\ IsNew /\ display' = Append(display, New) /\ queue' = Append(queue, New)
        /\ UNCHANGED <<saved, transcript, running, connected, eventQueue, compactions, prompting, pending, changing>>
    BY <1>1 DEF steer
  <2>2. New \in Messages /\ home' \in Seq(Sessions) /\ Len(home') <= MaxMessages
    BY <2>1, NewIsNew
  <2>3. display' \in Seq(Messages) /\ queue' \in Seq(Messages)
    BY <2>1, <2>2, Appended DEF TypeOK
  <2>4. text' \in Seq(Nat) /\ Len(text') = Len(home')
    BY <1>1, <2>1, TextTypes DEF steer
  <2> QED
    BY <2>1, <2>2, <2>3, <2>4, StagesFrame DEF TypeOK, Stages, saved, eventQueue, compactions
<1>2. CASE clearQueue
  <2>1. /\ display' = <<>> /\ queue' = <<>>
        /\ UNCHANGED <<home, text, saved, transcript, running, connected, eventQueue, compactions, prompting, pending, changing>>
    BY <1>2 DEF clearQueue
  <2>2. display' \in Seq(Messages) /\ queue' \in Seq(Messages)
    BY <2>1, EmptySeq
  <2> QED
    BY <2>1, <2>2, StagesFrame DEF TypeOK, Stages, saved, eventQueue, compactions
<1>3. CASE recordBashResult
  <2>1. IsNew
        /\ UNCHANGED <<sessions, session, running, queue, display, connected, eventQueue, compactions, prompting, changing>>
    BY <1>3 DEF recordBashResult
  <2>2. New \in Messages /\ home' \in Seq(Sessions) /\ Len(home') <= MaxMessages
    BY <2>1, NewIsNew
  <2>3. Said(New) \in Entry /\ Said(New).type = "message" /\ <<Said(New)>> \in Seq(Entry)
    BY <2>2, Entries, SingleEntry
  <2>6. text' \in Seq(Nat) /\ Len(text') = Len(home')
    BY <1>3, <2>1, TextTypes DEF recordBashResult
  <2>4. CASE running
    <3>1. pending' = Append(pending, Said(New)) /\ UNCHANGED <<file, transcript>> /\ pending \in Seq(Entry)
      BY <1>3, <2>4 DEF recordBashResult, TypeOK
    <3>2. /\ pending' \in Seq(Entry) /\ Len(pending') = Len(pending) + 1 /\ Len(pending) \in Nat
          /\ \A i \in 1..Len(pending) : pending'[i] = pending[i]
          /\ pending'[Len(pending) + 1] = Said(New)
      BY <2>3, <3>1, Appended
    <3>3. \A i \in 1..Len(pending') : i \in 1..Len(pending) \/ i = Len(pending) + 1
      BY <3>2
    <3>4. Prepared'
      BY <2>1, <2>3, <3>1, <3>2, <3>3 DEF Stages, Prepared
    <3> QED
      BY <2>1, <2>2, <2>6, <3>1, <3>2, <3>4, StagesFrame DEF TypeOK, Stages, eventQueue, compactions
  <2>5. CASE ~running
    <3>1. transcript' = Append(transcript, Said(New)) /\ Enter(<<Said(New)>>) /\ UNCHANGED pending
      BY <1>3, <2>5 DEF recordBashResult
    <3>2. transcript' \in Seq(Entry)
      BY <2>3, <3>1, Appended DEF TypeOK
    <3>3. file' \in [Sessions -> Seq(Entry)] /\ \A s \in Sessions : s # session => file'[s] = file[s]
      BY <2>3, <3>1, Entered
    <3>4. Prepared'
      BY <2>1, <3>1, <3>3, PreparedEntered
    <3> QED
      BY <2>1, <2>2, <2>6, <3>1, <3>2, <3>3, <3>4, StagesFrame DEF TypeOK, Stages, eventQueue, compactions
  <2> QED
    BY <2>4, <2>5
<1> QED
  BY <1>1, <1>2, <1>3

\* Sessions change.
LEMMA TypesOfChanges ==
  ASSUME TypeOK, Stages, Changes
  PROVE  TypeOK' /\ Stages'
<1>1. ASSUME NEW to \in Sessions, change(to)
      PROVE  TypeOK' /\ Stages'
  <2>1. /\ changing = NoChange /\ prompting = NoPrompt /\ to \in 1..(sessions + 1) /\ to # session
        /\ changing' = [stage |-> "aborting", to |-> to, context |-> <<>>] /\ connected' = FALSE
        /\ UNCHANGED <<home, text, saved, agent, display, eventQueue, compactions, prompting, pending>>
    BY <1>1 DEF change
  <2>2. changing' \in [stage : {"none", "aborting", "opened"}, to : 0..MaxSessions, context : Seq(Entry)]
    <3>1. to \in 0..MaxSessions /\ <<>> \in Seq(Entry)
      BY EmptySeq DEF Sessions
    <3> QED
      BY <2>1, <3>1
  <2>3. PromptStages'
    BY <2>1 DEF Stages, PromptStages, compactions
  <2>4. ChangeStages'
    <3>1. changing' # NoChange /\ changing'.stage = "aborting" /\ changing'.to = to
      BY <2>1 DEF NoChange
    <3>2. UNCHANGED <<manual, sessions, session>>
      BY <2>1 DEF compactions, saved
    <3> QED
      BY <2>1, <3>1, <3>2 DEF Stages, ChangeStages
  <2> QED
    BY <2>1, <2>2, <2>3, <2>4, StagesFrame DEF TypeOK, Stages, saved, agent, eventQueue, compactions
<1>2. CASE newSession
  <2>1. /\ changing.stage = "aborting" /\ changing.to = sessions + 1
        /\ session' = changing.to /\ sessions' = changing.to
        /\ transcript' = <<>> /\ queue' = <<>> /\ display' = <<>>
        /\ connected' = TRUE /\ changing' = NoChange
        /\ UNCHANGED <<home, text, file, running, eventQueue, compactions, prompting, pending>>
    BY <1>2 DEF newSession, IsNewSession
  <2>2. sessions' \in Sessions /\ session' \in 1..sessions' /\ sessions' > sessions /\ sessions \in Nat
    <3>1. changing.to \in 0..MaxSessions /\ sessions \in 1..MaxSessions
      BY DEF TypeOK, Sessions
    <3> QED
      BY <2>1, <3>1, SessionAssumption DEF Sessions
  <2>3. changing' \in [stage : {"none", "aborting", "opened"}, to : 0..MaxSessions, context : Seq(Entry)]
    <3>1. 0 \in 0..MaxSessions /\ <<>> \in Seq(Entry)
      BY EmptySeq, SessionAssumption
    <3> QED
      BY <2>1, <3>1 DEF NoChange
  <2>4. transcript' \in Seq(Entry) /\ queue' \in Seq(Messages) /\ display' \in Seq(Messages)
    BY <2>1, EmptySeq
  <2>5. PromptStages'
    BY <2>1 DEF Stages, PromptStages, compactions
  <2>6. ChangeStages'
    <3>1. changing'.stage = "none" /\ UNCHANGED manual
      BY <2>1 DEF NoChange, compactions
    <3> QED
      BY <2>1, <3>1 DEF Stages, ChangeStages
  <2>7. Prepared'
    <3>1. \A s \in Sessions : s > sessions' => s > sessions
      BY <2>2, CurrentSession
    <3> QED
      BY <2>1, <3>1 DEF Stages, Prepared
  <2> QED
    BY <2>1, <2>2, <2>3, <2>4, <2>5, <2>6, <2>7, StagesFrame DEF TypeOK, Stages, eventQueue, compactions
<1>3. CASE switchOpens
  <2>1. /\ changing.stage = "aborting" /\ changing.to # sessions + 1
        /\ session' = changing.to /\ display' = <<>>
        /\ changing' = [changing EXCEPT !.stage = "opened", !.context = Context(file[changing.to])]
        /\ UNCHANGED <<home, text, sessions, file, agent, connected, eventQueue, compactions, prompting, pending>>
    BY <1>3 DEF switchOpens, IsNewSession
  <2>2. changing.to \in 1..sessions /\ sessions \in Nat
    <3>1. changing.to \in 1..(sessions + 1)
      BY <2>1 DEF Stages, ChangeStages
    <3> QED
      BY <2>1, <3>1, CurrentSession
  <2>3. changing.to \in Sessions
    BY <2>2, SessionAssumption DEF TypeOK, Sessions
  <2>4. Context(file[changing.to]) \in Seq(Entry)
    BY <2>3, ContextInFile DEF TypeOK
  <2>5. /\ changing' \in [stage : {"none", "aborting", "opened"}, to : 0..MaxSessions, context : Seq(Entry)]
        /\ changing'.stage = "opened"
    BY <2>1, <2>4 DEF TypeOK
  <2>6. display' \in Seq(Messages)
    BY <2>1, EmptySeq
  <2>7. PromptStages'
    BY <2>1 DEF Stages, PromptStages, NoChange, compactions
  <2>8. ChangeStages'
    BY <2>1, <2>5 DEF Stages, ChangeStages, NoChange, compactions
  <2>9. Prepared'
    BY <2>1 DEF Stages, Prepared
  <2> QED
    BY <2>1, <2>2, <2>5, <2>6, <2>7, <2>8, <2>9, StagesFrame DEF TypeOK, Stages, agent, eventQueue, compactions
<1>4. CASE switchLoads
  <2>1. /\ changing.stage = "opened" /\ transcript' = changing.context
        /\ connected' = TRUE /\ changing' = NoChange
        /\ UNCHANGED <<home, text, saved, running, queue, display, eventQueue, compactions, prompting, pending>>
    BY <1>4 DEF switchLoads
  <2>2. changing' \in [stage : {"none", "aborting", "opened"}, to : 0..MaxSessions, context : Seq(Entry)]
    <3>1. 0 \in 0..MaxSessions /\ <<>> \in Seq(Entry)
      BY EmptySeq, SessionAssumption
    <3> QED
      BY <2>1, <3>1 DEF NoChange
  <2>3. transcript' \in Seq(Entry)
    BY <2>1 DEF TypeOK
  <2>4. PromptStages' /\ ChangeStages'
    BY <2>1 DEF Stages, PromptStages, ChangeStages, NoChange, compactions
  <2> QED
    BY <2>1, <2>2, <2>3, <2>4, StagesFrame DEF TypeOK, Stages, saved, eventQueue, compactions
<1> QED
  BY <1>1, <1>2, <1>3, <1>4 DEF Changes

\* Manual compactions.
LEMMA TypesOfCompacts ==
  ASSUME TypeOK, Stages, Compacts
  PROVE  TypeOK' /\ Stages'
<1>1. CASE compact
  <2>1. /\ manual = NoManual /\ changing = NoChange /\ prompting = NoPrompt
        /\ manual' = [stage |-> "aborting", kept |-> 0] /\ connected' = FALSE
        /\ UNCHANGED <<home, text, saved, agent, display, eventQueue, autos, abortable, recovering, continues, prompting, pending, changing>>
    BY <1>1 DEF compact
  <2>2. manual' \in [stage : {"none", "aborting", "summarising"}, kept : OrNone]
    BY <2>1 DEF OrNone, End
  <2>3. PromptStages' /\ ChangeStages'
    BY <2>1 DEF Stages, PromptStages, ChangeStages, NoManual, saved
  <2> QED
    BY <2>1, <2>2, <2>3, StagesFrame DEF TypeOK, Stages, saved, agent, eventQueue
<1>2. CASE compactPrepares
  <2>1. /\ manual.stage = "aborting"
        /\ \E kept \in Keepable(file[session]) : manual' = [stage |-> "summarising", kept |-> kept]
        /\ UNCHANGED <<home, text, saved, agent, display, connected, eventQueue, autos, abortable, recovering, continues, prompting, pending, changing>>
    BY <1>2 DEF compactPrepares
  <2>2. PICK kept \in Keepable(file[session]) : manual' = [stage |-> "summarising", kept |-> kept]
    BY <2>1
  <2>3. kept \in Messages
    BY KeepableIsSaid, CurrentSession DEF TypeOK
  <2>4. manual' \in [stage : {"none", "aborting", "summarising"}, kept : OrNone]
    BY <2>2, <2>3 DEF OrNone
  <2>5. PromptStages' /\ ChangeStages'
    <3>1. kept # End
      BY <2>3, MessagesAreNumbers
    <3> QED
      BY <2>1, <2>2, <3>1 DEF Stages, PromptStages, ChangeStages, NoManual, saved
  <2> QED
    BY <2>1, <2>4, <2>5, StagesFrame DEF TypeOK, Stages, saved, agent, eventQueue
<1>3. CASE compactDone \/ compactFails
  <2>1. /\ manual' = NoManual /\ connected' = TRUE
        /\ UNCHANGED <<home, text, sessions, session, running, queue, display, eventQueue, autos, abortable, recovering, continues, prompting, pending, changing>>
    BY <1>3 DEF compactDone, compactFails, saved, agent
  <2>2. manual' \in [stage : {"none", "aborting", "summarising"}, kept : OrNone]
    BY <2>1 DEF NoManual, OrNone, End
  <2>3. /\ file' \in [Sessions -> Seq(Entry)] /\ transcript' \in Seq(Entry)
        /\ \A s \in Sessions : s # session => file'[s] = file[s]
    <3>1. CASE compactFails
      BY <3>1 DEF compactFails, TypeOK, saved, agent
    <3>2. CASE compactDone
      <4>1. manual.kept \in Messages
        BY <3>2 DEF compactDone, TypeOK, OrNone, Stages, ChangeStages
      <4> QED
        BY <3>2, <4>1, SummaryTypes DEF compactDone
    <3> QED
      BY <1>3, <3>1, <3>2
  <2>4. PromptStages' /\ ChangeStages'
    BY <2>1 DEF Stages, PromptStages, ChangeStages, NoManual
  <2>5. Prepared'
    BY <2>1, <2>3, PreparedEntered
  <2> QED
    BY <2>1, <2>2, <2>3, <2>4, <2>5, StagesFrame DEF TypeOK, Stages, eventQueue
<1> QED
  BY <1>1, <1>2, <1>3 DEF Compacts

LEMMA TypeStep == TypeOK /\ Stages /\ [Next]_vars => TypeOK' /\ Stages'
<1> SUFFICES ASSUME TypeOK, Stages, [Next]_vars PROVE TypeOK' /\ Stages'
  OBVIOUS
<1>1. CASE UNCHANGED vars
  BY <1>1, StagesFrame DEF TypeOK, Stages, vars, saved, agent, eventQueue, compactions
<1> QED
  BY <1>1, TypesOfAgent, TypesOfEvents, TypesOfPrompts, TypesOfChanges, TypesOfCompacts, TypesOfCalls,
     TypesOfAutos DEF Next

-----------------------------------------------------------------------------
(* Where messages are *)

Queued     == Range(queue)
Shown      == Range(display)
Prompted   == {prompting.message} \ {End}
Kept       == {e.of : e \in Range(pending)}
Written(s) == {m \in Messages : Said(m) \in Range(file[s])}

\* No message is there twice.
Once(f) == \A i, j \in 1..Len(f) : f[i] = f[j] /\ f[i].type = "message" => i = j

EventsOnce  == \A i, j \in 1..Len(events) : events[i] = events[j] /\ events[i] # End => i = j
EntriesOnce == Once(pending) /\ \A s \in Sessions : Once(file[s])

Ordered == Rising(queue) /\ Rising(display)

\* They have been typed, said or recorded.
Bounded ==
  /\ Queued \cup Shown \cup Unwritten \cup Prompted \cup Kept \subseteq 1..Len(home)
  /\ \A s \in Sessions : Written(s) \subseteq 1..Len(home)

\* A message is in one place, and in a file when it is in no other.
Apart ==
  /\ Queued \cap Unwritten = {} /\ Queued \cap Prompted = {} /\ Queued \cap Kept = {}
  /\ Unwritten \cap Prompted = {} /\ Unwritten \cap Kept = {} /\ Prompted \cap Kept = {}
Outside == \A s \in Sessions : Written(s) \cap (Queued \cup Unwritten \cup Prompted \cup Kept) = {}

Places == Bounded /\ Apart /\ Outside
Placed == Places /\ Ordered /\ EventsOnce /\ EntriesOnce

\* The messages that are on their way to a file, and no other but new ones come to be so.
Everywhere == Queued \cup Unwritten \cup Prompted \cup Kept
Gathers    == Everywhere' \subseteq Everywhere \cup (1..Len(home') \ 1..Len(home))

LEMMA MessagesOfEvents ==
  ASSUME NEW e \in Seq(OrNone)
  PROVE  {m \in Messages : \E i \in DOMAIN e : e[i] = m} = Range(e) \ {End}
<1>1. DOMAIN e = 1..Len(e) /\ \A i \in 1..Len(e) : e[i] \in OrNone
  BY LenProperties, ElementOfSeq
<1>2. Range(e) = {e[i] : i \in 1..Len(e)}
  BY RangeEquality
<1>3. \A m \in Messages : m # End
  BY MessagesAreNumbers
<1> QED
  BY <1>1, <1>2, <1>3 DEF OrNone

LEMMA UnwrittenIs ==
  /\ TypeOK  => Unwritten = Range(events) \ {End}
  /\ TypeOK' => Unwritten' = Range(events') \ {End}
BY MessagesOfEvents DEF TypeOK, Unwritten

\* An event more.
LEMMA EmitPlaces ==
  ASSUME TypeOK, TypeOK', NEW m \in OrNone, Emit(m)
  PROVE  /\ Unwritten \subseteq Unwritten' /\ Unwritten' \subseteq Unwritten \cup ({m} \ {End})
         /\ connected => Unwritten' = Unwritten \cup ({m} \ {End})
         /\ EventsOnce /\ m \notin Unwritten => EventsOnce'
<1>1. events \in Seq(OrNone) /\ Unwritten = Range(events) \ {End} /\ Unwritten' = Range(events') \ {End}
  BY UnwrittenIs DEF TypeOK
<1>2. CASE ~connected
  BY <1>1, <1>2 DEF Emit, EventsOnce
<1>3. CASE connected
  <2>1. events' = Append(events, m)
    BY <1>3 DEF Emit
  <2>2. /\ Len(events') = Len(events) + 1 /\ Len(events) \in Nat
        /\ \A i \in 1..Len(events) : events'[i] = events[i]
        /\ events'[Len(events) + 1] = m /\ Range(events') = Range(events) \cup {m}
    <3>1. events \in Seq(OrNone) /\ m \in OrNone
      BY <1>1
    <3>2. /\ Len(Append(events, m)) = Len(events) + 1 /\ Len(events) \in Nat
          /\ \A i \in 1..Len(events) : Append(events, m)[i] = events[i]
          /\ Append(events, m)[Len(events) + 1] = m
      BY ONLY <3>1, Appended
    <3>3. Range(events') = Range(events) \cup {m}
      <4>1. events' \in Seq(OrNone)
        BY DEF TypeOK
      <4>2. Range(events') = {events'[i] : i \in 1..Len(events')} /\ Range(events) = {events[i] : i \in 1..Len(events)}
        BY ONLY <3>1, <4>1, RangeEquality
      <4>3. 1..Len(events') = (1..Len(events)) \cup {Len(events) + 1}
        BY <2>1, <3>2
      <4> QED
        BY <2>1, <3>2, <4>2, <4>3
    <3> QED
      BY ONLY <2>1, <3>2, <3>3
  <2>3. EventsOnce /\ m \notin Unwritten => EventsOnce'
    <3> SUFFICES ASSUME EventsOnce, m \notin Unwritten,
                        NEW i \in 1..Len(events'), NEW j \in 1..Len(events'),
                        events'[i] = events'[j], events'[i] # End
                 PROVE  i = j
      BY DEF EventsOnce
    <3>1. \A k \in 1..Len(events) : events[k] \in Range(events)
      BY <1>1, RangeEquality
    <3>2. \A k \in 1..Len(events') : k \in 1..Len(events) \/ k = Len(events) + 1
      BY <2>2
    <3>3. m = End \/ m \notin Range(events)
      BY <1>1
    <3> QED
      BY <2>2, <3>1, <3>2, <3>3 DEF EventsOnce
  <2> QED
    BY <1>1, <1>3, <2>2, <2>3
<1> QED
  BY <1>2, <1>3

\* An event less.
LEMMA HeadPlaces ==
  ASSUME TypeOK, TypeOK', events # <<>>, events' = Tail(events)
  PROVE  /\ Unwritten' \subseteq Unwritten
         /\ Head(events) = End => Unwritten' = Unwritten
         /\ Head(events) # End => Head(events) \in Unwritten
         /\ EventsOnce => EventsOnce'
         /\ EventsOnce /\ Head(events) # End => Unwritten' = Unwritten \ {Head(events)}
<1>1. events \in Seq(OrNone) /\ Unwritten = Range(events) \ {End} /\ Unwritten' = Range(events') \ {End}
  BY UnwrittenIs DEF TypeOK
<1>2. /\ Len(events') = Len(events) - 1 /\ Len(events) \in Nat \ {0} /\ events' \in Seq(OrNone)
      /\ \A i \in 1..Len(events') : i + 1 \in 1..Len(events) /\ events'[i] = events[i + 1]
      /\ Head(events) = events[1] /\ 1 \in 1..Len(events)
      /\ Range(events) = Range(events') \cup {Head(events)}
  BY ONLY <1>1, events # <<>>, events' = Tail(events), Tailed
<1>3. EventsOnce => EventsOnce'
  <2> SUFFICES ASSUME EventsOnce, NEW i \in 1..Len(events'), NEW j \in 1..Len(events'),
                      events'[i] = events'[j], events'[i] # End
               PROVE  i = j
    BY DEF EventsOnce
  <2>1. i + 1 = j + 1
    BY <1>2 DEF EventsOnce
  <2> QED
    BY <1>2, <2>1
<1>4. EventsOnce /\ Head(events) # End => Head(events) \notin Range(events')
  <2> SUFFICES ASSUME EventsOnce, Head(events) # End, Head(events) \in Range(events') PROVE FALSE
    OBVIOUS
  <2>0. Range(events') = {events'[i] : i \in 1..Len(events')}
    <3>1. events' \in Seq(OrNone)
      BY <1>2
    <3> QED
      BY ONLY <3>1, RangeEquality
  <2>1. PICK i \in 1..Len(events') : events'[i] = Head(events)
    BY <2>0
  <2>2. i + 1 = 1
    BY <1>2, <2>1 DEF EventsOnce
  <2> QED
    BY <1>2, <2>2
<1> QED
  BY <1>1, <1>2, <1>3, <1>4

\* Entries more.
LEMMA EnterPlaces ==
  ASSUME TypeOK, TypeOK', NEW entries \in Seq(Entry), Enter(entries), UNCHANGED session
  PROVE  \A s \in Sessions :
           Written(s)' = Written(s) \cup (IF s = session THEN {m \in Messages : Said(m) \in Range(entries)} ELSE {})
<1>1. /\ file'[session] = file[session] \o entries /\ file[session] \in Seq(Entry)
      /\ \A s \in Sessions : s # session => file'[s] = file[s]
  BY Entered
<1>2. Range(file'[session]) = Range(file[session]) \cup Range(entries)
  BY <1>1, JoinedAll
<1> TAKE s \in Sessions
<1>3. CASE s = session
  BY <1>2, <1>3 DEF Written
<1>4. CASE s # session
  BY <1>1, <1>4 DEF Written
<1> QED
  BY <1>3, <1>4

\* No message twice in what is put together of parts without a common message.
LEMMA OnceJoined ==
  ASSUME NEW f \in Seq(Entry), NEW g \in Seq(Entry), Once(f), Once(g),
         \A e \in Range(g) : e.type = "message" => e \notin Range(f)
  PROVE  Once(f \o g)
<1>1. /\ Len(f \o g) = Len(f) + Len(g) /\ Len(f) \in Nat /\ Len(g) \in Nat
      /\ \A i \in 1..Len(f) : (f \o g)[i] = f[i]
      /\ \A i \in 1..Len(g) : (f \o g)[Len(f) + i] = g[i]
  BY Joined
<1> SUFFICES ASSUME NEW i \in 1..Len(f \o g), NEW j \in 1..Len(f \o g), i < j,
                    (f \o g)[i] = (f \o g)[j], (f \o g)[i].type = "message"
             PROVE  FALSE
  <2> HIDE DEF Once
  <2>1. ASSUME NEW a \in 1..Len(f \o g), NEW b \in 1..Len(f \o g),
               (f \o g)[a] = (f \o g)[b] /\ (f \o g)[a].type = "message"
        PROVE  a = b
    <3>1. a = b \/ a < b \/ b < a
      BY <1>1
    <3> QED
      BY <2>1, <3>1
  <2> QED
    BY <2>1 DEF Once
<1>2. (\A k \in 1..Len(f) : f[k] \in Range(f)) /\ (\A k \in 1..Len(g) : g[k] \in Range(g))
  BY RangeEquality
<1>3. CASE j <= Len(f)
  <2>1. i \in 1..Len(f) /\ j \in 1..Len(f)
    BY <1>1, <1>3
  <2>2. f[i] = f[j] /\ f[i].type = "message"
    BY <1>1, <2>1
  <2>3. i = j
    BY ONLY <2>1, <2>2, Once(f) DEF Once
  <2> QED
    BY <1>1, <2>3
<1>4. CASE i > Len(f)
  <2>1. /\ i - Len(f) \in 1..Len(g) /\ Len(f) + (i - Len(f)) = i
        /\ j - Len(f) \in 1..Len(g) /\ Len(f) + (j - Len(f)) = j
    BY <1>1, <1>4
  <2>2. i - Len(f) = j - Len(f)
    BY <1>1, <2>1 DEF Once
  <2> QED
    BY <1>1, <2>2
<1>5. CASE i <= Len(f) /\ j > Len(f)
  <2>1. i \in 1..Len(f) /\ j - Len(f) \in 1..Len(g) /\ Len(f) + (j - Len(f)) = j
    BY <1>1, <1>5
  <2> QED
    BY <1>1, <1>2, <2>1
<1> QED
  BY <1>1, <1>3, <1>4, <1>5

\* Messages go from the queue or a prompt to the events, and from the events or from what is
\* kept aside to a file.
LEMMA PlacesKept ==
  ASSUME Places, UNCHANGED home,
         Queued' \subseteq Queued, Shown' \subseteq Shown, Prompted' \subseteq Prompted, Kept' \subseteq Kept,
         Unwritten' \subseteq Unwritten \cup (Queued \ Queued') \cup (Prompted \ Prompted'),
         \A s \in Sessions : Written(s)' \subseteq Written(s) \cup (Unwritten \ Unwritten') \cup (Kept \ Kept')
  PROVE  Places' /\ Gathers
<1>1. Bounded'
  <2>1. Queued' \cup Shown' \cup Unwritten' \cup Prompted' \cup Kept' \subseteq 1..Len(home)
    BY DEF Places, Bounded
  <2>2. \A s \in Sessions : Written(s)' \subseteq 1..Len(home)
    BY DEF Places, Bounded
  <2> QED
    BY <2>1, <2>2 DEF Bounded
<1>2. Apart'
  BY DEF Places, Apart
<1>3. Outside'
  <2> SUFFICES ASSUME NEW s \in Sessions, NEW m \in Written(s)'
               PROVE  m \notin (Queued' \cup Unwritten' \cup Prompted' \cup Kept')
    BY DEF Outside
  <2>1. m \in Written(s) \/ (m \in Unwritten /\ m \notin Unwritten') \/ (m \in Kept /\ m \notin Kept')
    OBVIOUS
  <2> QED
    BY <2>1 DEF Places, Apart, Outside
<1>4. Gathers
  BY DEF Gathers, Everywhere
<1> QED
  BY <1>1, <1>2, <1>3, <1>4 DEF Places

\* A new message is in one place.
LEMMA PlacesNew ==
  ASSUME TypeOK, Places, IsNew,
         Queued' \subseteq Queued \cup {New}, Shown' \subseteq Shown \cup {New},
         Unwritten' \subseteq Unwritten \cup {New}, Prompted' \subseteq Prompted \cup {New},
         Kept' \subseteq Kept \cup {New},
         \A s \in Sessions : Written(s)' \subseteq Written(s) \cup (Kept \ Kept') \cup {New},
         New \in Queued' => New \notin Unwritten' \cup Prompted' \cup Kept',
         New \in Unwritten' => New \notin Prompted' \cup Kept',
         New \in Prompted' => New \notin Kept',
         \A s \in Sessions : New \in Written(s)' => New \notin Queued' \cup Unwritten' \cup Prompted' \cup Kept'
  PROVE  Places' /\ Gathers
<1>1. New \in 1..Len(home') /\ New \notin 1..Len(home) /\ 1..Len(home) \subseteq 1..Len(home')
  BY NewIsNew
<1>2. New \notin Queued \cup Unwritten \cup Prompted \cup Kept /\ \A s \in Sessions : New \notin Written(s)
  BY <1>1 DEF Places, Bounded
<1>3. Bounded'
  <2>1. Queued' \cup Shown' \cup Unwritten' \cup Prompted' \cup Kept' \subseteq 1..Len(home')
    BY <1>1 DEF Places, Bounded
  <2>2. \A s \in Sessions : Written(s)' \subseteq 1..Len(home')
    BY <1>1 DEF Places, Bounded
  <2> QED
    BY <2>1, <2>2 DEF Bounded
<1>4. Apart'
  BY <1>2 DEF Places, Apart
<1>5. Outside'
  <2> SUFFICES ASSUME NEW s \in Sessions, NEW m \in Written(s)'
               PROVE  m \notin (Queued' \cup Unwritten' \cup Prompted' \cup Kept')
    BY DEF Outside
  <2>1. m \in Written(s) \/ m = New \/ (m \in Kept /\ m \notin Kept')
    OBVIOUS
  <2>2. m = New => m \notin Queued' \cup Unwritten' \cup Prompted' \cup Kept'
    OBVIOUS
  <2>3. m # New /\ m \in Written(s) => m \notin Queued' \cup Unwritten' \cup Prompted' \cup Kept'
    BY DEF Places, Outside
  <2>4. m # New /\ m \in Kept /\ m \notin Kept' => m \notin Queued' \cup Unwritten' \cup Prompted' \cup Kept'
    BY DEF Places, Apart
  <2> QED
    BY <2>1, <2>2, <2>3, <2>4
<1>6. Gathers
  BY <1>1 DEF Gathers, Everywhere
<1> QED
  BY <1>3, <1>4, <1>5, <1>6 DEF Places

\* What a step leaves alone stays in its place.
LEMMA PlacesFrame ==
  /\ UNCHANGED queue     => Queued' = Queued
  /\ UNCHANGED display   => Shown' = Shown
  /\ UNCHANGED events    => Unwritten' = Unwritten /\ (EventsOnce => EventsOnce')
  /\ UNCHANGED prompting => Prompted' = Prompted
  /\ prompting'.message = prompting.message => Prompted' = Prompted
  /\ prompting' = NoPrompt => Prompted' = {}
  /\ UNCHANGED pending   => Kept' = Kept
  /\ UNCHANGED file      => \A s \in Sessions : Written(s)' = Written(s)
  /\ UNCHANGED <<file, pending>>  => (EntriesOnce => EntriesOnce')
  /\ UNCHANGED <<queue, display>> => (Ordered => Ordered')
BY DEF Queued, Shown, Unwritten, EventsOnce, Prompted, Kept, Written, EntriesOnce, Ordered, NoPrompt

\* The first message is taken from the queue.
LEMMA QueueTaken ==
  ASSUME TypeOK, Ordered, queue # <<>>, queue' = Tail(queue)
  PROVE  /\ Head(queue) \in Messages /\ Head(queue) \in Queued
         /\ Queued' = Queued \ {Head(queue)} /\ Rising(queue')
<1>1. queue \in Seq(Messages) /\ Rising(queue)
  BY DEF TypeOK, Ordered
<1>2. Rising(Tail(queue)) /\ Head(queue) \notin Range(Tail(queue))
  BY <1>1, RisingTailed
<1>3. Head(queue) \in Messages /\ Range(queue) = Range(Tail(queue)) \cup {Head(queue)}
  BY <1>1, Tailed
<1> QED
  BY <1>2, <1>3 DEF Queued

LEMMA NewOutside ==
  ASSUME TypeOK, Places, IsNew
  PROVE  /\ New \in Messages /\ New # End /\ New \in OrNone /\ New \notin 1..Len(home)
         /\ New \notin Queued \cup Shown \cup Unwritten \cup Prompted \cup Kept
         /\ \A s \in Sessions : New \notin Written(s)
         /\ \A m \in 1..Len(home) : m < New
<1>1. New \notin 1..Len(home) /\ New \in Messages /\ \A m \in 1..Len(home) : m < New
  BY NewIsNew
<1>2. New # End /\ New \in OrNone
  BY <1>1, MessagesAreNumbers DEF OrNone
<1> QED
  BY <1>1, <1>2 DEF Places, Bounded

\* A queued message begins its turn.
LEMMA PlacesTaken ==
  ASSUME TypeOK, TypeOK', Placed, queue # <<>>, queue' = Tail(queue), Ended(Head(queue)),
         UNCHANGED <<home, file, display, prompting, pending>>
  PROVE  Placed' /\ Gathers
<1>1. /\ Head(queue) \in Messages /\ Head(queue) \in Queued
      /\ Queued' = Queued \ {Head(queue)} /\ Rising(queue')
  BY QueueTaken DEF Placed
<1>2. Head(queue) \in OrNone /\ Head(queue) \notin Unwritten
  BY <1>1 DEF OrNone, Placed, Places, Apart
<1>3. Unwritten' \subseteq Unwritten \cup {Head(queue)} /\ EventsOnce' /\ Unwritten \subseteq Unwritten'
  BY <1>2, EmitPlaces DEF Ended, Placed
<1>4. Shown' = Shown /\ Prompted' = Prompted /\ Kept' = Kept /\ \A s \in Sessions : Written(s)' = Written(s)
  BY PlacesFrame
<1>5. Unwritten' \subseteq Unwritten \cup (Queued \ Queued') \cup (Prompted \ Prompted')
  BY <1>1, <1>3
<1>6. \A s \in Sessions : Written(s)' \subseteq Written(s) \cup (Unwritten \ Unwritten') \cup (Kept \ Kept')
  BY <1>4
<1>7. Places' /\ Gathers
  BY <1>1, <1>4, <1>5, <1>6, PlacesKept DEF Placed
<1> QED
  BY <1>1, <1>3, <1>7, PlacesFrame DEF Placed, Ordered

\* Nothing but an event of no message comes or goes.
LEMMA PlacesQuiet ==
  ASSUME Placed, UNCHANGED <<home, file, queue, display, pending>>,
         Unwritten' = Unwritten, EventsOnce', Prompted' = Prompted
  PROVE  Placed' /\ Gathers
<1>1. /\ Queued' = Queued /\ Shown' = Shown /\ Kept' = Kept
      /\ \A s \in Sessions : Written(s)' = Written(s)
  BY PlacesFrame
<1>2. Places' /\ Gathers
  <2>1. Unwritten' \subseteq Unwritten \cup (Queued \ Queued') \cup (Prompted \ Prompted')
    OBVIOUS
  <2>2. \A s \in Sessions : Written(s)' \subseteq Written(s) \cup (Unwritten \ Unwritten') \cup (Kept \ Kept')
    BY <1>1
  <2> QED
    BY <1>1, <2>1, <2>2, PlacesKept DEF Placed
<1> QED
  BY <1>2, PlacesFrame DEF Placed

LEMMA PlacesOfAgent ==
  ASSUME TypeOK, TypeOK', Placed, AgentSteps
  PROVE  Placed' /\ Gathers
<1>1. CASE says
  <2>1. IsNew /\ Ended(New) /\ UNCHANGED <<file, queue, display, prompting, pending>>
    BY <1>1 DEF says, saved
  <2>2. /\ New \in OrNone /\ New # End /\ New \notin Queued \cup Shown \cup Unwritten \cup Prompted \cup Kept
        /\ \A s \in Sessions : New \notin Written(s)
    BY <2>1, NewOutside DEF Placed
  <2>3. Unwritten' \subseteq Unwritten \cup {New} /\ EventsOnce'
    BY <2>1, <2>2, EmitPlaces DEF Ended, Placed
  <2>4. /\ Queued' = Queued /\ Shown' = Shown /\ Prompted' = Prompted /\ Kept' = Kept
        /\ \A s \in Sessions : Written(s)' = Written(s)
    BY <2>1, PlacesFrame
  <2>5. Places' /\ Gathers
    BY <2>1, <2>2, <2>3, <2>4, PlacesNew DEF Placed
  <2> QED
    BY <2>1, <2>3, <2>5, PlacesFrame DEF Placed
<1>2. CASE steered
  BY <1>2, PlacesTaken DEF steered, saved
<1>3. CASE runEnds
  <2>1. Emit(End) /\ UNCHANGED <<home, file, queue, display, prompting, pending>>
    BY <1>3 DEF runEnds, saved
  <2>2. End \in OrNone /\ End \notin Unwritten
    BY MessagesAreNumbers DEF OrNone, Unwritten
  <2>3. Unwritten' = Unwritten /\ EventsOnce'
    BY <2>1, <2>2, EmitPlaces DEF Placed
  <2> QED
    BY <2>1, <2>3, PlacesFrame, PlacesQuiet
<1>4. CASE continue
  <2>1. UNCHANGED <<home, file, display, prompting, pending>>
    BY <1>4 DEF continue, saved
  <2>2. CASE UNCHANGED <<queue, events>>
    <3>1. Unwritten' = Unwritten /\ EventsOnce' /\ Prompted' = Prompted
      BY <2>1, <2>2, PlacesFrame DEF Placed
    <3> QED
      BY <2>1, <2>2, <3>1, PlacesQuiet
  <2>3. CASE queue # <<>> /\ queue' = Tail(queue) /\ Ended(Head(queue))
    BY <2>1, <2>3, PlacesTaken
  <2> QED
    BY <1>4, <2>2, <2>3 DEF continue, agent
<1> QED
  BY <1>1, <1>2, <1>3, <1>4 DEF AgentSteps

LEMMA PlacesOfEvents ==
  ASSUME TypeOK, TypeOK', Stages, Placed, EventSteps
  PROVE  Placed' /\ Gathers
<1>1. CASE eventBegins
  <2>1. display' = RemoveFirst(display, Struck) /\ UNCHANGED <<home, file, queue, events, prompting, pending>>
    BY <1>1 DEF eventBegins, saved, agent
  <2>2. Rising(display') /\ Shown' \subseteq Shown
    BY <2>1, RisingRemoved DEF Placed, Ordered, TypeOK, Shown
  <2>3. /\ Queued' = Queued /\ Unwritten' = Unwritten /\ EventsOnce' /\ Prompted' = Prompted /\ Kept' = Kept
        /\ \A s \in Sessions : Written(s)' = Written(s)
    BY <2>1, PlacesFrame DEF Placed
  <2>4. Places' /\ Gathers
    <3>1. Unwritten' \subseteq Unwritten \cup (Queued \ Queued') \cup (Prompted \ Prompted')
      BY <2>3
    <3>2. \A s \in Sessions : Written(s)' \subseteq Written(s) \cup (Unwritten \ Unwritten') \cup (Kept \ Kept')
      BY <2>3
    <3> QED
      BY <2>1, <2>2, <2>3, <3>1, <3>2, PlacesKept DEF Placed
  <2> QED
    BY <2>1, <2>2, <2>3, <2>4, PlacesFrame DEF Placed, Ordered
<1>2. CASE eventPersists
  <2> DEFINE m == Head(events)
  <2>1. /\ handling = "extension" /\ m # End /\ Enter(<<Said(m)>>) /\ events' = Tail(events)
        /\ UNCHANGED <<home, session, queue, display, prompting, pending>>
    BY <1>2 DEF eventPersists, agent
  <2>2. events # <<>>
    BY <2>1 DEF Stages, HandlingStages
  <2>3. m \in Unwritten /\ EventsOnce' /\ Unwritten' = Unwritten \ {m}
    BY <2>1, <2>2, HeadPlaces DEF Placed
  <2>4. m \in Messages
    BY <2>3 DEF Unwritten
  <2> HIDE DEF m
  <2>5. /\ Said(m) \in Entry /\ <<Said(m)>> \in Seq(Entry) /\ Range(<<Said(m)>>) = {Said(m)}
        /\ Len(<<Said(m)>>) = 1
    BY <2>4, Entries, SingleEntry
  <2>6. {x \in Messages : Said(x) \in Range(<<Said(m)>>)} = {m}
    BY <2>4, <2>5 DEF Said
  <2>7. \A s \in Sessions : Written(s)' = Written(s) \cup (IF s = session THEN {m} ELSE {})
    BY <2>1, <2>5, <2>6, EnterPlaces
  <2>8. Queued' = Queued /\ Shown' = Shown /\ Prompted' = Prompted /\ Kept' = Kept
    BY <2>1, PlacesFrame
  <2>9. Places' /\ Gathers
    <3>1. Unwritten' \subseteq Unwritten \cup (Queued \ Queued') \cup (Prompted \ Prompted')
      BY <2>3
    <3>2. \A s \in Sessions : Written(s)' \subseteq Written(s) \cup (Unwritten \ Unwritten') \cup (Kept \ Kept')
      <4>1. m \in Unwritten /\ m \notin Unwritten'
        BY <2>3
      <4>2. \A s \in Sessions : Written(s)' \subseteq Written(s) \cup {m}
        BY <2>7
      <4> QED
        BY ONLY <4>1, <4>2
    <3> QED
      BY <2>1, <2>8, <3>1, <3>2, PlacesKept DEF Placed
  <2>10. EntriesOnce'
    <3>1. /\ file'[session] = file[session] \o <<Said(m)>> /\ file[session] \in Seq(Entry)
          /\ \A s \in Sessions : s # session => file'[s] = file[s]
      BY <2>1, <2>5, Entered
    <3>2. Once(file[session]) /\ Once(<<Said(m)>>)
      BY <2>5, CurrentSession DEF Placed, EntriesOnce, Once
    <3>3. Said(m) \notin Range(file[session])
      BY <2>3, <2>4, CurrentSession DEF Placed, Places, Outside, Written
    <3>4. Once(file[session] \o <<Said(m)>>)
      BY <2>5, <3>1, <3>2, <3>3, OnceJoined
    <3> QED
      BY <2>1, <3>1, <3>4 DEF Placed, EntriesOnce
  <2> QED
    BY <2>1, <2>3, <2>9, <2>10, PlacesFrame DEF Placed
<1>3. CASE endHandled \/ retryDue
  <2>1. /\ handling # "no" /\ Head(events) = End /\ events' = Tail(events)
        /\ UNCHANGED <<home, file, queue, display, prompting, pending>>
    BY <1>3 DEF endHandled, retryDue, EndIsRead, saved, agent, Stages, HandlingStages
  <2>2. events # <<>>
    BY <2>1 DEF Stages, HandlingStages
  <2>3. Unwritten' = Unwritten /\ EventsOnce' /\ Prompted' = Prompted
    BY <2>1, <2>2, HeadPlaces, PlacesFrame DEF Placed
  <2> QED
    BY <2>1, <2>3, PlacesQuiet
<1>4. CASE endCompacts \/ endSeeks \/ endRetries
  <2>1. UNCHANGED <<home, file, queue, display, events, prompting, pending>>
    BY <1>4 DEF endCompacts, endSeeks, endRetries, EndIsRead, AutoBegins, saved, agent
  <2>2. Unwritten' = Unwritten /\ EventsOnce' /\ Prompted' = Prompted
    BY <2>1, PlacesFrame DEF Placed
  <2> QED
    BY <2>1, <2>2, PlacesQuiet
<1> QED
  BY <1>1, <1>2, <1>3, <1>4 DEF EventSteps

\* A summary is entered, or not.
LEMMA PlacesSummary ==
  ASSUME TypeOK, TypeOK', Placed, UNCHANGED <<home, session, queue, display, pending>>,
         UNCHANGED file \/ (\E kept \in Messages : Enter(<<Summary(kept)>>)),
         Unwritten' = Unwritten, EventsOnce', Prompted' = Prompted
  PROVE  Placed' /\ Gathers
<1>1. CASE UNCHANGED file
  BY <1>1, PlacesQuiet
<1>2. CASE \E kept \in Messages : Enter(<<Summary(kept)>>)
  <2>1. PICK kept \in Messages : Enter(<<Summary(kept)>>)
    BY <1>2
  <2>2. /\ Summary(kept) \in Entry /\ Summary(kept).type = "compaction" /\ <<Summary(kept)>> \in Seq(Entry)
        /\ Len(<<Summary(kept)>>) = 1 /\ <<Summary(kept)>>[1] = Summary(kept)
        /\ Range(<<Summary(kept)>>) = {Summary(kept)}
    BY Entries, SingleEntry
  <2>3. {x \in Messages : Said(x) \in Range(<<Summary(kept)>>)} = {}
    BY <2>2, Entries
  <2>4. \A s \in Sessions : Written(s)' = Written(s)
    BY <2>1, <2>2, <2>3, EnterPlaces
  <2>5. Queued' = Queued /\ Shown' = Shown /\ Kept' = Kept
    BY PlacesFrame
  <2>6. Places' /\ Gathers
    <3>1. Unwritten' \subseteq Unwritten \cup (Queued \ Queued') \cup (Prompted \ Prompted')
      OBVIOUS
    <3>2. \A s \in Sessions : Written(s)' \subseteq Written(s) \cup (Unwritten \ Unwritten') \cup (Kept \ Kept')
      BY <2>4
    <3> QED
      BY <2>5, <3>1, <3>2, PlacesKept DEF Placed
  <2>7. EntriesOnce'
    <3>1. /\ file'[session] = file[session] \o <<Summary(kept)>> /\ file[session] \in Seq(Entry)
          /\ \A s \in Sessions : s # session => file'[s] = file[s]
      BY <2>1, <2>2, Entered
    <3>2. Once(file[session]) /\ Once(<<Summary(kept)>>)
      BY <2>2, CurrentSession DEF Placed, EntriesOnce, Once
    <3>3. Once(file[session] \o <<Summary(kept)>>)
      BY <2>2, <3>1, <3>2, OnceJoined
    <3> QED
      BY <3>1, <3>3 DEF Placed, EntriesOnce
  <2> QED
    BY <2>6, <2>7, PlacesFrame DEF Placed
<1> QED
  BY <1>1, <1>2

LEMMA PlacesOfAutos ==
  ASSUME TypeOK, TypeOK', Stages, Placed, NEW c \in Callers, autoDone(c) \/ autoFails(c)
  PROVE  Placed' /\ Gathers
<1>1. autos[c] # 0 /\ Resumes(c) /\ UNCHANGED <<home, session, queue, display, pending>>
  BY DEF autoDone, autoFails, saved, agent
<1>2. UNCHANGED file \/ (\E kept \in Messages : Enter(<<Summary(kept)>>))
  <2>1. autos[c] \in Messages
    BY <1>1 DEF TypeOK, OrNone, End
  <2> QED
    BY <2>1 DEF autoDone, autoFails, EnterSummary, saved
<1>3. Unwritten' = Unwritten /\ EventsOnce' /\ Prompted' = Prompted
  <2>1. CASE c = "event"
    <3>1. events # <<>> /\ Head(events) = End /\ events' = Tail(events) /\ prompting' = prompting
      BY <1>1, <2>1, ResumedTypes
    <3> QED
      BY <3>1, HeadPlaces, PlacesFrame DEF Placed
  <2>2. CASE c = "prompt"
    <3>1. prompting'.message = prompting.message /\ UNCHANGED events
      BY <1>1, <2>2, ResumedTypes
    <3> QED
      BY <3>1, PlacesFrame DEF Placed
  <2> QED
    BY <2>1, <2>2 DEF Callers
<1> QED
  BY <1>1, <1>2, <1>3, PlacesSummary

\* What was kept aside is entered.
LEMMA PlacesOfPrompts ==
  ASSUME TypeOK, TypeOK', Stages, Placed, Prompts
  PROVE  Placed' /\ Gathers
<1>1. CASE prompt
  <2>1. /\ prompting = NoPrompt /\ IsNew /\ prompting'.message = New
        /\ transcript' = transcript \o pending /\ Enter(pending) /\ pending' = <<>>
        /\ UNCHANGED <<session, queue, display, events>>
    BY <1>1 DEF prompt, eventQueue
  <2>2. /\ New \in Messages /\ New # End
        /\ New \notin Queued \cup Shown \cup Unwritten \cup Prompted \cup Kept
        /\ \A s \in Sessions : New \notin Written(s)
    BY <2>1, NewOutside DEF Placed
  <2>3. Prompted' = {New} /\ Prompted = {} /\ Kept' = {}
    <3>1. Range(<<>>) = {}
      BY DEF Range
    <3> QED
      BY <2>1, <2>2, <3>1 DEF Prompted, NoPrompt, Kept
  <2>4. Queued' = Queued /\ Shown' = Shown /\ Unwritten' = Unwritten /\ EventsOnce'
    BY <2>1, PlacesFrame DEF Placed
  <2>5. \A m \in Messages : Said(m) \in Range(pending) => m \in Kept
    <3>1. \A m \in Messages : Said(m).of = m
      BY Entries
    <3> QED
      BY <3>1 DEF Kept
  <2>6. \A s \in Sessions : Written(s)' \subseteq Written(s) \cup (Kept \ Kept') \cup {New}
    <3>1. pending \in Seq(Entry) /\ Enter(pending) /\ UNCHANGED session
      BY <2>1 DEF TypeOK
    <3> DEFINE aside == {m \in Messages : Said(m) \in Range(pending)}
    <3>2. \A s \in Sessions : Written(s)' = Written(s) \cup (IF s = session THEN aside ELSE {})
      BY <3>1, EnterPlaces
    <3>3. aside \subseteq Kept \ Kept'
      BY <2>3, <2>5
    <3> HIDE DEF aside
    <3> QED
      BY <3>2, <3>3
  <2>8. Places' /\ Gathers
    <3>1. New \notin Queued' \cup Unwritten' \cup Kept'
      BY <2>2, <2>3, <2>4
    <3>2. \A s \in Sessions : New \notin Written(s)'
      <4> SUFFICES ASSUME NEW s \in Sessions, New \in Written(s)' PROVE FALSE
        OBVIOUS
      <4>1. pending \in Seq(Entry) /\ Enter(pending) /\ UNCHANGED session
        BY <2>1 DEF TypeOK
      <4>2. Written(s)' = Written(s) \cup (IF s = session THEN {m \in Messages : Said(m) \in Range(pending)} ELSE {})
        BY <4>1, EnterPlaces
      <4> QED
        BY <2>2, <2>5, <4>2
    <3> QED
      BY <2>1, <2>2, <2>3, <2>4, <2>6, <3>1, <3>2, PlacesNew DEF Placed
  <2>9. EntriesOnce'
    <3>1. /\ file'[session] = file[session] \o pending /\ file[session] \in Seq(Entry) /\ pending \in Seq(Entry)
          /\ \A s \in Sessions : s # session => file'[s] = file[s]
      BY <2>1, Entered DEF TypeOK
    <3>2. Once(file[session]) /\ Once(pending)
      BY CurrentSession DEF Placed, EntriesOnce
    <3>3. \A x \in Range(pending) : x.type = "message" => x \notin Range(file[session])
      <4> SUFFICES ASSUME NEW x \in Range(pending), x.type = "message" PROVE x \notin Range(file[session])
        OBVIOUS
      <4>1. x \in Entry
        BY <3>1, RangeEquality, ElementOfSeq
      <4>2. x.of \in Messages /\ x = Said(x.of)
        BY <4>1 DEF Entry, Said
      <4>3. x.of \in Kept
        BY DEF Kept
      <4> QED
        BY <4>2, <4>3, CurrentSession DEF Placed, Places, Outside, Written
    <3>4. Once(file[session] \o pending)
      BY <3>1, <3>2, <3>3, OnceJoined
    <3>5. Once(pending')
      BY <2>1 DEF Once
    <3> QED
      BY <3>1, <3>4, <3>5 DEF Placed, EntriesOnce
  <2> QED
    BY <2>1, <2>4, <2>8, <2>9, PlacesFrame DEF Placed
<1>2. CASE promptCompacts \/ promptRecovers
  <2>1. prompting'.message = prompting.message /\ UNCHANGED <<home, file, queue, display, events, pending>>
    BY <1>2 DEF promptCompacts, promptRecovers, AutoBegins, saved, eventQueue, TypeOK
  <2>2. Unwritten' = Unwritten /\ EventsOnce' /\ Prompted' = Prompted
    BY <2>1, PlacesFrame DEF Placed
  <2> QED
    BY <2>1, <2>2, PlacesQuiet
<1>3. CASE promptRuns
  <2>1. /\ prompting.stage \in {"checking", "ready"} /\ prompting' = NoPrompt
        /\ UNCHANGED <<home, file, queue, display, pending>>
    BY <1>3 DEF promptRuns, saved
  <2>2. prompting.message # End /\ prompting.message \in Messages /\ Prompted = {prompting.message} /\ Prompted' = {}
    <3>1. prompting.message # End
      BY <2>1 DEF Stages, PromptStages, NoPrompt
    <3> QED
      BY <2>1, <3>1, PlacesFrame DEF TypeOK, OrNone, Prompted
  <2>3. prompting.message \notin Unwritten /\ prompting.message \in OrNone
    BY <2>2 DEF Placed, Places, Apart, OrNone
  <2>4. Unwritten' \subseteq Unwritten \cup Prompted /\ EventsOnce'
    <3>1. CASE UNCHANGED events
      BY <3>1, PlacesFrame DEF Placed
    <3>2. CASE Ended(prompting.message)
      BY <2>2, <2>3, <3>2, EmitPlaces DEF Ended, Placed
    <3> QED
      BY <1>3, <3>1, <3>2 DEF promptRuns
  <2>5. /\ Queued' = Queued /\ Shown' = Shown /\ Kept' = Kept
        /\ \A s \in Sessions : Written(s)' = Written(s)
    BY <2>1, PlacesFrame
  <2>6. Places' /\ Gathers
    <3>1. Unwritten' \subseteq Unwritten \cup (Queued \ Queued') \cup (Prompted \ Prompted')
      BY <2>2, <2>4
    <3>2. \A s \in Sessions : Written(s)' \subseteq Written(s) \cup (Unwritten \ Unwritten') \cup (Kept \ Kept')
      BY <2>5
    <3> QED
      BY <2>1, <2>2, <2>5, <3>1, <3>2, PlacesKept DEF Placed
  <2> QED
    BY <2>1, <2>4, <2>6, PlacesFrame DEF Placed
<1> QED
  BY <1>1, <1>2, <1>3 DEF Prompts

\* A message more in the queue and on display.
LEMMA SteerPlaces ==
  ASSUME TypeOK, NEW m \in Messages, display' = Append(display, m), queue' = Append(queue, m)
  PROVE  Queued' = Queued \cup {m} /\ Shown' = Shown \cup {m}
<1>1. queue \in Seq(Messages) /\ display \in Seq(Messages)
  BY DEF TypeOK
<1>2. /\ queue' \in Seq(Messages) /\ Len(queue') = Len(queue) + 1 /\ Len(queue) \in Nat
      /\ \A i \in 1..Len(queue) : queue'[i] = queue[i]
      /\ queue'[Len(queue) + 1] = m
  BY <1>1, Appended
<1>3. /\ display' \in Seq(Messages) /\ Len(display') = Len(display) + 1 /\ Len(display) \in Nat
      /\ \A i \in 1..Len(display) : display'[i] = display[i]
      /\ display'[Len(display) + 1] = m
  BY <1>1, Appended
<1>4. Queued' = Queued \cup {m}
  <2>1. Range(queue') = {queue'[i] : i \in 1..Len(queue')} /\ Range(queue) = {queue[i] : i \in 1..Len(queue)}
    BY ONLY <1>1, <1>2, RangeEquality
  <2>2. 1..Len(queue') = (1..Len(queue)) \cup {Len(queue) + 1}
    BY <1>2
  <2> QED
    BY <1>2, <2>1, <2>2 DEF Queued
<1>5. Shown' = Shown \cup {m}
  <2>1. Range(display') = {display'[i] : i \in 1..Len(display')} /\ Range(display) = {display[i] : i \in 1..Len(display)}
    BY ONLY <1>1, <1>3, RangeEquality
  <2>2. 1..Len(display') = (1..Len(display)) \cup {Len(display) + 1}
    BY <1>3
  <2> QED
    BY <1>3, <2>1, <2>2 DEF Shown
<1> QED
  BY <1>4, <1>5

LEMMA PlacesOfCalls ==
  ASSUME TypeOK, TypeOK', Stages, Placed, steer \/ clearQueue \/ recordBashResult
  PROVE  Placed' /\ Gathers
<1>1. CASE steer
  <2>1. /\ IsNew /\ display' = Append(display, New) /\ queue' = Append(queue, New)
        /\ UNCHANGED <<file, events, prompting, pending>>
    BY <1>1 DEF steer, saved, eventQueue
  <2>2. /\ New \in Messages /\ New \notin Queued \cup Shown \cup Unwritten \cup Prompted \cup Kept
        /\ (\A s \in Sessions : New \notin Written(s)) /\ \A m \in 1..Len(home) : m < New
    BY <2>1, NewOutside DEF Placed
  <2>3. Queued' = Queued \cup {New} /\ Shown' = Shown \cup {New}
    BY <2>1, <2>2, SteerPlaces
  <2>4. Ordered'
    <3>1. (\A m \in Range(queue) : m < New) /\ (\A m \in Range(display) : m < New)
      BY <2>2 DEF Placed, Places, Bounded, Queued, Shown
    <3> QED
      BY <2>1, <2>2, <3>1, RisingAppended DEF Placed, Ordered, TypeOK
  <2>5. /\ Unwritten' = Unwritten /\ EventsOnce' /\ Prompted' = Prompted /\ Kept' = Kept
        /\ \A s \in Sessions : Written(s)' = Written(s)
    BY <2>1, PlacesFrame DEF Placed
  <2>6. Places' /\ Gathers
    BY <2>1, <2>2, <2>3, <2>5, PlacesNew DEF Placed
  <2> QED
    BY <2>1, <2>4, <2>5, <2>6, PlacesFrame DEF Placed
<1>2. CASE clearQueue
  <2>1. display' = <<>> /\ queue' = <<>> /\ UNCHANGED <<home, file, events, prompting, pending>>
    BY <1>2 DEF clearQueue, saved, eventQueue
  <2>2. Queued' = {} /\ Shown' = {} /\ Ordered'
    BY <2>1 DEF Queued, Shown, Range, Ordered, Rising
  <2>3. /\ Unwritten' = Unwritten /\ EventsOnce' /\ Prompted' = Prompted /\ Kept' = Kept
        /\ \A s \in Sessions : Written(s)' = Written(s)
    BY <2>1, PlacesFrame DEF Placed
  <2>4. Places' /\ Gathers
    <3>1. Unwritten' \subseteq Unwritten \cup (Queued \ Queued') \cup (Prompted \ Prompted')
      BY <2>3
    <3>2. \A s \in Sessions : Written(s)' \subseteq Written(s) \cup (Unwritten \ Unwritten') \cup (Kept \ Kept')
      BY <2>3
    <3> QED
      BY <2>1, <2>2, <2>3, <3>1, <3>2, PlacesKept DEF Placed
  <2> QED
    BY <2>1, <2>2, <2>3, <2>4, PlacesFrame DEF Placed
<1>3. CASE recordBashResult
  <2>1. IsNew /\ UNCHANGED <<session, queue, display, events, prompting>>
    BY <1>3 DEF recordBashResult, eventQueue
  <2>2. /\ New \in Messages /\ New \notin Queued \cup Shown \cup Unwritten \cup Prompted \cup Kept
        /\ \A s \in Sessions : New \notin Written(s)
    BY <2>1, NewOutside DEF Placed
  <2>3. /\ Queued' = Queued /\ Shown' = Shown /\ Unwritten' = Unwritten /\ EventsOnce' /\ Prompted' = Prompted
    BY <2>1, PlacesFrame DEF Placed
  <2>4. /\ Said(New) \in Entry /\ Said(New).of = New /\ Said(New).type = "message"
        /\ <<Said(New)>> \in Seq(Entry) /\ Range(<<Said(New)>>) = {Said(New)} /\ Len(<<Said(New)>>) = 1
    BY <2>2, Entries, SingleEntry
  <2>5. Once(<<Said(New)>>)
    BY <2>4 DEF Once
  <2>6. CASE running
    <3>1. pending' = Append(pending, Said(New)) /\ UNCHANGED file /\ pending \in Seq(Entry)
      BY <1>3, <2>6 DEF recordBashResult, TypeOK
    <3>2. pending' = pending \o <<Said(New)>> /\ Range(pending') = Range(pending) \cup {Said(New)}
      BY <2>4, <3>1, Appended
    <3>3. Kept' = Kept \cup {New} /\ \A s \in Sessions : Written(s)' = Written(s)
      BY <2>4, <3>1, <3>2 DEF Kept, Written
    <3>4. Places' /\ Gathers
      BY <2>1, <2>2, <2>3, <3>3, PlacesNew DEF Placed
    <3>5. Said(New) \notin Range(pending)
      BY <2>2, <2>4 DEF Kept
    <3>6. Once(pending')
      BY <2>4, <2>5, <3>1, <3>2, <3>5, OnceJoined DEF Placed, EntriesOnce
    <3> QED
      BY <2>1, <2>3, <3>1, <3>4, <3>6, PlacesFrame DEF Placed, EntriesOnce
  <2>7. CASE ~running
    <3>1. Enter(<<Said(New)>>) /\ UNCHANGED pending
      BY <1>3, <2>7 DEF recordBashResult
    <3>2. {m \in Messages : Said(m) \in Range(<<Said(New)>>)} = {New}
      BY <2>2, <2>4 DEF Said
    <3>3. Kept' = Kept /\ \A s \in Sessions : Written(s)' \subseteq Written(s) \cup {New}
      <4>1. \A s \in Sessions : Written(s)' = Written(s) \cup (IF s = session THEN {New} ELSE {})
        BY <2>1, <2>4, <3>1, <3>2, EnterPlaces
      <4> QED
        BY <3>1, <4>1, PlacesFrame
    <3>4. Places' /\ Gathers
      BY <2>1, <2>2, <2>3, <3>3, PlacesNew DEF Placed
    <3>5. EntriesOnce'
      <4>1. /\ file'[session] = file[session] \o <<Said(New)>> /\ file[session] \in Seq(Entry)
            /\ \A s \in Sessions : s # session => file'[s] = file[s]
        BY <2>4, <3>1, Entered
      <4>2. Once(file[session]) /\ Said(New) \notin Range(file[session])
        BY <2>2, CurrentSession DEF Placed, EntriesOnce, Written
      <4>3. Once(file[session] \o <<Said(New)>>)
        BY <2>4, <2>5, <4>1, <4>2, OnceJoined
      <4> QED
        BY <3>1, <4>1, <4>3 DEF Placed, EntriesOnce
    <3> QED
      BY <2>1, <2>3, <3>4, <3>5, PlacesFrame DEF Placed
  <2> QED
    BY <2>6, <2>7
<1> QED
  BY <1>1, <1>2, <1>3

LEMMA PlacesOfChanges ==
  ASSUME TypeOK, TypeOK', Stages, Placed, Changes \/ Compacts
  PROVE  Placed' /\ Gathers
<1>1. CASE newSession \/ switchOpens
  <2>1. display' = <<>> /\ (queue' = <<>> \/ UNCHANGED queue) /\ UNCHANGED <<home, file, events, prompting, pending>>
    BY <1>1 DEF newSession, switchOpens, agent, eventQueue
  <2>2. Queued' \subseteq Queued /\ Shown' = {} /\ Ordered'
    BY <2>1 DEF Queued, Shown, Range, Placed, Ordered, Rising
  <2>3. /\ Unwritten' = Unwritten /\ EventsOnce' /\ Prompted' = Prompted /\ Kept' = Kept
        /\ \A s \in Sessions : Written(s)' = Written(s)
    BY <2>1, PlacesFrame DEF Placed
  <2>4. Places' /\ Gathers
    <3>1. Unwritten' \subseteq Unwritten \cup (Queued \ Queued') \cup (Prompted \ Prompted')
      BY <2>3
    <3>2. \A s \in Sessions : Written(s)' \subseteq Written(s) \cup (Unwritten \ Unwritten') \cup (Kept \ Kept')
      BY <2>3
    <3> QED
      BY <2>1, <2>2, <2>3, <3>1, <3>2, PlacesKept DEF Placed
  <2> QED
    BY <2>1, <2>2, <2>3, <2>4, PlacesFrame DEF Placed
<1>2. ASSUME (\E to \in Sessions : change(to)) \/ switchLoads \/ Compacts
      PROVE  Placed' /\ Gathers
  <2>1. UNCHANGED <<home, queue, display, events, prompting, pending>>
    BY <1>2 DEF change, switchLoads, Compacts, compact, compactPrepares, compactDone, compactFails, agent, eventQueue
  <2>2. UNCHANGED file \/ (\E kept \in Messages : Enter(<<Summary(kept)>>) /\ UNCHANGED session)
    <3>1. CASE compactDone
      <4>1. manual.kept \in Messages
        BY <3>1 DEF compactDone, TypeOK, OrNone, Stages, ChangeStages
      <4> QED
        BY <3>1, <4>1 DEF compactDone, EnterSummary
    <3>2. CASE ~compactDone
      BY <1>2, <3>2 DEF change, switchLoads, Compacts, compact, compactPrepares, compactFails, saved
    <3> QED
      BY <3>1, <3>2
  <2>3. Unwritten' = Unwritten /\ EventsOnce' /\ Prompted' = Prompted
    BY <2>1, PlacesFrame DEF Placed
  <2> QED
    BY <2>1, <2>2, <2>3, PlacesQuiet, PlacesSummary
<1> QED
  BY <1>1, <1>2 DEF Changes

LEMMA PlacesStep == TypeOK /\ TypeOK' /\ Stages /\ Placed /\ [Next]_vars => Placed' /\ Gathers
<1> SUFFICES ASSUME TypeOK, TypeOK', Stages, Placed, [Next]_vars PROVE Placed' /\ Gathers
  OBVIOUS
<1>1. CASE UNCHANGED vars
  <2>1. UNCHANGED <<home, file, queue, display, events, prompting, pending>>
    BY <1>1 DEF vars, saved, agent, eventQueue
  <2>2. Unwritten' = Unwritten /\ EventsOnce' /\ Prompted' = Prompted
    BY <2>1, PlacesFrame DEF Placed
  <2> QED
    BY <2>1, <2>2, PlacesQuiet
<1> QED
  BY <1>1, PlacesOfAgent, PlacesOfEvents, PlacesOfPrompts, PlacesOfChanges, PlacesOfCalls, PlacesOfAutos DEF Next

LEMMA PlacesInit == Init => Placed
<1> SUFFICES ASSUME Init PROVE Placed
  OBVIOUS
<1>1. Range(<<>>) = {} /\ Len(<<>>) = 0 /\ DOMAIN <<>> = {}
  BY DEF Range
<1>2. Queued = {} /\ Shown = {} /\ Unwritten = {} /\ Prompted = {} /\ Kept = {} /\ \A s \in Sessions : Written(s) = {}
  BY <1>1 DEF Init, Queued, Shown, Unwritten, Prompted, Kept, Written, NoPrompt
<1>3. Places
  BY <1>2 DEF Places, Bounded, Apart, Outside
<1>4. Ordered /\ EventsOnce /\ EntriesOnce
  BY <1>1 DEF Init, Ordered, Rising, EventsOnce, EntriesOnce, Once
<1> QED
  BY <1>3, <1>4 DEF Placed

-----------------------------------------------------------------------------
(* The display *)

\* Every queued message is displayed, and what is displayed is queued or about to go.
Shows == Queued \subseteq Shown /\ Shown \subseteq Queued \cup Unbegun

LEMMA UnbegunMore ==
  ASSUME TypeOK, Stages, NEW m \in OrNone, Emit(m), UNCHANGED handling
  PROVE  Unbegun \subseteq Unbegun' /\ (connected => m \in Unbegun')
<1>1. CASE ~connected
  BY <1>1 DEF Emit, Unbegun
<1>2. CASE connected
  <2>1. events' = Append(events, m) /\ events \in Seq(OrNone)
    BY <1>2 DEF Emit, TypeOK
  <2>2. /\ Len(events') = Len(events) + 1 /\ Len(events) \in Nat
        /\ \A i \in 1..Len(events) : events'[i] = events[i]
        /\ events'[Len(events) + 1] = m
    BY <2>1, Appended
  <2>3. handling # "no" => Len(events) # 0
    BY <2>1, EmptySeq DEF Stages, HandlingStages
  <2> DEFINE a == IF handling = "no" THEN 1 ELSE 2
  <2>4. a \in {1, 2} /\ a <= Len(events) + 1
    BY <2>2, <2>3
  <2>5. Unbegun = {events[i] : i \in a..Len(events)} /\ Unbegun' = {events'[i] : i \in a..Len(events')}
    BY DEF Unbegun
  <2> HIDE DEF a
  <2>6. Len(events) + 1 \in a..Len(events') /\ \A i \in a..Len(events) : i \in 1..Len(events) /\ i \in a..Len(events')
    BY <2>2, <2>4
  <2> QED
    BY <2>2, <2>5, <2>6
<1> QED
  BY <1>1, <1>2

LEMMA UnbegunLess ==
  ASSUME TypeOK, Stages, handling # "no", handling' = "no", events' = Tail(events)
  PROVE  Unbegun' = Unbegun
<1>1. events # <<>> /\ events \in Seq(OrNone)
  BY DEF Stages, HandlingStages, TypeOK
<1>2. /\ Len(events') = Len(events) - 1 /\ Len(events) \in Nat \ {0}
      /\ \A i \in 1..Len(events') : i + 1 \in 1..Len(events) /\ events'[i] = events[i + 1]
  BY <1>1, Tailed
<1>3. Unbegun = {events[i] : i \in 2..Len(events)} /\ Unbegun' = {events'[i] : i \in 1..Len(events')}
  BY DEF Unbegun
<1>4. /\ \A i \in 1..Len(events') : i + 1 \in 2..Len(events) /\ events'[i] = events[i + 1]
      /\ \A i \in 2..Len(events) : i - 1 \in 1..Len(events') /\ events'[i - 1] = events[i]
  <2>1. \A i \in 1..Len(events') : i + 1 \in 2..Len(events)
    BY ONLY <1>2
  <2>2. \A i \in 2..Len(events) : i - 1 \in 1..Len(events') /\ (i - 1) + 1 = i
    BY ONLY <1>2
  <2> QED
    BY <1>2, <2>1, <2>2
<1>5. {events[i] : i \in 2..Len(events)} = {events'[i] : i \in 1..Len(events')}
  BY ONLY <1>4
<1> QED
  BY <1>3, <1>5

LEMMA UnbegunKept ==
  ASSUME UNCHANGED events, handling' = handling \/ (handling # "no" /\ handling' # "no")
  PROVE  Unbegun' = Unbegun
BY DEF Unbegun

LEMMA ShowsKept ==
  ASSUME Shows, UNCHANGED <<queue, display>>, Unbegun \subseteq Unbegun'
  PROVE  Shows'
BY PlacesFrame DEF Shows

LEMMA ShowsTaken ==
  ASSUME TypeOK, Stages, Placed, Shows, queue # <<>>, queue' = Tail(queue), Ended(Head(queue)),
         connected, UNCHANGED <<display, handling>>
  PROVE  Shows'
<1>1. Head(queue) \in Messages /\ Queued' = Queued \ {Head(queue)}
  BY QueueTaken DEF Placed
<1>2. Unbegun \subseteq Unbegun' /\ Head(queue) \in Unbegun'
  BY <1>1, UnbegunMore DEF OrNone, Ended
<1>3. Shown' = Shown
  BY PlacesFrame
<1> QED
  BY <1>1, <1>2, <1>3 DEF Shows

LEMMA ShowsOfAgent ==
  ASSUME TypeOK, Stages, Placed, Shows, AgentSteps, ~Unheard
  PROVE  Shows'
<1>1. CASE says
  <2>1. IsNew /\ Emit(New) /\ UNCHANGED <<queue, display, handling>>
    BY <1>1 DEF says, Ended
  <2>2. New \in OrNone
    BY <2>1, NewOutside DEF Placed
  <2> QED
    BY <2>1, <2>2, UnbegunMore, ShowsKept
<1>2. CASE runEnds
  BY <1>2, UnbegunMore, ShowsKept DEF runEnds, OrNone
<1>3. ASSUME queue # <<>>, queue' = Tail(queue), Ended(Head(queue)), UNCHANGED <<display, handling>>, steered \/ continue
      PROVE  Shows'
  <2>1. Head(queue) \in Messages
    BY <1>3, QueueTaken DEF Placed
  <2>2. transcript' # transcript
    BY <1>3, <2>1, EndedTypes
  <2>3. connected
    BY <1>3, <2>2 DEF Unheard
  <2> QED
    BY <1>3, <2>3, ShowsTaken
<1>4. CASE steered
  BY <1>3, <1>4 DEF steered
<1>5. CASE continue
  <2>1. UNCHANGED <<display, handling>>
    BY <1>5 DEF continue
  <2>2. CASE UNCHANGED <<queue, events>>
    BY <2>1, <2>2, UnbegunKept, ShowsKept
  <2>3. CASE queue # <<>> /\ queue' = Tail(queue) /\ Ended(Head(queue))
    BY <1>3, <1>5, <2>1, <2>3
  <2> QED
    BY <1>5, <2>2, <2>3 DEF continue, agent
<1> QED
  BY <1>1, <1>2, <1>4, <1>5 DEF AgentSteps

\* Queued messages begin their turns in the order they were queued, each before those that
\* still are.
InTurn ==
  /\ \A i, j \in 1..Len(events) :
       (i < j /\ events[i] \in Shown /\ events[j] \in Shown) => events[i] < events[j]
  /\ \A i \in 1..Len(events) : events[i] \in Shown => \A m \in Queued : events[i] < m

\* What is displayed has a text.
Worded == \A m \in Shown : text[m] # NoText

Displayed == Shows /\ InTurn /\ Worded /\ ~Alike

LEMMA ShownAreMessages == TypeOK => Shown \subseteq Messages /\ End \notin Shown
<1> SUFFICES ASSUME TypeOK PROVE Shown \subseteq Messages
  BY MessagesAreNumbers
<1>1. display \in Seq(Messages)
  BY DEF TypeOK
<1>2. Range(display) = {display[i] : i \in 1..Len(display)} /\ \A i \in 1..Len(display) : display[i] \in Messages
  BY ONLY <1>1, RangeEquality, ElementOfSeq
<1> QED
  BY <1>2 DEF Shown

\* The message that is no longer displayed is the one that begins its turn, if it is displayed.
LEMMA StruckIs ==
  ASSUME TypeOK, Placed, Displayed, events # <<>>, handling = "no"
  PROVE  Struck = IF Head(events) \in Shown THEN Head(events) ELSE End
<1> DEFINE h == Head(events)
           sameText == {i \in DOMAIN display : text[display[i]] = text[h]}
<1>1. /\ h = events[1] /\ 1 \in 1..Len(events) /\ Len(events) \in Nat \ {0}
      /\ Unbegun = {events[i] : i \in 1..Len(events)}
  BY HeadTaken DEF Unbegun
<1>2. /\ DOMAIN display = 1..Len(display) /\ Len(display) \in Nat
      /\ Shown = {display[i] : i \in 1..Len(display)} /\ Shown \subseteq Nat /\ End \notin Shown
  <2>1. display \in Seq(Messages)
    BY DEF TypeOK
  <2>2. DOMAIN display = 1..Len(display) /\ Len(display) \in Nat /\ Range(display) = {display[i] : i \in 1..Len(display)}
    BY ONLY <2>1, LenProperties, RangeEquality
  <2> QED
    BY <2>2, ShownAreMessages, MessagesAreNumbers DEF Shown
<1>3. Struck = IF h = End \/ text[h] = NoText \/ sameText = {} THEN End ELSE display[Min(sameText)]
  BY DEF Struck
<1>4. CASE h \notin Shown
  <2>1. h # End => \A m \in Shown : text[m] = text[h] => text[h] = NoText
    <3>1. h \in Unbegun
      BY <1>1
    <3> QED
      BY <1>4, <3>1 DEF Displayed, Alike, Shown
  <2>2. h # End /\ text[h] # NoText => sameText = {}
    BY <1>2, <2>1
  <2> QED
    BY <1>3, <1>4, <2>2
<1>5. CASE h \in Shown
  <2>1. h # End /\ text[h] # NoText
    BY <1>2, <1>5 DEF Displayed, Worded
  <2>2. PICK k \in 1..Len(display) : display[k] = h
    BY <1>2, <1>5
  <2>3. k \in sameText /\ sameText \in SUBSET Nat
    BY <1>2, <2>2
  <2> DEFINE l == Min(sameText)
  <2>4. l \in sameText /\ l <= k
    <3> HIDE DEF sameText
    <3> QED
      BY <2>3, MinOf
  <2>5. Struck = display[l]
    BY <1>3, <2>1, <2>3
  <2>6. l \in 1..Len(display) /\ display[l] \in Shown
    BY <1>2, <2>4
  <2> HIDE DEF l, sameText
  <2>7. CASE l = k
    BY <1>5, <2>2, <2>5, <2>7
  <2>8. CASE l < k
    <3>1. display[l] < h
      BY <2>2, <2>6, <2>8 DEF Placed, Ordered, Rising
    <3>2. display[l] \in Nat /\ h \in Nat
      BY <1>2, <1>5, <2>6
    <3>3. display[l] \notin Queued
      <4>1. \A m \in Queued : h < m
        BY <1>1, <1>5 DEF Displayed, InTurn
      <4> QED
        BY <3>1, <3>2, <4>1
    <3>4. PICK j \in 1..Len(events) : display[l] = events[j]
      BY <1>1, <2>6, <3>3 DEF Displayed, Shows
    <3>5. j # 1
      BY <1>1, <3>1, <3>2, <3>4
    <3>6. 1 < j
      BY <1>1, <3>5
    <3>7. h < display[l]
      BY <1>1, <1>5, <2>6, <3>4, <3>6 DEF Displayed, InTurn
    <3> QED
      BY <3>1, <3>2, <3>7
  <2>9. l = k \/ l < k
    BY <1>2, <2>2, <2>4, <2>6
  <2> QED
    BY <2>7, <2>8, <2>9
<1> QED
  BY <1>4, <1>5

LEMMA ShowsOfEvents ==
  ASSUME TypeOK, Stages, Placed, Displayed, EventSteps
  PROVE  Shows'
<1>1. CASE eventBegins
  <2>1. events # <<>> /\ handling = "no" /\ handling' = "extension" /\ display' = RemoveFirst(display, Struck)
        /\ UNCHANGED <<queue, events>>
    BY <1>1 DEF eventBegins, agent
  <2>2. Shown' = Shown \ {Head(events)} /\ Queued' = Queued
    <3>1. Shown' = Shown \ {Struck} /\ Queued' = Queued
      BY <2>1, RisingRemoved, PlacesFrame DEF TypeOK, Placed, Ordered, Shown
    <3>2. Struck = IF Head(events) \in Shown THEN Head(events) ELSE End
      BY <2>1, StruckIs
    <3> QED
      BY <3>1, <3>2, ShownAreMessages
  <2>3. Head(events) \notin Queued
    <3>1. Head(events) = End \/ Head(events) \in Unwritten
      BY <2>1, HeadTaken, UnwrittenIs, RangeEquality DEF TypeOK
    <3>2. End \notin Queued
      <4>1. Queued \subseteq Messages
        <5>1. queue \in Seq(Messages)
          BY DEF TypeOK
        <5>2. Range(queue) = {queue[i] : i \in 1..Len(queue)} /\ \A i \in 1..Len(queue) : queue[i] \in Messages
          BY ONLY <5>1, RangeEquality, ElementOfSeq
        <5> QED
          BY <5>2 DEF Queued
      <4> QED
        BY <4>1, MessagesAreNumbers
    <3> QED
      BY <3>1, <3>2 DEF Placed, Places, Apart
  <2>4. Unbegun \subseteq Unbegun' \cup {Head(events)}
    <3>1. Unbegun = {events[i] : i \in 1..Len(events)} /\ Unbegun' = {events[i] : i \in 2..Len(events)}
      BY <2>1 DEF Unbegun
    <3>2. Head(events) = events[1] /\ Len(events) \in Nat
      BY <2>1, HeadTaken
    <3>3. \A i \in 1..Len(events) : i = 1 \/ i \in 2..Len(events)
      BY <3>2
    <3> QED
      BY <3>1, <3>2, <3>3
  <2> QED
    BY <2>2, <2>3, <2>4 DEF Shows, Displayed
<1>2. CASE eventPersists \/ endHandled \/ retryDue
  <2>1. handling # "no" /\ handling' = "no" /\ events' = Tail(events) /\ UNCHANGED <<queue, display>>
    BY <1>2 DEF eventPersists, endHandled, retryDue, EndIsRead, agent
  <2> QED
    BY <2>1, UnbegunLess, ShowsKept DEF Displayed
<1>3. CASE endCompacts \/ endSeeks \/ endRetries
  <2>1. handling # "no" /\ handling' # "no" /\ UNCHANGED <<queue, display, events>>
    BY <1>3 DEF endCompacts, endSeeks, endRetries, EndIsRead, AutoBegins, agent
  <2> QED
    BY <2>1, UnbegunKept, ShowsKept DEF Displayed
<1> QED
  BY <1>1, <1>2, <1>3 DEF EventSteps

LEMMA ShowsOfPrompts ==
  ASSUME TypeOK, Stages, Placed, Shows, Prompts
  PROVE  Shows'
<1>1. CASE prompt \/ promptCompacts \/ promptRecovers
  <2>1. UNCHANGED <<queue, display, events, handling>>
    BY <1>1 DEF prompt, promptCompacts, promptRecovers, AutoBegins, eventQueue
  <2> QED
    BY <2>1, UnbegunKept, ShowsKept
<1>2. CASE promptRuns
  <2>1. UNCHANGED <<queue, display, handling>> /\ (Ended(prompting.message) \/ UNCHANGED events)
    BY <1>2 DEF promptRuns
  <2>2. prompting.message \in OrNone
    BY DEF TypeOK
  <2>3. Unbegun \subseteq Unbegun'
    BY <2>1, <2>2, UnbegunMore, UnbegunKept DEF Ended
  <2> QED
    BY <2>1, <2>3, ShowsKept
<1> QED
  BY <1>1, <1>2 DEF Prompts

LEMMA ShowsOfAutos ==
  ASSUME TypeOK, Stages, Shows, NEW c \in Callers, autoDone(c) \/ autoFails(c)
  PROVE  Shows'
<1>1. autos[c] # 0 /\ Resumes(c) /\ UNCHANGED <<queue, display>>
  BY DEF autoDone, autoFails, agent
<1>2. CASE c = "event"
  <2>1. handling # "no" /\ handling' = "no" /\ events' = Tail(events)
    BY <1>1, <1>2, ResumedTypes
  <2> QED
    BY <1>1, <2>1, UnbegunLess, ShowsKept
<1>3. CASE c = "prompt"
  <2>1. UNCHANGED <<events, handling>>
    BY <1>1, <1>3, ResumedTypes
  <2> QED
    BY <1>1, <2>1, UnbegunKept, ShowsKept
<1> QED
  BY <1>2, <1>3 DEF Callers

LEMMA ShowsOfCalls ==
  ASSUME TypeOK, Placed, Shows, steer \/ clearQueue \/ recordBashResult
  PROVE  Shows'
<1>1. UNCHANGED <<events, handling>>
  BY DEF steer, clearQueue, recordBashResult, eventQueue
<1>2. Unbegun' = Unbegun
  BY <1>1, UnbegunKept
<1>3. CASE steer
  <2>1. IsNew /\ display' = Append(display, New) /\ queue' = Append(queue, New)
    BY <1>3 DEF steer
  <2>2. New \in Messages
    BY <2>1, NewIsNew
  <2>3. Queued' = Queued \cup {New} /\ Shown' = Shown \cup {New}
    BY <2>1, <2>2, SteerPlaces
  <2> QED
    BY <1>2, <2>3 DEF Shows
<1>4. CASE clearQueue
  BY <1>4 DEF clearQueue, Shows, Queued, Shown, Range
<1>5. CASE recordBashResult
  BY <1>2, <1>5, ShowsKept DEF recordBashResult
<1> QED
  BY <1>3, <1>4, <1>5

LEMMA ShowsOfChanges ==
  ASSUME Shows, Changes \/ Compacts, ~Moved
  PROVE  Shows'
<1>1. UNCHANGED <<events, handling>>
  BY DEF Changes, change, newSession, switchOpens, switchLoads, Compacts, compact, compactPrepares, compactDone,
         compactFails, eventQueue
<1>2. Unbegun' = Unbegun
  BY <1>1, UnbegunKept
<1>3. CASE UNCHANGED <<queue, display>>
  BY <1>2, <1>3, ShowsKept
<1>4. CASE newSession
  BY <1>4 DEF newSession, Shows, Queued, Shown, Range
<1>5. CASE switchOpens
  <2>1. queue = <<>> /\ display' = <<>> /\ UNCHANGED queue
    BY <1>5 DEF switchOpens, Moved, agent
  <2> QED
    BY <2>1 DEF Shows, Queued, Shown, Range
<1>6. (newSession \/ switchOpens) \/ UNCHANGED <<queue, display>>
  BY DEF Changes, change, switchLoads, Compacts, compact, compactPrepares, compactDone, compactFails, agent
<1> QED
  BY <1>3, <1>4, <1>5, <1>6

LEMMA ShowsStep == TypeOK /\ Stages /\ Placed /\ Displayed /\ [Next]_vars /\ ~Moved /\ ~Unheard => Shows'
<1> SUFFICES ASSUME TypeOK, Stages, Placed, Displayed, [Next]_vars, ~Moved, ~Unheard PROVE Shows'
  OBVIOUS
<1>0. Shows
  BY DEF Displayed
<1>1. CASE UNCHANGED vars
  <2>1. UNCHANGED <<queue, display, events, handling>>
    BY <1>1 DEF vars, agent, eventQueue
  <2> QED
    BY <1>0, <2>1, UnbegunKept, ShowsKept
<1> QED
  BY <1>0, <1>1, ShowsOfAgent, ShowsOfEvents, ShowsOfPrompts, ShowsOfChanges, ShowsOfCalls, ShowsOfAutos DEF Next

\* Events come and go at the two ends.
LEMMA InTurnKept ==
  ASSUME TypeOK, InTurn, Shown' \subseteq Shown, Queued' \subseteq Queued,
         \/ UNCHANGED events
         \/ events # <<>> /\ events' = Tail(events)
         \/ \E m \in OrNone : m \notin Shown /\ Emit(m)
  PROVE  InTurn'
<1>1. CASE UNCHANGED events
  BY <1>1 DEF InTurn
<1>2. CASE events # <<>> /\ events' = Tail(events)
  <2>0. events # <<>>
    BY <1>2
  <2>a. \A i \in 1..Len(Tail(events)) : i + 1 \in 1..Len(events) /\ Tail(events)[i] = events[i + 1]
    BY <2>0, HeadTaken
  <2>1. events' = Tail(events) /\ \A i \in 1..Len(Tail(events)) : i + 1 \in 1..Len(events) /\ Tail(events)[i] = events[i + 1]
    BY <1>2, <2>a
  <2>2. \A i \in 1..Len(events') : i + 1 \in 1..Len(events) /\ events'[i] = events[i + 1]
    BY ONLY <2>1
  <2>3. ASSUME NEW i \in 1..Len(events'), NEW j \in 1..Len(events'), i < j, events'[i] \in Shown', events'[j] \in Shown'
        PROVE  events'[i] < events'[j]
    <3>1. i + 1 < j + 1
      BY <2>3
    <3>2. i + 1 \in 1..Len(events) /\ j + 1 \in 1..Len(events) /\ events'[i] = events[i + 1] /\ events'[j] = events[j + 1]
      BY <2>2
    <3> QED
      BY <2>3, <3>1, <3>2 DEF InTurn
  <2>4. ASSUME NEW i \in 1..Len(events'), events'[i] \in Shown', NEW m \in Queued'
        PROVE  events'[i] < m
    BY <2>2, <2>4 DEF InTurn
  <2> QED
    BY <2>3, <2>4 DEF InTurn
<1>3. ASSUME NEW m \in OrNone, m \notin Shown, Emit(m)
      PROVE  InTurn'
  <2>1. CASE ~connected
    BY <1>3, <2>1 DEF Emit, InTurn
  <2>2. CASE connected
    <3>1. events' = Append(events, m) /\ events \in Seq(OrNone)
      BY <1>3, <2>2 DEF Emit, TypeOK
    <3>2. /\ Len(events') = Len(events) + 1 /\ Len(events) \in Nat
          /\ \A i \in 1..Len(events) : events'[i] = events[i]
          /\ events'[Len(events) + 1] = m
      BY <3>1, Appended
    <3>3. \A i \in 1..Len(events') : events'[i] \in Shown => i \in 1..Len(events) /\ events'[i] = events[i]
      <4>1. \A i \in 1..Len(events') : i \in 1..Len(events) \/ i = Len(events) + 1
        BY <3>2
      <4> QED
        BY <1>3, <3>2, <4>1
    <3> QED
      BY <3>3 DEF InTurn
  <2> QED
    BY <2>1, <2>2
<1> QED
  BY <1>1, <1>2, <1>3

LEMMA InTurnTaken ==
  ASSUME TypeOK, Placed, InTurn, queue # <<>>, queue' = Tail(queue), Ended(Head(queue)), UNCHANGED display
  PROVE  InTurn'
<1>1. /\ Head(queue) \in Messages /\ Head(queue) \in Queued /\ Queued' = Queued \ {Head(queue)}
      /\ Head(queue) \in OrNone /\ Shown' = Shown
  BY QueueTaken, PlacesFrame DEF Placed, OrNone
<1>2. \A m \in Queued : m # Head(queue) => Head(queue) < m
  <2>1. /\ Head(queue) = queue[1] /\ 1 \in 1..Len(queue) /\ Len(queue) \in Nat
        /\ Range(queue) = {queue[i] : i \in 1..Len(queue)}
    BY Tailed, RangeEquality DEF TypeOK
  <2>2. \A i \in 1..Len(queue) : i = 1 \/ 1 < i
    BY <2>1
  <2> QED
    BY <2>1, <2>2 DEF Placed, Ordered, Rising, Queued
<1>3. CASE ~connected
  BY <1>1, <1>3, EndedTypes, InTurnKept
<1>4. CASE connected
  <2>1. events' = Append(events, Head(queue)) /\ events \in Seq(OrNone)
    BY <1>4 DEF Ended, Emit, TypeOK
  <2>2. /\ Len(events') = Len(events) + 1 /\ Len(events) \in Nat
        /\ \A i \in 1..Len(events) : events'[i] = events[i]
        /\ events'[Len(events) + 1] = Head(queue)
    BY <1>1, <2>1, Appended
  <2>3. \A i \in 1..Len(events') : i \in 1..Len(events) \/ i = Len(events) + 1
    BY <2>2
  <2>4. ASSUME NEW i \in 1..Len(events'), NEW j \in 1..Len(events'), i < j, events'[i] \in Shown, events'[j] \in Shown
        PROVE  events'[i] < events'[j]
    <3>1. i \in 1..Len(events)
      BY <2>2, <2>4
    <3>2. CASE j \in 1..Len(events)
      BY <2>2, <2>4, <3>1, <3>2 DEF InTurn
    <3>3. CASE j = Len(events) + 1
      BY <1>1, <2>2, <2>4, <3>1, <3>3 DEF InTurn
    <3> QED
      BY <2>3, <3>2, <3>3
  <2>5. ASSUME NEW i \in 1..Len(events'), events'[i] \in Shown, NEW m \in Queued, m # Head(queue)
        PROVE  events'[i] < m
    <3>1. CASE i \in 1..Len(events)
      BY <2>2, <2>5, <3>1 DEF InTurn
    <3>2. CASE i = Len(events) + 1
      BY <1>2, <2>2, <2>5, <3>2
    <3> QED
      BY <2>3, <3>1, <3>2
  <2> QED
    BY <1>1, <2>4, <2>5 DEF InTurn
<1> QED
  BY <1>3, <1>4

\* A message is typed behind all others.
LEMMA InTurnSteered ==
  ASSUME TypeOK, Placed, InTurn, steer
  PROVE  InTurn'
<1>1. IsNew /\ display' = Append(display, New) /\ queue' = Append(queue, New) /\ UNCHANGED events
  BY DEF steer, eventQueue
<1>2. New \in Messages /\ New \notin Unwritten /\ New # End /\ \A m \in 1..Len(home) : m < New
  BY <1>1, NewOutside DEF Placed
<1>3. Queued' = Queued \cup {New} /\ Shown' = Shown \cup {New}
  BY <1>1, <1>2, SteerPlaces
<1>4. ASSUME NEW i \in 1..Len(events) PROVE events[i] = End \/ (events[i] < New /\ events[i] # New)
  <2>1. events[i] \in Range(events) /\ Unwritten = Range(events) \ {End}
    BY UnwrittenIs, RangeEquality DEF TypeOK
  <2> QED
    BY <1>2, <2>1 DEF Placed, Places, Bounded
<1>5. End \notin Shown'
  BY <1>2, <1>3, ShownAreMessages
<1> QED
  BY <1>1, <1>3, <1>4, <1>5 DEF InTurn

LEMMA InTurnStep == TypeOK /\ TypeOK' /\ Stages /\ Placed /\ Displayed /\ [Next]_vars => InTurn'
<1> SUFFICES ASSUME TypeOK, TypeOK', Stages, Placed, Displayed, [Next]_vars PROVE InTurn'
  OBVIOUS
<1>0. InTurn /\ End \notin Shown /\ End \in OrNone
  BY ShownAreMessages DEF Displayed, OrNone
<1>1. CASE UNCHANGED <<display, queue, events>>
  BY <1>0, <1>1, PlacesFrame, InTurnKept
<1>2. CASE AgentSteps
  <2>1. UNCHANGED display
    BY <1>2 DEF AgentSteps, says, steered, runEnds, continue
  <2>2. CASE says
    <3>1. IsNew /\ Emit(New) /\ UNCHANGED queue
      BY <2>2 DEF says, Ended
    <3>2. New \in OrNone /\ New \notin Shown
      BY <3>1, NewOutside DEF Placed
    <3> QED
      BY <1>0, <2>1, <3>1, <3>2, PlacesFrame, InTurnKept
  <2>3. CASE runEnds
    BY <1>0, <2>1, <2>3, PlacesFrame, InTurnKept DEF runEnds
  <2>4. CASE queue # <<>> /\ queue' = Tail(queue) /\ Ended(Head(queue))
    BY <1>0, <2>1, <2>4, InTurnTaken
  <2>5. CASE UNCHANGED <<queue, events>>
    BY <1>1, <2>1, <2>5
  <2>6. continue => UNCHANGED <<queue, events>> \/ (queue # <<>> /\ queue' = Tail(queue) /\ Ended(Head(queue)))
    BY DEF continue, agent
  <2>7. steered => queue # <<>> /\ queue' = Tail(queue) /\ Ended(Head(queue))
    BY DEF steered
  <2> QED
    BY <1>2, <2>2, <2>3, <2>4, <2>5, <2>6, <2>7 DEF AgentSteps
<1>3. CASE eventBegins
  <2>1. display' = RemoveFirst(display, Struck) /\ UNCHANGED <<queue, events>>
    BY <1>3 DEF eventBegins, agent
  <2>2. Shown' \subseteq Shown /\ Queued' = Queued
    BY <2>1, RisingRemoved, PlacesFrame DEF Placed, Ordered, TypeOK, Shown
  <2> QED
    BY <1>0, <2>1, <2>2, InTurnKept
<1>4. CASE EventSteps /\ ~eventBegins
  <2>1. UNCHANGED <<display, queue>> /\ (UNCHANGED events \/ (handling # "no" /\ events' = Tail(events)))
    BY <1>4 DEF EventSteps, eventPersists, endSeeks, endRetries, EndIsRead, retryDue, endHandled, endCompacts, AutoBegins, agent
  <2>2. handling # "no" => events # <<>>
    BY DEF Stages, HandlingStages
  <2> QED
    BY <1>0, <2>1, <2>2, PlacesFrame, InTurnKept
<1>5. CASE promptRuns
  <2>1. /\ prompting.stage \in {"checking", "ready"} /\ UNCHANGED <<display, queue>>
        /\ UNCHANGED events \/ Emit(prompting.message)
    BY <1>5 DEF promptRuns, Ended
  <2>2. prompting.message \in OrNone /\ prompting.message # End
    <3>1. prompting # NoPrompt
      BY <2>1 DEF NoPrompt
    <3>2. prompting.message \in OrNone
      BY DEF TypeOK
    <3> QED
      BY <3>1, <3>2 DEF Stages, PromptStages
  <2>3. prompting.message \notin Shown
    <3>1. prompting.message \in Prompted
      BY <2>2 DEF Prompted
    <3>2. Unbegun \subseteq Unwritten \cup {End}
      <4>1. events \in Seq(OrNone) /\ Len(events) \in Nat
        BY LenProperties DEF TypeOK
      <4>2. Range(events) = {events[i] : i \in 1..Len(events)} /\ Unwritten = Range(events) \ {End}
        BY <4>1, UnwrittenIs, RangeEquality
      <4>3. \A i \in (IF handling = "no" THEN 1 ELSE 2)..Len(events) : i \in 1..Len(events)
        BY <4>1
      <4> QED
        BY <4>2, <4>3 DEF Unbegun
    <3>3. Shown \subseteq Queued \cup Unwritten \cup {End}
      BY <3>2 DEF Displayed, Shows
    <3> QED
      BY <2>2, <3>1, <3>3 DEF Placed, Places, Apart
  <2> QED
    BY <1>0, <2>1, <2>2, <2>3, PlacesFrame, InTurnKept
<1>6. CASE Prompts /\ ~promptRuns
  BY <1>1, <1>6 DEF Prompts, prompt, promptCompacts, promptRecovers, AutoBegins, eventQueue
<1>7. CASE steer
  BY <1>0, <1>7, InTurnSteered
<1>8. CASE clearQueue \/ newSession \/ switchOpens
  <2>1. display' = <<>> /\ UNCHANGED events
    BY <1>8 DEF clearQueue, newSession, switchOpens, eventQueue
  <2>2. Shown' = {}
    BY <2>1 DEF Shown, Range
  <2> QED
    BY <2>2 DEF InTurn
<1>9. CASE recordBashResult \/ (Changes /\ ~newSession /\ ~switchOpens) \/ Compacts
  BY <1>1, <1>9 DEF recordBashResult, Changes, change, switchLoads, Compacts, compact, compactPrepares, compactDone,
     compactFails, agent, eventQueue
<1>10. ASSUME NEW c \in Callers, autoDone(c) \/ autoFails(c)
       PROVE  InTurn'
  <2>1. UNCHANGED <<display, queue>> /\ (UNCHANGED events \/ (events # <<>> /\ events' = Tail(events)))
    <3>1. autos[c] # 0 /\ Resumes(c) /\ UNCHANGED <<display, queue>>
      BY <1>10 DEF autoDone, autoFails, agent
    <3> QED
      BY <3>1, ResumedTypes DEF Callers
  <2> QED
    BY <1>0, <2>1, PlacesFrame, InTurnKept
<1>11. CASE UNCHANGED vars
  BY <1>1, <1>11 DEF vars, agent, eventQueue
<1> QED
  BY <1>2, <1>3, <1>4, <1>5, <1>6, <1>7, <1>8, <1>9, <1>10, <1>11 DEF Next

\* Texts stay, and queued messages come with one.
LEMMA WordedStep ==
  ASSUME TypeOK, Placed, Worded, Placed', [Next]_vars, ~Wordless
  PROVE  Worded'
<1>0. Shown \subseteq 1..Len(home)
  BY DEF Placed, Places, Bounded
<1>1. CASE steer
  <2>1. IsNew /\ (Typed \/ \E isAnswer \in BOOLEAN : Untyped(isAnswer))
        /\ display' = Append(display, New) /\ queue' = Append(queue, New)
    BY <1>1 DEF steer
  <2>2. Len(text') = New /\ (\A m \in 1..Len(home) : text'[m] = text[m])
    BY <2>1, TextTypes
  <2>3. Shown' = Shown \cup {New}
    BY <2>1, NewIsNew, SteerPlaces
  <2>4. text'[New] # NoText
    BY <1>1, <2>2 DEF Wordless
  <2> QED
    BY <1>0, <2>2, <2>3, <2>4 DEF Worded
<1>2. CASE ~steer
  <2>1. Shown' \subseteq Shown
    <3>1. UNCHANGED display \/ display' = <<>> \/ display' = RemoveFirst(display, Struck)
      BY <1>2 DEF Next, AgentSteps, says, steered, runEnds, continue, EventSteps, eventBegins, eventPersists, endSeeks, endRetries, EndIsRead,
         retryDue, endHandled, endCompacts, Prompts, prompt, promptCompacts, promptRecovers, promptRuns, AutoBegins,
         clearQueue, recordBashResult, Changes, change, newSession, switchOpens, switchLoads, Compacts, compact,
         compactPrepares, compactDone, compactFails, autoDone, autoFails, vars
    <3>2. Range(<<>>) = {}
      BY DEF Range
    <3>3. Range(RemoveFirst(display, Struck)) \subseteq Range(display)
      BY RisingRemoved DEF Placed, Ordered, TypeOK
    <3> QED
      BY <3>1, <3>2, <3>3 DEF Shown
  <2>2. \A m \in 1..Len(home) : text'[m] = text[m]
    <3>1. UNCHANGED text \/ (IsNew /\ (Typed \/ \E isAnswer \in BOOLEAN : Untyped(isAnswer)))
      BY <1>2 DEF Next, AgentSteps, says, steered, runEnds, continue, EventSteps, eventBegins, eventPersists, endSeeks, endRetries, EndIsRead,
         retryDue, endHandled, endCompacts, Prompts, prompt, promptCompacts, promptRecovers, promptRuns, AutoBegins,
         clearQueue, recordBashResult, Changes, change, newSession, switchOpens, switchLoads, Compacts, compact,
         compactPrepares, compactDone, compactFails, autoDone, autoFails, vars
    <3> QED
      BY <3>1, TextTypes
  <2> QED
    BY <1>0, <2>1, <2>2 DEF Worded
<1> QED
  BY <1>1, <1>2

\* With no events left, queue and display are rising sequences of the same messages.
LEMMA ShowsTheQueue == TypeOK /\ Ordered /\ Shows => DisplayIsQueue
<1> SUFFICES ASSUME TypeOK, Ordered, Shows, events = <<>> PROVE display = queue
  BY DEF DisplayIsQueue
<1>1. Unbegun = {}
  BY DEF Unbegun
<1>2. Range(queue) = Range(display)
  BY <1>1 DEF Shows, Queued, Shown
<1> QED
  BY <1>2, RisingSame DEF TypeOK, Ordered

CalmShows == seen \cap {"moved", "unheard", "wordless", "alike"} = {} => Displayed

DisplayInvariant == TypeOK /\ Stages /\ Placed /\ CalmShows

\* What is displayed as queued is what the agent will take, once the events are handled,
\* whatever else happens, failures that are taken back included, unless messages are unheard,
\* left behind by a change of sessions, have no text, or that of another which is not queued.
THEOREM DisplayFollowsQueue == HistorySpec => []CalmDisplayIsQueue
<1>1. HistoryInit => DisplayInvariant
  <2> SUFFICES ASSUME HistoryInit PROVE DisplayInvariant
    OBVIOUS
  <2>1. Init
    BY DEF HistoryInit
  <2>2. Displayed
    <3>1. Shows /\ Shown = {} /\ Range(display) = {}
      BY <2>1 DEF Init, Shows, Queued, Shown, Range
    <3>2. InTurn /\ Worded /\ ~Alike
      BY <3>1 DEF InTurn, Worded, Alike
    <3> QED
      BY <3>1, <3>2 DEF Displayed
  <2> QED
    BY <2>1, <2>2, TypeInit, PlacesInit DEF DisplayInvariant, CalmShows
<1>2. DisplayInvariant /\ [HistoryNext]_<<vars, seen, said>> => DisplayInvariant'
  <2> SUFFICES ASSUME DisplayInvariant, [HistoryNext]_<<vars, seen, said>> PROVE DisplayInvariant'
    OBVIOUS
  <2>1. [Next]_vars
    BY DEF HistoryNext
  <2>2. TypeOK' /\ Stages'
    BY <2>1, TypeStep DEF DisplayInvariant
  <2>3. Placed'
    BY <2>1, <2>2, PlacesStep DEF DisplayInvariant
  <2>4. CalmShows'
    <3> SUFFICES ASSUME seen' \cap {"moved", "unheard", "wordless", "alike"} = {} PROVE Displayed'
      BY DEF CalmShows
    <3>1. CASE HistoryNext
      <4>1. seen \cap {"moved", "unheard", "wordless", "alike"} = {} /\ ~Moved /\ ~Unheard /\ ~Wordless /\ ~Alike'
        BY <3>1 DEF HistoryNext
      <4>2. Displayed
        BY <4>1 DEF DisplayInvariant, CalmShows
      <4>3. Shows' /\ InTurn'
        BY <2>1, <2>2, <4>1, <4>2, ShowsStep, InTurnStep DEF DisplayInvariant
      <4>4. Worded'
        BY <2>1, <2>3, <4>1, <4>2, WordedStep DEF DisplayInvariant, Displayed
      <4> QED
        BY <4>1, <4>3, <4>4 DEF Displayed
    <3>2. CASE UNCHANGED <<vars, seen, said>>
      <4>1. UNCHANGED <<queue, display, events, handling, text, seen>>
        BY <3>2 DEF vars, agent, eventQueue
      <4> QED
        BY <4>1 DEF DisplayInvariant, CalmShows, Displayed, Shows, InTurn, Worded, Alike, Queued, Shown, Unbegun
    <3> QED
      BY <3>1, <3>2
  <2> QED
    BY <2>2, <2>3, <2>4 DEF DisplayInvariant
<1>3. DisplayInvariant => CalmDisplayIsQueue
  BY ShowsTheQueue DEF DisplayInvariant, CalmShows, Displayed, CalmDisplayIsQueue, Placed
<1> QED
  BY <1>1, <1>2, <1>3, PTL DEF HistorySpec

-----------------------------------------------------------------------------
(* Transcript and file *)

\* What the handling of an event adds to the file.
Told(e) == IF e = End THEN <<>> ELSE <<Said(e)>>

\* Told after what is shown of a file, the events lead to the transcript: T is what is shown
\* after each of them.
Replay(T, es, from, to) ==
  /\ T \in [0..Len(es) -> Seq(Entry)]
  /\ T[0] = from /\ T[Len(es)] = to
  /\ \A i \in 1..Len(es) : T[i] = T[i - 1] \o Told(es[i])
Leads(es, from, to) == \E T : Replay(T, es, from, to)

LEMMA ToldEntries ==
  ASSUME NEW e \in OrNone
  PROVE  Told(e) \in Seq(Entry) /\ \A i \in 1..Len(Told(e)) : Told(e)[i].type = "message"
<1>1. CASE e = End
  BY <1>1, EmptySeq DEF Told
<1>2. CASE e # End
  BY <1>2, Entries, SingleEntry DEF Told, OrNone
<1> QED
  BY <1>1, <1>2

LEMMA LeadsAppended ==
  ASSUME NEW es \in Seq(OrNone), NEW e \in OrNone, NEW from \in Seq(Entry), NEW to \in Seq(Entry),
         Leads(es, from, to)
  PROVE  Leads(Append(es, e), from, to \o Told(e))
<1> DEFINE n == Len(es)
           fs == Append(es, e)
<1>1. PICK T : Replay(T, es, from, to)
  BY DEF Leads
<1>2. /\ Len(fs) = n + 1 /\ n \in Nat /\ fs[n + 1] = e /\ \A i \in 1..n : fs[i] = es[i]
  BY Appended
<1> HIDE DEF fs
<1>3. to \o Told(e) \in Seq(Entry)
  BY ToldEntries, Joined
<1> DEFINE U == [i \in 0..(n + 1) |-> IF i = n + 1 THEN to \o Told(e) ELSE T[i]]
<1>4. U \in [0..(n + 1) -> Seq(Entry)]
  BY <1>1, <1>2, <1>3 DEF Replay
<1>5. U[0] = from /\ U[n + 1] = to \o Told(e) /\ U[n] = to
  BY <1>1, <1>2 DEF Replay
<1>6. ASSUME NEW i \in 1..(n + 1) PROVE U[i] = U[i - 1] \o Told(fs[i])
  <2>1. CASE i = n + 1
    <3>1. i - 1 = n /\ fs[i] = e
      BY <1>2, <2>1
    <3> HIDE DEF U
    <3> QED
      BY <1>5, <2>1, <3>1
  <2>2. CASE i # n + 1
    <3>1. i \in 1..n /\ i - 1 \in 0..(n + 1) /\ i \in 0..(n + 1) /\ i - 1 # n + 1
      BY <1>2, <2>2
    <3>2. U[i] = T[i] /\ U[i - 1] = T[i - 1]
      BY <2>2, <3>1
    <3> HIDE DEF U
    <3> QED
      BY <1>1, <1>2, <3>1, <3>2 DEF Replay
  <2> QED
    BY <2>1, <2>2
<1> HIDE DEF U
<1>7. Replay(U, fs, from, to \o Told(e))
  BY <1>2, <1>4, <1>5, <1>6 DEF Replay
<1> QED
  BY <1>7 DEF Leads, fs

LEMMA LeadsTailed ==
  ASSUME NEW es \in Seq(OrNone), es # <<>>, NEW from \in Seq(Entry), NEW to \in Seq(Entry),
         Leads(es, from, to)
  PROVE  Leads(Tail(es), from \o Told(Head(es)), to)
<1> DEFINE n == Len(es)
           fs == Tail(es)
<1>1. PICK T : Replay(T, es, from, to)
  BY DEF Leads
<1>2. /\ Len(fs) = n - 1 /\ n \in Nat \ {0} /\ Head(es) = es[1] /\ 1 \in 1..n
      /\ \A i \in 1..Len(fs) : i + 1 \in 1..n /\ fs[i] = es[i + 1]
  BY Tailed
<1> HIDE DEF fs
<1> DEFINE U == [i \in 0..(n - 1) |-> T[i + 1]]
<1>3. U \in [0..(n - 1) -> Seq(Entry)]
  <2>1. \A i \in 0..(n - 1) : i + 1 \in 0..n
    BY <1>2
  <2> QED
    BY <1>1, <2>1 DEF Replay
<1>4. U[0] = from \o Told(Head(es)) /\ U[n - 1] = to
  <2>1. 0 \in 0..(n - 1) /\ n - 1 \in 0..(n - 1) /\ (n - 1) + 1 = n /\ 1 - 1 = 0
    BY <1>2
  <2>2. T[1] = T[0] \o Told(es[1])
    BY <1>1, <1>2, <2>1 DEF Replay
  <2>3. U[0] = T[1] /\ U[n - 1] = T[n]
    BY <2>1
  <2> HIDE DEF U
  <2> QED
    BY <1>1, <1>2, <2>2, <2>3 DEF Replay
<1>5. ASSUME NEW i \in 1..(n - 1) PROVE U[i] = U[i - 1] \o Told(fs[i])
  <2>1. i \in 0..(n - 1) /\ i - 1 \in 0..(n - 1) /\ (i - 1) + 1 = i /\ i + 1 \in 1..n /\ (i + 1) - 1 = i
    BY <1>2
  <2>2. fs[i] = es[i + 1] /\ T[i + 1] = T[(i + 1) - 1] \o Told(es[i + 1])
    BY <1>1, <1>2, <2>1 DEF Replay
  <2>3. U[i] = T[i + 1] /\ U[i - 1] = T[i]
    BY <2>1
  <2> HIDE DEF U
  <2> QED
    BY <2>1, <2>2, <2>3
<1> HIDE DEF U
<1>6. Replay(U, fs, from \o Told(Head(es)), to)
  BY <1>2, <1>3, <1>4, <1>5 DEF Replay
<1> QED
  BY <1>6 DEF Leads, fs

\* Without messages in the events, the transcript is what is shown of the file.
LEMMA LeadsQuiet ==
  ASSUME NEW es \in Seq(OrNone), Range(es) \subseteq {End}, NEW from \in Seq(Entry), NEW to
  PROVE  Leads(es, from, to) <=> to = from
<1> DEFINE n == Len(es)
<1>1. n \in Nat /\ \A i \in 1..n : es[i] = End
  <2>1. Range(es) = {es[i] : i \in 1..Len(es)}
    BY RangeEquality
  <2> QED
    BY <2>1, LenProperties
<1>2. \A i \in 1..n : Told(es[i]) = <<>>
  BY <1>1 DEF Told
<1>3. \A s \in Seq(Entry) : s \o <<>> = s
  BY ConcatEmptySeq
<1>4. ASSUME Leads(es, from, to) PROVE to = from
  <2>1. PICK T : Replay(T, es, from, to)
    BY <1>4 DEF Leads
  <2> DEFINE Same == {i \in 0..n : T[i] = from}
  <2>2. 0 \in Same
    BY <1>1, <2>1 DEF Replay
  <2>3. ASSUME NEW i \in 1..n, i - 1 \in Same PROVE i \in Same
    <3>1. T[i] = T[i - 1] \o <<>> /\ T[i - 1] = from /\ i \in 0..n
      BY <1>1, <1>2, <2>1, <2>3 DEF Replay
    <3> QED
      BY <1>3, <3>1
  <2>4. Same \in SUBSET (0..n)
    OBVIOUS
  <2> HIDE DEF Same
  <2>5. Same = 0..n
    BY <1>1, <2>2, <2>3, <2>4, UpTo
  <2>6. n \in Same
    BY <1>1, <2>5
  <2> QED
    BY <2>1, <2>6 DEF Same, Replay
<1>5. ASSUME to = from PROVE Leads(es, from, to)
  <2> DEFINE T == [i \in 0..n |-> from]
  <2>1. T \in [0..n -> Seq(Entry)] /\ T[0] = from /\ T[n] = to
    BY <1>1, <1>5
  <2>2. ASSUME NEW i \in 1..n PROVE T[i] = T[i - 1] \o Told(es[i])
    <3>1. i \in 0..n /\ i - 1 \in 0..n
      BY <1>1
    <3>2. T[i] = from /\ T[i - 1] = from
      BY <3>1
    <3> HIDE DEF T
    <3> QED
      BY <1>2, <1>3, <3>2
  <2> HIDE DEF T
  <2>3. Replay(T, es, from, to)
    BY <2>1, <2>2 DEF Replay
  <2> QED
    BY <2>3 DEF Leads
<1> QED
  BY <1>4, <1>5

\* A session that has been read is what its file says, and nothing else is to be written.
Saves ==
  /\ changing.stage # "opened" => Leads(events, Context(file[session]), transcript)
  /\ changing.stage = "opened" => changing.context = Context(file[session]) /\ Unwritten = {}

LEMMA ShownOfFile == TypeOK => file[session] \in Seq(Entry) /\ Context(file[session]) \in Seq(Entry)
BY CurrentSession, ContextInFile DEF TypeOK

LEMMA SavesQuiet ==
  ASSUME TypeOK, Unwritten = {}
  PROVE  Leads(events, Context(file[session]), transcript) <=> transcript = Context(file[session])
<1>1. events \in Seq(OrNone) /\ Range(events) \subseteq {End}
  BY UnwrittenIs DEF TypeOK
<1> QED
  BY <1>1, LeadsQuiet, ShownOfFile

LEMMA SavesQuietly ==
  ASSUME TypeOK', Unwritten' = {}, transcript' = Context(file'[session'])
  PROVE  Leads(events', Context(file'[session']), transcript')
<1>1. events' \in Seq(OrNone) /\ Range(events') \subseteq {End}
  BY UnwrittenIs DEF TypeOK
<1>2. session' \in Sessions /\ file'[session'] \in Seq(Entry)
  BY SessionAssumption DEF TypeOK, Sessions
<1>3. Context(file'[session']) \in Seq(Entry)
  BY <1>2, ContextInFile
<1> QED
  BY <1>1, <1>3, LeadsQuiet

LEMMA SavesKept ==
  ASSUME Saves, UNCHANGED <<events, transcript, session, file>>, changing.stage # "opened", changing'.stage # "opened"
  PROVE  Saves'
BY DEF Saves

\* The end of a message, or of a run, that the session hears of.
LEMMA SavesEnded ==
  ASSUME TypeOK, Saves, NEW m \in OrNone, connected, Emit(m), transcript' = transcript \o Told(m),
         UNCHANGED <<session, file, changing>>, changing.stage # "opened"
  PROVE  Saves'
<1>1. events' = Append(events, m) /\ events \in Seq(OrNone) /\ transcript \in Seq(Entry)
  BY DEF Emit, TypeOK
<1>2. Leads(events, Context(file[session]), transcript)
  BY DEF Saves
<1>3. Leads(events', Context(file[session]), transcript')
  BY <1>1, <1>2, LeadsAppended, ShownOfFile
<1> QED
  BY <1>3 DEF Saves

\* The head of the events is handled, and told to the file.
LEMMA SavesHandled ==
  ASSUME TypeOK, Stages, Saves, events # <<>>, events' = Tail(events),
         file'[session] = file[session] \o Told(Head(events)),
         UNCHANGED <<transcript, session, changing>>, changing.stage # "opened"
  PROVE  Saves'
<1> DEFINE f == file[session]
           e == Head(events)
<1>1. events \in Seq(OrNone) /\ transcript \in Seq(Entry) /\ f \in Seq(Entry) /\ Context(f) \in Seq(Entry)
  BY ShownOfFile DEF TypeOK
<1>2. Leads(events, Context(f), transcript)
  BY DEF Saves
<1>3. e \in OrNone
  BY HeadTaken
<1>4. Told(e) \in Seq(Entry) /\ \A i \in 1..Len(Told(e)) : Told(e)[i].type = "message"
  BY <1>3, ToldEntries
<1>5. Context(f \o Told(e)) = Context(f) \o Told(e)
  BY <1>1, <1>4, ContextGrows
<1>6. Leads(events', Context(f) \o Told(e), transcript)
  BY <1>1, <1>2, LeadsTailed
<1> QED
  BY <1>5, <1>6 DEF Saves

\* Nothing waits, and the transcript is given what a reload would give.
LEMMA SavesReloaded ==
  ASSUME TypeOK', Unwritten' = {}, transcript' = Context(file'[session']), changing'.stage # "opened"
  PROVE  Saves'
BY SavesQuietly DEF Saves

\* Entries go to the file and to the transcript at once.
LEMMA SavesEntered ==
  ASSUME TypeOK, TypeOK', Saves, NEW entries \in Seq(Entry), Enter(entries),
         \A i \in 1..Len(entries) : entries[i].type = "message",
         transcript' = transcript \o entries, Unwritten = {},
         UNCHANGED <<events, session, changing>>, changing.stage # "opened"
  PROVE  Saves'
<1>1. file'[session] = file[session] \o entries /\ file[session] \in Seq(Entry)
  BY Entered
<1>2. transcript = Context(file[session])
  BY SavesQuiet DEF Saves
<1>3. transcript' = Context(file'[session])
  BY <1>1, <1>2, ContextGrows
<1>4. Unwritten' = {}
  BY DEF Unwritten
<1> QED
  BY <1>3, <1>4, SavesReloaded

LEMMA TellsSaid == \A m \in Messages : Told(m) = <<Said(m)>> /\ m \in OrNone
BY MessagesAreNumbers DEF Told, OrNone

LEMMA TellsEnd == \A f \in Seq(Entry) : f \o Told(End) = f
BY ConcatEmptySeq DEF Told

LEMMA SavesOfAgent ==
  ASSUME TypeOK, Placed, Saves, AgentSteps, ~Unheard, changing.stage # "opened"
  PROVE  Saves'
<1>1. ASSUME NEW m \in Messages, Ended(m), UNCHANGED <<session, file, changing>>, says \/ steered \/ continue
      PROVE  Saves'
  <2>1. transcript' # transcript /\ transcript' = transcript \o <<Said(m)>>
    BY <1>1, EndedTypes
  <2>2. connected
    BY <1>1, <2>1 DEF Unheard
  <2>3. transcript' = transcript \o Told(m) /\ m \in OrNone /\ Emit(m)
    BY <1>1, <2>1, TellsSaid DEF Ended
  <2> QED
    BY <1>1, <2>2, <2>3, SavesEnded
<1>2. CASE says
  <2>1. IsNew /\ Ended(New) /\ UNCHANGED <<session, file, changing>>
    BY <1>2 DEF says, saved
  <2>2. New \in Messages
    BY <2>1, NewIsNew
  <2> QED
    BY <1>1, <1>2, <2>1, <2>2
<1>3. CASE steered
  <2>1. queue # <<>> /\ queue' = Tail(queue) /\ Ended(Head(queue)) /\ UNCHANGED <<session, file, changing>>
    BY <1>3 DEF steered, saved
  <2>2. Head(queue) \in Messages
    BY <2>1, QueueTaken DEF Placed
  <2> QED
    BY <1>1, <1>3, <2>1, <2>2
<1>4. CASE runEnds
  <2>1. Emit(End) /\ UNCHANGED <<transcript, session, file, changing>>
    BY <1>4 DEF runEnds, saved
  <2>2. CASE ~connected
    <3>1. UNCHANGED events
      BY <2>1, <2>2 DEF Emit
    <3> QED
      BY <2>1, <3>1, SavesKept
  <2>3. CASE connected
    <3>1. transcript' = transcript \o Told(End) /\ End \in OrNone
      BY <2>1, TellsEnd DEF TypeOK, OrNone
    <3> QED
      BY <2>1, <2>3, <3>1, SavesEnded
  <2> QED
    BY <2>2, <2>3
<1>5. CASE continue
  <2>1. UNCHANGED <<session, file, changing>>
    BY <1>5 DEF continue, saved
  <2>2. CASE UNCHANGED <<transcript, events>>
    BY <2>1, <2>2, SavesKept
  <2>3. CASE queue # <<>> /\ queue' = Tail(queue) /\ Ended(Head(queue))
    <3>1. Head(queue) \in Messages
      BY <2>3, QueueTaken DEF Placed
    <3> QED
      BY <1>1, <1>5, <2>1, <2>3, <3>1
  <2> QED
    BY <1>5, <2>2, <2>3 DEF continue, agent
<1> QED
  BY <1>2, <1>3, <1>4, <1>5 DEF AgentSteps

LEMMA SavesOfEvents ==
  ASSUME TypeOK, Stages, Saves, EventSteps, ~Failed, changing.stage # "opened"
  PROVE  Saves'
<1>0. UNCHANGED transcript
  BY DEF Failed
<1>1. CASE eventBegins \/ endCompacts \/ endSeeks \/ endRetries
  <2>1. UNCHANGED <<events, session, file, changing>>
    BY <1>1 DEF eventBegins, endCompacts, endSeeks, endRetries, EndIsRead, AutoBegins, saved
  <2> QED
    BY <1>0, <2>1, SavesKept
<1>2. CASE eventPersists
  <2>1. /\ handling = "extension" /\ Head(events) # End /\ Enter(<<Said(Head(events))>>) /\ events' = Tail(events)
        /\ UNCHANGED <<transcript, session, changing>>
    BY <1>2 DEF eventPersists, agent
  <2>2. events # <<>>
    BY <2>1 DEF Stages, HandlingStages
  <2>3. Head(events) \in Messages
    BY <2>1, <2>2, HeadTaken DEF OrNone
  <2>4. Told(Head(events)) = <<Said(Head(events))>> /\ <<Said(Head(events))>> \in Seq(Entry)
    BY <2>3, TellsSaid, Entries, SingleEntry
  <2>5. file'[session] = file[session] \o Told(Head(events))
    BY <2>1, <2>4, Entered
  <2> QED
    BY <2>1, <2>2, <2>5, SavesHandled
<1>3. CASE endHandled \/ retryDue
  <2>1. /\ handling # "no" /\ Head(events) = End /\ events' = Tail(events)
        /\ UNCHANGED <<transcript, session, file, changing>>
    BY <1>0, <1>3 DEF endHandled, retryDue, EndIsRead, saved, Stages, HandlingStages
  <2>2. events # <<>>
    BY <2>1 DEF Stages, HandlingStages
  <2>3. file'[session] = file[session] \o Told(Head(events))
    BY <2>1, TellsEnd, ShownOfFile
  <2> QED
    BY <2>1, <2>2, <2>3, SavesHandled
<1> QED
  BY <1>1, <1>2, <1>3 DEF EventSteps

LEMMA SavesOfAutos ==
  ASSUME TypeOK, TypeOK', Stages, Saves, NEW c \in Callers, autoDone(c) \/ autoFails(c), ~Late, ~Failed,
         changing.stage # "opened"
  PROVE  Saves'
<1>1. autos[c] # 0 /\ autos' = [autos EXCEPT ![c] = 0] /\ Resumes(c) /\ UNCHANGED <<session, changing>>
  BY DEF autoDone, autoFails, saved
<1>2. \/ events # <<>> /\ Head(events) = End /\ events' = Tail(events)
      \/ UNCHANGED events
  BY <1>1, ResumedTypes DEF Callers
<1>3. CASE autoDone(c)
  <2>1. autos[c] \in Messages
    BY <1>1 DEF TypeOK, OrNone, End
  <2>2. file' # file /\ transcript' = Context(file'[session])
    <3>1. Enter(<<Summary(autos[c])>>)
      BY <1>3 DEF autoDone, EnterSummary
    <3>2. <<Summary(autos[c])>> \in Seq(Entry) /\ <<Summary(autos[c])>> # <<>>
      BY <2>1, Entries, SingleEntry
    <3>3. transcript' = Context(file'[session])
      BY <1>3 DEF Failed, autoDone, EnterSummary
    <3> QED
      BY <3>1, <3>2, <3>3, Entered
  <2>3. ~eventPersists
    <3>1. autos'[c] # autos[c]
      BY <1>1 DEF TypeOK
    <3> QED
      BY <3>1 DEF eventPersists, compactions
  <2>4. Unwritten = {}
    BY <2>2, <2>3 DEF Late
  <2>5. Unwritten' = {}
    BY <1>2, <2>4, HeadPlaces DEF Unwritten
  <2> QED
    BY <1>1, <2>2, <2>5, SavesReloaded
<1>4. CASE autoFails(c)
  <2>1. UNCHANGED <<transcript, file>>
    BY <1>4 DEF autoFails, agent, saved
  <2>2. CASE UNCHANGED events
    BY <1>1, <2>1, <2>2, SavesKept
  <2>3. CASE events # <<>> /\ Head(events) = End /\ events' = Tail(events)
    <3>1. file'[session] = file[session] \o Told(Head(events))
      BY <2>1, <2>3, TellsEnd, ShownOfFile
    <3> QED
      BY <1>1, <2>1, <2>3, <3>1, SavesHandled
  <2> QED
    BY <1>2, <2>2, <2>3
<1> QED
  BY <1>3, <1>4

LEMMA SavesOfPrompts ==
  ASSUME TypeOK, TypeOK', Stages, Saves, Prompts, ~Late, ~Failed, changing.stage # "opened"
  PROVE  Saves'
<1>1. CASE prompt
  <2>1. /\ prompting = NoPrompt /\ prompting'.stage = "checking"
        /\ transcript' = transcript \o pending /\ Enter(pending)
        /\ UNCHANGED <<session, events, changing>>
    BY <1>1 DEF prompt, eventQueue
  <2>2. CASE pending = <<>>
    <3>1. UNCHANGED <<file, transcript>>
      BY <2>1, <2>2, PendingTypes
    <3> QED
      BY <2>1, <3>1, SavesKept
  <2>3. CASE pending # <<>>
    <3>1. file' # file
      BY <2>1, <2>3, PendingTypes
    <3>2. ~eventPersists
      BY <2>1 DEF eventPersists, NoPrompt
    <3>3. Unwritten = {}
      BY <3>1, <3>2 DEF Late
    <3>4. pending \in Seq(Entry) /\ \A i \in 1..Len(pending) : pending[i].type = "message"
      BY DEF TypeOK, Stages, Prepared
    <3> QED
      BY <2>1, <3>3, <3>4, SavesEntered
  <2> QED
    BY <2>2, <2>3
<1>2. CASE promptCompacts \/ promptRecovers
  <2>1. UNCHANGED <<events, transcript, session, file, changing>>
    BY <1>2 DEF promptCompacts, promptRecovers, AutoBegins, saved, eventQueue, Failed
  <2> QED
    BY <2>1, SavesKept
<1>3. CASE promptRuns
  <2>1. prompting.stage \in {"checking", "ready"} /\ UNCHANGED <<session, file, changing>>
    BY <1>3 DEF promptRuns, saved, compactions
  <2>2. CASE UNCHANGED <<transcript, events>>
    BY <2>1, <2>2, SavesKept
  <2>3. CASE Ended(prompting.message)
    <3>1. prompting # NoPrompt
      BY <2>1 DEF NoPrompt
    <3>2. prompting.message \in Messages /\ changing = NoChange /\ manual = NoManual
      BY <3>1 DEF Stages, PromptStages, TypeOK, OrNone
    <3>3. connected
      BY <3>2 DEF Stages, ChangeStages
    <3>4. transcript' = transcript \o Told(prompting.message) /\ prompting.message \in OrNone /\ Emit(prompting.message)
      BY <2>3, <3>2, EndedTypes, TellsSaid DEF Ended
    <3> QED
      BY <2>1, <3>3, <3>4, SavesEnded
  <2> QED
    BY <1>3, <2>2, <2>3 DEF promptRuns
<1> QED
  BY <1>1, <1>2, <1>3 DEF Prompts

LEMMA SavesOfCalls ==
  ASSUME TypeOK, TypeOK', Saves, steer \/ clearQueue \/ recordBashResult, ~Late, changing.stage # "opened"
  PROVE  Saves'
<1>1. UNCHANGED <<events, session, changing>>
  BY DEF steer, clearQueue, recordBashResult, eventQueue, saved
<1>2. CASE UNCHANGED <<transcript, file>>
  BY <1>1, <1>2, SavesKept
<1>3. CASE recordBashResult /\ ~running
  <2>1. IsNew /\ transcript' = Append(transcript, Said(New)) /\ Enter(<<Said(New)>>)
    BY <1>3 DEF recordBashResult
  <2>2. New \in Messages /\ home' # home
    BY <2>1, NewIsNew
  <2>3. /\ Said(New) \in Entry /\ <<Said(New)>> \in Seq(Entry) /\ <<Said(New)>> # <<>>
        /\ \A i \in 1..Len(<<Said(New)>>) : <<Said(New)>>[i].type = "message"
    BY <2>2, Entries, SingleEntry
  <2>4. transcript' = transcript \o <<Said(New)>>
    <3>1. transcript \in Seq(Entry) /\ Said(New) \in Entry
      BY <2>3 DEF TypeOK
    <3> QED
      BY ONLY <2>1, <3>1, Appended
  <2>5. file' # file
    BY <2>1, <2>3, Entered
  <2>6. Unwritten = {}
    BY <2>2, <2>5 DEF Late, eventPersists
  <2> QED
    BY <1>1, <2>1, <2>3, <2>4, <2>6, SavesEntered
<1>4. UNCHANGED <<transcript, file>> \/ (recordBashResult /\ ~running)
  BY DEF steer, clearQueue, recordBashResult, saved
<1> QED
  BY <1>2, <1>3, <1>4

LEMMA SavesOfChanges ==
  ASSUME TypeOK, TypeOK', Stages, Saves, Changes, ~Late, changing.stage # "opened"
  PROVE  Saves'
<1>1. ASSUME NEW to \in Sessions, change(to)
      PROVE  Saves'
  <2>1. changing'.stage = "aborting" /\ UNCHANGED <<events, transcript, session, file>>
    BY <1>1 DEF change, saved, agent, eventQueue
  <2> QED
    BY <2>1, SavesKept
<1>2. CASE newSession
  <2>1. /\ changing.stage = "aborting" /\ changing.to = sessions + 1 /\ session' = changing.to
        /\ transcript' = <<>> /\ changing' = NoChange /\ UNCHANGED <<file, events>>
    BY <1>2 DEF newSession, IsNewSession, eventQueue
  <2>2. session' # session /\ session' > sessions /\ session' \in Sessions
    <3>1. sessions \in Nat /\ session \in 1..sessions
      BY CurrentSession DEF TypeOK
    <3>2. session' \in Sessions
      BY SessionAssumption DEF TypeOK, Sessions
    <3> QED
      BY <2>1, <3>1, <3>2
  <2>3. Unwritten = {}
    BY <2>1, <2>2 DEF Late, eventPersists, NoChange
  <2>4. file'[session'] = <<>> /\ transcript' = Context(file'[session'])
    BY <2>1, <2>2, ContextOfNone DEF Stages, Prepared
  <2>5. Unwritten' = {} /\ changing'.stage # "opened"
    BY <2>1, <2>3 DEF Unwritten, NoChange
  <2> QED
    BY <2>4, <2>5, SavesReloaded
<1>3. CASE switchOpens
  <2>1. /\ changing.stage = "aborting" /\ session' = changing.to
        /\ changing' = [changing EXCEPT !.stage = "opened", !.context = Context(file[changing.to])]
        /\ UNCHANGED <<file, events>>
    BY <1>3 DEF switchOpens, eventQueue
  <2>2. changing'.stage = "opened" /\ changing'.context = Context(file'[session'])
    BY <2>1 DEF TypeOK
  <2>3. session' # session
    BY <2>1 DEF Stages, ChangeStages
  <2>4. Unwritten = {}
    BY <2>1, <2>2, <2>3 DEF Late, eventPersists
  <2>5. Unwritten' = {}
    BY <2>1, <2>4 DEF Unwritten
  <2> QED
    BY <2>2, <2>5 DEF Saves
<1>4. CASE switchLoads
  BY <1>4 DEF switchLoads
<1> QED
  BY <1>1, <1>2, <1>3, <1>4 DEF Changes

LEMMA SavesOfCompacts ==
  ASSUME TypeOK, TypeOK', Stages, Saves, Compacts, ~Late, changing.stage # "opened"
  PROVE  Saves'
<1>1. UNCHANGED <<events, session, changing>>
  BY DEF Compacts, compact, compactPrepares, compactDone, compactFails, eventQueue, saved
<1>2. CASE compactDone
  <2>1. manual.stage = "summarising" /\ manual' = NoManual /\ EnterSummary(manual.kept)
    BY <1>2 DEF compactDone
  <2>2. manual.kept \in Messages /\ manual' # manual
    BY <2>1 DEF TypeOK, OrNone, Stages, ChangeStages, NoManual
  <2>3. file' # file /\ transcript' = Context(file'[session])
    BY <2>1, <2>2, SummaryTypes
  <2>4. Unwritten = {}
    BY <2>2, <2>3 DEF Late, eventPersists, compactions
  <2>5. Unwritten' = {}
    BY <1>1, <2>4 DEF Unwritten
  <2> QED
    BY <1>1, <2>3, <2>5, SavesReloaded
<1>3. CASE ~compactDone
  <2>1. UNCHANGED <<transcript, file>>
    BY <1>3 DEF Compacts, compact, compactPrepares, compactFails, agent, saved
  <2> QED
    BY <1>1, <2>1, SavesKept
<1> QED
  BY <1>2, <1>3

\* Messages come to the events with the transcript.
LEMMA UnwrittenGrows ==
  ASSUME TypeOK, TypeOK', Stages, Placed, Next, UNCHANGED transcript
  PROVE  Unwritten' \subseteq Unwritten
<1>1. ASSUME NEW m \in Messages, Ended(m) PROVE FALSE
  BY <1>1, EndedTypes
<1>2. CASE UNCHANGED events
  BY <1>2 DEF Unwritten
<1>3. CASE Emit(End)
  BY <1>3, EmitPlaces DEF OrNone
<1>4. CASE events # <<>> /\ events' = Tail(events)
  BY <1>4, HeadPlaces
<1>5. ~says
  <2> SUFFICES ASSUME says PROVE FALSE
    OBVIOUS
  <2>1. New \in Messages /\ Ended(New)
    BY NewIsNew DEF says
  <2> QED
    BY <1>1, <2>1
<1>6. queue # <<>> => ~Ended(Head(queue))
  <2>1. queue # <<>> => Head(queue) \in Messages
    BY Tailed DEF TypeOK
  <2> QED
    BY <1>1, <2>1
<1>7. prompting.stage \in {"checking", "ready"} => ~Ended(prompting.message)
  <2>1. prompting.stage \in {"checking", "ready"} => prompting.message \in Messages
    <3> SUFFICES ASSUME prompting.stage \in {"checking", "ready"} PROVE prompting.message \in Messages
      OBVIOUS
    <3>1. prompting # NoPrompt
      BY DEF NoPrompt
    <3> QED
      BY <3>1 DEF Stages, PromptStages, TypeOK, OrNone
  <2> QED
    BY <1>1, <2>1
<1>8. handling # "no" => events # <<>>
  BY DEF Stages, HandlingStages
<1>9. ASSUME AgentSteps PROVE UNCHANGED events \/ Emit(End)
  BY <1>5, <1>6, <1>9 DEF AgentSteps, steered, runEnds, continue, agent
<1>10. ASSUME EventSteps PROVE UNCHANGED events \/ (events # <<>> /\ events' = Tail(events))
  BY <1>8, <1>10 DEF EventSteps, eventBegins, eventPersists, endSeeks, endRetries, EndIsRead, retryDue, endHandled, endCompacts,
     AutoBegins
<1>11. ASSUME Prompts PROVE UNCHANGED events
  BY <1>7, <1>11 DEF Prompts, prompt, promptCompacts, promptRecovers, promptRuns, AutoBegins, eventQueue
<1>12. ASSUME NEW c \in Callers, autoDone(c) \/ autoFails(c)
       PROVE  UNCHANGED events \/ (events # <<>> /\ events' = Tail(events))
  <2>1. autos[c] # 0 /\ Resumes(c)
    BY <1>12 DEF autoDone, autoFails
  <2> QED
    BY <2>1, ResumedTypes DEF Callers
<1>13. ASSUME Changes \/ Compacts \/ steer \/ clearQueue \/ recordBashResult PROVE UNCHANGED events
  BY <1>13 DEF Changes, change, newSession, switchOpens, switchLoads, Compacts, compact, compactPrepares, compactDone,
               compactFails, steer, clearQueue, recordBashResult, eventQueue
<1> QED
  BY <1>2, <1>3, <1>4, <1>9, <1>10, <1>11, <1>12, <1>13 DEF Next

\* While another session is opened and not shown, nothing is said or written.
LEMMA SavesOpened ==
  ASSUME TypeOK, TypeOK', Stages, Placed, Saves, Next, ~Stale, changing.stage = "opened"
  PROVE  Saves'
<1>1. CASE switchLoads
  <2>1. /\ transcript' = changing.context /\ changing' = NoChange
        /\ UNCHANGED <<session, file, events>>
    BY <1>1 DEF switchLoads, saved, eventQueue
  <2>2. transcript' = Context(file'[session']) /\ Unwritten' = {} /\ changing'.stage # "opened"
    BY <2>1 DEF Saves, Unwritten, NoChange
  <2> QED
    BY <2>2, SavesReloaded
<1>2. CASE ~switchLoads
  <2>1. UNCHANGED <<file, transcript>>
    BY <1>2 DEF Stale
  <2>2. UNCHANGED <<changing, session>>
    <3>1. changing # NoChange /\ changing.stage # "aborting"
      BY DEF NoChange
    <3>2. ASSUME AgentSteps \/ EventSteps \/ Compacts PROVE UNCHANGED <<changing, session>>
      BY <3>2 DEF AgentSteps, says, steered, runEnds, continue, EventSteps, eventBegins, eventPersists, endSeeks, endRetries, EndIsRead,
                  retryDue, endHandled, endCompacts, AutoBegins, Compacts, compact, compactPrepares, compactDone, compactFails, saved
    <3>3. ASSUME Prompts \/ steer \/ clearQueue \/ recordBashResult PROVE UNCHANGED <<changing, session>>
      BY <3>3 DEF Prompts, prompt, promptCompacts, promptRecovers, promptRuns, AutoBegins, steer, clearQueue, recordBashResult,
                  saved, compactions
    <3>4. ASSUME NEW c \in Callers, autoDone(c) \/ autoFails(c) PROVE UNCHANGED <<changing, session>>
      BY <3>4 DEF autoDone, autoFails, saved
    <3>5. ~Changes
      BY <1>2, <3>1 DEF Changes, change, newSession, IsNewSession, switchOpens
    <3> QED
      BY <3>2, <3>3, <3>4, <3>5 DEF Next
  <2>3. Unwritten' \subseteq Unwritten
    BY <2>1, UnwrittenGrows
  <2> QED
    BY <2>1, <2>2, <2>3 DEF Saves
<1> QED
  BY <1>1, <1>2

LEMMA SavesStep ==
  TypeOK /\ TypeOK' /\ Stages /\ Placed /\ Saves /\ Next /\ ~Late /\ ~Unheard /\ ~Stale /\ ~Failed => Saves'
<1> SUFFICES ASSUME TypeOK, TypeOK', Stages, Placed, Saves, Next, ~Late, ~Unheard, ~Stale, ~Failed PROVE Saves'
  OBVIOUS
<1>1. CASE changing.stage = "opened"
  BY <1>1, SavesOpened
<1>2. CASE changing.stage # "opened"
  BY <1>2, SavesOfAgent, SavesOfEvents, SavesOfPrompts, SavesOfChanges, SavesOfCalls, SavesOfCompacts, SavesOfAutos DEF Next
<1> QED
  BY <1>1, <1>2

CalmSaves == seen \subseteq {"moved", "crossed", "wordless", "alike"} => Saves

RestInvariant == TypeOK /\ Stages /\ Placed /\ CalmSaves

\* At rest the transcript is what the file says, whatever queued messages, shell commands
\* and compactions do beside a change of sessions, when no failure is taken back.
THEOREM RestStaysSaved == HistorySpec => []CalmRestIsSaved
<1>1. HistoryInit => RestInvariant
  <2> SUFFICES ASSUME HistoryInit PROVE RestInvariant
    OBVIOUS
  <2>1. Init
    BY DEF HistoryInit
  <2>2. TypeOK /\ Stages /\ Placed
    BY <2>1, TypeInit, PlacesInit
  <2>3. Unwritten = {}
    BY <2>1 DEF Init, Unwritten
  <2>4. transcript = Context(file[session])
    <3>1. file[session] = <<>>
      BY <2>1, <2>2, CurrentSession DEF Init
    <3> QED
      BY <2>1, <3>1, ContextOfNone DEF Init
  <2>5. Saves
    BY <2>1, <2>2, <2>3, <2>4, SavesQuiet DEF Saves, Init, NoChange
  <2> QED
    BY <2>2, <2>5 DEF RestInvariant, CalmSaves
<1>2. RestInvariant /\ [HistoryNext]_<<vars, seen, said>> => RestInvariant'
  <2> SUFFICES ASSUME RestInvariant, [HistoryNext]_<<vars, seen, said>> PROVE RestInvariant'
    OBVIOUS
  <2>1. [Next]_vars
    BY DEF HistoryNext
  <2>2. TypeOK' /\ Stages'
    BY <2>1, TypeStep DEF RestInvariant
  <2>3. Placed'
    BY <2>1, <2>2, PlacesStep DEF RestInvariant
  <2>4. CalmSaves'
    <3> SUFFICES ASSUME seen' \subseteq {"moved", "crossed", "wordless", "alike"} PROVE Saves'
      BY DEF CalmSaves
    <3>1. CASE HistoryNext
      <4>1. seen \subseteq {"moved", "crossed", "wordless", "alike"} /\ ~Late /\ ~Unheard /\ ~Stale /\ ~Failed /\ Next
        BY <3>1 DEF HistoryNext
      <4> QED
        BY <2>2, <4>1, SavesStep DEF RestInvariant, CalmSaves
    <3>2. CASE UNCHANGED <<vars, seen, said>>
      <4>1. UNCHANGED <<transcript, events, session, file, changing>>
        BY <3>2 DEF vars, agent, eventQueue, saved
      <4> QED
        BY <3>2, <4>1 DEF RestInvariant, CalmSaves, Saves, Unwritten
    <3> QED
      BY <3>1, <3>2
  <2> QED
    BY <2>2, <2>3, <2>4 DEF RestInvariant
<1>3. RestInvariant => CalmRestIsSaved
  <2> SUFFICES ASSUME RestInvariant, seen \subseteq {"moved", "crossed", "wordless", "alike"}, AtRest
               PROVE  transcript = Context(file[session])
    BY DEF CalmRestIsSaved, RestIsSaved
  <2>1. Unwritten = {} /\ changing.stage # "opened"
    BY DEF AtRest, Unwritten, NoChange
  <2> QED
    BY <2>1, SavesQuiet DEF RestInvariant, CalmSaves, Saves
<1> QED
  BY <1>1, <1>2, <1>3, PTL DEF HistorySpec

-----------------------------------------------------------------------------
(* What files hold *)

\* Entries belong to the session of their file, and a compaction keeps from before itself.
OwnFiles(f, h) ==
  \A s \in Sessions : \A i \in 1..Len(f[s]) :
    /\ f[s][i].of \in 1..Len(h) /\ h[f[s][i].of] = s
    /\ f[s][i].type = "compaction" => \E j \in 1..(i - 1) : f[s][j] = Said(f[s][i].of)

\* What is on its way to a file is on its way to the file of its session.
Homed == \A m \in Everywhere : home[m] = session

\* What a compaction under way keeps is in the file it will be entered in.
KeepsSaid ==
  /\ \A c \in Callers : autos[c] # End => Said(autos[c]) \in Range(file[session])
  /\ manual.kept # End => Said(manual.kept) \in Range(file[session])

\* A message is in the file of its session, or waits to be written to it.
Accounted(m) == m \in 1..Len(home) /\ (m \in Unwritten \/ Said(m) \in Range(file[home[m]]))

ToldOf(s) == {e.of : e \in Range(s)}

Accounts == \A m \in said \cup ToldOf(transcript) \cup ToldOf(changing.context) : Accounted(m)

Right == OwnFiles(file, home) /\ Homed /\ KeepsSaid /\ Accounts

\* Entries that may be entered.
Fits(entries) ==
  \A i \in 1..Len(entries) :
    /\ entries[i].of \in 1..Len(home') /\ home'[entries[i].of] = session
    /\ entries[i].type = "compaction" => Said(entries[i].of) \in Range(file[session])

\* A step enters what fits, or nothing.
Writes == UNCHANGED file \/ (UNCHANGED session /\ \E entries \in Seq(Entry) : Enter(entries) /\ Fits(entries))

\* What has a session keeps it.
HomeGrows == 1..Len(home) \subseteq 1..Len(home') /\ \A m \in 1..Len(home) : home'[m] = home[m]

LEMMA HomeStep == TypeOK /\ [Next]_vars => UNCHANGED home \/ IsNew
<1> SUFFICES ASSUME TypeOK, [Next]_vars PROVE UNCHANGED home \/ IsNew
  OBVIOUS
<1>1. ASSUME AgentSteps \/ EventSteps PROVE UNCHANGED home \/ IsNew
  BY <1>1 DEF AgentSteps, says, steered, runEnds, continue, EventSteps, eventBegins, eventPersists, endSeeks, endRetries, EndIsRead,
              retryDue, endHandled, endCompacts, AutoBegins
<1>2. ASSUME Prompts \/ steer \/ clearQueue \/ recordBashResult PROVE UNCHANGED home \/ IsNew
  BY <1>2 DEF Prompts, prompt, promptCompacts, promptRecovers, promptRuns, AutoBegins, steer, clearQueue, recordBashResult
<1>3. ASSUME Changes \/ Compacts PROVE UNCHANGED home \/ IsNew
  BY <1>3 DEF Changes, change, newSession, switchOpens, switchLoads, Compacts, compact, compactPrepares, compactDone,
              compactFails
<1>4. ASSUME NEW c \in Callers, autoDone(c) \/ autoFails(c) PROVE UNCHANGED home \/ IsNew
  BY <1>4 DEF autoDone, autoFails
<1>5. ASSUME UNCHANGED vars PROVE UNCHANGED home \/ IsNew
  BY <1>5 DEF vars
<1> QED
  BY <1>1, <1>2, <1>3, <1>4, <1>5 DEF Next

LEMMA HomesStay ==
  ASSUME TypeOK, UNCHANGED home \/ IsNew
  PROVE  /\ HomeGrows
         /\ \A m \in 1..Len(home') \ 1..Len(home) : home'[m] = session
<1>1. CASE UNCHANGED home
  BY <1>1 DEF HomeGrows
<1>2. CASE IsNew
  <2>1. /\ New = Len(home) + 1 /\ Len(home) \in Nat /\ Len(home') = New /\ home'[New] = session
        /\ \A m \in 1..Len(home) : home'[m] = home[m]
    BY <1>2, NewIsNew
  <2>2. 1..Len(home) \subseteq 1..Len(home') /\ \A m \in 1..Len(home') \ 1..Len(home) : m = New
    BY <2>1
  <2> QED
    BY <2>1, <2>2 DEF HomeGrows
<1> QED
  BY <1>1, <1>2

\* What is in a file stays there.
LEMMA FilesGrow ==
  ASSUME TypeOK, Writes
  PROVE  \A s \in Sessions : Range(file[s]) \subseteq Range(file'[s])
<1>1. CASE UNCHANGED file
  BY <1>1
<1>2. ASSUME NEW entries \in Seq(Entry), Enter(entries)
      PROVE  \A s \in Sessions : Range(file[s]) \subseteq Range(file'[s])
  <2>1. /\ file'[session] = file[session] \o entries /\ file[session] \in Seq(Entry)
        /\ \A s \in Sessions : s # session => file'[s] = file[s]
    BY <1>2, Entered
  <2>2. Range(file'[session]) = Range(file[session]) \cup Range(entries)
    BY <1>2, <2>1, JoinedAll
  <2> QED
    BY <2>1, <2>2
<1> QED
  BY <1>1, <1>2 DEF Writes

LEMMA OwnStep ==
  ASSUME TypeOK, OwnFiles(file, home), HomeGrows, Writes
  PROVE  OwnFiles(file', home')
<1> SUFFICES ASSUME NEW s \in Sessions, NEW i \in 1..Len(file'[s])
             PROVE  /\ file'[s][i].of \in 1..Len(home') /\ home'[file'[s][i].of] = s
                    /\ file'[s][i].type = "compaction" => \E j \in 1..(i - 1) : file'[s][j] = Said(file'[s][i].of)
  BY DEF OwnFiles
<1>1. CASE file'[s] = file[s]
  <2>1. i \in 1..Len(file[s])
    BY <1>1
  <2>2. /\ file[s][i].of \in 1..Len(home) /\ home[file[s][i].of] = s
        /\ file[s][i].type = "compaction" => \E j \in 1..(i - 1) : file[s][j] = Said(file[s][i].of)
    BY <2>1 DEF OwnFiles
  <2>3. file[s][i].of \in 1..Len(home') /\ home'[file[s][i].of] = s
    BY <2>2 DEF HomeGrows
  <2> QED
    BY <1>1, <2>2, <2>3
<1>2. ASSUME NEW entries \in Seq(Entry), Enter(entries), Fits(entries), s = session
      PROVE  /\ file'[s][i].of \in 1..Len(home') /\ home'[file'[s][i].of] = s
             /\ file'[s][i].type = "compaction" => \E j \in 1..(i - 1) : file'[s][j] = Said(file'[s][i].of)
  <2> DEFINE f == file[session]
             g == file'[session]
  <2>1. g = f \o entries /\ f \in Seq(Entry)
    BY <1>2, Entered
  <2> HIDE DEF f, g
  <2>2. /\ Len(g) = Len(f) + Len(entries) /\ Len(f) \in Nat /\ Len(entries) \in Nat
        /\ \A k \in 1..Len(f) : g[k] = f[k]
        /\ \A k \in 1..Len(entries) : g[Len(f) + k] = entries[k]
    BY <2>1, <1>2, Joined
  <2>3. i \in 1..Len(g)
    BY <1>2 DEF g
  <2>4. CASE i <= Len(f)
    <3>1. i \in 1..Len(f) /\ g[i] = f[i] /\ \A j \in 1..(i - 1) : g[j] = f[j]
      BY <2>2, <2>3, <2>4
    <3>2. /\ f[i].of \in 1..Len(home) /\ home[f[i].of] = s
          /\ f[i].type = "compaction" => \E j \in 1..(i - 1) : f[j] = Said(f[i].of)
      BY <1>2, <3>1 DEF OwnFiles, f
    <3>3. /\ g[i].of \in 1..Len(home') /\ home'[g[i].of] = s
          /\ g[i].type = "compaction" => \E j \in 1..(i - 1) : g[j] = Said(g[i].of)
      BY <3>1, <3>2 DEF HomeGrows
    <3> QED
      BY <1>2, <3>3 DEF g
  <2>5. CASE ~(i <= Len(f))
    <3>1. i - Len(f) \in 1..Len(entries) /\ Len(f) + (i - Len(f)) = i
      BY <2>2, <2>3, <2>5
    <3>2. g[i] = entries[i - Len(f)]
      BY <2>2, <3>1
    <3>3. /\ g[i].of \in 1..Len(home') /\ home'[g[i].of] = s
          /\ g[i].type = "compaction" => Said(g[i].of) \in Range(f)
      BY <1>2, <3>1, <3>2 DEF Fits, f
    <3>4. Range(f) = {f[k] : k \in 1..Len(f)}
      BY <2>1, RangeEquality
    <3>5. \A k \in 1..Len(f) : k \in 1..(i - 1) /\ g[k] = f[k]
      BY <2>2, <2>3, <2>5
    <3>6. g[i].type = "compaction" => \E j \in 1..(i - 1) : g[j] = Said(g[i].of)
      BY <3>3, <3>4, <3>5
    <3> QED
      BY <1>2, <3>3, <3>6 DEF g
  <2> QED
    BY <2>4, <2>5
<1>3. ASSUME NEW entries \in Seq(Entry), Enter(entries), s # session PROVE file'[s] = file[s]
  BY <1>3, Entered
<1> QED
  BY <1>1, <1>2, <1>3 DEF Writes

\* What a file holds is in the file of its session.
LEMMA OwnAccounted ==
  ASSUME NEW f \in [Sessions -> Seq(Entry)], NEW h, OwnFiles(f, h), NEW s \in Sessions, NEW e \in Range(f[s])
  PROVE  e.of \in 1..Len(h) /\ h[e.of] = s /\ Said(e.of) \in Range(f[s])
<1>1. f[s] \in Seq(Entry)
  OBVIOUS
<1>2. Range(f[s]) = {f[s][i] : i \in 1..Len(f[s])} /\ Len(f[s]) \in Nat
  BY <1>1, RangeEquality, LenProperties
<1>3. PICK i \in 1..Len(f[s]) : e = f[s][i]
  BY <1>2
<1>4. /\ e.of \in 1..Len(h) /\ h[e.of] = s
      /\ e.type = "compaction" => \E j \in 1..(i - 1) : f[s][j] = Said(e.of)
  BY <1>3 DEF OwnFiles
<1>5. e \in Entry
  BY <1>1, <1>3, ElementOfSeq
<1>6. CASE e.type = "compaction"
  <2>1. PICK j \in 1..(i - 1) : f[s][j] = Said(e.of)
    BY <1>4, <1>6
  <2>2. j \in 1..Len(f[s])
    BY <1>2, <1>3
  <2> QED
    BY <1>2, <1>4, <2>1, <2>2
<1>7. CASE e.type = "message"
  <2>1. e = Said(e.of)
    BY <1>5, <1>7 DEF Entry, Said
  <2> QED
    BY <1>4, <2>1
<1> QED
  BY <1>5, <1>6, <1>7 DEF Entry

LEMMA FitsMessage ==
  ASSUME NEW m \in Messages, m \in 1..Len(home'), home'[m] = session
  PROVE  <<Said(m)>> \in Seq(Entry) /\ Fits(<<Said(m)>>)
BY Entries, SingleEntry DEF Fits

LEMMA FitsSummary ==
  ASSUME TypeOK, OwnFiles(file, home), HomeGrows, NEW kept \in Messages, Said(kept) \in Range(file[session])
  PROVE  <<Summary(kept)>> \in Seq(Entry) /\ Fits(<<Summary(kept)>>)
<1>1. Said(kept).of = kept /\ Summary(kept).of = kept /\ Summary(kept) \in Entry
  BY Entries
<1>2. kept \in 1..Len(home) /\ home[kept] = session
  <2>1. file \in [Sessions -> Seq(Entry)] /\ session \in Sessions
    BY CurrentSession DEF TypeOK
  <2>2. Said(kept).of \in 1..Len(home) /\ home[Said(kept).of] = session
    BY <2>1, OwnAccounted
  <2> QED
    BY <1>1, <2>2
<1>3. kept \in 1..Len(home') /\ home'[kept] = session
  BY <1>2 DEF HomeGrows
<1> QED
  BY <1>1, <1>3, SingleEntry DEF Fits

LEMMA FitsPending ==
  ASSUME TypeOK, Stages, Placed, Homed, HomeGrows
  PROVE  pending \in Seq(Entry) /\ Fits(pending)
<1>1. pending \in Seq(Entry) /\ \A i \in 1..Len(pending) : pending[i].type = "message"
  BY DEF TypeOK, Stages, Prepared
<1>2. ASSUME NEW i \in 1..Len(pending) PROVE pending[i].of \in 1..Len(home') /\ home'[pending[i].of] = session
  <2>1. Range(pending) = {pending[j] : j \in 1..Len(pending)}
    BY <1>1, RangeEquality
  <2>2. pending[i].of \in Kept
    BY <2>1 DEF Kept
  <2>3. pending[i].of \in 1..Len(home) /\ home[pending[i].of] = session
    BY <2>2 DEF Placed, Places, Bounded, Homed, Everywhere
  <2> QED
    BY <2>3 DEF HomeGrows
<1> QED
  BY <1>1, <1>2 DEF Fits

LEMMA WritesStep ==
  ASSUME TypeOK, TypeOK', Stages, Placed, OwnFiles(file, home), Homed, KeepsSaid, HomeGrows, Next
  PROVE  Writes
<1>1. ASSUME AgentSteps PROVE Writes
  BY <1>1 DEF AgentSteps, says, steered, runEnds, continue, Writes, saved
<1>2. ASSUME EventSteps PROVE Writes
  <2>1. CASE eventPersists
    <3>1. /\ handling = "extension" /\ Head(events) # End /\ Enter(<<Said(Head(events))>>)
          /\ events' = Tail(events) /\ UNCHANGED session
      BY <2>1 DEF eventPersists
    <3>2. events # <<>>
      BY <3>1 DEF Stages, HandlingStages
    <3>3. Head(events) \in Unwritten
      BY <3>1, <3>2, HeadPlaces
    <3>4. Head(events) \in Messages /\ Head(events) \in 1..Len(home) /\ home[Head(events)] = session
      BY <3>3 DEF Unwritten, Placed, Places, Bounded, Homed, Everywhere
    <3>5. Head(events) \in 1..Len(home') /\ home'[Head(events)] = session
      BY <3>4 DEF HomeGrows
    <3> QED
      BY <3>1, <3>4, <3>5, FitsMessage DEF Writes
  <2>2. CASE ~eventPersists
    BY <1>2, <2>2 DEF EventSteps, eventBegins, endSeeks, endRetries, EndIsRead, retryDue, endHandled, endCompacts, AutoBegins, Writes, saved
  <2> QED
    BY <2>1, <2>2
<1>3. ASSUME Prompts PROVE Writes
  <2>1. CASE prompt
    BY <2>1, FitsPending DEF prompt, Writes
  <2>2. CASE ~prompt
    BY <1>3, <2>2 DEF Prompts, promptCompacts, promptRecovers, promptRuns, AutoBegins, Writes, saved
  <2> QED
    BY <2>1, <2>2
<1>4. ASSUME NEW c \in Callers, autoDone(c) \/ autoFails(c) PROVE Writes
  <2>1. CASE autoDone(c)
    <3>1. autos[c] # End /\ autos[c] \in Messages /\ Enter(<<Summary(autos[c])>>) /\ UNCHANGED session
      BY <2>1 DEF autoDone, EnterSummary, TypeOK, OrNone, End
    <3>2. Said(autos[c]) \in Range(file[session])
      BY <3>1 DEF KeepsSaid
    <3> QED
      BY <3>1, <3>2, FitsSummary DEF Writes
  <2>2. CASE autoFails(c)
    BY <2>2 DEF autoFails, Writes, saved
  <2> QED
    BY <1>4, <2>1, <2>2
<1>5. ASSUME Changes PROVE Writes
  BY <1>5 DEF Changes, change, newSession, switchOpens, switchLoads, Writes, saved
<1>6. ASSUME Compacts PROVE Writes
  <2>1. CASE compactDone
    <3>1. manual.kept # End /\ manual.kept \in Messages /\ Enter(<<Summary(manual.kept)>>) /\ UNCHANGED session
      BY <2>1 DEF compactDone, EnterSummary, TypeOK, OrNone, Stages, ChangeStages
    <3>2. Said(manual.kept) \in Range(file[session])
      BY <3>1 DEF KeepsSaid
    <3> QED
      BY <3>1, <3>2, FitsSummary DEF Writes
  <2>2. CASE ~compactDone
    BY <1>6, <2>2 DEF Compacts, compact, compactPrepares, compactFails, Writes, saved
  <2> QED
    BY <2>1, <2>2
<1>7. ASSUME steer \/ clearQueue \/ recordBashResult PROVE Writes
  <2>1. CASE recordBashResult /\ ~running
    <3>1. IsNew /\ Enter(<<Said(New)>>) /\ UNCHANGED session
      BY <2>1 DEF recordBashResult
    <3>2. New \in Messages /\ New \in 1..Len(home') /\ home'[New] = session
      BY <3>1, NewIsNew
    <3> QED
      BY <3>1, <3>2, FitsMessage DEF Writes
  <2>2. CASE ~(recordBashResult /\ ~running)
    BY <1>7, <2>2 DEF steer, clearQueue, recordBashResult, Writes, saved
  <2> QED
    BY <2>1, <2>2
<1> QED
  BY <1>1, <1>2, <1>3, <1>4, <1>5, <1>6, <1>7 DEF Next

\* Only a change of sessions changes the session.
LEMMA SessionStays == Next => UNCHANGED session \/ newSession \/ switchOpens
<1>1. ASSUME AgentSteps \/ EventSteps PROVE UNCHANGED session
  BY <1>1 DEF AgentSteps, says, steered, runEnds, continue, EventSteps, eventBegins, eventPersists, endSeeks, endRetries, EndIsRead,
              retryDue, endHandled, endCompacts, AutoBegins, saved
<1>2. ASSUME Prompts \/ steer \/ clearQueue \/ recordBashResult PROVE UNCHANGED session
  BY <1>2 DEF Prompts, prompt, promptCompacts, promptRecovers, promptRuns, AutoBegins, steer, clearQueue, recordBashResult, saved
<1>3. ASSUME Changes \/ Compacts PROVE UNCHANGED session \/ newSession \/ switchOpens
  BY <1>3 DEF Changes, change, switchLoads, Compacts, compact, compactPrepares, compactDone, compactFails, saved
<1>4. ASSUME NEW c \in Callers, autoDone(c) \/ autoFails(c) PROVE UNCHANGED session
  BY <1>4 DEF autoDone, autoFails, saved
<1> QED
  BY <1>1, <1>2, <1>3, <1>4 DEF Next

\* When nothing is on its way, the session may change.
LEMMA HomedStep ==
  ASSUME TypeOK, Stages, Homed, Gathers, Next, ~Late, ~Moved,
         HomeGrows, \A m \in 1..Len(home') \ 1..Len(home) : home'[m] = session,
         Everywhere \subseteq 1..Len(home)
  PROVE  Homed'
<1>1. CASE UNCHANGED session
  <2> SUFFICES ASSUME NEW m \in Everywhere' PROVE home'[m] = session
    BY <1>1 DEF Homed
  <2>1. m \in Everywhere \/ m \in 1..Len(home') \ 1..Len(home)
    BY DEF Gathers
  <2> QED
    BY <2>1 DEF Homed, HomeGrows
<1>2. CASE session' # session
  <2>1. newSession \/ switchOpens
    BY <1>2, SessionStays
  <2>2. changing.stage = "aborting" /\ UNCHANGED <<events, prompting, pending>> /\ changing' # changing
    <3>1. changing.stage = "aborting" /\ UNCHANGED <<events, prompting, pending>>
      BY <2>1 DEF newSession, switchOpens, IsNewSession, eventQueue
    <3>2. changing'.stage # "aborting"
      <4>1. CASE newSession
        BY <4>1 DEF newSession, NoChange
      <4>2. CASE switchOpens
        BY <4>2 DEF switchOpens, TypeOK
      <4> QED
        BY <2>1, <4>1, <4>2
    <3> QED
      BY <3>1, <3>2
  <2>3. pending = <<>> /\ queue' = <<>>
    BY <1>2, <2>1 DEF Moved, newSession, switchOpens, agent
  <2>4. prompting = NoPrompt
    BY <2>2 DEF Stages, PromptStages, NoChange
  <2>5. Unwritten = {}
    BY <1>2, <2>2 DEF Late, eventPersists
  <2>6. Queued' = {} /\ Unwritten' = {} /\ Prompted' = {} /\ Kept' = {}
    BY <2>2, <2>3, <2>4, <2>5 DEF Queued, Unwritten, Prompted, NoPrompt, Kept, Range
  <2> QED
    BY <2>6 DEF Homed, Everywhere
<1> QED
  BY <1>1, <1>2

\* A compaction begins to keep what is in the file.
LEMMA KeepsBegin ==
  ASSUME TypeOK, Next
  PROVE  /\ \A c \in Callers : autos'[c] \in {End, autos[c]} \/ Said(autos'[c]) \in Range(file[session])
         /\ manual'.kept \in {End, manual.kept} \/ Said(manual'.kept) \in Range(file[session])
         /\ session' # session => UNCHANGED <<autos, manual>>
<1>1. CASE UNCHANGED <<autos, manual>>
  BY <1>1
<1>2. ASSUME NEW c \in Callers, AutoBegins(c), UNCHANGED session
      PROVE  /\ \A d \in Callers : autos'[d] \in {End, autos[d]} \/ Said(autos'[d]) \in Range(file[session])
             /\ UNCHANGED manual
  BY <1>2, AutoTypes
<1>3. ASSUME NEW c \in Callers, autos' = [autos EXCEPT ![c] = 0]
      PROVE  \A d \in Callers : autos'[d] \in {End, autos[d]}
  BY <1>3 DEF TypeOK, End
<1>4. ASSUME AgentSteps \/ Changes \/ steer \/ clearQueue \/ recordBashResult PROVE UNCHANGED <<autos, manual>>
  BY <1>4 DEF AgentSteps, says, steered, runEnds, continue, Changes, change, newSession, switchOpens, switchLoads,
              steer, clearQueue, recordBashResult, compactions
<1>5. ASSUME EventSteps
      PROVE  UNCHANGED session /\ (UNCHANGED <<autos, manual>> \/ \E c \in Callers : AutoBegins(c))
  BY <1>5 DEF EventSteps, eventBegins, eventPersists, endSeeks, endRetries, EndIsRead, retryDue, endHandled, endCompacts, AutoBegins, compactions, Callers, saved
<1>6. ASSUME Prompts
      PROVE  UNCHANGED session /\ (UNCHANGED <<autos, manual>> \/ \E c \in Callers : AutoBegins(c))
  BY <1>6 DEF Prompts, prompt, promptCompacts, promptRecovers, promptRuns, AutoBegins, compactions, Callers, saved
<1>7. ASSUME NEW c \in Callers, autoDone(c) \/ autoFails(c)
      PROVE  autos' = [autos EXCEPT ![c] = 0] /\ UNCHANGED <<manual, session>>
  BY <1>7 DEF autoDone, autoFails, saved
<1>8. ASSUME Compacts
      PROVE  /\ UNCHANGED <<autos, session>>
             /\ manual'.kept \in {End, manual.kept} \/ Said(manual'.kept) \in Range(file[session])
  <2>1. UNCHANGED <<autos, session>>
    BY <1>8 DEF Compacts, compact, compactPrepares, compactDone, compactFails, saved
  <2>2. CASE compactPrepares
    <3>1. PICK kept \in Keepable(file[session]) : manual' = [stage |-> "summarising", kept |-> kept]
      BY <2>2 DEF compactPrepares
    <3> QED
      BY <2>1, <3>1, KeepableIsSaid, ShownOfFile
  <2>3. CASE ~compactPrepares
    BY <1>8, <2>1, <2>3 DEF Compacts, compact, compactDone, compactFails, NoManual, End
  <2> QED
    BY <2>2, <2>3
<1> QED
  BY <1>1, <1>2, <1>3, <1>4, <1>5, <1>6, <1>7, <1>8 DEF Next

LEMMA KeepsStep ==
  ASSUME TypeOK, KeepsSaid, Next, ~Crossed, \A s \in Sessions : Range(file[s]) \subseteq Range(file'[s])
  PROVE  KeepsSaid'
<1>1. CASE UNCHANGED session
  BY <1>1, KeepsBegin, CurrentSession DEF KeepsSaid
<1>2. CASE session' # session
  <2>1. manual = NoManual /\ autos = [c \in Callers |-> 0]
    BY <1>2 DEF Crossed
  <2>2. UNCHANGED <<autos, manual>>
    BY <1>2, KeepsBegin
  <2> QED
    BY <2>1, <2>2 DEF KeepsSaid, NoManual, End
<1> QED
  BY <1>1, <1>2

\* What happens to the events.
LEMMA EventsStep ==
  ASSUME TypeOK, Stages, Next
  PROVE  \/ UNCHANGED events
         \/ \E e \in OrNone : Emit(e)
         \/ events # <<>> /\ events' = Tail(events) /\ (Head(events) = End \/ eventPersists)
<1>1. ASSUME AgentSteps PROVE UNCHANGED events \/ \E e \in OrNone : Emit(e)
  <2>1. says => New \in OrNone
    BY NewIsNew DEF says, OrNone
  <2>2. queue # <<>> => Head(queue) \in OrNone
    BY Tailed DEF TypeOK, OrNone
  <2> QED
    BY <1>1, <2>1, <2>2 DEF AgentSteps, says, steered, runEnds, continue, Ended, OrNone
<1>2. ASSUME EventSteps
      PROVE  UNCHANGED events \/ (events # <<>> /\ events' = Tail(events) /\ (Head(events) = End \/ eventPersists))
  BY <1>2 DEF EventSteps, eventBegins, eventPersists, endSeeks, endRetries, EndIsRead, retryDue, endHandled, endCompacts, AutoBegins, Stages, HandlingStages
<1>3. ASSUME Prompts PROVE UNCHANGED events \/ \E e \in OrNone : Emit(e)
  <2>1. prompting.message \in OrNone
    BY DEF TypeOK
  <2> QED
    BY <1>3, <2>1 DEF Prompts, prompt, promptCompacts, promptRecovers, promptRuns, AutoBegins, Ended, eventQueue
<1>4. ASSUME NEW c \in Callers, autoDone(c) \/ autoFails(c)
      PROVE  UNCHANGED events \/ (events # <<>> /\ events' = Tail(events) /\ Head(events) = End)
  <2>1. autos[c] # 0 /\ Resumes(c)
    BY <1>4 DEF autoDone, autoFails
  <2> QED
    BY <2>1, ResumedTypes DEF Callers
<1>5. ASSUME Changes \/ Compacts \/ steer \/ clearQueue \/ recordBashResult PROVE UNCHANGED events
  BY <1>5 DEF Changes, change, newSession, switchOpens, switchLoads, Compacts, compact, compactPrepares, compactDone,
              compactFails, steer, clearQueue, recordBashResult, eventQueue
<1> QED
  BY <1>1, <1>2, <1>3, <1>4, <1>5 DEF Next

\* A message that waits is written to the file of its session.
LEMMA AccountedStays ==
  ASSUME TypeOK, TypeOK', Stages, Placed, Homed, Next, HomeGrows,
         \A s \in Sessions : Range(file[s]) \subseteq Range(file'[s]),
         NEW m, Accounted(m)
  PROVE  Accounted(m)'
<1>1. m \in 1..Len(home) /\ m \in 1..Len(home') /\ home'[m] = home[m] /\ home[m] \in Sessions
  BY ElementOfSeq DEF Accounted, HomeGrows, TypeOK
<1>2. CASE Said(m) \in Range(file[home[m]])
  BY <1>1, <1>2 DEF Accounted
<1>3. CASE m \in Unwritten /\ m \in Unwritten'
  BY <1>1, <1>3 DEF Accounted
<1>4. CASE m \in Unwritten /\ m \notin Unwritten'
  <2>1. ~(UNCHANGED events)
    BY <1>4 DEF Unwritten
  <2>2. \A e \in OrNone : ~Emit(e)
    BY <1>4, EmitPlaces
  <2>3. events # <<>> /\ events' = Tail(events) /\ (Head(events) = End \/ eventPersists)
    BY <2>1, <2>2, EventsStep
  <2>4. Head(events) # End
    BY <1>4, <2>3, HeadPlaces
  <2>5. m = Head(events) /\ m \in Messages
    BY <1>4, <2>3, <2>4, HeadPlaces DEF Placed, Unwritten
  <2>6. Enter(<<Said(m)>>) /\ UNCHANGED session
    BY <2>3, <2>4, <2>5 DEF eventPersists
  <2>7. <<Said(m)>> \in Seq(Entry) /\ Range(<<Said(m)>>) = {Said(m)}
    BY <2>5, Entries, SingleEntry
  <2>8. file'[session] = file[session] \o <<Said(m)>> /\ file[session] \in Seq(Entry)
    BY <2>6, <2>7, Entered
  <2>9. Said(m) \in Range(file'[session])
    <3>1. \A s, t \in Seq(Entry) : Range(s \o t) = Range(s) \cup Range(t)
      BY JoinedAll
    <3>2. Range(file'[session]) = Range(file[session]) \cup Range(<<Said(m)>>)
      BY ONLY <2>7, <2>8, <3>1
    <3> QED
      BY ONLY <2>7, <3>2
  <2>10. home[m] = session
    BY <1>4 DEF Homed, Everywhere
  <2> QED
    BY <1>1, <2>9, <2>10 DEF Accounted
<1> QED
  BY <1>2, <1>3, <1>4 DEF Accounted

\* What a file holds is accounted for.
LEMMA AccountedFile ==
  ASSUME TypeOK', OwnFiles(file', home'), NEW s \in Sessions, NEW e \in Range(file'[s])
  PROVE  Accounted(e.of)'
<1>1. file' \in [Sessions -> Seq(Entry)]
  BY DEF TypeOK
<1>2. e.of \in 1..Len(home') /\ home'[e.of] = s /\ Said(e.of) \in Range(file'[s])
  BY <1>1, OwnAccounted
<1> QED
  BY <1>2 DEF Accounted

\* What is said is said for the file, entered at once, or comes from a file; or less is told.
ToldNow ==
  \/ Range(transcript') \subseteq Range(transcript)
  \/ transcript' = <<>> \/ transcript' = changing.context
  \/ \E s \in Sessions : Range(transcript') \subseteq Range(file'[s])
  \/ \E m \in Messages : /\ m \in Unwritten' /\ m \in 1..Len(home')
                         /\ Range(transcript') = Range(transcript) \cup {Said(m)}
  \/ \E entries \in Seq(Entry) : /\ Range(entries) \subseteq Range(file'[session])
                                 /\ Range(transcript') = Range(transcript) \cup Range(entries)

LEMMA ToldEnded ==
  ASSUME TypeOK, TypeOK', NEW m \in Messages, Ended(m), connected, m \in 1..Len(home')
  PROVE  ToldNow
<1>1. Range(transcript') = Range(transcript) \cup {Said(m)}
  BY EndedTypes
<1>2. m \in OrNone /\ m # End /\ Emit(m)
  BY MessagesAreNumbers DEF Ended, OrNone
<1>3. m \in Unwritten'
  BY <1>2, EmitPlaces
<1> QED
  BY <1>1, <1>3 DEF ToldNow

LEMMA ToldEntered ==
  ASSUME TypeOK, NEW entries \in Seq(Entry), Enter(entries), transcript' = transcript \o entries
  PROVE  ToldNow
<1>1. file'[session] = file[session] \o entries /\ file[session] \in Seq(Entry) /\ transcript \in Seq(Entry)
  BY Entered DEF TypeOK
<1>2. /\ Range(file'[session]) = Range(file[session]) \cup Range(entries)
      /\ Range(transcript') = Range(transcript) \cup Range(entries)
  BY <1>1, JoinedAll
<1> QED
  BY <1>2 DEF ToldNow

LEMMA ToldStep ==
  ASSUME TypeOK, TypeOK', Stages, Placed, HomeGrows, Next, ~Unheard
  PROVE  ToldNow
<1>1. ASSUME AgentSteps PROVE ToldNow
  <2>1. ASSUME NEW m \in Messages, Ended(m), m \in 1..Len(home'), says \/ steered \/ continue PROVE ToldNow
    <3>1. connected
      BY <2>1, EndedTypes DEF Unheard
    <3> QED
      BY <2>1, <3>1, ToldEnded
  <2>2. CASE says
    <3>1. New \in Messages /\ New \in 1..Len(home') /\ Ended(New)
      BY <2>2, NewIsNew DEF says
    <3> QED
      BY <2>1, <2>2, <3>1
  <2>3. ASSUME queue # <<>>, queue' = Tail(queue), Ended(Head(queue)), steered \/ continue PROVE ToldNow
    <3>1. Head(queue) \in Messages /\ Head(queue) \in 1..Len(home)
      BY <2>3, QueueTaken DEF Placed, Places, Bounded
    <3>2. Head(queue) \in 1..Len(home')
      BY <3>1 DEF HomeGrows
    <3> QED
      BY <2>1, <2>3, <3>1, <3>2
  <2>4. (steered \/ continue) => UNCHANGED transcript \/ (queue # <<>> /\ queue' = Tail(queue) /\ Ended(Head(queue)))
    BY DEF steered, continue, agent
  <2>5. runEnds => UNCHANGED transcript
    BY DEF runEnds
  <2> QED
    BY <1>1, <2>2, <2>3, <2>4, <2>5 DEF AgentSteps, ToldNow
<1>2. ASSUME EventSteps PROVE ToldNow
  <2>1. transcript \in Seq(Entry)
    BY DEF TypeOK
  <2>2. CASE endCompacts
    <3>1. AutoBegins("event")
      BY <2>2 DEF endCompacts
    <3> QED
      BY <3>1, AutoTypes DEF Callers, ToldNow
  <2>3. CASE ~endCompacts
    <3>1. UNCHANGED transcript \/ transcript' = WithoutAnswer(transcript)
      BY <1>2, <2>3 DEF EventSteps, eventBegins, eventPersists, endSeeks, endRetries, EndIsRead, retryDue, endHandled, agent
    <3> QED
      BY <2>1, <3>1, AnswerTaken DEF ToldNow
  <2> QED
    BY <2>2, <2>3
<1>3. ASSUME Prompts PROVE ToldNow
  <2>1. CASE prompt
    BY <2>1, ToldEntered DEF prompt, TypeOK
  <2>2. CASE promptCompacts
    <3>1. AutoBegins("prompt")
      BY <2>2 DEF promptCompacts
    <3> QED
      BY <3>1, AutoTypes DEF Callers, ToldNow
  <2>3. CASE promptRuns
    <3>1. CASE UNCHANGED transcript
      BY <3>1 DEF ToldNow
    <3>2. CASE Ended(prompting.message)
      <4>1. prompting # NoPrompt
        BY <2>3 DEF promptRuns, NoPrompt
      <4>2. /\ prompting.message \in Messages /\ prompting.message \in Prompted
            /\ changing = NoChange /\ manual = NoManual
        BY <4>1 DEF Stages, PromptStages, TypeOK, OrNone, Prompted
      <4>3. prompting.message \in 1..Len(home') /\ connected
        BY <4>2 DEF Placed, Places, Bounded, HomeGrows, Stages, ChangeStages
      <4> QED
        BY <3>2, <4>2, <4>3, ToldEnded
    <3> QED
      BY <2>3, <3>1, <3>2 DEF promptRuns
  <2>4. CASE promptRecovers
    <3>1. transcript \in Seq(Entry) /\ transcript' = WithoutAnswer(transcript)
      BY <2>4 DEF promptRecovers, TypeOK
    <3> QED
      BY <3>1, AnswerTaken DEF ToldNow
  <2> QED
    BY <1>3, <2>1, <2>2, <2>3, <2>4 DEF Prompts
<1>4. ASSUME NEW c \in Callers, autoDone(c) \/ autoFails(c) PROVE ToldNow
  <2>1. CASE autoDone(c)
    <3>1. autos[c] \in Messages /\ session \in Sessions
      BY <2>1, CurrentSession DEF autoDone, TypeOK, OrNone, End
    <3>2. CASE EnterSummary(autos[c])
      BY <3>1, <3>2, SummaryTypes DEF ToldNow
    <3>3. CASE Enter(<<Summary(autos[c])>>) /\ transcript' = WithoutAnswer(Context(file'[session]))
      <4>1. <<Summary(autos[c])>> \in Seq(Entry)
        BY <3>1, Entries, SingleEntry
      <4>2. file'[session] \in Seq(Entry)
        BY <3>1, <3>3, <4>1, Entered
      <4>3. /\ Context(file'[session]) \in Seq(Entry)
            /\ Range(Context(file'[session])) \subseteq Range(file'[session])
        BY <4>2, ContextInFile
      <4>4. Range(transcript') \subseteq Range(file'[session])
        BY <3>3, <4>3, AnswerTaken
      <4> QED
        BY <3>1, <4>4 DEF ToldNow
    <3> QED
      BY <2>1, <3>2, <3>3 DEF autoDone
  <2>2. CASE autoFails(c)
    BY <2>2 DEF autoFails, ToldNow, agent
  <2> QED
    BY <1>4, <2>1, <2>2
<1>5. ASSUME Changes PROVE ToldNow
  BY <1>5 DEF Changes, change, newSession, switchOpens, switchLoads, ToldNow, agent
<1>6. ASSUME Compacts PROVE ToldNow
  <2>1. CASE compactDone
    <3>1. manual.kept \in Messages /\ EnterSummary(manual.kept)
      BY <2>1 DEF compactDone, TypeOK, OrNone, Stages, ChangeStages
    <3> QED
      BY <3>1, SummaryTypes, CurrentSession DEF ToldNow
  <2>2. CASE ~compactDone
    BY <1>6, <2>2 DEF Compacts, compact, compactPrepares, compactFails, ToldNow, agent
  <2> QED
    BY <2>1, <2>2
<1>7. ASSUME steer \/ clearQueue \/ recordBashResult PROVE ToldNow
  <2>1. CASE recordBashResult /\ ~running
    <3>1. IsNew /\ transcript' = Append(transcript, Said(New)) /\ Enter(<<Said(New)>>)
      BY <2>1 DEF recordBashResult
    <3>2. Said(New) \in Entry /\ <<Said(New)>> \in Seq(Entry) /\ transcript \in Seq(Entry)
      BY <3>1, NewIsNew, Entries, SingleEntry DEF TypeOK
    <3>3. transcript' = transcript \o <<Said(New)>>
      BY ONLY <3>1, <3>2, Appended
    <3> QED
      BY <3>1, <3>2, <3>3, ToldEntered
  <2>2. CASE ~(recordBashResult /\ ~running)
    BY <1>7, <2>2 DEF steer, clearQueue, recordBashResult, ToldNow
  <2> QED
    BY <2>1, <2>2
<1> QED
  BY <1>1, <1>2, <1>3, <1>4, <1>5, <1>6, <1>7 DEF Next

\* A session is read from its file.
LEMMA ReadStep ==
  ASSUME TypeOK, Stages, Next
  PROVE  \/ ToldOf(changing'.context) \subseteq ToldOf(changing.context)
         \/ \E s \in Sessions : Range(changing'.context) \subseteq Range(file[s])
<1>1. CASE UNCHANGED changing
  BY <1>1
<1>2. CASE changing'.context = <<>>
  BY <1>2 DEF ToldOf, Range
<1>3. CASE switchOpens
  <2>1. /\ changing.stage = "aborting" /\ changing.to # sessions + 1
        /\ changing' = [changing EXCEPT !.stage = "opened", !.context = Context(file[changing.to])]
    BY <1>3 DEF switchOpens, IsNewSession
  <2>2. changing.to \in 1..sessions /\ sessions \in Nat
    <3>1. changing.to \in 1..(sessions + 1)
      BY <2>1 DEF Stages, ChangeStages
    <3> QED
      BY <2>1, <3>1, CurrentSession
  <2>3. changing.to \in Sessions
    BY <2>2, SessionAssumption DEF TypeOK, Sessions
  <2>4. Range(Context(file[changing.to])) \subseteq Range(file[changing.to])
    BY <2>3, ContextInFile DEF TypeOK
  <2>5. changing'.context = Context(file[changing.to])
    BY <2>1 DEF TypeOK
  <2> QED
    BY <2>3, <2>4, <2>5
<1>4. ASSUME AgentSteps \/ EventSteps \/ Compacts PROVE UNCHANGED changing
  BY <1>4 DEF AgentSteps, says, steered, runEnds, continue, EventSteps, eventBegins, eventPersists, endSeeks, endRetries, EndIsRead,
              retryDue, endHandled, endCompacts, AutoBegins, Compacts, compact, compactPrepares, compactDone, compactFails
<1>5. ASSUME Prompts \/ steer \/ clearQueue \/ recordBashResult PROVE UNCHANGED changing
  BY <1>5 DEF Prompts, prompt, promptCompacts, promptRecovers, promptRuns, AutoBegins, steer, clearQueue, recordBashResult
<1>6. ASSUME NEW c \in Callers, autoDone(c) \/ autoFails(c) PROVE UNCHANGED changing
  BY <1>6 DEF autoDone, autoFails
<1>7. ASSUME Changes PROVE changing'.context = <<>> \/ switchOpens
  BY <1>7 DEF Changes, change, newSession, switchLoads, NoChange
<1> QED
  BY <1>1, <1>2, <1>3, <1>4, <1>5, <1>6, <1>7 DEF Next

LEMMA AccountsStep ==
  ASSUME TypeOK, TypeOK', Stages, Placed, Homed, OwnFiles(file', home'), HomeGrows, Next, ~Unheard, Accounts,
         \A s \in Sessions : Range(file[s]) \subseteq Range(file'[s]),
         said' = said \cup ToldOf(transcript')
  PROVE  Accounts'
<1>1. \A m \in said \cup ToldOf(transcript) \cup ToldOf(changing.context) : Accounted(m)'
  BY AccountedStays DEF Accounts
<1>2. \A s \in Sessions : \A e \in Range(file'[s]) : Accounted(e.of)'
  BY AccountedFile
<1>3. ASSUME NEW e \in Range(transcript') PROVE Accounted(e.of)'
  <2>1. CASE Range(transcript') \subseteq Range(transcript)
    BY <1>1, <1>3, <2>1 DEF ToldOf
  <2>2. CASE transcript' = <<>> \/ transcript' = changing.context
    BY <1>1, <1>3, <2>2 DEF ToldOf, Range
  <2>3. ASSUME NEW s \in Sessions, Range(transcript') \subseteq Range(file'[s]) PROVE Accounted(e.of)'
    BY <1>2, <1>3, <2>3
  <2>4. ASSUME NEW m \in Messages, m \in Unwritten', m \in 1..Len(home'),
               Range(transcript') = Range(transcript) \cup {Said(m)}
        PROVE  Accounted(e.of)'
    <3>1. CASE e \in Range(transcript)
      BY <1>1, <3>1 DEF ToldOf
    <3>2. CASE e = Said(m)
      <4>1. e.of = m
        BY <3>2 DEF Said
      <4> QED
        BY <2>4, <4>1 DEF Accounted
    <3> QED
      BY <1>3, <2>4, <3>1, <3>2
  <2>5. ASSUME NEW entries \in Seq(Entry), Range(entries) \subseteq Range(file'[session]),
               Range(transcript') = Range(transcript) \cup Range(entries)
        PROVE  Accounted(e.of)'
    <3>1. CASE e \in Range(transcript)
      BY <1>1, <3>1 DEF ToldOf
    <3>2. CASE e \in Range(entries)
      BY <1>2, <2>5, <3>2, CurrentSession
    <3> QED
      BY <1>3, <2>5, <3>1, <3>2
  <2>6. ToldNow
    BY ToldStep
  <2> QED
    BY <2>1, <2>2, <2>3, <2>4, <2>5, <2>6 DEF ToldNow
<1>4. ASSUME NEW e \in Range(changing'.context) PROVE Accounted(e.of)'
  <2>1. CASE ToldOf(changing'.context) \subseteq ToldOf(changing.context)
    BY <1>1, <1>4, <2>1 DEF ToldOf
  <2>2. ASSUME NEW s \in Sessions, Range(changing'.context) \subseteq Range(file[s]) PROVE Accounted(e.of)'
    BY <1>2, <1>4, <2>2
  <2> QED
    BY <2>1, <2>2, ReadStep
<1> QED
  BY <1>1, <1>3, <1>4 DEF Accounts, ToldOf

LEMMA RightStep ==
  ASSUME TypeOK, TypeOK', Stages, Placed, Gathers, Right, Next, ~Late, ~Moved, ~Unheard, ~Crossed,
         said' = said \cup ToldOf(transcript')
  PROVE  Right'
<1>1. HomeGrows /\ \A m \in 1..Len(home') \ 1..Len(home) : home'[m] = session
  BY HomeStep, HomesStay
<1>2. Writes
  BY <1>1, WritesStep DEF Right
<1>3. \A s \in Sessions : Range(file[s]) \subseteq Range(file'[s])
  BY <1>2, FilesGrow
<1>4. OwnFiles(file', home')
  BY <1>1, <1>2, OwnStep DEF Right
<1>5. Everywhere \subseteq 1..Len(home)
  BY DEF Placed, Places, Bounded, Everywhere
<1>6. Homed'
  BY <1>1, <1>5, HomedStep DEF Right
<1>7. KeepsSaid'
  BY <1>3, KeepsStep DEF Right
<1>8. Accounts'
  BY <1>1, <1>3, <1>4, AccountsStep DEF Right
<1> QED
  BY <1>4, <1>6, <1>7, <1>8 DEF Right, OwnFiles

LEMMA RightInit == HistoryInit /\ TypeOK => Right
<1> SUFFICES ASSUME HistoryInit, TypeOK PROVE Right
  OBVIOUS
<1>1. \A s \in Sessions : file[s] = <<>>
  BY DEF HistoryInit, Init
<1>2. OwnFiles(file, home)
  BY <1>1 DEF OwnFiles
<1>3. Everywhere = {}
  BY DEF HistoryInit, Init, Everywhere, Queued, Unwritten, Prompted, NoPrompt, Kept, Range
<1>4. KeepsSaid
  BY DEF HistoryInit, Init, KeepsSaid, NoManual, End
<1>5. Accounts
  BY DEF HistoryInit, Init, Accounts, ToldOf, NoChange, Range
<1> QED
  BY <1>2, <1>3, <1>4, <1>5 DEF Right, Homed

\* What the properties say follows.
LEMMA RightFiles == TypeOK /\ Placed /\ Right => FilesAreOwn /\ SaidIsSaved
<1> SUFFICES ASSUME TypeOK, Placed, Right PROVE FilesAreOwn /\ SaidIsSaved
  OBVIOUS
<1>1. FilesAreOwn
  <2> SUFFICES ASSUME NEW s \in Sessions, NEW i \in DOMAIN file[s]
               PROVE  /\ home[file[s][i].of] = s
                      /\ file[s][i].type = "message"    => \A j \in 1..(i - 1) : file[s][j] # file[s][i]
                      /\ file[s][i].type = "compaction" => \E j \in 1..(i - 1) : file[s][j] = Said(file[s][i].of)
    BY DEF FilesAreOwn
  <2>1. file[s] \in Seq(Entry)
    BY DEF TypeOK
  <2>2. i \in 1..Len(file[s]) /\ Len(file[s]) \in Nat
    BY <2>1, LenProperties
  <2>3. /\ home[file[s][i].of] = s
        /\ file[s][i].type = "compaction" => \E j \in 1..(i - 1) : file[s][j] = Said(file[s][i].of)
    BY <2>2 DEF Right, OwnFiles
  <2>4. ASSUME file[s][i].type = "message", NEW j \in 1..(i - 1) PROVE file[s][j] # file[s][i]
    <3>1. j \in 1..Len(file[s]) /\ j # i
      BY <2>2
    <3>2. Once(file[s])
      BY DEF Placed, EntriesOnce
    <3> QED
      BY <2>2, <2>4, <3>1, <3>2 DEF Once
  <2> QED
    BY <2>3, <2>4
<1>2. SaidIsSaved
  <2> SUFFICES ASSUME AtRest, NEW m \in said PROVE Said(m) \in Range(file[home[m]])
    BY DEF SaidIsSaved
  <2>1. Unwritten = {}
    BY DEF AtRest, Unwritten
  <2> QED
    BY <2>1 DEF Right, Accounts, Accounted
<1> QED
  BY <1>1, <1>2

CalmRight == seen \subseteq {"stale", "failed", "wordless", "alike"} => Right

FilesInvariant == TypeOK /\ Stages /\ Placed /\ CalmRight

\* Files hold what was said in their session, all of it and nothing else, compactions
\* included, whatever is said while a session is read (agent-session.ts:459, 2383, 2408;
\* compaction-orchestrator.ts:156, 366).
THEOREM FilesStayRight == HistorySpec => []CalmFilesAreRight
<1>1. HistoryInit => FilesInvariant
  BY TypeInit, PlacesInit, RightInit DEF HistoryInit, FilesInvariant, CalmRight
<1>2. FilesInvariant /\ [HistoryNext]_<<vars, seen, said>> => FilesInvariant'
  <2> SUFFICES ASSUME FilesInvariant, [HistoryNext]_<<vars, seen, said>> PROVE FilesInvariant'
    OBVIOUS
  <2>1. [Next]_vars
    BY DEF HistoryNext
  <2>2. TypeOK' /\ Stages'
    BY <2>1, TypeStep DEF FilesInvariant
  <2>3. Placed' /\ Gathers
    BY <2>1, <2>2, PlacesStep DEF FilesInvariant
  <2>4. CalmRight'
    <3> SUFFICES ASSUME seen' \subseteq {"stale", "failed", "wordless", "alike"} PROVE Right'
      BY DEF CalmRight
    <3>1. CASE HistoryNext
      <4>1. /\ seen \subseteq {"stale", "failed", "wordless", "alike"} /\ ~Late /\ ~Moved /\ ~Unheard /\ ~Crossed /\ Next
            /\ said' = said \cup ToldOf(transcript')
        BY <3>1 DEF HistoryNext, ToldOf
      <4> QED
        BY <2>2, <2>3, <4>1, RightStep DEF FilesInvariant, CalmRight
    <3>2. CASE UNCHANGED <<vars, seen, said>>
      <4>1. UNCHANGED <<transcript, queue, events, prompting, pending, session, file, home, changing, autos, manual, said>>
        BY <3>2 DEF vars, agent, eventQueue, saved, compactions
      <4>2. Right
        BY <3>2 DEF FilesInvariant, CalmRight
      <4>3. OwnFiles(file', home') /\ Homed'
        BY <4>1, <4>2 DEF Right, OwnFiles, Homed, Everywhere, Queued, Unwritten, Prompted, Kept
      <4>4. KeepsSaid' /\ Accounts'
        BY <4>1, <4>2 DEF Right, KeepsSaid, Accounts, Accounted, Unwritten
      <4> QED
        BY <4>3, <4>4 DEF Right, OwnFiles
    <3> QED
      BY <3>1, <3>2
  <2> QED
    BY <2>2, <2>3, <2>4 DEF FilesInvariant
<1>3. FilesInvariant => CalmFilesAreRight
  BY RightFiles DEF FilesInvariant, CalmRight, CalmFilesAreRight
<1> QED
  BY <1>1, <1>2, <1>3, PTL DEF HistorySpec
=============================================================================
