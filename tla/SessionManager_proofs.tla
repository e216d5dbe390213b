------------------------ MODULE SessionManager_proofs ------------------------
(***************************************************************************)
(* Proofs about SessionManager: its type invariant, that a reload gives    *)
(* what is in memory once an assistant has spoken, labels included, and    *)
(* that entries refer to entries of their own session.                     *)
(***************************************************************************)
EXTENDS SessionManager, FiniteSetTheorems, TLAPS

UniqueIn(E)   == \A e, g \in E : e.id = g.id => e = g
MadeIn(E, n)  == \A e \in E : e.id <= n
RefersIn(E, M) ==
  \A e \in E : /\ e.parent < e.id /\ e.about < e.id
               /\ e.parent \in Ids(E) \cup {0} \cup M
               /\ e.type # "stray" => e.about \in Ids(E) \cup {0} \cup M

\* A set of entries that is cut off nowhere from a root.
Whole(B) == \A e \in B : e.parent \in Ids(B) \cup {0}

\* What is kept of a compacted path is on every whole path that leads to the compaction,
\* unless that has strayed.
\* Without this a fork, which takes a path out of its tree, could leave it behind.
KeptIn(E, M) ==
  \A B \in SUBSET E : Whole(B) =>
    \A e \in B : ~IsLabel(e) /\ e.type # "stray" => e.about \in Ids(B) \cup {0} \cup (M \ Ids(E))

\* What holds of a file holds of memory when the file is loaded.
FileHolds(E, M, n) == UniqueIn(E) /\ MadeIn(E, n) /\ RefersIn(E, M) /\ KeptIn(E, M)

FilesHold ==
  \A f \in Files : /\ FileHolds(stored[f], missing[f], made)
                   /\ f \notin headers => stored[f] = {}

\* ReloadRestores does not speak of a session without an assistant that counts as
\* flushed: the next entry is then appended, and nothing else must be waiting.
Saved ==
  /\ stored[sessionFile] \subseteq entries
  /\ flushed \/ HasAssistant(entries) =>
       \A e \in entries : e \in stored[sessionFile] \/ e.id \in missing[sessionFile]

\* The labels are those the entries set, unless one of those failed to be written.
LabelsHold ==
  Ids({e \in entries : IsLabel(e)}) \cap missing[sessionFile] = {}
  => labelsById = LabelledBy(entries)

Inv ==
  /\ TypeOK
  /\ leafId \in Ids(entries) \cup {0}
  /\ FileHolds(entries, missing[sessionFile], made)
  /\ FilesHold
  /\ Saved
  /\ LabelsHold

-----------------------------------------------------------------------------
(* Numbers and paths *)

\* A set of numbers that is not empty has a least one.
LEMMA LeastNumber ==
  ASSUME NEW T \in SUBSET Nat, T # {}
  PROVE  \E m \in T : \A k \in T : m <= k
<1> DEFINE I == {1..k : k \in T}
<1>1. I \subseteq FiniteSubsetsOf(Nat) /\ I # {}
  <2>1. \A k \in T : 1..k \subseteq Nat /\ IsFiniteSet(1..k)
    BY FS_Interval
  <2> QED
    BY <2>1 DEF FiniteSubsetsOf
<1>2. PICK i \in I : \A j \in I : ~ (<<j, i>> \in StrictSubsetOrdering(Nat))
  <2> HIDE DEF I
  <2> QED
    BY <1>1, FS_StrictSubsetOrderingWellFounded, WFMin
<1>3. PICK m \in T : i = 1..m
  OBVIOUS
<1>4. ASSUME NEW k \in T, k < m PROVE FALSE
  <2>1. 1..k \subseteq Nat /\ 1..m \subseteq Nat
    OBVIOUS
  <2>2. 1..k \subseteq 1..m /\ m \in 1..m /\ m \notin 1..k
    BY <1>4
  <2>3. 1..k # 1..m
    BY <2>2
  <2>4. <<1..k, 1..m>> \in StrictSubsetOrdering(Nat)
    BY <2>1, <2>2, <2>3 DEF StrictSubsetOrdering
  <2> QED
    BY <1>2, <1>3, <2>4
<1>5. \A k \in T : m <= k
  BY <1>4
<1> QED
  BY <1>5

\* Entries that are not none have a last one.
LEMMA LastEntry ==
  ASSUME NEW E \in SUBSET Entry, E # {}
  PROVE  \E e \in E : \A g \in E : g.id <= e.id
<1> DEFINE T == {MaxEntries - e.id : e \in E}
<1>1. MaxEntries \in Nat /\ \A e \in E : e.id \in Nat /\ MaxEntries - e.id \in Nat
  BY SessionAssumption DEF Entry, Id
<1>2. T \in SUBSET Nat /\ T # {}
  BY <1>1
<1>3. PICK m \in T : \A k \in T : m <= k
  <2> HIDE DEF T
  <2> QED
    BY <1>2, LeastNumber
<1>4. PICK e \in E : m = MaxEntries - e.id
  OBVIOUS
<1>5. ASSUME NEW g \in E PROVE g.id <= e.id
  <2>1. m <= MaxEntries - g.id
    BY <1>3
  <2> HIDE DEF T
  <2> QED
    BY <1>1, <1>4, <2>1
<1> QED
  BY <1>5

\* Every entry but that of j has a child.
Ascends(A, j) == \A x \in A : /\ x.parent < x.id
                              /\ x.id = j \/ \E y \in A : y.parent = x.id

\* A whole set holds every path to an entry of its own.
LEMMA WholeContains ==
  ASSUME NEW A \in SUBSET Entry, NEW B \in SUBSET Entry, NEW j, Ascends(A, j), j \in Ids(B),
         Whole(B), UniqueIn(A \cup B)
  PROVE  A \subseteq B
<1> SUFFICES ASSUME A \ B # {} PROVE FALSE
  OBVIOUS
<1>1. PICK x \in A \ B : \A g \in A \ B : g.id <= x.id
  BY LastEntry
<1>2. x.id # j
  <2>1. PICK g \in B : g.id = j
    BY DEF Ids
  <2> QED
    BY <2>1 DEF UniqueIn
<1>3. PICK y \in A : y.parent = x.id
  BY <1>2 DEF Ascends
<1>4. y.id \in Nat /\ x.id \in Nat /\ x.id # 0 /\ y.parent < y.id
  BY DEF Entry, Id, Ascends
<1>5. y \in B
  BY <1>1, <1>3, <1>4
<1>6. PICK g \in B : g.id = x.id
  BY <1>3, <1>4, <1>5 DEF Whole, Ids
<1> QED
  BY <1>6 DEF UniqueIn

\* A path with a root is whole.
LEMMA RootedIsWhole ==
  ASSUME NEW P \in SUBSET Entry, NEW j, Ascends(P, j), UniqueIn(P), Rooted(P)
  PROVE  Whole(P)
<1> DEFINE Z == {x \in P : \E B \in SUBSET P : x \in B /\ Whole(B)}
<1>1. PICK r \in P : r.parent = 0
  BY DEF Rooted
<1>2. r \in Z
  <2>1. {r} \in SUBSET P /\ r \in {r} /\ Whole({r})
    BY <1>1 DEF Whole
  <2> QED
    BY <2>1
<1>3. PICK z \in Z : \A g \in Z : g.id <= z.id
  <2>1. Z \in SUBSET Entry /\ Z # {}
    BY <1>2
  <2> HIDE DEF Z
  <2> QED
    BY <2>1, LastEntry
<1>4. PICK B \in SUBSET P : z \in B /\ Whole(B)
  OBVIOUS
<1>5. z.id = j
  <2> SUFFICES ASSUME z.id # j PROVE FALSE
    OBVIOUS
  <2>1. PICK y \in P : y.parent = z.id
    BY DEF Ascends
  <2>2. Whole(B \cup {y}) /\ B \cup {y} \in SUBSET P /\ y \in B \cup {y}
    BY <1>4, <2>1 DEF Whole, Ids
  <2>3. y \in Z
    BY <2>2
  <2>4. y.id \in Nat /\ z.id \in Nat /\ z.id < y.id
    BY <2>1 DEF Entry, Id, Ascends
  <2> QED
    BY <1>3, <2>3, <2>4
<1>6. P \subseteq B
  <2>1. j \in Ids(B) /\ B \in SUBSET Entry /\ P \cup B = P
    BY <1>4, <1>5 DEF Ids
  <2> QED
    BY <1>4, <2>1, WholeContains
<1>7. P = B
  BY <1>6
<1> QED
  BY <1>4, <1>7

-----------------------------------------------------------------------------
(* What holds of a file *)

\* An entry of a set has its id among the set's ids.
LEMMA IdsOf == \A E : \A e \in E : e.id \in Ids(E)
BY DEF Ids

\* An empty file is as it should be.
LEMMA EmptyHolds == \A M, n : FileHolds({}, M, n)
BY DEF FileHolds, UniqueIn, MadeIn, RefersIn, KeptIn, Whole

\* What a file refers to may only grow, but for what is in the file itself.
LEMMA HoldsLater ==
  ASSUME NEW E \in SUBSET Entry, NEW M, NEW N, M \ Ids(E) \subseteq N, NEW m \in Nat, NEW n \in Nat,
         m <= n, FileHolds(E, M, m)
  PROVE  FileHolds(E, N, n)
<1>1. \A e \in E : e.id \in Nat
  BY DEF Entry, Id
<1>2. UniqueIn(E) /\ MadeIn(E, n)
  BY <1>1 DEF FileHolds, UniqueIn, MadeIn
<1>3. RefersIn(E, N)
  BY DEF FileHolds, RefersIn
<1>4. KeptIn(E, N)
  BY DEF FileHolds, KeptIn
<1> QED
  BY <1>2, <1>3, <1>4 DEF FileHolds

\* A new entry keeps what holds of a set, if what it refers to is known there or missing,
\* and what it keeps is on the path A it is put behind.
LEMMA HoldsWithNew ==
  ASSUME NEW E \in SUBSET Entry, NEW M, NEW n \in Nat, FileHolds(E, M, n),
         NEW e \in Entry, e.id = n + 1, e.parent <= n, e.about <= n,
         e.parent \in Ids(E) \cup {0} \cup M,
         e.type # "stray" => e.about \in Ids(E) \cup {0} \cup M,
         NEW A \in SUBSET Entry, Ascends(A, e.parent), UniqueIn(A \cup E),
         IsLabel(e) \/ e.type = "stray" \/ e.about = 0 \/ (e.about \in Ids(A) /\ e.parent # 0)
  PROVE  FileHolds(E \cup {e}, M, n + 1)
<1>1. \A g \in E : /\ g.id \in Nat /\ g.id <= n /\ g.parent < g.id /\ g.about < g.id
                   /\ g.parent \in Nat /\ g.about \in Nat
  BY DEF Entry, Id, FileHolds, MadeIn, RefersIn
<1>2. UniqueIn(E \cup {e})
  BY <1>1 DEF FileHolds, UniqueIn
<1>3. MadeIn(E \cup {e}, n + 1)
  BY <1>1 DEF MadeIn
<1>4. Ids(E \cup {e}) = Ids(E) \cup {n + 1}
  BY DEF Ids
<1>5. e.parent \in Nat /\ e.about \in Nat /\ e.parent < e.id /\ e.about < e.id
  BY DEF Entry, Id
<1>6. RefersIn(E \cup {e}, M)
  BY <1>1, <1>4, <1>5 DEF FileHolds, RefersIn
<1>7. KeptIn(E \cup {e}, M)
  <2> SUFFICES ASSUME NEW B \in SUBSET (E \cup {e}), Whole(B), NEW x \in B, ~IsLabel(x), x.type # "stray"
               PROVE  x.about \in Ids(B) \cup {0} \cup (M \ Ids(E \cup {e}))
    BY DEF KeptIn
  <2> DEFINE C == B \ {e}
  <2>1. C \in SUBSET E /\ Ids(C) \subseteq Ids(B)
    BY DEF Ids
  <2>2. ASSUME NEW h \in Ids(B), h <= n PROVE h \in Ids(C)
    BY <2>2 DEF Ids
  <2>3. Whole(C)
    <3> SUFFICES ASSUME NEW g \in C PROVE g.parent \in Ids(C) \cup {0}
      BY DEF Whole
    <3>1. g.parent \in Ids(B) \cup {0} /\ g.parent <= n
      BY <1>1, <2>1 DEF Whole
    <3> QED
      BY <2>2, <3>1
  <2> HIDE DEF C
  <2>4. CASE x # e
    <3>1. x \in C /\ x.about # n + 1
      BY <1>1, <2>4 DEF C
    <3>2. x.about \in Ids(C) \cup {0} \cup (M \ Ids(E))
      BY <2>1, <2>3, <3>1 DEF FileHolds, KeptIn
    <3> QED
      BY <1>4, <2>1, <3>1, <3>2
  <2>5. CASE x = e /\ e.about # 0
    <3>1. e.about \in Ids(A) /\ e.parent # 0
      BY <2>5
    <3>2. e.parent \in Ids(C)
      BY <2>2, <2>5, <3>1 DEF Whole
    <3>3. UniqueIn(A \cup C) /\ C \in SUBSET Entry
      BY <2>1 DEF UniqueIn
    <3>4. A \subseteq C
      BY <2>3, <3>2, <3>3, WholeContains
    <3> QED
      BY <2>1, <2>5, <3>1, <3>4 DEF Ids
  <2> QED
    BY <2>4, <2>5
<1> QED
  BY <1>2, <1>3, <1>6, <1>7 DEF FileHolds

\* What carries a label after one more entry.
LEMMA LabelledMore ==
  ASSUME NEW E \in SUBSET Entry, NEW n \in Nat, MadeIn(E, n), NEW e \in Entry, e.id = n + 1
  PROVE  /\ ~IsLabel(e) => LabelledBy(E \cup {e}) = LabelledBy(E)
         /\ (e.type = "label" /\ e.about \in Id) => LabelledBy(E \cup {e}) = LabelledBy(E) \cup {e.about}
         /\ e.type = "unlabel" => LabelledBy(E \cup {e}) = LabelledBy(E) \ {e.about}
<1> DEFINE Labels(F, t) == \E g \in F : /\ g.type = "label" /\ g.about = t
                                        /\ \A f \in F : IsLabel(f) /\ f.about = t => f.id <= g.id
<1>1. \A g \in E : g.id \in Nat /\ g.id <= n
  BY DEF Entry, Id, MadeIn
<1>2. ASSUME NEW t, ~IsLabel(e) \/ e.about # t PROVE Labels(E \cup {e}, t) <=> Labels(E, t)
  BY <1>2 DEF IsLabel
<1>3. Labels(E \cup {e}, e.about) <=> e.type = "label" \/ (~IsLabel(e) /\ Labels(E, e.about))
  <2>1. CASE ~IsLabel(e)
    BY <1>2, <2>1 DEF IsLabel
  <2>2. CASE e.type = "label"
    BY <1>1, <2>2
  <2>3. CASE e.type = "unlabel"
    <3>1. ASSUME NEW g \in E \cup {e}, g.type = "label" PROVE ~(e.id <= g.id)
      BY <1>1, <2>3, <3>1
    <3>2. IsLabel(e)
      BY <2>3 DEF IsLabel
    <3> QED
      BY <2>3, <3>1, <3>2
  <2> QED
    BY <2>1, <2>2, <2>3 DEF IsLabel
<1>4. LabelledBy(E) = {t \in Id : Labels(E, t)} /\ LabelledBy(E \cup {e}) = {t \in Id : Labels(E \cup {e}, t)}
  BY DEF LabelledBy
<1> HIDE DEF Labels
<1>5. CASE ~IsLabel(e)
  BY <1>2, <1>4, <1>5 DEF IsLabel
<1>6. CASE e.type = "label"
  BY <1>2, <1>3, <1>4, <1>6 DEF IsLabel
<1>7. CASE e.type = "unlabel"
  BY <1>2, <1>3, <1>4, <1>7 DEF IsLabel
<1> QED
  BY <1>5, <1>6, <1>7 DEF IsLabel

\* The leaf after a file has been read is one of its entries.
LEMMA BuildIndex ==
  ASSUME _buildIndex, entries' \in SUBSET Entry
  PROVE  /\ leafId' \in Ids(entries') \cup {0} /\ leafId' \in Id \cup {0}
         /\ labelsById' \subseteq Id
<1>1. leafId' \in Ids(entries') \cup {0}
  BY DEF _buildIndex, Ids
<1>2. \A e \in entries' : e.id \in Id
  BY DEF Entry
<1> QED
  BY <1>1, <1>2 DEF _buildIndex, LabelledBy, Ids

\* Names for what a step has to establish, with the files already dealt with.
LEMMA Assemble ==
  ASSUME entries' \in SUBSET Entry, leafId' \in Id \cup {0}, leafId' \in Ids(entries') \cup {0},
         labelsById' \subseteq Id, flushed' \in BOOLEAN, sessionFile' \in Files,
         headers' \subseteq Files, torn' \subseteq Files, stored' \in [Files -> SUBSET Entry],
         tears' \in Nat, made' \in 0..MaxEntries, missing' \in [Files -> SUBSET Id],
         FileHolds(entries', missing'[sessionFile'], made'), FilesHold', Saved', LabelsHold'
  PROVE  Inv'
BY DEF Inv, TypeOK, FileHolds, UniqueIn

-----------------------------------------------------------------------------
(* Appending *)

\* An append sets and clears labels just as reading its entry would.
LEMMA LabelsStep ==
  ASSUME Inv, NEW e \in Entry, e.id = made + 1, NEW ok \in BOOLEAN,
         IsLabel(e) => e.about \in Id,
         labelsById' = IF ~ok \/ ~IsLabel(e) THEN labelsById
                       ELSE IF e.type = "label" THEN labelsById \cup {e.about}
                       ELSE labelsById \ {e.about},
         entries' = entries \cup {e}, sessionFile' = sessionFile, UniqueIn(entries'),
         missing[sessionFile] \ Ids({g \in entries' : ~IsLabel(g)}) \subseteq missing'[sessionFile],
         ok \/ e.id \in missing'[sessionFile]
  PROVE  LabelsHold'
<1> DEFINE Labels(E) == {g \in E : IsLabel(g)}
<1> SUFFICES ASSUME Ids(Labels(entries')) \cap missing'[sessionFile] = {}
             PROVE  labelsById' = LabelledBy(entries')
  BY DEF LabelsHold
<1>1. ASSUME NEW g \in Labels(entries) PROVE g.id \notin missing[sessionFile]
  <2>1. g \in Labels(entries') /\ g.id \in Ids(Labels(entries'))
    BY DEF Ids
  <2>2. g.id \notin Ids({h \in entries' : ~IsLabel(h)})
    BY <2>1 DEF Ids, UniqueIn
  <2> QED
    BY <2>1, <2>2
<1>2. labelsById = LabelledBy(entries)
  <2>1. Ids(Labels(entries)) \cap missing[sessionFile] = {}
    BY <1>1 DEF Ids
  <2> QED
    BY <2>1 DEF Inv, LabelsHold
<1>3. IsLabel(e) => ok
  BY DEF Ids
<1>4. entries \in SUBSET Entry /\ made \in Nat /\ MadeIn(entries, made)
  BY SessionAssumption DEF Inv, TypeOK, FileHolds
<1> QED
  BY <1>2, <1>3, <1>4, LabelledMore DEF IsLabel

\* An append keeps the invariant, whether or not the write succeeds.  A is the path a
\* compaction is put behind.
LEMMA AppendStep ==
  ASSUME Inv, NEW e \in Entry, e.id = made + 1,
         e.parent \in Ids(entries) \cup {0}, e.about <= made,
         e.type # "stray" => e.about \in Ids(entries) \cup {0},
         NEW A \in SUBSET entries, Ascends(A, e.parent),
         IsLabel(e) \/ e.type = "stray" \/ e.about = 0 \/ (e.about \in Ids(A) /\ e.parent # 0),
         IsLabel(e) => e.about \in Id,
         NEW ok \in BOOLEAN, _appendEntry(e, ok), labelsById' \subseteq Id,
         labelsById' = IF ~ok \/ ~IsLabel(e) THEN labelsById
                       ELSE IF e.type = "label" THEN labelsById \cup {e.about}
                       ELSE labelsById \ {e.about}
  PROVE  Inv'
<1> DEFINE s == sessionFile
<1>1. /\ entries' = entries \cup {e} /\ leafId' = e.id /\ made' = made + 1 /\ sessionFile' = s
      /\ made' \in 0..MaxEntries /\ made \in Nat /\ s \in Files
  BY SessionAssumption DEF _appendEntry, Inv, TypeOK
<1>2. /\ entries \in SUBSET Entry /\ stored \in [Files -> SUBSET Entry]
      /\ missing \in [Files -> SUBSET Id] /\ headers \subseteq Files /\ torn \subseteq Files
      /\ tears \in Nat /\ flushed \in BOOLEAN
  BY DEF Inv, TypeOK
<1>3. /\ FileHolds(entries, missing[s], made) /\ FilesHold /\ Saved
  BY DEF Inv
<1>13. e.parent <= made /\ e.about <= made /\ UniqueIn(entries) /\ A \in SUBSET Entry
  <2>1. \A h \in Ids(entries) : h <= made
    BY <1>3 DEF FileHolds, MadeIn, Ids
  <2> QED
    BY <1>1, <1>2, <1>3, <2>1 DEF FileHolds
<1>4. FileHolds(entries', missing[s], made')
  <2>1. UniqueIn(A \cup entries)
    BY <1>13 DEF UniqueIn
  <2> QED
    BY <1>1, <1>2, <1>3, <1>13, <2>1, HoldsWithNew
<1>5. \A f \in Files : FileHolds(stored[f], missing[f], made')
  <2> SUFFICES ASSUME NEW f \in Files PROVE FileHolds(stored[f], missing[f], made')
    OBVIOUS
  <2>1. FileHolds(stored[f], missing[f], made)
    BY <1>3 DEF FilesHold
  <2>2. stored[f] \in SUBSET Entry /\ made' \in Nat /\ made <= made'
    BY <1>1, <1>2
  <2> QED
    BY <1>1, <2>1, <2>2, HoldsLater
<1>6. e.id \in Id /\ \A g \in entries' : g.id \in Id
  BY <1>1, <1>2 DEF Entry
<1>7. leafId' \in Ids(entries') /\ leafId' \in Id
  BY <1>1, <1>6, IdsOf
<1>8. _persist(e, ok)
  BY DEF _appendEntry
<1>14. UniqueIn(entries')
  BY <1>4 DEF FileHolds
<1>9. CASE ~HasAssistant(entries')
  <2>1. flushed' = FALSE /\ UNCHANGED <<disk, missing>>
    BY <1>8, <1>9 DEF _persist
  <2>2. FilesHold'
    BY <1>3, <1>5, <2>1 DEF FilesHold, disk
  <2>3. Saved'
    BY <1>1, <1>3, <1>9, <2>1 DEF Saved, disk
  <2>4. ok /\ missing' = missing
    BY <1>8, <1>9 DEF _persist
  <2>5. LabelsHold'
    BY <1>1, <1>14, <2>4, LabelsStep
  <2> QED
    BY <1>1, <1>2, <1>4, <1>7, <2>1, <2>2, <2>3, <2>5, Assemble DEF disk
<1>10. CASE HasAssistant(entries') /\ ~ok
  <2>1. /\ writeFails
        /\ missing' = [missing EXCEPT ![s] = @ \cup Ids(entries' \ stored[s])]
        /\ UNCHANGED <<headers, stored, flushed>>
    BY <1>8, <1>10 DEF _persist, writeFails, Miss
  <2>2. torn' \subseteq Files /\ tears' \in Nat
    BY <1>1, <1>2, <2>1 DEF writeFails
  <2>3. Ids(entries' \ stored[s]) \subseteq Id
    BY <1>6 DEF Ids
  <2>4. missing' \in [Files -> SUBSET Id] /\ \A f \in Files : missing[f] \subseteq missing'[f]
    BY <1>1, <1>2, <2>1, <2>3
  <2>5. FileHolds(entries', missing'[s], made')
    BY <1>1, <1>2, <1>4, <2>4, HoldsLater
  <2>6. FilesHold'
    <3> SUFFICES ASSUME NEW f \in Files
                 PROVE FileHolds(stored[f], missing'[f], made') /\ (f \notin headers => stored[f] = {})
      BY <2>1 DEF FilesHold
    <3>1. FileHolds(stored[f], missing[f], made') /\ stored[f] \in SUBSET Entry /\ made' \in Nat
      BY <1>1, <1>2, <1>5
    <3>2. FileHolds(stored[f], missing'[f], made')
      BY <2>4, <3>1, HoldsLater
    <3> QED
      BY <1>3, <3>2 DEF FilesHold
  <2>7. Saved'
    <3>1. stored[s] \subseteq entries'
      BY <1>1, <1>3 DEF Saved
    <3>2. ASSUME NEW g \in entries', g \notin stored[s] PROVE g.id \in missing'[s]
      BY <1>1, <1>2, <2>1, <3>2 DEF Ids
    <3> QED
      BY <1>1, <2>1, <3>1, <3>2 DEF Saved
  <2>8. LabelsHold'
    <3>1. e \in entries' \ stored[s]
      <4>1. \A g \in stored[s] : g.id <= made
        BY <1>1, <1>3 DEF FilesHold, FileHolds, MadeIn
      <4> QED
        BY <1>1, <4>1
    <3>2. e.id \in missing'[s]
      BY <1>1, <1>2, <2>1, <3>1, IdsOf
    <3> QED
      BY <1>1, <1>14, <2>4, <3>2, LabelsStep
  <2> QED
    BY <1>1, <1>2, <1>7, <2>1, <2>2, <2>4, <2>5, <2>6, <2>7, <2>8, Assemble
<1>11. CASE HasAssistant(entries') /\ ok /\ ~flushed
  <2>1. /\ headers' = headers \cup {s} /\ stored' = [stored EXCEPT ![s] = entries']
        /\ torn' = torn \ {s} /\ flushed' = TRUE /\ tears' = tears
        /\ missing' = [missing EXCEPT ![s] = @ \ Ids({g \in entries' : ~IsLabel(g)})]
    BY <1>8, <1>11 DEF _persist, rewriteFile
  <2>2. /\ missing' \in [Files -> SUBSET Id] /\ stored' \in [Files -> SUBSET Entry]
        /\ headers' \subseteq Files /\ torn' \subseteq Files
        /\ entries' \in SUBSET Entry
    BY <1>1, <1>2, <2>1
  <2>3. Ids({g \in entries' : ~IsLabel(g)}) \subseteq Ids(entries')
    BY DEF Ids
  <2>4. FileHolds(entries', missing'[s], made')
    <3>1. missing[s] \ Ids(entries') \subseteq missing'[s] /\ made' \in Nat /\ made' <= made'
      <4>1. missing'[s] = missing[s] \ Ids({g \in entries' : ~IsLabel(g)})
        BY <1>1, <1>2, <2>1
      <4>2. made' \in Nat /\ made' <= made'
        BY <1>1
      <4> QED
        BY <2>3, <4>1, <4>2
    <3> QED
      BY <1>4, <2>2, <3>1, HoldsLater
  <2>5. FilesHold'
    <3> SUFFICES ASSUME NEW f \in Files
                 PROVE FileHolds(stored'[f], missing'[f], made') /\ (f \notin headers' => stored'[f] = {})
      BY DEF FilesHold
    <3>1. CASE f = s
      BY <1>1, <1>2, <2>1, <2>4, <3>1
    <3>2. CASE f # s
      BY <1>2, <1>3, <1>5, <2>1, <3>2 DEF FilesHold
    <3> QED
      BY <3>1, <3>2
  <2>6. Saved'
    BY <1>1, <1>2, <2>1 DEF Saved
  <2>7. LabelsHold'
    <3>1. missing[s] \ Ids({g \in entries' : ~IsLabel(g)}) \subseteq missing'[s]
      BY <1>1, <1>2, <2>1
    <3> QED
      BY <1>1, <1>11, <1>14, <3>1, LabelsStep
  <2> QED
    BY <1>1, <1>7, <1>2, <2>1, <2>2, <2>4, <2>5, <2>6, <2>7, Assemble
<1>12. CASE HasAssistant(entries') /\ ok /\ flushed
  <2>1. appendFile(e) /\ flushed' = TRUE /\ tears' = tears
    BY <1>8, <1>12 DEF _persist
  <2>2. headers' = headers /\ torn' = torn \ {s} /\ torn' \subseteq Files
    BY <1>2, <2>1 DEF appendFile
  <2>3. \A g \in entries : g \in stored[s] \/ g.id \in missing[s]
    BY <1>3, <1>12 DEF Saved
  <2>4. CASE s \in headers \ torn
    <3>1. stored' = [stored EXCEPT ![s] = @ \cup {e}] /\ missing' = missing
      BY <2>1, <2>4 DEF appendFile
    <3>2. /\ stored' \in [Files -> SUBSET Entry] /\ stored'[s] = stored[s] \cup {e}
          /\ stored[s] \in SUBSET Entry
      BY <1>1, <1>2, <3>1
    <3>3. /\ e.parent \in Ids(stored[s]) \cup {0} \cup missing[s]
          /\ e.type # "stray" => e.about \in Ids(stored[s]) \cup {0} \cup missing[s]
      BY <2>3 DEF Ids
    <3>4. FileHolds(stored'[s], missing[s], made')
      <4>1. FileHolds(stored[s], missing[s], made)
        BY <1>1, <1>3 DEF FilesHold
      <4>2. UniqueIn(A \cup stored[s])
        BY <1>3, <1>13 DEF UniqueIn, Saved
      <4>3. FileHolds(stored[s] \cup {e}, missing[s], made + 1)
        BY <1>1, <1>13, <3>2, <3>3, <4>1, <4>2, HoldsWithNew
      <4> QED
        BY <1>1, <3>2, <4>3
    <3>5. FilesHold'
      <4> SUFFICES ASSUME NEW f \in Files
                   PROVE FileHolds(stored'[f], missing'[f], made') /\ (f \notin headers' => stored'[f] = {})
        BY DEF FilesHold
      <4>1. CASE f = s
        BY <2>2, <2>4, <3>1, <3>4, <4>1
      <4>2. CASE f # s
        BY <1>2, <1>3, <1>5, <2>2, <3>1, <4>2 DEF FilesHold
      <4> QED
        BY <4>1, <4>2
    <3>6. Saved'
      <4>1. stored[s] \subseteq entries
        BY <1>3 DEF Saved
      <4> QED
        BY <1>1, <2>3, <3>1, <3>2, <4>1 DEF Saved
    <3>7. LabelsHold'
      BY <1>1, <1>12, <1>14, <3>1, LabelsStep
    <3> QED
      BY <1>1, <1>2, <1>4, <1>7, <2>1, <2>2, <3>1, <3>2, <3>5, <3>6, <3>7, Assemble
  <2>5. CASE s \notin headers \ torn
    <3>1. missing' = [missing EXCEPT ![s] = @ \cup {e.id}] /\ stored' = stored
      BY <2>1, <2>5 DEF appendFile, Miss
    <3>2. /\ missing' \in [Files -> SUBSET Id] /\ \A f \in Files : missing[f] \subseteq missing'[f]
          /\ e.id \in missing'[s]
      BY <1>1, <1>2, <1>6, <3>1
    <3>3. FileHolds(entries', missing'[s], made')
      BY <1>1, <1>2, <1>4, <3>2, HoldsLater
    <3>4. FilesHold'
      <4> SUFFICES ASSUME NEW f \in Files
                   PROVE FileHolds(stored[f], missing'[f], made') /\ (f \notin headers => stored[f] = {})
        BY <2>2, <3>1 DEF FilesHold
      <4>1. FileHolds(stored[f], missing[f], made') /\ stored[f] \in SUBSET Entry /\ made' \in Nat
        BY <1>1, <1>2, <1>5
      <4>2. FileHolds(stored[f], missing'[f], made')
        BY <3>2, <4>1, HoldsLater
      <4> QED
        BY <1>3, <4>2 DEF FilesHold
    <3>5. Saved'
      <4>1. stored[s] \subseteq entries
        BY <1>3 DEF Saved
      <4> QED
        BY <1>1, <2>3, <3>1, <3>2, <4>1 DEF Saved
    <3>6. LabelsHold'
      BY <1>1, <1>12, <1>14, <3>2, LabelsStep
    <3> QED
      BY <1>1, <1>2, <1>7, <2>1, <2>2, <3>1, <3>2, <3>3, <3>4, <3>5, <3>6, Assemble
  <2> QED
    BY <2>4, <2>5
<1> QED
  BY <1>2, <1>9, <1>10, <1>11, <1>12

\* Every kind of append makes a new entry behind the leaf, or where a summary is put.
LEMMA AppendsStep ==
  ASSUME Inv, NEW ok \in BOOLEAN, Append(ok) PROVE Inv'
<1>1. /\ leafId \in Ids(entries) \cup {0} /\ leafId \in Id \cup {0} /\ labelsById \subseteq Id
      /\ made \in Nat /\ Ids(entries) \subseteq Id /\ entries \in SUBSET Entry /\ 0 \notin Id
      /\ \A x \in entries : x.parent < x.id
      /\ Ids(entries) \subseteq 0..made /\ made <= MaxEntries /\ 0..made \subseteq Id \cup {0}
  BY SessionAssumption DEF Inv, TypeOK, Ids, Entry, Id, FileHolds, RefersIn, MadeIn
<1> DEFINE Labels(type, about) == IF ~ok \/ type \notin {"label", "unlabel"} THEN labelsById
                                  ELSE IF type = "label" THEN labelsById \cup {about}
                                  ELSE labelsById \ {about}
<1>2. ASSUME NEW p \in Ids(entries) \cup {0}, NEW type \in Type, NEW about \in 0..made,
             type # "stray" => about \in Ids(entries) \cup {0},
             NEW A \in SUBSET entries, Ascends(A, p),
             type \in {"label", "unlabel"} \/ type = "stray" \/ about = 0 \/ (about \in Ids(A) /\ p # 0),
             type \in {"label", "unlabel"} => about \in Ids(entries),
             _appendEntry(New(p, type, about), ok), labelsById' = Labels(type, about)
      PROVE  Inv'
  <2>1. made + 1 \in Id
    BY <1>1, <1>2, SessionAssumption DEF _appendEntry, Id
  <2> DEFINE e == New(p, type, about)
  <2>2. e \in Entry /\ e.id = made + 1 /\ e.parent = p /\ e.about = about /\ e.type = type
    BY <1>1, <2>1 DEF New, Entry
  <2>3. labelsById' \subseteq Id
    BY <1>1, <1>2
  <2>4. IsLabel(e) <=> type \in {"label", "unlabel"}
    BY <2>2 DEF IsLabel
  <2> HIDE DEF e
  <2>5. labelsById' = IF ~ok \/ ~IsLabel(e) THEN labelsById
                      ELSE IF e.type = "label" THEN labelsById \cup {e.about}
                      ELSE labelsById \ {e.about}
    BY <1>2, <2>2, <2>4
  <2>6. _appendEntry(e, ok)
    BY <1>2 DEF e
  <2>7. /\ e.parent \in Ids(entries) \cup {0} /\ e.about <= made
        /\ e.type # "stray" => e.about \in Ids(entries) \cup {0}
        /\ IsLabel(e) \/ e.type = "stray" \/ e.about = 0 \/ (e.about \in Ids(A) /\ e.parent # 0)
        /\ Ascends(A, e.parent)
    BY <1>1, <1>2, <2>2, <2>4
  <2>8. IsLabel(e) => e.about \in Id
    BY <1>1, <1>2, <2>2, <2>4
  <2> QED
    BY <2>2, <2>3, <2>5, <2>6, <2>7, <2>8, AppendStep
<1>7. Ascends({}, 0) /\ \A p : Ascends({}, p)
  BY DEF Ascends
<1>3. ASSUME NEW type \in {"assistant", "other"}, appendMessage(type, ok) PROVE Inv'
  <2>1. _appendEntry(New(leafId, type, 0), ok) /\ labelsById' = labelsById
    BY <1>3 DEF appendMessage
  <2>2. type \in Type /\ type \notin {"label", "unlabel"}
    BY DEF Type
  <2> QED
    BY <1>1, <1>2, <1>7, <2>1, <2>2
<1>4. ASSUME NEW kept \in 1..made, appendCompaction(kept, ok) PROVE Inv'
  <2>1. CASE OnPath(kept)
    <3>1. _appendEntry(New(leafId, "compaction", kept), ok) /\ labelsById' = labelsById
      BY <1>4, <2>1 DEF appendCompaction
    <3>2. "compaction" \in Type
      BY DEF Type
    <3>3. PICK P \in SUBSET entries : IsBranch(P, leafId) /\ kept \in Ids(P)
      BY <2>1 DEF OnPath
    <3>4. Ascends(P, leafId)
      BY <1>1, <3>3 DEF IsBranch, Ascends
    <3>5. leafId \in Ids(entries) /\ leafId # 0 /\ kept \in Ids(entries) /\ kept \in 0..made
      BY <1>1, <1>4, <3>3 DEF IsBranch, Ids
    <3> QED
      BY <1>1, <1>2, <3>1, <3>2, <3>3, <3>4, <3>5
  <2>2. CASE ~OnPath(kept)
    <3>1. _appendEntry(New(leafId, "stray", kept), ok) /\ labelsById' = labelsById
      BY <1>4, <2>2 DEF appendCompaction
    <3>2. "stray" \in Type /\ kept \in 0..made
      BY <1>1, <1>4 DEF Type
    <3> QED
      BY <1>1, <1>2, <1>7, <3>1, <3>2
  <2> QED
    BY <2>1, <2>2
<1>5. ASSUME NEW id \in Ids(entries), NEW type \in {"label", "unlabel"}, appendLabelChange(id, type, ok)
      PROVE  Inv'
  <2>1. _appendEntry(New(leafId, type, id), ok)
    BY <1>5 DEF appendLabelChange
  <2>2. labelsById' = Labels(type, id) /\ type \in Type
    BY <1>1, <1>5 DEF appendLabelChange, Type
  <2> QED
    BY <1>1, <1>2, <1>7, <2>1, <2>2
<1>6. ASSUME NEW id \in Ids(entries) \cup {0}, branchWithSummary(id, ok) PROVE Inv'
  <2>1. _appendEntry(New(id, "other", 0), ok) /\ labelsById' = labelsById
    BY <1>6 DEF branchWithSummary
  <2>2. "other" \in Type
    BY DEF Type
  <2> QED
    BY <1>1, <1>2, <1>7, <2>1, <2>2
<1> QED
  BY <1>3, <1>4, <1>5, <1>6 DEF Append

-----------------------------------------------------------------------------
(* Other sessions *)

\* A session that is empty, in a file without entries.
LEMMA EmptyStep ==
  ASSUME Inv, Empty, NEW f \in Files, f \notin headers, sessionFile' = f, flushed' \in BOOLEAN,
         headers' \in {headers, headers \cup {f}}, torn' \in {torn, torn \ {f}},
         UNCHANGED <<stored, tears, made, missing>>
  PROVE  Inv'
<1>1. stored[f] = {} /\ FilesHold
  BY DEF Inv, FilesHold
<1>2. FileHolds(entries', missing'[sessionFile'], made')
  BY EmptyHolds DEF Empty
<1>3. FilesHold'
  BY <1>1 DEF FilesHold
<1>4. Saved'
  BY <1>1 DEF Saved, Empty
<1>5. entries' = {} /\ leafId' = 0 /\ labelsById' = {}
  BY DEF Empty
<1>6. headers' \subseteq Files /\ torn' \subseteq Files
  BY DEF Inv, TypeOK
<1>7. LabelsHold'
  BY <1>5 DEF LabelsHold, LabelledBy
<1> QED
  BY <1>2, <1>3, <1>4, <1>5, <1>6, <1>7, Assemble DEF Inv, TypeOK

\* A session that is what a file holds.
LEMMA LoadStep ==
  ASSUME Inv, NEW f \in Files, stored' \in [Files -> SUBSET Entry], entries' = stored'[f],
         _buildIndex, sessionFile' = f, flushed' = TRUE, headers' \subseteq Files,
         missing' \in [Files -> SUBSET Id], FilesHold', UNCHANGED <<torn, tears, made>>
  PROVE  Inv'
<1>1. entries' \in SUBSET Entry
  OBVIOUS
<1>2. FileHolds(entries', missing'[sessionFile'], made')
  BY DEF FilesHold
<1>3. Saved'
  BY DEF Saved
<1>4. LabelsHold'
  BY DEF _buildIndex, LabelsHold
<1> QED
  BY <1>1, <1>2, <1>3, <1>4, BuildIndex, Assemble DEF Inv, TypeOK

-----------------------------------------------------------------------------
(* Forking *)

\* A path is part of the session, and refers only to itself or to what is missing.
LEMMA PathHolds ==
  ASSUME Inv, NEW P, NEW id, IsBranch(P, id), NEW M, missing[sessionFile] \subseteq M,
         Ids({e \in P : IsLabel(e)}) \subseteq M,
         Rooted(P) \/ Ids(entries \ P) \subseteq M
  PROVE  FileHolds({e \in P : ~IsLabel(e)}, M, made)
<1> DEFINE Q == {e \in P : ~IsLabel(e)}
<1>1. /\ P \subseteq entries /\ \A e \in P : e.parent \in Ids(entries) => e.parent \in Ids(P)
      /\ P \in SUBSET Entry
  BY DEF IsBranch, Inv, TypeOK
<1>4. FileHolds(entries, missing[sessionFile], made)
  BY DEF Inv
<1>2. UniqueIn(Q) /\ MadeIn(Q, made)
  BY <1>1, <1>4 DEF FileHolds, UniqueIn, MadeIn
<1>5. ASSUME NEW h \in Ids(P) PROVE h \in Ids(Q) \cup M
  <2>1. PICK g \in P : h = g.id
    BY DEF Ids
  <2>2. CASE IsLabel(g)
    BY <2>1, <2>2 DEF Ids
  <2>3. CASE ~IsLabel(g)
    BY <2>1, <2>3 DEF Ids
  <2> QED
    BY <2>2, <2>3
<1>6. Rooted(P) => Whole(P)
  <2>1. Ascends(P, id) /\ UniqueIn(P)
    BY <1>1, <1>4 DEF IsBranch, Ascends, FileHolds, RefersIn, UniqueIn
  <2> QED
    BY <1>1, <2>1, RootedIsWhole
<1>3. ASSUME NEW e \in Q PROVE e.parent \in Ids(Q) \cup {0} \cup M
  <2>1. e \in P /\ e.parent \in Ids(entries) \cup {0} \cup missing[sessionFile]
    BY <1>1, <1>4 DEF FileHolds, RefersIn
  <2> QED
    BY <1>1, <1>5, <2>1
<1>7. ASSUME NEW e \in Q, e.type # "stray" PROVE e.about \in Ids(Q) \cup {0} \cup M
  <2>1. e \in P /\ e.about \in Ids(entries) \cup {0} \cup missing[sessionFile]
    BY <1>1, <1>4, <1>7 DEF FileHolds, RefersIn
  <2>2. CASE Rooted(P)
    <3>1. e.about \in Ids(P) \cup {0} \cup missing[sessionFile]
      BY <1>1, <1>4, <1>6, <1>7, <2>1, <2>2 DEF FileHolds, KeptIn
    <3> QED
      BY <1>5, <3>1
  <2>3. CASE Ids(entries \ P) \subseteq M
    <3>1. e.about \in Ids(entries) => e.about \in Ids(P) \cup Ids(entries \ P)
      BY DEF Ids
    <3> QED
      BY <1>5, <2>1, <2>3, <3>1
  <2> QED
    BY <2>2, <2>3
<1>8. RefersIn(Q, M)
  BY <1>1, <1>3, <1>4, <1>7 DEF FileHolds, RefersIn
<1>9. KeptIn(Q, M)
  <2>1. Q \subseteq entries /\ Ids(Q) \subseteq Ids(entries)
    BY <1>1 DEF Ids
  <2>2. KeptIn(entries, missing[sessionFile])
    BY <1>4 DEF FileHolds
  <2> HIDE DEF Q
  <2> QED
    BY <2>1, <2>2 DEF KeptIn
<1> QED
  BY <1>2, <1>8, <1>9 DEF FileHolds

\* The entries that write the labels T again, in some order, behind the entry last.
ChainOf(T, n, nth, last) ==
  {[id |-> nth[t], parent |-> IF nth[t] = n + 1 THEN last ELSE nth[t] - 1,
    type |-> "label", about |-> t] : t \in T}

\* The label entries of a fork are well-formed and hang behind the path in one chain.
LEMMA LabelChain ==
  ASSUME NEW E \in SUBSET Entry, NEW M, NEW n \in Nat, FileHolds(E, M, n),
         NEW T \in SUBSET Id, T \subseteq Ids(E), NEW k \in Nat, n + k <= MaxEntries, MaxEntries \in Nat,
         NEW nth \in Bijection(T, (n + 1)..(n + k)), NEW last \in Ids(E) \cup {0},
         NEW F, F = E \cup ChainOf(T, n, nth, last)
  PROVE  F \in SUBSET Entry /\ FileHolds(F, M, n + k)
<1> DEFINE New1(t) == [id |-> nth[t], parent |-> IF nth[t] = n + 1 THEN last ELSE nth[t] - 1,
                       type |-> "label", about |-> t]
           L       == {New1(t) : t \in T}
<1>1. /\ \A t \in T : nth[t] \in (n + 1)..(n + k)
      /\ \A t, u \in T : nth[t] = nth[u] => t = u
      /\ \A i \in (n + 1)..(n + k) : \E t \in T : nth[t] = i
  BY DEF Bijection, Injection, Surjection, IsInjective
<1>2. \A e \in E : e.id \in Nat /\ e.id <= n /\ e.id \in Id
  BY DEF FileHolds, MadeIn, Entry, Id
<1>3. last \in Id \cup {0} /\ last <= n /\ \A t \in T : t \in Nat /\ t <= n
  BY <1>2 DEF Ids
<1>4. ASSUME NEW t \in T
      PROVE  /\ New1(t) \in Entry /\ New1(t).id = nth[t] /\ New1(t).id > n /\ New1(t).id <= n + k
             /\ New1(t).parent = IF nth[t] = n + 1 THEN last ELSE nth[t] - 1
             /\ New1(t).about = t /\ IsLabel(New1(t))
             /\ New1(t).parent < New1(t).id /\ New1(t).about < New1(t).id
  <2>1. nth[t] \in Id /\ nth[t] \in Nat /\ nth[t] > n /\ nth[t] <= n + k
    BY <1>1 DEF Id
  <2>2. /\ (IF nth[t] = n + 1 THEN last ELSE nth[t] - 1) \in Id \cup {0}
        /\ (IF nth[t] = n + 1 THEN last ELSE nth[t] - 1) < nth[t] /\ t < nth[t]
    BY <1>3, <2>1 DEF Id
  <2> QED
    BY <2>1, <2>2 DEF Entry, Type, IsLabel
<1>5. F = E \cup L
  BY DEF ChainOf
<1>6. L \in SUBSET Entry
  BY <1>4
<1>7. UniqueIn(F)
  <2>1. ASSUME NEW e \in F, NEW g \in F, e.id = g.id PROVE e = g
    <3>1. CASE e \in E /\ g \in E
      BY <2>1, <3>1 DEF FileHolds, UniqueIn
    <3>2. CASE e \in L /\ g \in L
      <4>1. PICK t \in T : e = New1(t)
        BY <3>2
      <4>2. PICK u \in T : g = New1(u)
        BY <3>2
      <4>3. nth[t] = nth[u]
        BY <1>4, <2>1, <4>1, <4>2
      <4> QED
        BY <1>1, <4>1, <4>2, <4>3
    <3>3. ASSUME NEW x \in E, NEW y \in L PROVE x.id # y.id
      BY <1>2, <1>4
    <3> QED
      BY <1>5, <2>1, <3>1, <3>2, <3>3
  <2> QED
    BY <2>1 DEF UniqueIn
<1>8. MadeIn(F, n + k)
  BY <1>2, <1>4, <1>5 DEF MadeIn
<1>9. RefersIn(F, M)
  <2>1. Ids(E) \subseteq Ids(F) /\ \A t \in T : nth[t] \in Ids(F) /\ t \in Ids(F)
    <3>1. \A t \in T : New1(t) \in F /\ New1(t).id = nth[t]
      BY <1>4, <1>5
    <3>2. \A e \in E : e \in F
      OBVIOUS
    <3> HIDE DEF New1
    <3> QED
      BY <3>1, <3>2 DEF Ids
  <2>2. ASSUME NEW t \in T PROVE New1(t).parent \in Ids(F) \cup {0} \cup M
    <3>1. CASE nth[t] = n + 1
      BY <1>4, <2>1, <3>1
    <3>2. CASE nth[t] # n + 1
      <4>1. nth[t] - 1 \in (n + 1)..(n + k)
        BY <1>1, <3>2
      <4>2. New1(t).parent = nth[t] - 1
        BY <1>4, <3>2
      <4> QED
        BY <1>1, <2>1, <4>1, <4>2
    <3> QED
      BY <3>1, <3>2
  <2>3. ASSUME NEW e \in E
        PROVE  /\ e.parent \in Ids(F) \cup {0} \cup M
               /\ e.type # "stray" => e.about \in Ids(F) \cup {0} \cup M
               /\ e.parent < e.id /\ e.about < e.id
    BY <2>1 DEF FileHolds, RefersIn
  <2>4. ASSUME NEW e \in L
        PROVE  /\ e.parent \in Ids(F) \cup {0} \cup M
               /\ e.type # "stray" => e.about \in Ids(F) \cup {0} \cup M
               /\ e.parent < e.id /\ e.about < e.id
    <3>1. PICK t \in T : e = New1(t)
      OBVIOUS
    <3> HIDE DEF New1
    <3> QED
      BY <1>4, <2>1, <2>2, <3>1
  <2> HIDE DEF L
  <2> QED
    BY <1>5, <2>3, <2>4 DEF RefersIn
<1>10. \A e \in L : IsLabel(e) /\ e.id > n
  BY <1>4
<1>11. \A e \in E : e.parent < e.id /\ e.about < e.id /\ e.parent \in Nat /\ e.about \in Nat
  BY DEF FileHolds, RefersIn, Entry, Id
<1> HIDE DEF L, New1
<1>12. KeptIn(F, M)
  <2> SUFFICES ASSUME NEW B \in SUBSET F, Whole(B), NEW x \in B, ~IsLabel(x), x.type # "stray"
               PROVE  x.about \in Ids(B) \cup {0} \cup (M \ Ids(F))
    BY DEF KeptIn
  <2> DEFINE C == B \cap E
  <2>1. C \in SUBSET E /\ x \in C /\ Ids(C) \subseteq Ids(B)
    BY <1>5, <1>10 DEF Ids
  <2>2. ASSUME NEW h \in Ids(F), h <= n PROVE h \in Ids(E)
    BY <1>5, <1>6, <1>10, <2>2 DEF Ids, Entry, Id
  <2>3. Whole(C)
    <3> SUFFICES ASSUME NEW g \in C PROVE g.parent \in Ids(C) \cup {0}
      BY DEF Whole
    <3>1. g.parent \in Ids(B) \cup {0} /\ g.parent <= n
      BY <1>2, <1>11, <2>1 DEF Whole
    <3>2. CASE g.parent \in Ids(B)
      <4>1. PICK h \in B : h.id = g.parent
        BY <3>2 DEF Ids
      <4>2. h \in E
        BY <1>5, <1>6, <1>10, <3>1, <4>1 DEF Entry, Id
      <4> QED
        BY <4>1, <4>2 DEF Ids
    <3> QED
      BY <3>1, <3>2
  <2> HIDE DEF C
  <2>4. x.about \in Ids(C) \cup {0} \cup (M \ Ids(E))
    BY <2>1, <2>3 DEF FileHolds, KeptIn
  <2>5. x.about <= n
    BY <1>2, <1>11, <2>1
  <2> QED
    BY <2>1, <2>2, <2>4, <2>5
<1> QED
  BY <1>5, <1>6, <1>7, <1>8, <1>9, <1>12 DEF FileHolds

\* A fork keeps the invariant: its labels get ids nobody has, and its path what it had.
LEMMA ForkStep ==
  ASSUME Inv, NEW id \in Ids(entries), NEW f \in Files, NEW ok \in BOOLEAN,
         createBranchedSession(id, f, ok)
  PROVE  Inv'
<1> DEFINE Path(P) == {e \in P : ~IsLabel(e)}
           Labels(P, nth, last) == ChainOf(labelsById \cap Ids(Path(P)), made, nth, last)
           s == sessionFile
<1>1. /\ entries \in SUBSET Entry /\ stored \in [Files -> SUBSET Entry] /\ s \in Files
      /\ missing \in [Files -> SUBSET Id] /\ headers \subseteq Files /\ torn \subseteq Files
      /\ tears \in Nat /\ flushed \in BOOLEAN /\ made \in Nat /\ labelsById \subseteq Id
      /\ MaxEntries \in Nat /\ FilesHold /\ \A e \in entries : e.id \in Id
  BY SessionAssumption DEF Inv, TypeOK, Entry
<1>2. PICK P \in SUBSET entries :
        LET targets == labelsById \cap Ids(Path(P))
            k       == Cardinality(targets)
        IN /\ IsBranch(P, id) /\ Fresh(f)
           /\ made' = made + k /\ made' <= MaxEntries
           /\ \E nth \in Bijection(targets, (made + 1)..(made + k)), last \in Ids(Path(P)) \cup {0} :
                /\ IF Path(P) = {} THEN last = 0 ELSE last # 0 /\ \A i \in Ids(Path(P)) : i <= last
                /\ entries' = Path(P) \cup Labels(P, nth, last)
           /\ _buildIndex
           /\ sessionFile' = f
           /\ IF HasAssistant(entries') /\ ok
              THEN headers' = headers \cup {f} /\ stored' = [stored EXCEPT ![f] = entries']
              ELSE UNCHANGED <<headers, stored>>
           /\ IF HasAssistant(entries')
              THEN IF ok THEN flushed' = TRUE ELSE MayFail /\ UNCHANGED flushed
              ELSE ok /\ flushed' = FALSE
           /\ missing' = [missing EXCEPT ![f] = missing[s] \cup Ids(P \ Path(P))
                                                  \cup (IF ok THEN {} ELSE Ids(entries'))
                                                  \cup (IF Rooted(P) THEN {} ELSE Ids(entries \ P))]
           /\ UNCHANGED <<torn, tears>>
  BY DEF createBranchedSession, ChainOf
<1> DEFINE T == labelsById \cap Ids(Path(P))
           k == Cardinality(T)
<1>3. k \in Nat
  <2>1. IsFiniteSet(T)
    <3>1. T \subseteq 1..MaxEntries
      BY <1>1 DEF Id
    <3>2. IsFiniteSet(1..MaxEntries)
      <4>1. 1 \in Int /\ MaxEntries \in Int
        BY <1>1
      <4> QED
        BY ONLY <4>1, FS_Interval
    <3> HIDE DEF T
    <3> QED
      BY ONLY <3>1, <3>2, FS_Subset
  <2> QED
    BY <2>1, FS_CardinalityType
<1>4. /\ made' = made + k /\ made' \in 0..MaxEntries /\ made <= made' /\ made' \in Nat
      /\ sessionFile' = f /\ IsBranch(P, id) /\ _buildIndex
      /\ torn' = torn /\ tears' = tears /\ Fresh(f)
  BY <1>1, <1>2, <1>3
<1>5. PICK nth \in Bijection(T, (made + 1)..(made + k)), last \in Ids(Path(P)) \cup {0} :
        entries' = Path(P) \cup Labels(P, nth, last)
  BY <1>2
<1> DEFINE Lost == missing[s] \cup Ids(P \ Path(P)) \cup (IF ok THEN {} ELSE Ids(entries'))
                     \cup (IF Rooted(P) THEN {} ELSE Ids(entries \ P))
<1>6. missing' = [missing EXCEPT ![f] = Lost]
  BY <1>2
<1> DEFINE Cut == missing[s] \cup Ids(P \ Path(P)) \cup (IF Rooted(P) THEN {} ELSE Ids(entries \ P))
<1>7. FileHolds(Path(P), Cut, made) /\ Path(P) \in SUBSET Entry
  <2>1. /\ Ids({e \in P : IsLabel(e)}) \subseteq Cut /\ missing[s] \subseteq Cut
        /\ Rooted(P) \/ Ids(entries \ P) \subseteq Cut
    BY DEF Ids
  <2>2. Path(P) \in SUBSET Entry
    BY <1>1
  <2> HIDE DEF Path, Cut
  <2>3. FileHolds({e \in P : ~IsLabel(e)}, Cut, made)
    BY <1>4, <2>1, PathHolds
  <2> USE DEF Path
  <2> QED
    BY <2>2, <2>3
<1>8. entries' \in SUBSET Entry /\ FileHolds(entries', Cut, made + k)
  <2>1. T \in SUBSET Id /\ T \subseteq Ids(Path(P)) /\ made + k <= MaxEntries
    BY <1>1, <1>3, <1>4
  <2>2. entries' = Path(P) \cup ChainOf(T, made, nth, last)
    BY <1>5
  <2>3. made \in Nat /\ MaxEntries \in Nat
    BY <1>1
  <2>4. nth \in Bijection(T, (made + 1)..(made + k)) /\ last \in Ids(Path(P)) \cup {0}
    OBVIOUS
  <2> HIDE DEF T, k, Path, Cut
  <2> QED
    BY ONLY <1>3, <1>7, <2>1, <2>2, <2>3, <2>4, LabelChain
<1>9. Ids(entries') \subseteq Id /\ Lost \in SUBSET Id
  <2>1. Ids(entries') \subseteq Id
    BY <1>8 DEF Ids, Entry
  <2>2. Ids(P \ Path(P)) \subseteq Id /\ Ids(entries \ P) \subseteq Id /\ missing[s] \subseteq Id
    BY <1>1 DEF Ids
  <2> HIDE DEF Path
  <2> QED
    BY <2>1, <2>2
<1>10. /\ missing' \in [Files -> SUBSET Id] /\ missing'[f] = Lost
       /\ \A g \in Files : g # f => missing'[g] = missing[g]
  <2> HIDE DEF Lost
  <2> QED
    BY <1>1, <1>6, <1>9
<1>11. FileHolds(entries', missing'[f], made')
  <2>1. Cut \ Ids(entries') \subseteq Lost
    BY Zenon
  <2>2. made' \in Nat /\ made' = made + k /\ made' <= made' /\ missing'[f] = Lost
    BY <1>4, <1>10
  <2> HIDE DEF Lost, Path, k, Cut
  <2>3. FileHolds(entries', Cut, made')
    BY <1>8, <2>2
  <2> QED
    BY ONLY <1>8, <2>1, <2>2, <2>3, HoldsLater
<1> HIDE DEF Path, Labels, Lost, T, k, Cut
<1>12. stored[f] = {}
  BY <1>1, <1>4 DEF FilesHold, Fresh
<1>13. /\ stored' \in [Files -> SUBSET Entry] /\ headers' \subseteq Files /\ flushed' \in BOOLEAN
       /\ \A g \in Files : g # f => stored'[g] = stored[g]
       /\ headers \subseteq headers'
       /\ \/ HasAssistant(entries') /\ ok /\ stored'[f] = entries' /\ f \in headers'
          \/ ~(HasAssistant(entries') /\ ok) /\ stored'[f] = {} /\ headers' = headers
  <2>1. /\ IF HasAssistant(entries') /\ ok
           THEN headers' = headers \cup {f} /\ stored' = [stored EXCEPT ![f] = entries']
           ELSE UNCHANGED <<headers, stored>>
        /\ flushed' \in BOOLEAN
    BY <1>1, <1>2
  <2>4. flushed' \in BOOLEAN
    BY <2>1
  <2>2. CASE HasAssistant(entries') /\ ok
    <3>1. headers' = headers \cup {f} /\ stored' = [stored EXCEPT ![f] = entries']
      BY <2>1, <2>2
    <3>2. stored \in [Files -> SUBSET Entry] /\ entries' \in SUBSET Entry /\ headers \subseteq Files
      BY <1>1, <1>8
    <3>3. stored' \in [Files -> SUBSET Entry]
      BY ONLY <3>1, <3>2
    <3>4. stored'[f] = entries' /\ \A g \in Files : g # f => stored'[g] = stored[g]
      BY <3>1, <3>2
    <3>5. headers' \subseteq Files /\ headers \subseteq headers' /\ f \in headers'
      BY <3>1, <3>2
    <3> QED
      BY ONLY <2>2, <2>4, <3>5, <3>3, <3>4
  <2>3. CASE ~(HasAssistant(entries') /\ ok)
    BY <1>1, <1>12, <2>1, <2>3
  <2> QED
    BY <2>2, <2>3
<1>14. FilesHold'
  <2> SUFFICES ASSUME NEW g \in Files
               PROVE FileHolds(stored'[g], missing'[g], made') /\ (g \notin headers' => stored'[g] = {})
    BY DEF FilesHold
  <2>1. CASE g # f
    <3>1. FileHolds(stored[g], missing[g], made) /\ stored[g] \in SUBSET Entry
      BY <1>1 DEF FilesHold
    <3>2. FileHolds(stored[g], missing[g], made')
      BY <1>1, <1>4, <3>1, HoldsLater
    <3>3. stored'[g] = stored[g] /\ missing'[g] = missing[g] /\ headers \subseteq headers'
      BY <1>10, <1>13, <2>1
    <3> QED
      BY <1>1, <3>2, <3>3 DEF FilesHold
  <2>2. CASE g = f /\ stored'[f] = {}
    BY <2>2, EmptyHolds
  <2>3. CASE g = f /\ stored'[f] = entries' /\ f \in headers'
    BY <1>11, <2>3
  <2> QED
    BY <1>13, <2>1, <2>2, <2>3
<1>15. Saved'
  <2>1. stored'[f] \subseteq entries'
    BY <1>13
  <2>2. CASE HasAssistant(entries') /\ ok
    BY <1>4, <1>13, <2>2 DEF Saved
  <2>3. CASE ~ok
    <3>1. \A e \in entries' : e.id \in missing'[f]
      BY <1>10, <2>3, IdsOf DEF Lost
    <3> QED
      BY <1>4, <2>1, <3>1 DEF Saved
  <2>4. CASE ~HasAssistant(entries') /\ ok
    BY <1>2, <1>4, <2>1, <2>4 DEF Saved
  <2> QED
    BY <2>2, <2>3, <2>4
<1>16. leafId' \in Ids(entries') \cup {0} /\ leafId' \in Id \cup {0} /\ labelsById' \subseteq Id
  BY <1>4, <1>8, BuildIndex
<1>17. LabelsHold'
  BY <1>4 DEF _buildIndex, LabelsHold
<1> QED
  BY <1>1, <1>4, <1>8, <1>10, <1>11, <1>13, <1>14, <1>15, <1>16, <1>17, Assemble

-----------------------------------------------------------------------------
(* The invariant *)

LEMMA InvInit == Init => Inv
<1> SUFFICES ASSUME Init PROVE Inv
  OBVIOUS
<1>1. TypeOK
  <2>1. /\ stored = [f \in Files |-> {}] /\ missing = [f \in Files |-> {}]
        /\ sessionFile \in Files /\ headers = {sessionFile} /\ made = 0 /\ tears = 0
        /\ entries = {} /\ leafId = 0 /\ labelsById = {} /\ flushed = FALSE /\ torn = {}
    BY DEF Init
  <2>2. stored \in [Files -> SUBSET Entry] /\ missing \in [Files -> SUBSET Id]
    BY <2>1
  <2>3. made \in 0..MaxEntries /\ tears \in Nat
    BY <2>1, SessionAssumption
  <2> QED
    BY <2>1, <2>2, <2>3 DEF TypeOK
<1>2. LabelsHold
  BY DEF Init, LabelsHold, LabelledBy
<1> QED
  BY <1>1, <1>2, EmptyHolds DEF Init, Inv, FilesHold, Saved

LEMMA InvNext == Inv /\ [Next]_vars => Inv'
<1> SUFFICES ASSUME Inv, [Next]_vars PROVE Inv'
  OBVIOUS
<1>1. ASSUME NEW ok \in BOOLEAN, Append(ok) PROVE Inv'
  BY <1>1, AppendsStep
<1>2. ASSUME NEW id \in Ids(entries) \cup {0}, branch(id) PROVE Inv'
  <2>1. id \in Id \cup {0}
    BY DEF Inv, TypeOK, Ids, Entry
  <2> QED
    BY <1>2, <2>1 DEF branch, disk, Inv, TypeOK, FilesHold, Saved, LabelsHold
<1>3. ASSUME NEW id \in Ids(entries), NEW f \in Files, NEW ok \in BOOLEAN, createBranchedSession(id, f, ok)
      PROVE  Inv'
  BY <1>3, ForkStep
<1>4. ASSUME NEW f \in Files, NEW ok \in BOOLEAN, newSession(f, ok) PROVE Inv'
  BY <1>4, EmptyStep DEF newSession, Fresh
<1>5. ASSUME NEW f \in Files, openNew(f) PROVE Inv'
  BY <1>5, EmptyStep DEF openNew
<1>6. ASSUME NEW f \in Files, load(f) PROVE Inv'
  <2>1. /\ UNCHANGED <<headers, stored, torn, tears, made, missing>> /\ entries' = stored[f]
        /\ _buildIndex /\ sessionFile' = f /\ flushed' = TRUE
    BY <1>6 DEF load, disk
  <2>2. FilesHold'
    BY <2>1 DEF Inv, FilesHold
  <2> QED
    BY <2>1, <2>2, LoadStep DEF Inv, TypeOK
<1>7. ASSUME NEW from \in Files, NEW f \in Files, forkFrom(from, f) PROVE Inv'
  <2>1. /\ headers' = headers \cup {f} /\ stored' = [stored EXCEPT ![f] = stored[from]]
        /\ missing' = [missing EXCEPT ![f] = missing[from]] /\ entries' = stored[from]
        /\ _buildIndex /\ sessionFile' = f /\ flushed' = TRUE /\ UNCHANGED <<torn, tears, made>>
    BY <1>7 DEF forkFrom
  <2>2. /\ stored' \in [Files -> SUBSET Entry] /\ missing' \in [Files -> SUBSET Id]
        /\ headers' \subseteq Files /\ entries' = stored'[f]
    BY <2>1 DEF Inv, TypeOK
  <2>3. FilesHold'
    BY <2>1 DEF Inv, TypeOK, FilesHold
  <2> QED
    BY <2>1, <2>2, <2>3, LoadStep
<1>8. CASE UNCHANGED vars
  BY <1>8 DEF vars, memory, disk, Inv, TypeOK, FilesHold, Saved, LabelsHold
<1> QED
  BY <1>1, <1>2, <1>3, <1>4, <1>5, <1>6, <1>7, <1>8 DEF Next

LEMMA Invariant == Spec => []Inv
BY InvInit, InvNext, PTL DEF Spec

\* The state stays well-formed, and an id names one entry, for any number of files and
\* entries and wherever writes fail.
THEOREM TypeCorrect == Spec => []TypeOK
<1>1. Inv => TypeOK
  BY DEF Inv
<1> QED
  BY <1>1, Invariant, PTL

\* Opening the file again gives what is in memory once an assistant has spoken, but for
\* entries whose writing failed.
THEOREM ReloadGivesMemory == Spec => []ReloadRestores
<1>1. Inv => ReloadRestores
  <2> SUFFICES ASSUME Inv PROVE ReloadRestores
    OBVIOUS
  <2>1. Saved /\ sessionFile \in Files /\ (sessionFile \notin headers => stored[sessionFile] = {})
    BY DEF Inv, TypeOK, FilesHold
  <2> QED
    BY <2>1 DEF Saved, ReloadRestores
<1> QED
  BY <1>1, Invariant, PTL

\* The leaf and every parent, and what labels and compactions that have not strayed are about,
\* are entries of the session, or failed to be written there: forking cuts nothing off that
\* such a compaction keeps.
THEOREM ReferencesStay == Spec => []ReferencesHold
<1>1. Inv => ReferencesHold
  BY DEF Inv, FileHolds, RefersIn, ReferencesHold, ParentsHold
<1> QED
  BY <1>1, Invariant, PTL

\* Opening the file again gives the same labels.
THEOREM LabelsReload == Spec => []LabelsSurvive
<1>1. Inv => LabelsSurvive
  <2> SUFFICES ASSUME Inv, HasAssistant(entries), Ids(entries) \cap missing[sessionFile] = {}
               PROVE  labelsById = LabelledBy(stored[sessionFile])
    BY DEF LabelsSurvive
  <2>1. \A e \in entries : e.id \notin missing[sessionFile]
    BY IdsOf
  <2>2. stored[sessionFile] = entries
    BY <2>1 DEF Inv, Saved
  <2>3. Ids({e \in entries : IsLabel(e)}) \cap missing[sessionFile] = {}
    BY <2>1 DEF Ids
  <2> QED
    BY <2>2, <2>3 DEF Inv, LabelsHold
<1> QED
  BY <1>1, Invariant, PTL
=============================================================================
