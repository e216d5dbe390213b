--------------------------- MODULE SessionManager ---------------------------
(***************************************************************************)
(* The session manager (core/session-manager.ts): a tree of entries with a *)
(* leaf pointer and labels, kept in memory and in a file of lines that is  *)
(* first written when an assistant has spoken.  A crash needs no action of *)
(* its own: it leaves the disk alone and ends in opening a file, or in a   *)
(* new session.                                                            *)
(*                                                                         *)
(* An entry's id stands for its place in time.  A file lists its entries   *)
(* in that order, so the set of entries stands for the list, and the last  *)
(* one is that with the greatest id.  Files that cannot be read by the     *)
(* loader are those without a header, whatever lines they hold.            *)
(***************************************************************************)
EXTENDS Naturals, FiniteSets, Functions

CONSTANTS
  Files,       \* session files
  MaxEntries,  \* bound: entries made
  MaxTears,    \* bound: appends of which only a part reaches the disk
  MayFail      \* writes may fail

ASSUME SessionAssumption ==
  MaxEntries \in Nat /\ MaxTears \in Nat /\ MayFail \in BOOLEAN

\* "other" stands for messages that are not an assistant's, changes of model and thinking
\* level, names, custom entries and branch summaries; "label" sets and "unlabel" clears the
\* label of the entry it is about; a "compaction" is about the first entry it keeps.  One put
\* behind a path that does not hold this entry is called "stray" (history).
Type  == {"assistant", "other", "compaction", "stray", "label", "unlabel"}
Id    == 1..MaxEntries
Entry == [id : Id, parent : Id \cup {0}, type : Type, about : Id \cup {0}]

VARIABLES
  entries,     \* fileEntries without the header
  leafId,      \* 0 for null
  labelsById,  \* the entries that carry a label
  flushed,
  sessionFile,
  headers,     \* disk: the files that begin with a header
  stored,      \* disk: the entries a loader finds in each file
  torn,        \* disk: the files that end in the middle of a line
  tears,       \* number of appends torn
  made,        \* number of entries made, hence the greatest id
  missing      \* history: for each file, entries that failed to get there or were filtered out

memory == <<entries, leafId, labelsById>>
disk   == <<headers, stored, torn, tears>>
vars   == <<memory, flushed, sessionFile, disk, made, missing>>

Ids(E) == {e.id : e \in E}
HasAssistant(E) == \E e \in E : e.type = "assistant"
IsLabel(e) == e.type \in {"label", "unlabel"}

\* The entries that carry a label once the file has been read to its end.
LabelledBy(E) ==
  {t \in Id : \E e \in E : /\ e.type = "label" /\ e.about = t
                           /\ \A f \in E : IsLabel(f) /\ f.about = t => f.id <= e.id}

\* _buildIndex: the leaf is the last entry.
_buildIndex ==
  /\ labelsById' = LabelledBy(entries')
  /\ IF entries' = {} THEN leafId' = 0
     ELSE \E e \in entries' : leafId' = e.id /\ \A f \in entries' : f.id <= e.id

\* The path from an entry to its root.
IsBranch(P, id) ==
  /\ P \subseteq entries /\ id \in Ids(P)
  /\ \A e \in P : e.parent \in Ids(entries) => e.parent \in Ids(P)
  /\ \A e \in P : e.id = id \/ \E f \in P : f.parent = e.id

\* A path that a missing entry interrupts leaves the entries before it behind.
Rooted(P) == \E e \in P : e.parent = 0

Init ==
  /\ entries = {} /\ leafId = 0 /\ labelsById = {} /\ flushed = FALSE
  /\ sessionFile \in Files
  /\ headers = {sessionFile} /\ stored = [f \in Files |-> {}]
  /\ torn = {} /\ tears = 0 /\ made = 0 /\ missing = [f \in Files |-> {}]

-----------------------------------------------------------------------------
(* Writing *)

Miss(ids) == missing' = [missing EXCEPT ![sessionFile] = @ \cup ids]

\* The whole file is replaced.  A label whose writing failed is on file from now on, and
\* in labelsById only when the file is loaded.
rewriteFile ==
  /\ headers' = headers \cup {sessionFile}
  /\ stored' = [stored EXCEPT ![sessionFile] = entries']
  /\ torn' = torn \ {sessionFile}
  /\ missing' = [missing EXCEPT ![sessionFile] = @ \ Ids({e \in entries' : ~IsLabel(e)})]

\* A line is added; behind a torn one, or in a file without header, no loader finds it.
appendFile(e) ==
  /\ IF sessionFile \in headers \ torn
     THEN stored' = [stored EXCEPT ![sessionFile] = @ \cup {e}] /\ UNCHANGED missing
     ELSE Miss({e.id}) /\ UNCHANGED stored
  /\ torn' = torn \ {sessionFile}
  /\ UNCHANGED headers

\* The write throws, and perhaps leaves a part of the line behind.
writeFails ==
  /\ Miss(Ids(entries' \ stored[sessionFile]))
  /\ \/ UNCHANGED <<torn, tears>>
     \/ flushed /\ tears < MaxTears /\ torn' = torn \cup {sessionFile} /\ tears' = tears + 1
  /\ UNCHANGED <<headers, stored, flushed>>

\* Mutant: the first write is an append like any other.
persistAppends(e, ok) ==
  IF ~HasAssistant(entries')
  THEN ok /\ flushed' = FALSE /\ UNCHANGED <<disk, missing>>
  ELSE IF ~ok THEN MayFail /\ writeFails
  ELSE flushed' = TRUE /\ appendFile(e) /\ UNCHANGED tears

\* _persist: nothing is written before an assistant has spoken, then everything, then
\* line by line.  ok tells whether it returns or throws.
_persist(e, ok) ==
  IF ~HasAssistant(entries')
  THEN ok /\ flushed' = FALSE /\ UNCHANGED <<disk, missing>>
  ELSE IF ~ok THEN MayFail /\ writeFails
  ELSE /\ flushed' = TRUE
       /\ IF flushed THEN appendFile(e) ELSE rewriteFile
       /\ UNCHANGED tears

\* _appendEntry: the entry is in memory whether or not it could be written.
_appendEntry(e, ok) ==
  /\ made < MaxEntries /\ made' = made + 1
  /\ entries' = entries \cup {e}
  /\ leafId' = e.id
  /\ _persist(e, ok)
  /\ UNCHANGED sessionFile

-----------------------------------------------------------------------------
(* Operations *)

\* Mutant: the next id is taken from the number of entries.
NewByCount(parent, type, about) ==
  [id |-> Cardinality(entries) + 1, parent |-> parent, type |-> type, about |-> about]

New(parent, type, about) == [id |-> made + 1, parent |-> parent, type |-> type, about |-> about]

\* appendMessage and the other appends that know of nothing but the leaf.
appendMessage(type, ok) ==
  /\ _appendEntry(New(leafId, type, 0), ok)
  /\ UNCHANGED labelsById

OnPath(kept) == \E P \in SUBSET entries : IsBranch(P, leafId) /\ kept \in Ids(P)

\* The first entry kept was chosen before the summary was waited for: by now the leaf may be
\* elsewhere in the tree, or in another session.
appendCompaction(kept, ok) ==
  /\ _appendEntry(New(leafId, IF OnPath(kept) THEN "compaction" ELSE "stray", kept), ok)
  /\ UNCHANGED labelsById

\* The label is set, or cleared, when its entry has been written.
appendLabelChange(target, type, ok) ==
  /\ _appendEntry(New(leafId, type, target), ok)
  /\ labelsById' = IF ~ok THEN labelsById
                   ELSE IF type = "label" THEN labelsById \cup {target}
                   ELSE labelsById \ {target}

\* branch, and resetLeaf for 0.
branch(id) ==
  /\ leafId' = id
  /\ UNCHANGED <<entries, labelsById, flushed, sessionFile, disk, made, missing>>

branchWithSummary(id, ok) ==
  /\ _appendEntry(New(id, "other", 0), ok)
  /\ UNCHANGED labelsById

\* A file nobody has used yet.
Fresh(f) == f \notin headers \cup {sessionFile}

\* Mutant: the labels of the path are not written again.
forkForgetsLabels(id, f, ok) ==
  \E P \in SUBSET entries :
    LET path == {e \in P : ~IsLabel(e)}
    IN /\ IsBranch(P, id) /\ Fresh(f) /\ ok
       /\ entries' = path /\ leafId' = IF path = {} THEN 0 ELSE CHOOSE i \in Ids(path) : \A j \in Ids(path) : j <= i
       /\ labelsById' = labelsById \cap Ids(path) /\ flushed' = HasAssistant(entries')
       /\ sessionFile' = f
       /\ headers' = IF flushed' THEN headers \cup {f} ELSE headers
       /\ stored' = [stored EXCEPT ![f] = IF flushed' THEN entries' ELSE {}]
       /\ missing' = [missing EXCEPT ![f] = missing[sessionFile] \cup Ids(P \ path)]
       /\ UNCHANGED <<torn, tears, made>>

\* createBranchedSession: the path to an entry becomes a session of its own.  Labels on
\* the path are filtered out, with the entries' parents as they were, and the labels in
\* force are written again behind it.  When writing fails, flushed keeps its value.
createBranchedSession(id, f, ok) ==
  \E P \in SUBSET entries :
    LET path    == {e \in P : ~IsLabel(e)}
        targets == labelsById \cap Ids(path)
        ids     == (made + 1)..(made + Cardinality(targets))
    IN /\ IsBranch(P, id) /\ Fresh(f)
       /\ made' = made + Cardinality(targets) /\ made' <= MaxEntries
       /\ \E nth \in Bijection(targets, ids), last \in Ids(path) \cup {0} :
            /\ IF path = {} THEN last = 0 ELSE last # 0 /\ \A i \in Ids(path) : i <= last
            /\ entries' = path \cup
                 {[id |-> nth[t], parent |-> IF nth[t] = made + 1 THEN last ELSE nth[t] - 1,
                   type |-> "label", about |-> t] : t \in targets}
       /\ _buildIndex
       /\ sessionFile' = f
       /\ IF HasAssistant(entries') /\ ok
          THEN /\ headers' = headers \cup {f}
               /\ stored' = [stored EXCEPT ![f] = entries']
          ELSE UNCHANGED <<headers, stored>>
       /\ IF HasAssistant(entries')
          THEN IF ok THEN flushed' = TRUE ELSE MayFail /\ UNCHANGED flushed
          ELSE ok /\ flushed' = FALSE
       /\ missing' = [missing EXCEPT ![f] = missing[sessionFile] \cup Ids(P \ path)
                                              \cup (IF ok THEN {} ELSE Ids(entries'))
                                              \cup (IF Rooted(P) THEN {} ELSE Ids(entries \ P))]
       /\ UNCHANGED <<torn, tears>>

Empty == entries' = {} /\ leafId' = 0 /\ labelsById' = {}

\* newSession: the header is written at once, or not, which is ignored.
newSession(f, ok) ==
  /\ Fresh(f) /\ (ok \/ MayFail)
  /\ Empty /\ flushed' = FALSE
  /\ sessionFile' = f
  /\ headers' = IF ok THEN headers \cup {f} ELSE headers
  /\ UNCHANGED <<stored, torn, tears, made, missing>>

\* Mutant: the leaf is left where it was.
loadKeepsLeaf(f) ==
  /\ f \in headers
  /\ entries' = stored[f] /\ labelsById' = LabelledBy(stored[f]) /\ UNCHANGED leafId
  /\ sessionFile' = f /\ flushed' = TRUE
  /\ UNCHANGED <<disk, made, missing>>

\* setSessionFile of a file with a header.
load(f) ==
  /\ f \in headers
  /\ entries' = stored[f] /\ _buildIndex
  /\ sessionFile' = f /\ flushed' = TRUE
  /\ UNCHANGED <<disk, made, missing>>

\* setSessionFile of a file that is not there, or is there without a header and is
\* given one.
openNew(f) ==
  /\ f \notin headers
  /\ Empty
  /\ sessionFile' = f /\ flushed' \in BOOLEAN
  /\ headers' = IF flushed' THEN headers \cup {f} ELSE headers
  /\ torn' = IF flushed' THEN torn \ {f} ELSE torn
  /\ UNCHANGED <<stored, tears, made, missing>>

\* forkFrom: all of a file is copied and the copy opened.
forkFrom(from, f) ==
  /\ from \in headers /\ Fresh(f)
  /\ headers' = headers \cup {f}
  /\ stored' = [stored EXCEPT ![f] = stored[from]]
  /\ missing' = [missing EXCEPT ![f] = missing[from]]
  /\ entries' = stored[from] /\ _buildIndex
  /\ sessionFile' = f /\ flushed' = TRUE
  /\ UNCHANGED <<torn, tears, made>>

-----------------------------------------------------------------------------
Append(ok) ==
  \/ \E type \in {"assistant", "other"} : appendMessage(type, ok)
  \/ \E kept \in 1..made : appendCompaction(kept, ok)
  \/ \E id \in Ids(entries), type \in {"label", "unlabel"} : appendLabelChange(id, type, ok)
  \/ \E id \in Ids(entries) \cup {0} : branchWithSummary(id, ok)

Next ==
  \/ \E ok \in BOOLEAN : Append(ok)
  \/ \E id \in Ids(entries) \cup {0} : branch(id)
  \/ \E id \in Ids(entries), f \in Files, ok \in BOOLEAN : createBranchedSession(id, f, ok)
  \/ \E f \in Files, ok \in BOOLEAN : newSession(f, ok)
  \/ \E f \in Files : load(f) \/ openNew(f)
  \/ \E from, f \in Files : forkFrom(from, f)

Spec == Init /\ [][Next]_vars

-----------------------------------------------------------------------------
(* Properties *)

\* The state is well-formed, and an id names one entry, in memory and in every file.
TypeOK ==
  /\ entries \subseteq Entry /\ leafId \in Id \cup {0} /\ labelsById \subseteq Id
  /\ flushed \in BOOLEAN /\ sessionFile \in Files
  /\ headers \subseteq Files /\ torn \subseteq Files /\ stored \in [Files -> SUBSET Entry]
  /\ tears \in Nat /\ made \in 0..MaxEntries /\ missing \in [Files -> SUBSET Id]
  /\ \A e, g \in entries : e.id = g.id => e = g

\* The leaf pointer, and with it every path, stays within the session, except where an
\* entry failed to be written or was filtered out.
ParentsHold ==
  /\ leafId \in Ids(entries) \cup {0}
  /\ \A e \in entries : e.parent \in Ids(entries) \cup {0} \cup missing[sessionFile]

\* Entries refer to entries of their own session, whether as parent, by a label or, for a
\* compaction of the path it was put behind, as the first entry kept.  However sessions are
\* opened, forked and labelled, no fork leaves behind what such a compaction keeps, and a
\* compaction that has strayed, whatever it keeps, does not harm the references of others.
ReferencesHold ==
  /\ ParentsHold
  /\ \A e \in entries :
       e.type # "stray" => e.about \in Ids(entries) \cup {0} \cup missing[sessionFile]

\* The same of every compaction: a context built from the path finds what is kept.
KeptIsThere == \A e \in entries : e.about \in Ids(entries) \cup {0} \cup missing[sessionFile]

\* Once an assistant has spoken, opening the file again gives the entries that are in
\* memory, except those whose writing failed: nothing said before is left out by the lazy
\* first write ("Mark as not flushed so when assistant arrives, all entries get written",
\* session-manager.ts:1002).
ReloadRestores ==
  /\ stored[sessionFile] \subseteq entries
  /\ HasAssistant(entries) =>
       \A e \in entries : \/ e \in stored[sessionFile] /\ sessionFile \in headers
                          \/ e.id \in missing[sessionFile]

\* Opening the file again gives the same labels, over any labelling, clearing, forking.
LabelsSurvive ==
  HasAssistant(entries) /\ Ids(entries) \cap missing[sessionFile] = {}
  => labelsById = LabelledBy(stored[sessionFile])

\* "Create a new session file containing only the path from root to the specified leaf"
\* (session-manager.ts:1388): nothing on the path is cut off from its root.
PathsAreWhole == {e.parent : e \in entries} \subseteq Ids(entries) \cup {0}

\* An append that returned is in the file, once an assistant has spoken.
AppendedIsStored ==
  [][Append(TRUE) /\ HasAssistant(entries')
     => \E e \in entries' : e.id = made' /\ e \in stored'[sessionFile]]_vars

\* Opening the file again leads to the same place in the tree.
LeafSurvives == HasAssistant(entries) /\ leafId # 0 => \A e \in entries : e.id <= leafId
=============================================================================
