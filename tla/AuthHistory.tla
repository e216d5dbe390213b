---------------------------- MODULE AuthHistory ----------------------------
(* AuthStorage with a record of what should be on file, of what hit a limit, *)
(* and of what has gone out of step, so that one run asks what each leaves   *)
(* intact.                                                                   *)
EXTENDS AuthStorage

CONSTANTS
  Slips,    \* kinds of slips that happen
  MaxKinds  \* bound: kinds in one behaviour

VARIABLES
  owned,    \* history: kinds of credentials added and not removed since
  limited,  \* history: kinds that hit a limit not over yet, of each process
  seen      \* history: the kinds of slips so far

\* Process p writes a copy that is not what the file holds, or does not write the change
\* it made because the file is locked, or was when it was to be read.
WriteSlip(p) ==
  IF file' # file THEN IF data[p] # file THEN {"outdated"} ELSE {}
  ELSE IF data'[p] # data[p] /\ data'[p] # file THEN {"unwritten"} ELSE {}

\* The lock of a refresh is taken away.
Stolen == lock \in Holding \cap Holding' /\ lock' # lock

\* The copy is replaced, or a login moves the token, under indices that are backed off.
Swapped == \E p \in Processes : \E i \in backoff[p] \cap backoff'[p] :
             i \in DOMAIN data[p] => i \notin DOMAIN data'[p] \/ data'[p][i].kind # data[p][i].kind

slips(S) == /\ seen' = seen \cup S \cup IF Stolen THEN {"stolen"} ELSE {}
            /\ seen' \subseteq Slips /\ Cardinality(seen') <= MaxKinds

swaps(S) == slips(S \cup IF Swapped THEN {"swapped"} ELSE {})

limits(p, S) == limited' = [limited EXCEPT ![p] = S]

HistoryInit == Init /\ owned = {} /\ limited = [p \in Processes |-> {}] /\ seen = {}

\* Bound: once a lock has been taken away, only what is under way goes on.
Open == "stolen" \notin seen

Changes(p) ==
  \/ \E k \in Keys : /\ setApiKey(p, k)
                    /\ owned' = owned \cup {k} /\ UNCHANGED limited /\ slips(WriteSlip(p))
  \/ login(p) /\ owned' = owned \cup {OAuth} /\ UNCHANGED limited /\ swaps(WriteSlip(p))
  \/ remove(p) /\ owned' = {} /\ limits(p, {}) /\ slips(WriteSlip(p))
  \/ /\ markUsageLimitReached(p)
     /\ limits(p, limited[p] \cup {used[p]}) /\ UNCHANGED owned
     \* Another credential than the one used is taken.
     /\ slips(WriteSlip(p) \cup IF data[p][StartAt(p, 0)].kind # used[p] THEN {"mistaken"} ELSE {})
  \* A process may end in the middle of a refresh.
  \/ /\ restart(p) /\ limits(p, {}) /\ UNCHANGED owned
     /\ slips(IF p \in Holding THEN {"cut"} ELSE {})
  \/ \E i \in backoff[p] :
       /\ backoffEnds(p, i)
       /\ limits(p, limited[p] \ {data[p][j].kind : j \in {i} \cap DOMAIN data[p]})
       /\ UNCHANGED owned /\ slips({})
  \/ answerIsLost(p) /\ UNCHANGED <<owned, limited>> /\ slips({"lost"})

HistoryNext ==
  \/ \E p \in Processes : Open /\ Changes(p)
  \/ Uses /\ UNCHANGED <<owned, limited>> /\ swaps({})

HistorySpec == HistoryInit /\ [][HistoryNext]_<<vars, owned, limited, seen>>

-----------------------------------------------------------------------------
(* Properties that slips break (see the README)                             *)

\* The file holds what was added and not removed since, whichever process did.
OwnedIsOnFile == KindsOf(file) = owned

\* It does unless a copy that was out of date was written, or one was not, or a lock was
\* taken away.
CalmOwnedIsOnFile == seen \cap {"outdated", "unwritten", "stolen"} = {} => OwnedIsOnFile

\* The token on file can be used (TokenIsUsable), unless its successor was lost on the way
\* or with the process that had it, or the file was written without regard to what it held.
CalmTokenIsUsable ==
  seen \cap {"outdated", "unwritten", "stolen", "cut", "lost"} = {} => TokenIsUsable

\* What is backed off is just what hit a limit, however often credentials are moved to the
\* end of the list.
BackoffFollows ==
  \A p \in Processes : /\ backoff[p] \subseteq DOMAIN data[p]
                       /\ {data[p][i].kind : i \in backoff[p]} = limited[p]

\* It is unless indices are used for another list than they were made for, or the
\* credential that failed was mistaken for another.
CalmBackoffFollows == seen \cap {"swapped", "mistaken"} = {} => BackoffFollows
=============================================================================
