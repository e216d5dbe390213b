----------------------------- MODULE AuthStorage -----------------------------
(***************************************************************************)
(* The credentials of one provider: core/auth-storage.ts over lock-utils.ts*)
(* and the file auth.json, which several agent processes share.  Each      *)
(* process has a copy in memory, from which it takes credentials in turn,  *)
(* skipping those that hit a limit; it writes the copy back whole.         *)
(*                                                                         *)
(* What is done under the lock without an await is one action.  Only the   *)
(* refresh of an OAuth token holds the lock over awaits; whoever finds it  *)
(* locked tries for 200 ms and goes on without.  A lock is stale, and taken*)
(* away, when its holder has died or, for those that do not wait, when it  *)
(* has not been renewed for 10 s (proper-lockfile).                        *)
(***************************************************************************)
EXTENDS Integers, Sequences, FiniteSets, Functions

CONSTANTS
  Processes,  \* agent processes
  Nobody,     \* no process
  Keys,       \* API keys
  OAuth,      \* the kind of the credential that is no API key
  NoKind,     \* no credential
  Hash,       \* hashString(sessionId) of each process
  Limited,    \* processes whose requests may hit a limit
  MaySteal,   \* may a refresh take so long that its lock is taken away?
  MayRestart, \* may a process end and start again?
  MaxTokens   \* bound: tokens ever issued

ASSUME AuthAssumption ==
  /\ Nobody \notin Processes /\ OAuth \notin Keys /\ NoKind \notin Keys \cup {OAuth}
  /\ Hash \in [Processes -> Nat] /\ Limited \subseteq Processes /\ MaxTokens \in Nat
  /\ {MaySteal, MayRestart} \subseteq BOOLEAN

VARIABLES
  file,       \* the provider's entry in auth.json, as an array
  lock,       \* who made the lock file
  data,       \* AuthStorage.data, of each process
  loadError,  \* the last reload found the file locked
  backoff,    \* credentialBackoff: indices whose time is not over
  call,       \* the getApiKey that refreshes the token
  used,       \* kind of the credential of the latest request, if that may hit a limit
  issued,     \* tokens issued so far, numbered
  expired,    \* those up to this number have expired
  exchanged   \* those that were exchanged for another

memory == <<data, loadError, backoff, call, used>>
server == <<issued, expired, exchanged>>
vars   == <<file, lock, memory, server>>

Kinds      == Keys \cup {OAuth}
Credential == [kind : Kinds, token : Nat]
ApiKey(k)  == [kind |-> k, token |-> 0]
Token(n)   == [kind |-> OAuth, token |-> n]

KindsOf(s)  == {s[i].kind : i \in DOMAIN s}
IndexOf(s, k) == CHOOSE i \in DOMAIN s : s[i].kind = k

\* s without its i-th element.
Without(s, i) == SubSeq(s, 1, i - 1) \o SubSeq(s, i + 1, Len(s))

\* The API keys of s: there is at most one token.
apiKeys(s) == IF OAuth \in KindsOf(s) THEN Without(s, IndexOf(s, OAuth)) ELSE s

\* Process p makes a request with a credential of kind k.
uses(p, k) == used' = [used EXCEPT ![p] = IF p \in Limited THEN k ELSE NoKind]

TokenOf(s)   == s[IndexOf(s, OAuth)].token
Unexpired(s) == OAuth \in KindsOf(s) /\ TokenOf(s) > expired

NoCall == [stage |-> "none", base |-> <<>>, token |-> 0, lost |-> FALSE]
At(p, stage) == call[p].stage = stage
Holding == {p \in Processes : call[p].stage \in {"asking", "answered", "failed"}}

Init ==
  /\ file = <<>> /\ lock = Nobody
  /\ data = [p \in Processes |-> <<>>] /\ loadError = [p \in Processes |-> FALSE]
  /\ backoff = [p \in Processes |-> {}] /\ call = [p \in Processes |-> NoCall]
  /\ used = [p \in Processes |-> NoKind]
  /\ issued = 0 /\ expired = 0 /\ exchanged = {}

-----------------------------------------------------------------------------
(* The lock *)

\* The lock is stale for those who try ten times and give up: its holder has died, or
\* is slow to renew it.
Stale == lock \notin Holding \/ MaySteal

\* withLock: the file is read and written under the lock, or an error says it is locked.
Locked   == lock = Nobody \/ Stale
GivesUp  == lock # Nobody
Unlocked == lock' = Nobody

\* Mutant: the entry is written although the file is locked.
persistAnyway(p, entry) ==
  /\ file' = IF loadError[p] THEN file ELSE entry
  /\ UNCHANGED lock

\* The provider's entry is replaced by that of this process.
persistProviderChange(p, entry) ==
  \/ ~loadError[p] /\ Locked /\ file' = entry /\ Unlocked
  \/ ~loadError[p] /\ GivesUp /\ UNCHANGED <<file, lock>>
  \/ loadError[p] /\ UNCHANGED <<file, lock>>

\* What is read replaces the copy of process p; otherwise that stays, and is not written.
reloads(p, copy) ==
  \/ /\ Locked /\ Unlocked
     /\ data' = [data EXCEPT ![p] = file] /\ loadError' = [loadError EXCEPT ![p] = FALSE]
  \/ /\ GivesUp /\ UNCHANGED lock
     /\ data' = [data EXCEPT ![p] = copy] /\ loadError' = [loadError EXCEPT ![p] = TRUE]

reload(p) ==
  /\ reloads(p, data[p])
  /\ UNCHANGED <<file, backoff, call, used, server>>

\* A process ends, at whatever point, and another starts in its place.  Unless it is
\* killed its lock file is removed on exit.
restart(p) ==
  /\ MayRestart
  /\ \/ lock = p /\ lock' = Nobody /\ data' = [data EXCEPT ![p] = file]
        /\ loadError' = [loadError EXCEPT ![p] = FALSE]
     \/ reloads(p, <<>>)
  /\ backoff' = [backoff EXCEPT ![p] = {}] /\ call' = [call EXCEPT ![p] = NoCall]
  /\ used' = [used EXCEPT ![p] = NoKind]
  /\ UNCHANGED <<file, server>>

-----------------------------------------------------------------------------
(* Credentials are added and removed *)

\* set of an API key.
setApiKey(p, k) ==
  /\ k \notin KindsOf(data[p])
  /\ LET updated == Append(data[p], ApiKey(k))
     IN /\ data' = [data EXCEPT ![p] = updated]
        /\ persistProviderChange(p, updated)
  /\ UNCHANGED <<loadError, backoff, call, used, server>>

\* Mutant: the old token stays.
loginAddsToken(p) ==
  /\ issued < MaxTokens
  /\ issued' = issued + 1
  /\ LET updated == Append(data[p], Token(issued + 1))
     IN /\ data' = [data EXCEPT ![p] = updated]
        /\ persistProviderChange(p, updated)
  /\ UNCHANGED <<loadError, backoff, call, used, expired, exchanged>>

\* login: a new token takes the place of the old one, behind the API keys.
login(p) ==
  /\ issued < MaxTokens
  /\ issued' = issued + 1
  /\ LET updated == Append(apiKeys(data[p]), Token(issued + 1))
     IN /\ data' = [data EXCEPT ![p] = updated]
        /\ persistProviderChange(p, updated)
  /\ UNCHANGED <<loadError, backoff, call, used, expired, exchanged>>

\* logout.
remove(p) ==
  /\ data[p] # <<>>
  /\ data' = [data EXCEPT ![p] = <<>>]
  /\ backoff' = [backoff EXCEPT ![p] = {}]
  /\ persistProviderChange(p, <<>>)
  /\ UNCHANGED <<loadError, call, used, server>>

-----------------------------------------------------------------------------
(* Credentials that hit a limit *)

\* Where the search of process p for a credential begins, and how it goes on.
StartAt(p, offset) == ((Hash[p] + offset) % Len(data[p])) + 1

Available(p) == DOMAIN data[p] \ backoff[p]

\* Index i is the first one available.
selectCredentialIndex(p, i) ==
  \E o \in 0..(Len(data[p]) - 1) :
    /\ i = StartAt(p, o) /\ i \in Available(p)
    /\ \A n \in 0..(o - 1) : StartAt(p, n) \notin Available(p)

\* Index i when the u-th of n credentials is moved to the end.
Remapped(i, u, n) == IF i = u THEN n ELSE IF i > u THEN i - 1 ELSE i

\* Mutant: what is backed off keeps its index when the credentials are reordered.
markWithoutRemap(p) ==
  /\ used[p] # NoKind /\ data[p] # <<>>
  /\ used' = [used EXCEPT ![p] = NoKind]
  /\ LET n == Len(data[p])
         u == StartAt(p, 0)
         reordered == Append(Without(data[p], u), data[p][u])
     IN /\ data' = [data EXCEPT ![p] = reordered]
        /\ backoff' = [backoff EXCEPT ![p] = @ \cup {n}]
        /\ IF n > 1 THEN persistProviderChange(p, reordered) ELSE UNCHANGED <<file, lock>>
  /\ UNCHANGED <<loadError, call, server>>

\* The request failed with a rate or usage limit: the credential it is taken to have used
\* is moved to the end and backed off.
markUsageLimitReached(p) ==
  /\ used[p] # NoKind /\ data[p] # <<>>
  /\ used' = [used EXCEPT ![p] = NoKind]
  /\ LET n == Len(data[p])
         u == StartAt(p, 0)
         reordered == Append(Without(data[p], u), data[p][u])
     IN /\ data' = [data EXCEPT ![p] = reordered]
        /\ backoff' = [backoff EXCEPT ![p] = {Remapped(i, u, n) : i \in @} \cup {n}]
        /\ IF n > 1 THEN persistProviderChange(p, reordered) ELSE UNCHANGED <<file, lock>>
  /\ UNCHANGED <<loadError, call, server>>

backoffEnds(p, i) ==
  /\ i \in backoff[p]
  /\ backoff' = [backoff EXCEPT ![p] = @ \ {i}]
  /\ UNCHANGED <<file, lock, data, loadError, call, used, server>>

-----------------------------------------------------------------------------
(* Credentials are used, and tokens refreshed *)

tokenExpires ==
  /\ expired < issued
  /\ expired' = expired + 1
  /\ UNCHANGED <<file, lock, memory, issued, exchanged>>

\* The next credential is taken; a token that has expired is to be refreshed.
getApiKey(p) ==
  /\ At(p, "none")
  /\ \E i \in Available(p) :
       /\ selectCredentialIndex(p, i)
       /\ LET c == data[p][i]
          IN IF c.kind # OAuth \/ c.token > expired
             THEN uses(p, c.kind) /\ UNCHANGED call
             ELSE call' = [call EXCEPT ![p].stage = "waiting"] /\ UNCHANGED used
  /\ UNCHANGED <<file, lock, data, loadError, backoff, server>>

\* The file is locked all the time acquireLockAsync tries.
lockGivesUp(p) ==
  /\ At(p, "waiting") /\ lock \in Holding
  /\ call' = [call EXCEPT ![p].stage = "recovering"]
  /\ UNCHANGED <<file, lock, data, loadError, backoff, used, server>>

\* Mutant: the lock is given back as soon as the file is read.
refreshUnlocked(p) ==
  /\ At(p, "waiting") /\ (lock = Nobody \/ lock \notin Holding)
  /\ data' = [data EXCEPT ![p] = file] /\ loadError' = [loadError EXCEPT ![p] = FALSE]
  /\ Unlocked
  /\ IF OAuth \in KindsOf(file) /\ ~Unexpired(file)
     THEN /\ call' = [call EXCEPT ![p] = [NoCall EXCEPT !.stage = "asking", !.base = file]]
          /\ UNCHANGED used
     ELSE /\ call' = [call EXCEPT ![p] = NoCall]
          /\ IF Unexpired(file) THEN uses(p, OAuth) ELSE UNCHANGED used
  /\ UNCHANGED <<file, backoff, server>>

\* refreshOAuthTokenWithLock: the file may hold a token another process has refreshed, or
\* none any more.
refreshOAuthTokenWithLock(p) ==
  /\ At(p, "waiting") /\ (lock = Nobody \/ lock \notin Holding)
  /\ data' = [data EXCEPT ![p] = file] /\ loadError' = [loadError EXCEPT ![p] = FALSE]
  /\ \/ /\ OAuth \notin KindsOf(file)
        /\ Unlocked /\ call' = [call EXCEPT ![p] = NoCall] /\ UNCHANGED used
     \/ /\ Unexpired(file)
        /\ Unlocked /\ call' = [call EXCEPT ![p] = NoCall]
        /\ uses(p, OAuth)
     \/ /\ OAuth \in KindsOf(file) /\ ~Unexpired(file)
        /\ lock' = p /\ UNCHANGED used
        /\ call' = [call EXCEPT ![p] = [NoCall EXCEPT !.stage = "asking", !.base = file]]
  /\ UNCHANGED <<file, backoff, server>>

\* The server exchanges a token once.
serverAnswers(p) ==
  /\ At(p, "asking") /\ issued < MaxTokens
  /\ TokenOf(call[p].base) \notin exchanged
  /\ exchanged' = exchanged \cup {TokenOf(call[p].base)}
  /\ issued' = issued + 1
  /\ call' = [call EXCEPT ![p].stage = "answered", ![p].token = issued + 1]
  /\ UNCHANGED <<file, lock, data, loadError, backoff, used, expired>>

\* The server exchanges the token, but its reply does not arrive.
answerIsLost(p) ==
  /\ At(p, "asking") /\ issued < MaxTokens
  /\ TokenOf(call[p].base) \notin exchanged
  /\ exchanged' = exchanged \cup {TokenOf(call[p].base)}
  /\ issued' = issued + 1
  /\ call' = [call EXCEPT ![p].stage = "failed"]
  /\ UNCHANGED <<file, lock, data, loadError, backoff, used, expired>>

\* It refuses, or cannot be reached.
serverFails(p) ==
  /\ At(p, "asking")
  /\ call' = [call EXCEPT ![p].stage = "failed"]
  /\ UNCHANGED <<file, lock, data, loadError, backoff, used, server>>

\* onCompromised: the holder finds its lock gone when it is to renew it.
onCompromised(p) ==
  /\ p \in Holding /\ lock # p
  /\ call' = [call EXCEPT ![p].lost = TRUE]
  /\ UNCHANGED <<file, lock, data, loadError, backoff, used, server>>

\* What is entered: the entry as it was read, with the new token.
Refreshed(p) ==
  LET b == call[p].base IN [b EXCEPT ![IndexOf(b, OAuth)] = Token(call[p].token)]

\* The new token is written and the lock file removed, whoever has made it.
refreshReturns(p) ==
  /\ At(p, "answered") /\ ~call[p].lost
  /\ file' = Refreshed(p) /\ data' = [data EXCEPT ![p] = Refreshed(p)]
  /\ loadError' = [loadError EXCEPT ![p] = FALSE]
  /\ uses(p, OAuth)
  /\ call' = [call EXCEPT ![p] = NoCall]
  /\ Unlocked
  /\ UNCHANGED <<backoff, server>>

\* An error, or the loss of the lock, once the server has answered: nothing is written.
refreshFails(p) ==
  /\ At(p, "failed") \/ (At(p, "answered") /\ call[p].lost)
  /\ call' = [call EXCEPT ![p] = [NoCall EXCEPT !.stage = "recovering"]]
  /\ IF call[p].lost THEN UNCHANGED lock ELSE Unlocked
  /\ data' = [data EXCEPT ![p] = IF At(p, "answered") THEN Refreshed(p) ELSE @]
  /\ loadError' = [loadError EXCEPT ![p] = @ /\ At(p, "failed")]
  /\ UNCHANGED <<file, backoff, used, server>>

\* resolveCredentialApiKey looks whether somebody else has refreshed the token meanwhile.
recover(p) ==
  /\ At(p, "recovering")
  /\ reloads(p, data[p])
  /\ call' = [call EXCEPT ![p] = NoCall]
  /\ IF Unexpired(data'[p]) THEN uses(p, OAuth) ELSE UNCHANGED used
  /\ UNCHANGED <<file, backoff, server>>

-----------------------------------------------------------------------------
Refresh(p) == \/ lockGivesUp(p) \/ refreshOAuthTokenWithLock(p)
              \/ serverAnswers(p) \/ serverFails(p) \/ onCompromised(p)
              \/ refreshReturns(p) \/ refreshFails(p) \/ recover(p)

\* What changes neither the list of credentials nor what is known of their limits.
Uses == tokenExpires \/ \E p \in Processes : reload(p) \/ getApiKey(p) \/ Refresh(p)

Next ==
  \/ \E p \in Processes :
       \/ \E k \in Keys : setApiKey(p, k)
       \/ login(p) \/ remove(p) \/ markUsageLimitReached(p) \/ restart(p)
       \/ \E i \in backoff[p] : backoffEnds(p, i)
       \/ answerIsLost(p)
  \/ Uses

Spec == Init /\ [][Next]_vars

-----------------------------------------------------------------------------
(* Properties *)

\* The state is well-formed; there is at most one token among the credentials.
Credentials == {s \in Seq(Credential) : \A i, j \in DOMAIN s : s[i].kind = s[j].kind => i = j}
CallType == [stage : {"none", "waiting", "asking", "answered", "failed", "recovering"},
             base : Credentials, token : Nat, lost : BOOLEAN]
TypeOK ==
  /\ file \in Credentials /\ lock \in Processes \cup {Nobody}
  /\ data \in [Processes -> Credentials] /\ loadError \in [Processes -> BOOLEAN]
  /\ backoff \in [Processes -> SUBSET (Nat \ {0})]
  /\ used \in [Processes -> Kinds \cup {NoKind}]
  /\ call \in [Processes -> CallType]
  /\ issued \in Nat /\ expired \in 0..issued /\ exchanged \subseteq 1..issued

\* The token on file is one the server has not exchanged yet, or its successor is about to
\* be written: "Uses file locking to prevent race conditions when multiple pi instances try
\* to refresh tokens simultaneously" (auth-storage.ts:8).
TokenIsUsable ==
  OAuth \in KindsOf(file) =>
    \/ TokenOf(file) \notin exchanged
    \/ \E p \in Processes : At(p, "answered") /\ lock = p /\ TokenOf(call[p].base) = TokenOf(file)

\* "Finds the credential that was most recently used for this provider+session and backs
\* it off" (auth-storage.ts:565).
FailedIsBackedOff ==
  [][\A p \in Processes : markUsageLimitReached(p) =>
       \E i \in backoff'[p] : data'[p][i].kind = used[p]]_vars
=============================================================================
