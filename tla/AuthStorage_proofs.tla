------------------------- MODULE AuthStorage_proofs -------------------------
(***************************************************************************)
(* Proofs about the credentials that processes share: that the token on    *)
(* file is usable, that nothing owned is lost, and that what is backed off *)
(* is what hit a limit. TLC checks the properties on the instance of       *)
(* AuthStorage_all.cfg; here they are proved for any processes, keys,      *)
(* hashes and number of tokens.                                            *)
(***************************************************************************)
EXTENDS AuthHistory, TLAPS

-----------------------------------------------------------------------------
(* Lists of credentials *)

\* There is one token at most: where it is found is where it is.
LEMMA TokenIsThere ==
  ASSUME NEW s \in Credentials, NEW i \in DOMAIN s, s[i].kind = OAuth
  PROVE  OAuth \in KindsOf(s) /\ IndexOf(s, OAuth) = i /\ TokenOf(s) = s[i].token
BY DEF Credentials, KindsOf, IndexOf, TokenOf

LEMMA TokenIndex ==
  ASSUME NEW s \in Credentials, OAuth \in KindsOf(s)
  PROVE  /\ IndexOf(s, OAuth) \in DOMAIN s
         /\ s[IndexOf(s, OAuth)].kind = OAuth
         /\ TokenOf(s) = s[IndexOf(s, OAuth)].token
BY DEF Credentials, KindsOf, IndexOf, TokenOf

LEMMA CredentialTypes ==
  /\ \A k \in Keys : ApiKey(k) \in Credential /\ ApiKey(k).kind = k
  /\ \A n \in Nat : Token(n) \in Credential /\ Token(n).kind = OAuth /\ Token(n).token = n
BY DEF ApiKey, Token, Credential, Kinds

\* An element without which a list is a list, and what it leaves.
LEMMA WithoutType ==
  ASSUME NEW s \in Seq(Credential), NEW u \in 1..Len(s)
  PROVE  /\ Without(s, u) \in Seq(Credential)
         /\ Len(Without(s, u)) = Len(s) - 1
         /\ \A i \in 1..(Len(s) - 1) : Without(s, u)[i] = s[IF i < u THEN i ELSE i + 1]
<1> DEFINE a == SubSeq(s, 1, u - 1)
           b == SubSeq(s, u + 1, Len(s))
<1>1. a \in Seq(Credential) /\ Len(a) = u - 1 /\ \A i \in 1..(u - 1) : a[i] = s[i]
  OBVIOUS
<1>2. b \in Seq(Credential) /\ Len(b) = Len(s) - u /\ \A i \in 1..(Len(s) - u) : b[i] = s[u + i]
  OBVIOUS
<1>3. Without(s, u) = a \o b
  BY DEF Without
<1> HIDE DEF a, b
<1>4. Without(s, u) \in Seq(Credential) /\ Len(Without(s, u)) = Len(s) - 1
  BY <1>1, <1>2, <1>3
<1>5. ASSUME NEW i \in 1..(Len(s) - 1)
      PROVE  Without(s, u)[i] = s[IF i < u THEN i ELSE i + 1]
  <2>1. CASE i < u
    BY <1>1, <1>2, <1>3, <2>1
  <2>2. CASE ~(i < u)
    <3>1. Without(s, u)[i] = b[i - (u - 1)]
      BY <1>1, <1>2, <1>3, <2>2
    <3>2. i - (u - 1) \in 1..(Len(s) - u)
      BY <2>2
    <3>3. u + (i - (u - 1)) = i + 1
      OBVIOUS
    <3> QED BY <1>2, <2>2, <3>1, <3>2, <3>3
  <2> QED BY <2>1, <2>2
<1> QED BY <1>4, <1>5

\* What is left has no credential of the kind that was taken out.
LEMMA WithoutKinds ==
  ASSUME NEW s \in Credentials, NEW u \in DOMAIN s
  PROVE  /\ Without(s, u) \in Credentials
         /\ KindsOf(Without(s, u)) = KindsOf(s) \ {s[u].kind}
<1> DEFINE w == Without(s, u)
<1>1. s \in Seq(Credential) /\ u \in 1..Len(s) /\ DOMAIN s = 1..Len(s)
  BY DEF Credentials
<1>2. /\ w \in Seq(Credential) /\ Len(w) = Len(s) - 1
      /\ \A i \in 1..(Len(s) - 1) : w[i] = s[IF i < u THEN i ELSE i + 1]
  BY <1>1, WithoutType
<1>3. DOMAIN w = 1..(Len(s) - 1)
  BY <1>2
<1> HIDE DEF w
<1> DEFINE from(i) == IF i < u THEN i ELSE i + 1
<1>4. ASSUME NEW i \in DOMAIN w
      PROVE  from(i) \in DOMAIN s /\ from(i) # u /\ w[i] = s[from(i)]
  BY <1>1, <1>2, <1>3
<1>5. ASSUME NEW i \in DOMAIN w, NEW j \in DOMAIN w, from(i) = from(j)
      PROVE  i = j
  BY <1>1, <1>3, <1>5
<1> HIDE DEF from
<1>6. \A i, j \in DOMAIN s : s[i].kind = s[j].kind => i = j
  BY DEF Credentials
<1>7. w \in Credentials
  BY <1>2, <1>4, <1>5, <1>6 DEF Credentials
<1>8. \A k \in KindsOf(w) : k \in KindsOf(s) /\ k # s[u].kind
  BY <1>4, <1>6 DEF KindsOf
<1>9. ASSUME NEW k \in KindsOf(s), k # s[u].kind PROVE k \in KindsOf(w)
  <2>1. PICK j \in DOMAIN s : s[j].kind = k /\ j # u
    BY <1>9 DEF KindsOf
  <2>2. \E i \in DOMAIN w : from(i) = j
    <3>1. CASE j < u
      BY <1>1, <1>3, <2>1, <3>1 DEF from
    <3>2. CASE j > u
      <4>1. j - 1 \in DOMAIN w /\ from(j - 1) = j
        BY <1>1, <1>3, <2>1, <3>2 DEF from
      <4> QED BY <4>1
    <3> QED BY <1>1, <2>1, <3>1, <3>2
  <2> QED BY <1>4, <2>1, <2>2 DEF KindsOf
<1> QED BY <1>7, <1>8, <1>9 DEF w

\* A credential of a new kind is added: what there was stays what it was.
LEMMA AppendNew ==
  ASSUME NEW s \in Credentials, NEW c \in Credential, c.kind \notin KindsOf(s)
  PROVE  /\ Append(s, c) \in Credentials
         /\ KindsOf(Append(s, c)) = KindsOf(s) \cup {c.kind}
         /\ c.kind = OAuth => TokenOf(Append(s, c)) = c.token
         /\ OAuth \in KindsOf(s) => TokenOf(Append(s, c)) = TokenOf(s)
<1> DEFINE t == Append(s, c)
<1>1. s \in Seq(Credential) /\ DOMAIN s = 1..Len(s)
  BY DEF Credentials
<1>2. /\ t \in Seq(Credential) /\ DOMAIN t = 1..(Len(s) + 1)
      /\ \A i \in 1..Len(s) : t[i] = s[i]
      /\ t[Len(s) + 1] = c
  BY <1>1
<1> HIDE DEF t
<1>3. DOMAIN t = DOMAIN s \cup {Len(s) + 1} /\ Len(s) + 1 \notin DOMAIN s
  BY <1>1, <1>2
<1>4. \A i, j \in DOMAIN s : s[i].kind = s[j].kind => i = j
  BY DEF Credentials
<1>5. \A i \in DOMAIN s : s[i].kind # c.kind
  BY DEF KindsOf
<1>6. t \in Credentials
  BY <1>1, <1>2, <1>3, <1>4, <1>5 DEF Credentials
<1>7. KindsOf(t) = KindsOf(s) \cup {c.kind}
  BY <1>1, <1>2, <1>3 DEF KindsOf
<1>8. c.kind = OAuth => TokenOf(t) = c.token
  BY <1>2, <1>3, <1>6, TokenIsThere
<1>9. OAuth \in KindsOf(s) => TokenOf(t) = TokenOf(s)
  <2> SUFFICES ASSUME OAuth \in KindsOf(s) PROVE TokenOf(t) = TokenOf(s)
    OBVIOUS
  <2>1. PICK i \in DOMAIN s : s[i].kind = OAuth
    BY DEF KindsOf
  <2>2. TokenOf(s) = s[i].token
    BY <2>1, TokenIsThere
  <2>3. i \in DOMAIN t /\ t[i] = s[i]
    BY <1>1, <1>2, <1>3
  <2> QED BY <1>6, <2>1, <2>2, <2>3, TokenIsThere
<1> QED BY <1>6, <1>7, <1>8, <1>9 DEF t

\* The API keys of a list are one, with no token.
LEMMA ApiKeysType ==
  ASSUME NEW s \in Credentials
  PROVE  apiKeys(s) \in Credentials /\ KindsOf(apiKeys(s)) = KindsOf(s) \ {OAuth}
<1>1. CASE OAuth \in KindsOf(s)
  <2>1. IndexOf(s, OAuth) \in DOMAIN s /\ s[IndexOf(s, OAuth)].kind = OAuth
    BY <1>1, TokenIndex
  <2> QED BY <1>1, <2>1, WithoutKinds DEF apiKeys
<1>2. CASE OAuth \notin KindsOf(s)
  BY <1>2 DEF apiKeys
<1> QED BY <1>1, <1>2

\* The list is reordered, and its token is the one it was.
LEMMA Reordered ==
  ASSUME NEW s \in Credentials, NEW u \in DOMAIN s
  PROVE  LET r == Append(Without(s, u), s[u])
         IN  /\ r \in Credentials /\ KindsOf(r) = KindsOf(s)
             /\ OAuth \in KindsOf(r) => TokenOf(r) = TokenOf(s)
<1> DEFINE w == Without(s, u)
           r == Append(w, s[u])
<1>1. s \in Seq(Credential) /\ u \in 1..Len(s) /\ DOMAIN s = 1..Len(s) /\ s[u] \in Credential
  BY DEF Credentials
<1>2. w \in Credentials /\ KindsOf(w) = KindsOf(s) \ {s[u].kind} /\ s[u].kind \in KindsOf(s)
  BY WithoutKinds DEF KindsOf
<1>3. \A i \in DOMAIN w : \E j \in DOMAIN s : w[i] = s[j]
  <2>1. /\ w \in Seq(Credential) /\ Len(w) = Len(s) - 1
        /\ \A i \in 1..(Len(s) - 1) : w[i] = s[IF i < u THEN i ELSE i + 1]
    BY <1>1, WithoutType
  <2>2. \A i \in 1..(Len(s) - 1) : (IF i < u THEN i ELSE i + 1) \in DOMAIN s
    BY <1>1
  <2> QED BY <2>1, <2>2
<1> HIDE DEF w
<1>4. /\ r \in Credentials /\ KindsOf(r) = KindsOf(w) \cup {s[u].kind}
      /\ s[u].kind = OAuth => TokenOf(r) = s[u].token
      /\ OAuth \in KindsOf(w) => TokenOf(r) = TokenOf(w)
  BY <1>1, <1>2, AppendNew
<1>5. s[u].kind = OAuth => OAuth \in KindsOf(s) /\ TokenOf(s) = s[u].token
  BY TokenIsThere
<1>6. OAuth \in KindsOf(w) => OAuth \in KindsOf(s) /\ TokenOf(s) = TokenOf(w)
  BY <1>2, <1>3, TokenIndex, TokenIsThere
<1> QED BY <1>2, <1>4, <1>5, <1>6 DEF w

\* The new token takes the place of the old one.
LEMMA RefreshedType ==
  ASSUME NEW p, call[p].base \in Credentials, OAuth \in KindsOf(call[p].base),
         call[p].token \in Nat
  PROVE  /\ Refreshed(p) \in Credentials
         /\ KindsOf(Refreshed(p)) = KindsOf(call[p].base)
         /\ TokenOf(Refreshed(p)) = call[p].token
<1> DEFINE b == call[p].base
           i == IndexOf(b, OAuth)
           c == Token(call[p].token)
<1>1. i \in DOMAIN b /\ b[i].kind = OAuth /\ b \in Credentials
  BY TokenIndex
<1>2. c \in Credential /\ c.kind = OAuth /\ c.token = call[p].token
  BY CredentialTypes
<1>3. Refreshed(p) = [b EXCEPT ![i] = c]
  BY DEF Refreshed
<1> HIDE DEF i, c, b
<1>4. b \in Seq(Credential) /\ \A j, k \in DOMAIN b : b[j].kind = b[k].kind => j = k
  BY <1>1 DEF Credentials
<1>5. /\ Refreshed(p) \in Seq(Credential) /\ DOMAIN Refreshed(p) = DOMAIN b
      /\ Refreshed(p)[i] = c
      /\ \A j \in DOMAIN b : Refreshed(p)[j].kind = b[j].kind
  BY <1>1, <1>2, <1>3, <1>4
<1>6. Refreshed(p) \in Credentials
  BY <1>4, <1>5 DEF Credentials
<1>7. KindsOf(Refreshed(p)) = KindsOf(b)
  BY <1>5 DEF KindsOf
<1> QED BY <1>1, <1>2, <1>5, <1>6, <1>7, TokenIsThere DEF b

-----------------------------------------------------------------------------
(* The state is well-formed *)

\* TypeOK is not inductive: that exchanged tokens were issued needs that all tokens were,
\* wherever they are kept.
IssuedBy(s, n) == OAuth \in KindsOf(s) => TokenOf(s) \in 1..n

TokensIssued ==
  /\ IssuedBy(file, issued)
  /\ \A p \in Processes : IssuedBy(data[p], issued)
  /\ \A p \in Processes : p \in Holding =>
       OAuth \in KindsOf(call[p].base) /\ IssuedBy(call[p].base, issued)
  /\ \A p \in Processes : At(p, "answered") => call[p].token \in 1..issued

TypeInvariant == TypeOK /\ TokensIssued

LEMMA EmptyIsCredentials == <<>> \in Credentials /\ OAuth \notin KindsOf(<<>>)
BY DEF Credentials, KindsOf

LEMMA NoCallType == NoCall \in CallType
BY EmptyIsCredentials DEF NoCall, CallType

\* The search begins inside the list.
LEMMA StartType ==
  ASSUME TypeOK, NEW p \in Processes, data[p] # <<>>
  PROVE  /\ StartAt(p, 0) \in DOMAIN data[p]
         /\ Len(data[p]) \in Nat \ {0} /\ DOMAIN data[p] = 1..Len(data[p])
<1>1. data[p] \in Seq(Credential) /\ Hash[p] \in Nat
  BY AuthAssumption DEF TypeOK, Credentials
<1>2. Len(data[p]) \in Nat \ {0} /\ DOMAIN data[p] = 1..Len(data[p])
  BY <1>1
<1>3. (Hash[p] + 0) % Len(data[p]) \in 0..(Len(data[p]) - 1)
  BY <1>1, <1>2
<1> QED BY <1>2, <1>3 DEF StartAt

LEMMA PersistType ==
  ASSUME TypeOK, NEW p \in Processes, NEW entry \in Credentials, persistProviderChange(p, entry)
  PROVE  file' \in {file, entry} /\ lock' \in Processes \cup {Nobody}
BY DEF TypeOK, persistProviderChange, Unlocked

LEMMA ReloadsType ==
  ASSUME TypeOK, NEW p \in Processes, NEW copy \in Credentials, reloads(p, copy)
  PROVE  /\ data' \in {[data EXCEPT ![p] = file], [data EXCEPT ![p] = copy]}
         /\ loadError' \in [Processes -> BOOLEAN]
         /\ lock' \in Processes \cup {Nobody}
BY DEF TypeOK, reloads, Unlocked

LEMMA UsesType ==
  ASSUME TypeOK, NEW p \in Processes, NEW k \in Kinds, uses(p, k)
  PROVE  used' \in [Processes -> Kinds \cup {NoKind}]
BY DEF TypeOK, uses

\* What a step that marks a credential does to the list.
LEMMA MarkReorders ==
  ASSUME TypeOK, NEW p \in Processes, markUsageLimitReached(p)
  PROVE  \E r \in Credentials :
           /\ data' = [data EXCEPT ![p] = r]
           /\ KindsOf(r) = KindsOf(data[p])
           /\ OAuth \in KindsOf(r) => TokenOf(r) = TokenOf(data[p])
           /\ persistProviderChange(p, r) \/ UNCHANGED <<file, lock>>
           /\ backoff' \in [Processes -> SUBSET (Nat \ {0})]
<1> DEFINE n == Len(data[p])
           u == StartAt(p, 0)
           r == Append(Without(data[p], u), data[p][u])
<1>1. u \in DOMAIN data[p] /\ n \in Nat \ {0} /\ DOMAIN data[p] = 1..n /\ data[p] \in Credentials
  BY StartType DEF markUsageLimitReached, TypeOK
<1>2. /\ r \in Credentials /\ KindsOf(r) = KindsOf(data[p])
      /\ OAuth \in KindsOf(r) => TokenOf(r) = TokenOf(data[p])
  BY <1>1, Reordered
<1>3. \A i \in Nat \ {0} : Remapped(i, u, n) \in Nat \ {0}
  BY <1>1 DEF Remapped
<1>4. /\ data' = [data EXCEPT ![p] = r]
      /\ backoff' = [backoff EXCEPT ![p] = {Remapped(i, u, n) : i \in @} \cup {n}]
      /\ persistProviderChange(p, r) \/ UNCHANGED <<file, lock>>
  BY DEF markUsageLimitReached
<1> HIDE DEF n, u, r
<1>5. backoff' \in [Processes -> SUBSET (Nat \ {0})]
  BY <1>1, <1>3, <1>4 DEF TypeOK
<1> QED BY <1>2, <1>4, <1>5

LEMMA TypeInit == Init => TypeInvariant
<1> SUFFICES ASSUME Init PROVE TypeInvariant
  OBVIOUS
<1>1. TypeOK
  BY EmptyIsCredentials, NoCallType DEF Init, TypeOK
<1>2. TokensIssued
  BY EmptyIsCredentials DEF Init, TokensIssued, IssuedBy, NoCall, At, Holding
<1> QED BY <1>1, <1>2 DEF TypeInvariant

LEMMA TypeStep == TypeInvariant /\ [Next]_vars => TypeOK'
<1> SUFFICES ASSUME TypeInvariant, [Next]_vars PROVE TypeOK'
  OBVIOUS
<1>0. TypeOK /\ TokensIssued
  BY DEF TypeInvariant
<1> USE <1>0 DEF memory, server, vars, TypeOK
<1>1. ASSUME NEW p \in Processes, NEW k \in Keys, setApiKey(p, k) PROVE TypeOK'
  <2>1. Append(data[p], ApiKey(k)) \in Credentials
    BY <1>1, CredentialTypes, AppendNew DEF setApiKey
  <2> QED BY <1>1, <2>1, PersistType DEF setApiKey
<1>2. ASSUME NEW p \in Processes, login(p) PROVE TypeOK'
  <2>1. apiKeys(data[p]) \in Credentials /\ KindsOf(apiKeys(data[p])) = KindsOf(data[p]) \ {OAuth}
    BY ApiKeysType
  <2>2. Token(issued + 1) \in Credential /\ Token(issued + 1).kind = OAuth
    BY CredentialTypes
  <2>3. Append(apiKeys(data[p]), Token(issued + 1)) \in Credentials
    BY <2>1, <2>2, AppendNew
  <2> QED BY <1>2, <2>3, PersistType DEF login
<1>3. ASSUME NEW p \in Processes, remove(p) PROVE TypeOK'
  BY <1>3, EmptyIsCredentials, PersistType DEF remove
<1>4. ASSUME NEW p \in Processes, markUsageLimitReached(p) PROVE TypeOK'
  <2>1. PICK r \in Credentials : /\ data' = [data EXCEPT ![p] = r]
                                 /\ persistProviderChange(p, r) \/ UNCHANGED <<file, lock>>
                                 /\ backoff' \in [Processes -> SUBSET (Nat \ {0})]
    BY <1>4, MarkReorders
  <2>2. file' \in Credentials /\ lock' \in Processes \cup {Nobody}
    BY <2>1, PersistType
  <2>3. used' = [used EXCEPT ![p] = NoKind] /\ UNCHANGED <<loadError, call, server>>
    BY <1>4 DEF markUsageLimitReached
  <2>4. data' \in [Processes -> Credentials] /\ backoff' \in [Processes -> SUBSET (Nat \ {0})]
    BY <2>1
  <2>5. used' \in [Processes -> Kinds \cup {NoKind}]
    BY <2>3
  <2> HIDE DEF TypeOK
  <2> QED BY <1>0, <2>2, <2>3, <2>4, <2>5 DEF TypeOK
<1>5. ASSUME NEW p \in Processes, restart(p) PROVE TypeOK'
  <2>1. /\ data' \in [Processes -> Credentials] /\ loadError' \in [Processes -> BOOLEAN]
        /\ lock' \in Processes \cup {Nobody}
    <3>1. CASE reloads(p, <<>>)
      <4>1. /\ data' \in {[data EXCEPT ![p] = file], [data EXCEPT ![p] = <<>>]} /\ <<>> \in Credentials
            /\ loadError' \in [Processes -> BOOLEAN] /\ lock' \in Processes \cup {Nobody}
        BY <3>1, EmptyIsCredentials, ReloadsType
      <4> QED BY <4>1
    <3>2. CASE /\ lock' = Nobody /\ data' = [data EXCEPT ![p] = file]
               /\ loadError' = [loadError EXCEPT ![p] = FALSE]
      BY <3>2
    <3> QED BY <1>5, <3>1, <3>2 DEF restart
  <2> QED BY <1>5, <2>1, NoCallType DEF restart
<1>6. ASSUME NEW p \in Processes, NEW i \in backoff[p], backoffEnds(p, i) PROVE TypeOK'
  BY <1>6 DEF backoffEnds
<1>7. ASSUME tokenExpires PROVE TypeOK'
  BY <1>7 DEF tokenExpires
<1>8. ASSUME NEW p \in Processes, reload(p) PROVE TypeOK'
  BY <1>8, ReloadsType DEF reload
<1>9. ASSUME NEW p \in Processes, getApiKey(p) PROVE TypeOK'
  <2>1. call' \in [Processes -> CallType]
    BY <1>9 DEF getApiKey, CallType
  <2>2. used' \in [Processes -> Kinds \cup {NoKind}]
    <3>1. PICK i \in DOMAIN data[p] : uses(p, data[p][i].kind) \/ UNCHANGED used
      BY <1>9 DEF getApiKey, Available
    <3>2. data[p][i].kind \in Kinds
      <4>1. data[p] \in Seq(Credential)
        BY DEF Credentials
      <4>2. data[p][i] \in Credential
        BY <4>1
      <4> QED BY <4>2 DEF Credential
    <3> QED BY <3>1, <3>2, UsesType
  <2> QED BY <1>9, <2>1, <2>2 DEF getApiKey
<1>10. ASSUME NEW p \in Processes, lockGivesUp(p) PROVE TypeOK'
  BY <1>10 DEF lockGivesUp, CallType
<1>11. ASSUME NEW p \in Processes, refreshOAuthTokenWithLock(p) PROVE TypeOK'
  <2>1. [NoCall EXCEPT !.stage = "asking", !.base = file] \in CallType
    BY NoCallType DEF CallType
  <2>3. lock' \in Processes \cup {Nobody} /\ call' \in [Processes -> CallType]
    BY <1>11, <2>1, NoCallType DEF refreshOAuthTokenWithLock, Unlocked
  <2>2. used' \in [Processes -> Kinds \cup {NoKind}]
    BY <1>11, UsesType DEF refreshOAuthTokenWithLock, Kinds
  <2> QED BY <1>11, <2>2, <2>3 DEF refreshOAuthTokenWithLock
<1>12. ASSUME NEW p \in Processes, serverAnswers(p) PROVE TypeOK'
  <2>1. TokenOf(call[p].base) \in 1..issued
    BY <1>12 DEF serverAnswers, TokensIssued, IssuedBy, Holding, At
  <2>2. call' \in [Processes -> CallType]
    <3>1. [call[p] EXCEPT !.stage = "answered", !.token = issued + 1] \in CallType
      <4>1. call[p] \in CallType /\ issued + 1 \in Nat
        OBVIOUS
      <4> QED BY <4>1 DEF CallType
    <3>2. call' = [call EXCEPT ![p] = [call[p] EXCEPT !.stage = "answered", !.token = issued + 1]]
      BY <1>12 DEF serverAnswers, CallType
    <3> QED BY <3>1, <3>2
  <2> QED BY <1>12, <2>1, <2>2 DEF serverAnswers
<1>13. ASSUME NEW p \in Processes, serverFails(p) PROVE TypeOK'
  BY <1>13 DEF serverFails, CallType
<1>14. ASSUME NEW p \in Processes, onCompromised(p) PROVE TypeOK'
  BY <1>14 DEF onCompromised, CallType
<1>15. ASSUME NEW p \in Processes, refreshReturns(p) PROVE TypeOK'
  <2>1. Refreshed(p) \in Credentials
    BY <1>15, RefreshedType DEF refreshReturns, TokensIssued, Holding, At, CallType
  <2>2. used' \in [Processes -> Kinds \cup {NoKind}]
    BY <1>15, UsesType DEF refreshReturns, Kinds
  <2> QED BY <1>15, <2>1, <2>2, NoCallType DEF refreshReturns, Unlocked
<1>16. ASSUME NEW p \in Processes, refreshFails(p) PROVE TypeOK'
  <2>1. At(p, "answered") => Refreshed(p) \in Credentials
    BY RefreshedType DEF TokensIssued, Holding, At, CallType
  <2>2. call' \in [Processes -> CallType]
    BY <1>16, NoCallType DEF refreshFails, CallType, NoCall
  <2>3. data' \in [Processes -> Credentials]
    BY <1>16, <2>1 DEF refreshFails
  <2> QED BY <1>16, <2>2, <2>3 DEF refreshFails, Unlocked
<1>17. ASSUME NEW p \in Processes, recover(p) PROVE TypeOK'
  <2>1. used' \in [Processes -> Kinds \cup {NoKind}]
    BY <1>17, UsesType DEF recover, Kinds
  <2>2. data' \in [Processes -> Credentials] /\ loadError' \in [Processes -> BOOLEAN]
        /\ lock' \in Processes \cup {Nobody}
    BY <1>17, ReloadsType DEF recover
  <2> QED BY <1>17, <2>1, <2>2, NoCallType DEF recover
<1>18. ASSUME NEW p \in Processes, answerIsLost(p) PROVE TypeOK'
  <2>1. TokenOf(call[p].base) \in 1..issued
    BY <1>18 DEF answerIsLost, TokensIssued, IssuedBy, Holding, At
  <2>2. call' \in [Processes -> CallType]
    BY <1>18 DEF answerIsLost, CallType
  <2> QED BY <1>18, <2>1, <2>2 DEF answerIsLost
<1>19. CASE UNCHANGED vars
  BY <1>19
<1> QED BY <1>1, <1>2, <1>3, <1>4, <1>5, <1>6, <1>7, <1>8, <1>9, <1>10, <1>11, <1>12,
           <1>13, <1>14, <1>15, <1>16, <1>17, <1>18, <1>19 DEF Next, Uses, Refresh

\* Whatever is written or read was issued, if the entry of the step was.
LEMMA ListsIssued ==
  ASSUME TypeInvariant, TypeOK', NEW p \in Processes, NEW e, IssuedBy(e, issued'), issued <= issued',
         file' \in {file, e}, data' \in {data, [data EXCEPT ![p] = file], [data EXCEPT ![p] = e]}
  PROVE  IssuedBy(file', issued') /\ \A q \in Processes : IssuedBy(data'[q], issued')
<1>1. \A s : IssuedBy(s, issued) => IssuedBy(s, issued')
  BY DEF IssuedBy, TypeOK, TypeInvariant
<1>2. IssuedBy(file, issued) /\ \A q \in Processes : IssuedBy(data[q], issued)
  BY DEF TypeInvariant, TokensIssued
<1>3. data \in [Processes -> Credentials]
  BY DEF TypeInvariant, TypeOK
<1> QED BY <1>1, <1>2, <1>3

\* The same for the token of a call.
LEMMA CallIssued ==
  ASSUME TypeInvariant, TypeOK', NEW p \in Processes, NEW c, call' = [call EXCEPT ![p] = c],
         issued <= issued',
         c.stage \in {"asking", "answered", "failed"} =>
           OAuth \in KindsOf(c.base) /\ IssuedBy(c.base, issued'),
         c.stage = "answered" => c.token \in 1..issued'
  PROVE  /\ \A q \in Processes : q \in Holding' =>
              OAuth \in KindsOf(call'[q].base) /\ IssuedBy(call'[q].base, issued')
         /\ \A q \in Processes : At(q, "answered")' => call'[q].token \in 1..issued'
<1>1. \A s : IssuedBy(s, issued) => IssuedBy(s, issued')
  BY DEF IssuedBy, TypeOK, TypeInvariant
<1>2. /\ \A q \in Processes : call[q].stage \in {"asking", "answered", "failed"} =>
           OAuth \in KindsOf(call[q].base) /\ IssuedBy(call[q].base, issued)
      /\ \A q \in Processes : call[q].stage = "answered" => call[q].token \in 1..issued'
  BY DEF TypeInvariant, TypeOK, TokensIssued, Holding, At
<1>3. DOMAIN call = Processes
  BY DEF TypeInvariant, TypeOK
<1>4. \A q \in Processes : call'[q] = IF q = p THEN c ELSE call[q]
  BY <1>3
<1> QED BY <1>1, <1>2, <1>4 DEF Holding, At

LEMMA CallUnchanged ==
  ASSUME TypeOK, NEW p \in Processes, UNCHANGED call
  PROVE  call' = [call EXCEPT ![p] = call[p]]
BY DEF TypeOK

LEMMA TokensStep == TypeInvariant /\ [Next]_vars => TokensIssued'
<1> SUFFICES ASSUME TypeInvariant, [Next]_vars PROVE TokensIssued'
  OBVIOUS
<1>0. TypeOK /\ TokensIssued /\ TypeOK'
  BY TypeStep DEF TypeInvariant
<1>a. /\ \A p \in Processes : IssuedBy(data[p], issued)
      /\ \A p \in Processes : call[p].stage \in {"asking", "answered", "failed"} =>
           OAuth \in KindsOf(call[p].base) /\ IssuedBy(call[p].base, issued)
      /\ \A p \in Processes : call[p].stage = "answered" => call[p].token \in 1..issued
      /\ IssuedBy(file, issued) /\ issued \in Nat /\ issued <= issued
      /\ data \in [Processes -> Credentials] /\ call \in [Processes -> CallType]
      /\ IssuedBy(<<>>, issued)
  BY <1>0, EmptyIsCredentials DEF TokensIssued, TypeOK, Holding, At, IssuedBy
\* A step that changes lists and no call.
<1>b. ASSUME NEW p \in Processes, NEW e, IssuedBy(e, issued'), issued <= issued', UNCHANGED call,
             file' \in {file, e}, data' \in {data, [data EXCEPT ![p] = file], [data EXCEPT ![p] = e]}
      PROVE  TokensIssued'
  <2>1. IssuedBy(file', issued') /\ \A q \in Processes : IssuedBy(data'[q], issued')
    BY <1>0, <1>b, ListsIssued
  <2>2. \A s : IssuedBy(s, issued) => IssuedBy(s, issued')
    BY <1>0, <1>b DEF IssuedBy, TypeOK
  <2>3. issued' \in Nat
    BY <1>0 DEF TypeOK
  <2> QED BY <1>a, <1>b, <2>1, <2>2, <2>3 DEF TokensIssued, Holding, At
\* A step that changes a call and issues no token.
<1>c. ASSUME NEW p \in Processes, NEW c, call' = [call EXCEPT ![p] = c], UNCHANGED <<file, issued>>,
             c.stage \in {"asking", "answered", "failed"} =>
               OAuth \in KindsOf(c.base) /\ IssuedBy(c.base, issued),
             c.stage = "answered" => c.token \in 1..issued,
             data' \in {data, [data EXCEPT ![p] = file]}
      PROVE  TokensIssued'
  <2>1. IssuedBy(file', issued') /\ \A q \in Processes : IssuedBy(data'[q], issued')
    BY <1>0, <1>a, <1>c, ListsIssued
  <2>2. issued <= issued'
    BY <1>a, <1>c
  <2>3. /\ \A q \in Processes : q \in Holding' =>
             OAuth \in KindsOf(call'[q].base) /\ IssuedBy(call'[q].base, issued')
        /\ \A q \in Processes : At(q, "answered")' => call'[q].token \in 1..issued'
    BY <1>0, <1>c, <2>2, CallIssued
  <2> QED BY <2>1, <2>3 DEF TokensIssued
<1>d. IssuedBy(NoCall.base, issued) /\ NoCall.stage = "none"
  BY <1>a DEF NoCall
<1> USE DEF memory, server, vars
<1>1. ASSUME NEW p \in Processes, NEW k \in Keys, setApiKey(p, k) PROVE TokensIssued'
  <2> DEFINE e == Append(data[p], ApiKey(k))
  <2>1. ApiKey(k) \in Credential /\ ApiKey(k).kind = k /\ k # OAuth /\ data[p] \in Credentials
    BY <1>a, CredentialTypes, AuthAssumption
  <2>2. /\ e \in Credentials /\ KindsOf(e) = KindsOf(data[p]) \cup {k}
        /\ OAuth \in KindsOf(data[p]) => TokenOf(e) = TokenOf(data[p])
    BY <1>1, <2>1, AppendNew DEF setApiKey
  <2>3. persistProviderChange(p, e) /\ data' = [data EXCEPT ![p] = e] /\ UNCHANGED <<call, issued>>
    BY <1>1 DEF setApiKey
  <2> HIDE DEF e
  <2>4. IssuedBy(e, issued)
    BY <1>a, <2>1, <2>2 DEF IssuedBy
  <2> QED BY <1>0, <1>a, <1>b, <2>2, <2>3, <2>4, PersistType
<1>2. ASSUME NEW p \in Processes, login(p) PROVE TokensIssued'
  <2> DEFINE e == Append(apiKeys(data[p]), Token(issued + 1))
  <2>1. apiKeys(data[p]) \in Credentials /\ KindsOf(apiKeys(data[p])) = KindsOf(data[p]) \ {OAuth}
    BY <1>a, ApiKeysType
  <2>2. /\ Token(issued + 1) \in Credential /\ Token(issued + 1).kind = OAuth
        /\ Token(issued + 1).token = issued + 1
    BY <1>a, CredentialTypes
  <2>3. e \in Credentials /\ TokenOf(e) = issued + 1
    BY <2>1, <2>2, AppendNew
  <2>4. /\ persistProviderChange(p, e) /\ data' = [data EXCEPT ![p] = e] /\ UNCHANGED call
        /\ issued' = issued + 1
    BY <1>2 DEF login
  <2> HIDE DEF e
  <2>5. IssuedBy(e, issued') /\ issued <= issued'
    BY <1>a, <2>3, <2>4 DEF IssuedBy
  <2> QED BY <1>0, <1>b, <2>3, <2>4, <2>5, PersistType
<1>3. ASSUME NEW p \in Processes, remove(p) PROVE TokensIssued'
  BY <1>0, <1>3, <1>a, <1>b, EmptyIsCredentials, PersistType DEF remove
<1>4. ASSUME NEW p \in Processes, markUsageLimitReached(p) PROVE TokensIssued'
  <2>1. PICK r \in Credentials :
          /\ data' = [data EXCEPT ![p] = r]
          /\ KindsOf(r) = KindsOf(data[p])
          /\ OAuth \in KindsOf(r) => TokenOf(r) = TokenOf(data[p])
          /\ persistProviderChange(p, r) \/ UNCHANGED <<file, lock>>
    BY <1>0, <1>4, MarkReorders
  <2>2. UNCHANGED <<call, issued>>
    BY <1>4 DEF markUsageLimitReached
  <2>3. IssuedBy(r, issued)
    BY <1>a, <2>1 DEF IssuedBy
  <2> QED BY <1>0, <1>a, <1>b, <2>1, <2>2, <2>3, PersistType
<1>5. ASSUME NEW p \in Processes, restart(p) PROVE TokensIssued'
  <2>1. /\ data' \in {[data EXCEPT ![p] = file], [data EXCEPT ![p] = <<>>]}
        /\ UNCHANGED <<file, issued>> /\ call' = [call EXCEPT ![p] = NoCall]
    BY <1>0, <1>5, EmptyIsCredentials, ReloadsType DEF restart
  <2>2. IssuedBy(file', issued') /\ \A q \in Processes : IssuedBy(data'[q], issued')
    BY <1>0, <1>a, <2>1, ListsIssued
  <2>3. issued <= issued'
    BY <1>a, <2>1
  <2>4. /\ \A q \in Processes : q \in Holding' =>
             OAuth \in KindsOf(call'[q].base) /\ IssuedBy(call'[q].base, issued')
        /\ \A q \in Processes : At(q, "answered")' => call'[q].token \in 1..issued'
    BY <1>0, <1>d, <2>1, <2>3, CallIssued
  <2> QED BY <2>2, <2>4 DEF TokensIssued
<1>6. ASSUME NEW p \in Processes, NEW i \in backoff[p], backoffEnds(p, i) PROVE TokensIssued'
  BY <1>6, <1>a, <1>b DEF backoffEnds
<1>7. CASE tokenExpires \/ UNCHANGED vars
  BY <1>7, <1>0 DEF tokenExpires, TokensIssued, Holding, At
<1>8. ASSUME NEW p \in Processes, reload(p) PROVE TokensIssued'
  <2>1. data' \in {data, [data EXCEPT ![p] = file]} /\ UNCHANGED <<file, issued, call>>
    BY <1>0, <1>8, <1>a, ReloadsType DEF reload
  <2> QED BY <1>a, <1>b, <2>1
<1>9. ASSUME NEW p \in Processes, getApiKey(p) \/ lockGivesUp(p) PROVE TokensIssued'
  <2>1. PICK stage \in {call[p].stage, "waiting", "recovering"} :
          call' = [call EXCEPT ![p] = [call[p] EXCEPT !.stage = stage]]
    BY <1>9, <1>a DEF getApiKey, lockGivesUp, CallType
  <2>2. UNCHANGED <<file, data, issued>>
    BY <1>9 DEF getApiKey, lockGivesUp
  <2> DEFINE c == [call[p] EXCEPT !.stage = stage]
  <2>3. call[p] \in CallType
    BY <1>a
  <2>4. c.stage = stage /\ c.base = call[p].base /\ c.token = call[p].token
    BY <2>3 DEF CallType
  <2> HIDE DEF c
  <2> QED BY <1>a, <1>c, <2>1, <2>2, <2>4 DEF c
<1>10. ASSUME NEW p \in Processes, refreshOAuthTokenWithLock(p) PROVE TokensIssued'
  <2> DEFINE c == [NoCall EXCEPT !.stage = "asking", !.base = file]
  <2>1. c.stage = "asking" /\ c.base = file
    BY DEF NoCall
  <2>2. /\ call' = [call EXCEPT ![p] = NoCall] \/ (call' = [call EXCEPT ![p] = c] /\ OAuth \in KindsOf(file))
        /\ UNCHANGED <<file, issued>> /\ data' = [data EXCEPT ![p] = file]
    BY <1>10 DEF refreshOAuthTokenWithLock
  <2> HIDE DEF c
  <2> QED BY <1>a, <1>c, <1>d, <2>1, <2>2
<1>11. ASSUME NEW p \in Processes, serverAnswers(p) PROVE TokensIssued'
  <2> DEFINE c == [call[p] EXCEPT !.stage = "answered", !.token = issued + 1]
  <2>1. call[p] \in CallType
    BY <1>a
  <2>2. c.stage = "answered" /\ c.base = call[p].base /\ c.token = issued + 1
    BY <2>1 DEF CallType
  <2>3. /\ call' = [call EXCEPT ![p] = c] /\ issued' = issued + 1 /\ UNCHANGED <<file, data>>
        /\ call[p].stage = "asking"
    BY <1>11 DEF serverAnswers, At
  <2> HIDE DEF c
  <2>4. \A s : IssuedBy(s, issued) => IssuedBy(s, issued')
    BY <1>a, <2>3 DEF IssuedBy
  <2>5. issued <= issued' /\ c.token \in 1..issued' /\ OAuth \in KindsOf(c.base) /\ IssuedBy(c.base, issued')
    BY <1>a, <2>2, <2>3, <2>4
  <2>6. /\ \A q \in Processes : q \in Holding' =>
             OAuth \in KindsOf(call'[q].base) /\ IssuedBy(call'[q].base, issued')
        /\ \A q \in Processes : At(q, "answered")' => call'[q].token \in 1..issued'
    BY <1>0, <2>3, <2>5, CallIssued
  <2> QED BY <1>a, <2>3, <2>4, <2>6 DEF TokensIssued
<1>12. ASSUME NEW p \in Processes, serverFails(p) \/ onCompromised(p) PROVE TokensIssued'
  <2>1. PICK c : /\ call' = [call EXCEPT ![p] = c]
                 /\ c.base = call[p].base /\ c.token = call[p].token
                 /\ c.stage = call[p].stage \/ c.stage = "failed"
                 /\ call[p].stage \in {"asking", "answered", "failed"}
    <3>1. call[p] \in CallType
      BY <1>a
    <3> QED BY <1>12, <3>1 DEF serverFails, onCompromised, CallType, At, Holding
  <2>2. UNCHANGED <<file, data, issued>>
    BY <1>12 DEF serverFails, onCompromised
  <2>3. c.stage = "answered" => call[p].stage = "answered"
    BY <2>1
  <2> QED BY <1>a, <1>c, <2>1, <2>2, <2>3
<1>13. ASSUME NEW p \in Processes, refreshReturns(p) \/ refreshFails(p) PROVE TokensIssued'
  <2>1. PICK c : /\ call' = [call EXCEPT ![p] = c] /\ c.stage \in {"none", "recovering"}
    <3>1. [NoCall EXCEPT !.stage = "recovering"].stage = "recovering" /\ NoCall.stage = "none"
      BY DEF NoCall
    <3> QED BY <1>13, <3>1 DEF refreshReturns, refreshFails
  <2>2. At(p, "answered") => IssuedBy(Refreshed(p), issued)
    <3> SUFFICES ASSUME At(p, "answered") PROVE IssuedBy(Refreshed(p), issued)
      OBVIOUS
    <3>1. call[p].base \in Credentials /\ OAuth \in KindsOf(call[p].base)
          /\ call[p].token \in Nat /\ call[p].token \in 1..issued
      BY <1>a DEF At, CallType
    <3>2. TokenOf(Refreshed(p)) = call[p].token
      BY <3>1, RefreshedType
    <3> QED BY <3>1, <3>2 DEF IssuedBy
  <2>3. PICK e : /\ IssuedBy(e, issued) /\ file' \in {file, e}
                 /\ data' \in {data, [data EXCEPT ![p] = e]}
    <3>1. CASE At(p, "answered")
      BY <1>13, <2>2, <3>1 DEF refreshReturns, refreshFails
    <3>2. CASE ~At(p, "answered")
      <4>1. file' = file /\ data' = [data EXCEPT ![p] = data[p]]
        BY <1>13, <3>2 DEF refreshReturns, refreshFails
      <4> QED BY <1>a, <4>1
    <3> QED BY <3>1, <3>2
  <2>4. UNCHANGED issued
    BY <1>13 DEF refreshReturns, refreshFails
  <2>5. IssuedBy(file', issued') /\ \A q \in Processes : IssuedBy(data'[q], issued')
    BY <1>0, <1>a, <2>3, <2>4, ListsIssued
  <2>6. /\ \A q \in Processes : q \in Holding' =>
             OAuth \in KindsOf(call'[q].base) /\ IssuedBy(call'[q].base, issued')
        /\ \A q \in Processes : At(q, "answered")' => call'[q].token \in 1..issued'
    BY <1>0, <1>a, <2>1, <2>4, CallIssued
  <2> QED BY <2>5, <2>6 DEF TokensIssued
<1>14. ASSUME NEW p \in Processes, recover(p) PROVE TokensIssued'
  <2>1. /\ data' \in {data, [data EXCEPT ![p] = file]} /\ UNCHANGED <<file, issued>>
        /\ call' = [call EXCEPT ![p] = NoCall]
    BY <1>0, <1>14, <1>a, ReloadsType DEF recover
  <2> QED BY <1>a, <1>c, <1>d, <2>1
<1>15. ASSUME NEW p \in Processes, answerIsLost(p) PROVE TokensIssued'
  <2> DEFINE c == [call[p] EXCEPT !.stage = "failed"]
  <2>1. call[p] \in CallType
    BY <1>a
  <2>2. c.stage = "failed" /\ c.base = call[p].base
    BY <2>1 DEF CallType
  <2>3. /\ call' = [call EXCEPT ![p] = c] /\ issued' = issued + 1 /\ UNCHANGED <<file, data>>
        /\ call[p].stage = "asking"
    BY <1>15 DEF answerIsLost, At
  <2> HIDE DEF c
  <2>4. \A s : IssuedBy(s, issued) => IssuedBy(s, issued')
    BY <1>a, <2>3 DEF IssuedBy
  <2>5. issued <= issued' /\ OAuth \in KindsOf(c.base) /\ IssuedBy(c.base, issued')
    BY <1>a, <2>2, <2>3, <2>4
  <2>6. /\ \A q \in Processes : q \in Holding' =>
             OAuth \in KindsOf(call'[q].base) /\ IssuedBy(call'[q].base, issued')
        /\ \A q \in Processes : At(q, "answered")' => call'[q].token \in 1..issued'
    BY <1>0, <2>2, <2>3, <2>5, CallIssued
  <2> QED BY <1>a, <2>3, <2>4, <2>6 DEF TokensIssued
<1> QED BY <1>1, <1>2, <1>3, <1>4, <1>5, <1>6, <1>7, <1>8, <1>9, <1>10, <1>11, <1>12,
           <1>13, <1>14, <1>15 DEF Next, Uses, Refresh

\* Whatever the processes do to the file and to each other, the state is well-formed: there
\* is one token at most, and one that was exchanged was issued.
THEOREM TypeCorrect == Spec => []TypeOK
<1>1. TypeInvariant /\ [Next]_vars => TypeInvariant'
  BY TypeStep, TokensStep DEF TypeInvariant
<1>2. TypeInvariant => TypeOK
  BY DEF TypeInvariant
<1> QED BY <1>1, <1>2, TypeInit, PTL DEF Spec

-----------------------------------------------------------------------------
(* The token on file can be used *)

historyVars == <<vars, owned, limited, seen>>

Bad == {"outdated", "unwritten", "stolen", "cut", "lost"}
Calm == seen \cap Bad = {}

\* TokenIsUsable does not say why nobody but the holder of the lock writes.
Held == \A p \in Processes : p \in Holding => lock = p /\ ~call[p].lost /\ call[p].base = file
Fresh == \A p \in Processes : At(p, "answered") => call[p].token \notin exchanged
OnFile == OAuth \in KindsOf(file) =>
            TokenOf(file) \notin exchanged \/ \E p \in Processes : At(p, "answered")
Safe == Held /\ Fresh /\ OnFile

UsableInvariant == TypeInvariant /\ (Calm => Safe)

\* Who answers holds the lock.
LEMMA AnsweredHolds == \A p \in Processes : At(p, "answered") => p \in Holding
BY DEF At, Holding

LEMMA SafeIsUsable == UsableInvariant => CalmTokenIsUsable
BY AnsweredHolds
   DEF UsableInvariant, CalmTokenIsUsable, TokenIsUsable, Calm, Bad, Safe, Held, OnFile

\* A calm step was no slip.
LEMMA CalmStep ==
  ASSUME NEW S, slips(S), Calm'
  PROVE  Calm /\ ~Stolen /\ S \cap Bad = {}
BY DEF slips, Calm, Bad

LEMMA CalmSwaps ==
  ASSUME NEW S, swaps(S), Calm'
  PROVE  Calm /\ ~Stolen /\ S \cap Bad = {}
<1>1. PICK T : slips(T) /\ S \subseteq T
  BY DEF swaps
<1> QED BY <1>1, CalmStep

\* What is written replaces what was read.
LEMMA CalmWrite ==
  ASSUME NEW p \in Processes, NEW S, WriteSlip(p) \subseteq S, S \cap Bad = {}
  PROVE  file' # file => data[p] = file
BY DEF WriteSlip, Bad

\* A step that writes an entry with the token there was, a new one or none.
LEMMA EntryIsSafe ==
  ASSUME TypeInvariant, Safe, ~Stolen, UNCHANGED <<call, exchanged>>, NEW p \in Processes, NEW e,
         persistProviderChange(p, e) \/ UNCHANGED <<file, lock>>,
         file' # file => data[p] = file,
         OAuth \in KindsOf(e) =>
           \/ TokenOf(e) \notin exchanged
           \/ OAuth \in KindsOf(data[p]) /\ TokenOf(e) = TokenOf(data[p])
  PROVE  Safe'
<1>1. Holding' = Holding
  BY DEF Holding
<1>2. ASSUME NEW q \in Processes, q \in Holding
      PROVE  lock' = q /\ file' = file
  <2>1. lock = q /\ lock' = lock
    BY <1>1, <1>2 DEF Safe, Held, Stolen
  <2>2. q # Nobody
    BY AuthAssumption
  <2> QED BY <2>1, <2>2 DEF persistProviderChange, Unlocked
<1>3. Held' /\ Fresh'
  BY <1>1, <1>2 DEF Safe, Held, Fresh, At
<1>4. CASE \E q \in Processes : q \in Holding
  BY <1>2, <1>3, <1>4 DEF Safe, OnFile, At
<1>5. CASE \A q \in Processes : q \notin Holding
  <2>1. OAuth \in KindsOf(file) => TokenOf(file) \notin exchanged
    BY <1>5, AnsweredHolds DEF Safe, OnFile
  <2>2. file' = file \/ (file' = e /\ data[p] = file)
    BY DEF persistProviderChange
  <2> QED BY <1>3, <2>1, <2>2 DEF Safe, OnFile
<1> QED BY <1>4, <1>5

\* A step that writes nothing and leaves those alone who hold the lock.
LEMMA OthersAreSafe ==
  ASSUME Safe, ~Stolen, UNCHANGED <<file, exchanged>>,
         \A q \in Processes : q \in Holding' => q \in Holding /\ call'[q] = call[q],
         \A q \in Processes : At(q, "answered") => At(q, "answered")'
  PROVE  Safe'
<1>1. ASSUME NEW q \in Processes, q \in Holding' PROVE lock' = q
  BY <1>1 DEF Safe, Held, Stolen
<1>2. Held'
  BY <1>1 DEF Safe, Held
<1>3. \A q \in Processes : At(q, "answered")' => q \in Holding'
  BY DEF At, Holding
<1>4. Fresh'
  BY <1>3 DEF Safe, Fresh, At
<1> QED BY <1>2, <1>4 DEF Safe, OnFile

\* The holder of the lock is alone.
LEMMA HolderIsAlone ==
  ASSUME Held, NEW p \in Processes, NEW q \in Processes, p \in Holding, q \in Holding
  PROVE  p = q
BY DEF Held

LEMMA UsesAreSafe ==
  ASSUME TypeInvariant, TypeInvariant', Safe, ~Stolen, Uses
  PROVE  Safe'
<1> USE DEF memory, server
<1>0. call \in [Processes -> CallType] /\ Held /\ Fresh /\ OnFile
  BY DEF TypeInvariant, TypeOK, Safe
\* A step by which process p neither gets nor loses the lock.
<1>a. ASSUME NEW p \in Processes, NEW c, call' = [call EXCEPT ![p] = c],
             call[p].stage \notin {"asking", "answered", "failed"},
             c.stage \notin {"asking", "answered", "failed"}, UNCHANGED <<file, exchanged>>
      PROVE  Safe'
  <2>1. \A q \in Processes : call'[q] = IF q = p THEN c ELSE call[q]
    BY <1>0, <1>a
  <2>2. /\ \A q \in Processes : q \in Holding' => q \in Holding /\ call'[q] = call[q]
        /\ \A q \in Processes : At(q, "answered") => At(q, "answered")'
    BY <1>a, <2>1 DEF Holding, At
  <2> QED BY <1>a, <2>2, OthersAreSafe
<1>1. CASE tokenExpires
  BY <1>1, OthersAreSafe DEF tokenExpires, Holding, At
<1>2. ASSUME NEW p \in Processes, reload(p) PROVE Safe'
  BY <1>2, OthersAreSafe DEF reload, Holding, At
<1>3. ASSUME NEW p \in Processes, getApiKey(p) PROVE Safe'
  <2>1. CASE UNCHANGED call
    BY <1>3, <2>1, OthersAreSafe DEF getApiKey, Holding, At
  <2>2. CASE call' = [call EXCEPT ![p] = [call[p] EXCEPT !.stage = "waiting"]]
    <3>1. [call[p] EXCEPT !.stage = "waiting"].stage = "waiting"
      BY <1>0 DEF CallType
    <3> QED BY <1>3, <1>a, <2>2, <3>1 DEF getApiKey, At
  <2> QED BY <1>0, <1>3, <2>1, <2>2 DEF getApiKey
<1>4. ASSUME NEW p \in Processes, lockGivesUp(p) PROVE Safe'
  <2>1. [call[p] EXCEPT !.stage = "recovering"].stage = "recovering"
    BY <1>0 DEF CallType
  <2>2. call' = [call EXCEPT ![p] = [call[p] EXCEPT !.stage = "recovering"]]
    BY <1>0, <1>4 DEF lockGivesUp
  <2> QED BY <1>4, <1>a, <2>1, <2>2 DEF lockGivesUp, At
<1>5. ASSUME NEW p \in Processes, recover(p) PROVE Safe'
  <2>1. NoCall.stage = "none"
    BY DEF NoCall
  <2> QED BY <1>5, <1>a, <2>1 DEF recover, At
<1>6. ASSUME NEW p \in Processes, refreshOAuthTokenWithLock(p) PROVE Safe'
  <2> DEFINE c == [NoCall EXCEPT !.stage = "asking", !.base = file]
  <2>1. c.stage = "asking" /\ c.base = file /\ ~c.lost /\ NoCall.stage = "none"
    BY DEF NoCall
  <2>2. \A q \in Processes : q \notin Holding
    <3>1. lock = Nobody \/ lock \notin Holding
      BY <1>6 DEF refreshOAuthTokenWithLock
    <3> QED BY <1>0, <3>1, AuthAssumption DEF Held
  <2>3. /\ call' = [call EXCEPT ![p] = NoCall] \/ (call' = [call EXCEPT ![p] = c] /\ lock' = p)
        /\ UNCHANGED <<file, exchanged>>
    BY <1>6 DEF refreshOAuthTokenWithLock
  <2> HIDE DEF c
  <2>4. CASE call' = [call EXCEPT ![p] = NoCall]
    BY <1>6, <1>a, <2>1, <2>3, <2>4 DEF refreshOAuthTokenWithLock, At
  <2>5. CASE call' = [call EXCEPT ![p] = c] /\ lock' = p
    <3>1. \A q \in Processes : call'[q] = IF q = p THEN c ELSE call[q]
      BY <1>0, <2>5
    <3>2. \A q \in Processes : q \in Holding' => q = p
      BY <2>2, <3>1 DEF Holding
    <3>3. \A q \in Processes : ~At(q, "answered") /\ ~At(q, "answered")'
      BY <2>1, <2>2, <3>1 DEF Holding, At
    <3> QED BY <1>0, <2>1, <2>3, <2>5, <3>1, <3>2, <3>3 DEF Safe, Held, Fresh, OnFile
  <2> QED BY <2>3, <2>4, <2>5
<1>7. ASSUME NEW p \in Processes, serverAnswers(p) PROVE Safe'
  <2> DEFINE c == [call[p] EXCEPT !.stage = "answered", !.token = issued + 1]
  <2>1. call[p] \in CallType
    BY <1>0
  <2>2. c.stage = "answered" /\ c.base = call[p].base /\ c.token = issued + 1 /\ c.lost = call[p].lost
    BY <2>1 DEF CallType
  <2>3. /\ call' = [call EXCEPT ![p] = c] /\ UNCHANGED <<file, lock>> /\ p \in Holding
        /\ exchanged' = exchanged \cup {TokenOf(call[p].base)}
    BY <1>7 DEF serverAnswers, At, Holding
  <2> HIDE DEF c
  <2>4. TokenOf(call[p].base) \in 1..issued /\ exchanged \subseteq 1..issued /\ issued \in Nat
    BY <2>3 DEF TypeInvariant, TypeOK, TokensIssued, IssuedBy
  <2>5. c.token \notin exchanged'
    BY <2>2, <2>3, <2>4
  <2>6. \A q \in Processes : call'[q] = IF q = p THEN c ELSE call[q]
    BY <1>0, <2>3
  <2>7. \A q \in Processes : q \in Holding' => q = p
    BY <1>0, <2>3, <2>6, HolderIsAlone DEF Holding
  <2>8. \A q \in Processes : At(q, "answered")' => q = p
    BY <2>7 DEF At, Holding
  <2>9. At(p, "answered")'
    BY <2>2, <2>6 DEF At
  <2>10. lock = p /\ ~call[p].lost /\ call[p].base = file
    BY <1>0, <2>3 DEF Held
  <2> QED BY <2>2, <2>3, <2>5, <2>6, <2>7, <2>8, <2>9, <2>10 DEF Safe, Held, Fresh, OnFile
<1>8. ASSUME NEW p \in Processes, serverFails(p) PROVE Safe'
  <2> DEFINE c == [call[p] EXCEPT !.stage = "failed"]
  <2>1. call[p] \in CallType
    BY <1>0
  <2>2. c.stage = "failed" /\ c.base = call[p].base /\ c.lost = call[p].lost
    BY <2>1 DEF CallType
  <2>3. /\ call' = [call EXCEPT ![p] = c] /\ UNCHANGED <<file, lock, exchanged>> /\ p \in Holding
        /\ ~At(p, "answered")
    BY <1>8 DEF serverFails, At, Holding, server
  <2> HIDE DEF c
  <2>4. \A q \in Processes : call'[q] = IF q = p THEN c ELSE call[q]
    BY <1>0, <2>3
  <2>5. \A q \in Processes : q \in Holding' => q = p
    BY <1>0, <2>3, <2>4, HolderIsAlone DEF Holding
  <2>6. \A q \in Processes : ~At(q, "answered")' /\ ~At(q, "answered")
    BY <1>0, <2>2, <2>3, <2>4, HolderIsAlone, AnsweredHolds DEF At
  <2>7. lock = p /\ ~call[p].lost /\ call[p].base = file
    BY <1>0, <2>3 DEF Held
  <2> QED BY <1>0, <2>2, <2>3, <2>4, <2>5, <2>6, <2>7 DEF Safe, Held, Fresh, OnFile
<1>9. ASSUME NEW p \in Processes, onCompromised(p) PROVE Safe'
  BY <1>0, <1>9 DEF onCompromised, Held
<1>10. ASSUME NEW p \in Processes, refreshReturns(p) \/ refreshFails(p) PROVE Safe'
  <2>1. p \in Holding /\ ~call[p].lost
    BY <1>0, <1>10 DEF refreshReturns, refreshFails, At, Holding, Held
  <2>2. PICK c : call' = [call EXCEPT ![p] = c] /\ c.stage \in {"none", "recovering"}
    <3>1. [NoCall EXCEPT !.stage = "recovering"].stage = "recovering" /\ NoCall.stage = "none"
      BY DEF NoCall
    <3> QED BY <1>10, <3>1 DEF refreshReturns, refreshFails
  <2>3. \A q \in Processes : call'[q] = IF q = p THEN c ELSE call[q]
    BY <1>0, <2>2
  <2>4. \A q \in Processes : q \notin Holding'
    BY <1>0, <2>1, <2>2, <2>3, HolderIsAlone DEF Holding
  <2>5. \A q \in Processes : ~At(q, "answered")'
    BY <2>4 DEF At, Holding
  <2>6. exchanged' = exchanged
    BY <1>10 DEF refreshReturns, refreshFails
  <2>7. OAuth \in KindsOf(file') => TokenOf(file') \notin exchanged
    <3>1. CASE refreshReturns(p)
      <4>1. call[p].base \in Credentials /\ OAuth \in KindsOf(call[p].base) /\ call[p].token \in Nat
        BY <1>0, <2>1 DEF CallType, TypeInvariant, TokensIssued
      <4>2. TokenOf(Refreshed(p)) = call[p].token
        BY <4>1, RefreshedType
      <4>3. call[p].token \notin exchanged
        BY <1>0, <3>1 DEF refreshReturns, Fresh
      <4> QED BY <3>1, <4>2, <4>3 DEF refreshReturns
    <3>2. CASE refreshFails(p)
      <4>1. At(p, "failed") /\ file' = file
        BY <2>1, <3>2 DEF refreshFails
      <4>2. \A q \in Processes : ~At(q, "answered")
        BY <1>0, <2>1, <4>1, HolderIsAlone, AnsweredHolds DEF At
      <4> QED BY <1>0, <4>1, <4>2 DEF OnFile
    <3> QED BY <1>10, <3>1, <3>2
  <2> QED BY <2>4, <2>5, <2>6, <2>7 DEF Safe, Held, Fresh, OnFile
<1> QED BY <1>1, <1>2, <1>3, <1>4, <1>5, <1>6, <1>7, <1>8, <1>9, <1>10 DEF Uses, Refresh

LEMMA ChangesAreSafe ==
  ASSUME TypeInvariant, TypeInvariant', Calm => Safe, Calm', NEW p \in Processes, Changes(p)
  PROVE  Safe'
<1> USE DEF memory, server
<1>0. /\ data \in [Processes -> Credentials] /\ call \in [Processes -> CallType]
      /\ issued \in Nat /\ exchanged \subseteq 1..issued
  BY DEF TypeInvariant, TypeOK
<1>1. ASSUME NEW k \in Keys, setApiKey(p, k), slips(WriteSlip(p)) PROVE Safe'
  <2> DEFINE e == Append(data[p], ApiKey(k))
  <2>1. Safe /\ ~Stolen /\ (file' # file => data[p] = file)
    BY <1>1, CalmStep, CalmWrite
  <2>2. ApiKey(k) \in Credential /\ ApiKey(k).kind = k /\ k # OAuth
    BY CredentialTypes, AuthAssumption
  <2>3. /\ KindsOf(e) = KindsOf(data[p]) \cup {k}
        /\ OAuth \in KindsOf(data[p]) => TokenOf(e) = TokenOf(data[p])
    BY <1>0, <1>1, <2>2, AppendNew DEF setApiKey
  <2>4. persistProviderChange(p, e) /\ UNCHANGED <<call, exchanged>>
    BY <1>1 DEF setApiKey
  <2> HIDE DEF e
  <2> QED BY <2>1, <2>2, <2>3, <2>4, EntryIsSafe
<1>2. ASSUME login(p), swaps(WriteSlip(p)) PROVE Safe'
  <2> DEFINE e == Append(apiKeys(data[p]), Token(issued + 1))
  <2>1. Safe /\ ~Stolen /\ (file' # file => data[p] = file)
    BY <1>2, CalmSwaps, CalmWrite
  <2>2. apiKeys(data[p]) \in Credentials /\ KindsOf(apiKeys(data[p])) = KindsOf(data[p]) \ {OAuth}
    BY <1>0, ApiKeysType
  <2>3. /\ Token(issued + 1) \in Credential /\ Token(issued + 1).kind = OAuth
        /\ Token(issued + 1).token = issued + 1
    BY <1>0, CredentialTypes
  <2>4. TokenOf(e) = issued + 1
    BY <2>2, <2>3, AppendNew
  <2>5. persistProviderChange(p, e) /\ UNCHANGED <<call, exchanged>>
    BY <1>2 DEF login
  <2> HIDE DEF e
  <2>6. TokenOf(e) \notin exchanged
    BY <1>0, <2>4
  <2> QED BY <2>1, <2>5, <2>6, EntryIsSafe
<1>3. ASSUME remove(p), slips(WriteSlip(p)) PROVE Safe'
  <2>1. Safe /\ ~Stolen /\ (file' # file => data[p] = file)
    BY <1>3, CalmStep, CalmWrite
  <2>2. persistProviderChange(p, <<>>) /\ UNCHANGED <<call, exchanged>>
    BY <1>3 DEF remove
  <2> QED BY <2>1, <2>2, EntryIsSafe, EmptyIsCredentials
<1>4. ASSUME NEW S, markUsageLimitReached(p), slips(WriteSlip(p) \cup S) PROVE Safe'
  <2>1. Safe /\ ~Stolen /\ (file' # file => data[p] = file)
    BY <1>4, CalmStep, CalmWrite
  <2>2. PICK r \in Credentials :
          /\ KindsOf(r) = KindsOf(data[p])
          /\ OAuth \in KindsOf(r) => TokenOf(r) = TokenOf(data[p])
          /\ persistProviderChange(p, r) \/ UNCHANGED <<file, lock>>
    BY <1>4, MarkReorders DEF TypeInvariant
  <2>3. UNCHANGED <<call, exchanged>>
    BY <1>4 DEF markUsageLimitReached
  <2> QED BY <2>1, <2>2, <2>3, EntryIsSafe
<1>5. ASSUME restart(p), slips(IF p \in Holding THEN {"cut"} ELSE {}) PROVE Safe'
  <2>1. Safe /\ ~Stolen /\ p \notin Holding
    BY <1>5, CalmStep DEF Bad
  <2>2. call' = [call EXCEPT ![p] = NoCall] /\ UNCHANGED <<file, exchanged>>
    BY <1>5 DEF restart
  <2>3. \A q \in Processes : call'[q] = IF q = p THEN NoCall ELSE call[q]
    BY <1>0, <2>2
  <2>4. NoCall.stage = "none"
    BY DEF NoCall
  <2>5. /\ \A q \in Processes : q \in Holding' => q \in Holding /\ call'[q] = call[q]
        /\ \A q \in Processes : At(q, "answered") => At(q, "answered")'
    BY <2>1, <2>3, <2>4 DEF Holding, At
  <2> QED BY <2>1, <2>2, <2>5, OthersAreSafe
<1>6. ASSUME NEW i \in backoff[p], backoffEnds(p, i), slips({}) PROVE Safe'
  <2>1. Safe /\ ~Stolen
    BY <1>6, CalmStep
  <2> QED BY <1>6, <2>1, OthersAreSafe DEF backoffEnds, Holding, At
<1>7. ~slips({"lost"})
  BY CalmStep DEF Bad
<1> QED BY <1>1, <1>2, <1>3, <1>4, <1>5, <1>6, <1>7 DEF Changes

\* What happens with the history is a step of the program.
LEMMA HistoryIsStep ==
  ASSUME HistoryNext
  PROVE  Next
BY DEF HistoryNext, Changes, Next

LEMMA UsableStep == UsableInvariant /\ [HistoryNext]_historyVars => UsableInvariant'
<1> SUFFICES ASSUME UsableInvariant, [HistoryNext]_historyVars PROVE UsableInvariant'
  OBVIOUS
<1>1. TypeInvariant /\ TypeInvariant'
  BY HistoryIsStep, TypeStep, TokensStep DEF UsableInvariant, TypeInvariant, historyVars
<1>2. ASSUME Calm' PROVE Safe'
  <2>1. ASSUME NEW p \in Processes, Changes(p) PROVE Safe'
    BY <1>1, <1>2, <2>1, ChangesAreSafe DEF UsableInvariant
  <2>2. CASE Uses /\ swaps({})
    BY <1>1, <1>2, <2>2, CalmSwaps, UsesAreSafe DEF UsableInvariant
  <2>3. CASE UNCHANGED historyVars
    BY <1>2, <2>3 DEF UsableInvariant, historyVars, vars, memory, server, Calm, Safe, Held, Fresh,
                      OnFile, Holding, At
  <2> QED BY <2>1, <2>2, <2>3 DEF HistoryNext
<1> QED BY <1>1, <1>2 DEF UsableInvariant

LEMMA UsableInit == HistoryInit => UsableInvariant
<1> SUFFICES ASSUME HistoryInit PROVE UsableInvariant
  OBVIOUS
<1>1. TypeInvariant
  BY TypeInit DEF HistoryInit
<1>2. Safe
  BY EmptyIsCredentials
     DEF HistoryInit, Init, Safe, Held, Fresh, OnFile, Holding, At, NoCall
<1> QED BY <1>1, <1>2 DEF UsableInvariant

\* The lock does what it is for: as long as no process dies in the middle of a refresh, no
\* reply of the server is lost, no lock is taken away and no outdated copy is written, the
\* token on file is never one that another process has exchanged already, however many
\* processes refresh it.
THEOREM TokenStaysUsable == HistorySpec => []CalmTokenIsUsable
BY UsableInit, UsableStep, SafeIsUsable, PTL DEF HistorySpec, historyVars

-----------------------------------------------------------------------------
(* Nothing that was added is lost *)

Lost == {"outdated", "unwritten", "stolen"}
Kept == seen \cap Lost = {}

OwnedInvariant == TypeInvariant /\ (Kept => Held /\ OwnedIsOnFile)

LEMMA KeptStep ==
  ASSUME NEW S, slips(S) \/ swaps(S), Kept'
  PROVE  Kept /\ ~Stolen /\ S \cap Lost = {}
<1>1. PICK T : slips(T) /\ S \subseteq T
  BY DEF swaps
<1> QED BY <1>1 DEF slips, Kept, Lost

\* Either the change was written over what was read, or there was no change to write.
LEMMA KeptWrite ==
  ASSUME NEW p \in Processes, NEW S, WriteSlip(p) \subseteq S, S \cap Lost = {}
  PROVE  \/ file' # file /\ data[p] = file
         \/ file' = file /\ (data'[p] = data[p] \/ data'[p] = file)
BY DEF WriteSlip, Lost

\* Who holds the lock and keeps it has read what the file still holds.
LEMMA HeldKept ==
  ASSUME Held, ~Stolen, lock' = Nobody \/ UNCHANGED file,
         \A q \in Processes : q \in Holding' =>
           q \in Holding /\ call'[q].base = call[q].base /\ ~call'[q].lost
  PROVE  Held'
<1> SUFFICES ASSUME NEW q \in Processes, q \in Holding'
             PROVE  lock' = q /\ ~call'[q].lost /\ call'[q].base = file'
  BY DEF Held
<1>1. q \in Holding /\ lock = q /\ call[q].base = file
  BY DEF Held
<1>2. lock' = q
  BY <1>1 DEF Stolen
<1> QED BY <1>1, <1>2, AuthAssumption

\* A step that changes lists and no call.
LEMMA HeldByOthers ==
  ASSUME Held, ~Stolen, UNCHANGED call, lock' = Nobody \/ UNCHANGED file
  PROVE  Held'
BY HeldKept DEF Held, Holding

LEMMA ChangesKeepOwned ==
  ASSUME TypeInvariant, Kept => Held /\ OwnedIsOnFile, Kept', NEW p \in Processes, Changes(p)
  PROVE  Held' /\ OwnedIsOnFile'
<1> USE DEF memory, server
<1>0. /\ data \in [Processes -> Credentials] /\ call \in [Processes -> CallType]
      /\ issued \in Nat /\ TypeOK
  BY DEF TypeInvariant, TypeOK
\* A step that writes, or would, an entry of other kinds.
<1>a. ASSUME NEW S, slips(S) \/ swaps(S), WriteSlip(p) \subseteq S, NEW e, UNCHANGED call,
             persistProviderChange(p, e) \/ UNCHANGED <<file, lock>>,
             data' = [data EXCEPT ![p] = e]
      PROVE  /\ Held' /\ OwnedIsOnFile
             /\ \/ file' = e /\ data[p] = file
                \/ file' = file /\ (e = data[p] \/ e = file)
  <2>1. Kept /\ ~Stolen /\ S \cap Lost = {}
    BY <1>a, KeptStep
  <2>2. data'[p] = e
    BY <1>0, <1>a
  <2>3. file' # file => lock' = Nobody /\ file' = e
    BY <1>a DEF persistProviderChange, Unlocked
  <2>4. Held'
    BY <1>a, <2>1, <2>3, HeldByOthers
  <2> QED BY <1>a, <2>1, <2>2, <2>3, <2>4, KeptWrite
<1>1. ASSUME NEW k \in Keys, setApiKey(p, k), owned' = owned \cup {k}, slips(WriteSlip(p))
      PROVE  Held' /\ OwnedIsOnFile'
  <2> DEFINE e == Append(data[p], ApiKey(k))
  <2>1. ApiKey(k) \in Credential /\ ApiKey(k).kind = k /\ k \notin KindsOf(data[p])
    BY <1>1, CredentialTypes DEF setApiKey
  <2>2. KindsOf(e) = KindsOf(data[p]) \cup {k}
    BY <1>0, <2>1, AppendNew
  <2>3. /\ persistProviderChange(p, e) /\ UNCHANGED call
        /\ data' = [data EXCEPT ![p] = e]
    BY <1>1 DEF setApiKey
  <2> HIDE DEF e
  <2>4. e # data[p]
    BY <2>1, <2>2
  <2>5. /\ Held' /\ OwnedIsOnFile
        /\ (file' = e /\ data[p] = file) \/ (file' = file /\ e = file)
    BY <1>1, <1>a, <2>3, <2>4
  <2> QED BY <1>1, <2>2, <2>5 DEF OwnedIsOnFile
<1>2. ASSUME login(p), owned' = owned \cup {OAuth}, swaps(WriteSlip(p))
      PROVE  Held' /\ OwnedIsOnFile'
  <2> DEFINE e == Append(apiKeys(data[p]), Token(issued + 1))
  <2>1. apiKeys(data[p]) \in Credentials /\ KindsOf(apiKeys(data[p])) = KindsOf(data[p]) \ {OAuth}
    BY <1>0, ApiKeysType
  <2>2. Token(issued + 1) \in Credential /\ Token(issued + 1).kind = OAuth
    BY <1>0, CredentialTypes
  <2>3. KindsOf(e) = KindsOf(data[p]) \cup {OAuth}
    BY <2>1, <2>2, AppendNew
  <2>4. /\ persistProviderChange(p, e) /\ UNCHANGED call
        /\ data' = [data EXCEPT ![p] = e]
    BY <1>2 DEF login
  <2> HIDE DEF e
  <2>5. e # data[p]
    <3>1. TokenOf(e) = issued + 1
      BY <1>0, <2>1, <2>2, AppendNew, CredentialTypes DEF e
    <3>2. OAuth \in KindsOf(data[p]) => TokenOf(data[p]) \in 1..issued
      BY DEF TypeInvariant, TokensIssued, IssuedBy
    <3>3. issued + 1 \notin 1..issued
      BY <1>0
    <3> QED BY <2>3, <3>1, <3>2, <3>3
  <2>6. /\ Held' /\ OwnedIsOnFile
        /\ (file' = e /\ data[p] = file) \/ (file' = file /\ e = file)
    BY <1>2, <1>a, <2>4, <2>5
  <2> QED BY <1>2, <2>3, <2>6 DEF OwnedIsOnFile
<1>3. ASSUME remove(p), owned' = {}, slips(WriteSlip(p)) PROVE Held' /\ OwnedIsOnFile'
  <2>1. /\ persistProviderChange(p, <<>>) /\ UNCHANGED call /\ data[p] # <<>>
        /\ data' = [data EXCEPT ![p] = <<>>]
    BY <1>3 DEF remove
  <2>2. Held' /\ file' = <<>>
    BY <1>3, <1>a, <2>1
  <2> QED BY <1>3, <2>2 DEF OwnedIsOnFile, KindsOf
<1>4. ASSUME NEW S, markUsageLimitReached(p), UNCHANGED owned, slips(WriteSlip(p) \cup S)
      PROVE  Held' /\ OwnedIsOnFile'
  <2>1. PICK r \in Credentials :
          /\ data' = [data EXCEPT ![p] = r] /\ KindsOf(r) = KindsOf(data[p])
          /\ persistProviderChange(p, r) \/ UNCHANGED <<file, lock>>
    BY <1>0, <1>4, MarkReorders
  <2>2. UNCHANGED call
    BY <1>4 DEF markUsageLimitReached
  <2>3. /\ Held' /\ OwnedIsOnFile
        /\ (file' = r /\ data[p] = file) \/ file' = file
    BY <1>4, <1>a, <2>1, <2>2
  <2> QED BY <1>4, <2>1, <2>3 DEF OwnedIsOnFile
<1>5. ASSUME NEW S, restart(p), UNCHANGED owned, slips(S) PROVE Held' /\ OwnedIsOnFile'
  <2>1. Held /\ OwnedIsOnFile /\ ~Stolen
    BY <1>5, KeptStep
  <2>2. call' = [call EXCEPT ![p] = NoCall] /\ UNCHANGED file /\ NoCall.stage = "none"
    BY <1>5 DEF restart, NoCall
  <2>3. \A q \in Processes : call'[q] = IF q = p THEN NoCall ELSE call[q]
    BY <1>0, <2>2
  <2>4. \A q \in Processes : q \in Holding' => q \in Holding /\ call'[q] = call[q]
    BY <2>2, <2>3 DEF Holding
  <2>5. Held'
    BY <2>1, <2>2, <2>4, HeldKept DEF Held
  <2> QED BY <1>5, <2>1, <2>2, <2>5 DEF OwnedIsOnFile
<1>6. ASSUME NEW i \in backoff[p], backoffEnds(p, i), UNCHANGED owned, slips({})
      PROVE  Held' /\ OwnedIsOnFile'
  <2>1. Held /\ OwnedIsOnFile /\ ~Stolen
    BY <1>6, KeptStep
  <2>2. UNCHANGED <<call, file>>
    BY <1>6 DEF backoffEnds
  <2> QED BY <1>6, <2>1, <2>2, HeldByOthers DEF OwnedIsOnFile
<1>7. ASSUME answerIsLost(p), UNCHANGED owned, slips({"lost"}) PROVE Held' /\ OwnedIsOnFile'
  <2>1. Held /\ OwnedIsOnFile /\ ~Stolen
    BY <1>7, KeptStep
  <2> DEFINE c == [call[p] EXCEPT !.stage = "failed"]
  <2>2. c.base = call[p].base /\ c.lost = call[p].lost
    BY <1>0 DEF CallType
  <2>3. call' = [call EXCEPT ![p] = c] /\ UNCHANGED file /\ p \in Holding
    BY <1>7 DEF answerIsLost, At, Holding
  <2> HIDE DEF c
  <2>4. \A q \in Processes : call'[q] = IF q = p THEN c ELSE call[q]
    BY <1>0, <2>3
  <2>5. \A q \in Processes : q \in Holding' =>
          q \in Holding /\ call'[q].base = call[q].base /\ ~call'[q].lost
    BY <2>1, <2>2, <2>3, <2>4 DEF Held, Holding
  <2>6. Held'
    BY <2>1, <2>3, <2>5, HeldKept
  <2> QED BY <1>7, <2>1, <2>3, <2>6 DEF OwnedIsOnFile
<1> QED BY <1>1, <1>2, <1>3, <1>4, <1>5, <1>6, <1>7 DEF Changes

LEMMA UsesKeepOwned ==
  ASSUME TypeInvariant, Held, OwnedIsOnFile, ~Stolen, Uses, UNCHANGED owned
  PROVE  Held' /\ OwnedIsOnFile'
<1> USE DEF memory, server
<1>0. call \in [Processes -> CallType]
  BY DEF TypeInvariant, TypeOK
\* A step that changes the call of process p and does not give it the lock.
<1>a. ASSUME NEW p \in Processes, NEW c, call' = [call EXCEPT ![p] = c], UNCHANGED file,
             c.stage \in {"asking", "answered", "failed"} =>
               p \in Holding /\ c.base = call[p].base /\ ~c.lost
      PROVE  Held' /\ OwnedIsOnFile'
  <2>1. \A q \in Processes : call'[q] = IF q = p THEN c ELSE call[q]
    BY <1>0, <1>a
  <2>2. \A q \in Processes : q \in Holding' =>
          q \in Holding /\ call'[q].base = call[q].base /\ ~call'[q].lost
    BY <1>a, <2>1 DEF Held, Holding
  <2>3. Held'
    BY <1>a, <2>2, HeldKept
  <2> QED BY <1>a, <2>3 DEF OwnedIsOnFile
<1>1. CASE tokenExpires
  BY <1>1, HeldByOthers DEF tokenExpires, OwnedIsOnFile
<1>2. ASSUME NEW p \in Processes, reload(p) PROVE Held' /\ OwnedIsOnFile'
  BY <1>2, HeldByOthers DEF reload, OwnedIsOnFile
<1>3. ASSUME NEW p \in Processes, getApiKey(p) PROVE Held' /\ OwnedIsOnFile'
  <2>1. CASE UNCHANGED call
    BY <1>3, <2>1, HeldByOthers DEF getApiKey, OwnedIsOnFile
  <2>2. CASE call' = [call EXCEPT ![p] = [call[p] EXCEPT !.stage = "waiting"]]
    <3>1. [call[p] EXCEPT !.stage = "waiting"].stage = "waiting"
      BY <1>0 DEF CallType
    <3> QED BY <1>3, <1>a, <2>2, <3>1 DEF getApiKey
  <2> QED BY <1>0, <1>3, <2>1, <2>2 DEF getApiKey
<1>4. ASSUME NEW p \in Processes, lockGivesUp(p) PROVE Held' /\ OwnedIsOnFile'
  <2>1. [call[p] EXCEPT !.stage = "recovering"].stage = "recovering"
    BY <1>0 DEF CallType
  <2>2. call' = [call EXCEPT ![p] = [call[p] EXCEPT !.stage = "recovering"]]
    BY <1>0, <1>4 DEF lockGivesUp
  <2> QED BY <1>4, <1>a, <2>1, <2>2 DEF lockGivesUp
<1>5. ASSUME NEW p \in Processes, recover(p) PROVE Held' /\ OwnedIsOnFile'
  <2>1. NoCall.stage = "none"
    BY DEF NoCall
  <2> QED BY <1>5, <1>a, <2>1 DEF recover
<1>6. ASSUME NEW p \in Processes, refreshOAuthTokenWithLock(p) PROVE Held' /\ OwnedIsOnFile'
  <2> DEFINE c == [NoCall EXCEPT !.stage = "asking", !.base = file]
  <2>1. c.stage = "asking" /\ c.base = file /\ ~c.lost /\ NoCall.stage = "none"
    BY DEF NoCall
  <2>2. \A q \in Processes : q \notin Holding
    <3>1. lock = Nobody \/ lock \notin Holding
      BY <1>6 DEF refreshOAuthTokenWithLock
    <3> QED BY <3>1, AuthAssumption DEF Held
  <2>3. /\ call' = [call EXCEPT ![p] = NoCall] \/ (call' = [call EXCEPT ![p] = c] /\ lock' = p)
        /\ UNCHANGED file
    BY <1>6 DEF refreshOAuthTokenWithLock
  <2> HIDE DEF c
  <2>4. CASE call' = [call EXCEPT ![p] = NoCall]
    BY <1>a, <2>1, <2>3, <2>4
  <2>5. CASE call' = [call EXCEPT ![p] = c] /\ lock' = p
    <3>1. \A q \in Processes : call'[q] = IF q = p THEN c ELSE call[q]
      BY <1>0, <2>5
    <3>2. \A q \in Processes : q \in Holding' => q = p
      BY <2>2, <3>1 DEF Holding
    <3> QED BY <2>1, <2>3, <2>5, <3>1, <3>2 DEF Held, OwnedIsOnFile
  <2> QED BY <2>3, <2>4, <2>5
<1>7. ASSUME NEW p \in Processes, serverAnswers(p) \/ serverFails(p) PROVE Held' /\ OwnedIsOnFile'
  <2>1. PICK c : call' = [call EXCEPT ![p] = c] /\ c.base = call[p].base /\ c.lost = call[p].lost
    <3>1. call[p] \in CallType
      BY <1>0
    <3>2. /\ [call[p] EXCEPT !.stage = "failed"].base = call[p].base
          /\ [call[p] EXCEPT !.stage = "failed"].lost = call[p].lost
          /\ [call[p] EXCEPT !.stage = "answered", !.token = issued + 1].base = call[p].base
          /\ [call[p] EXCEPT !.stage = "answered", !.token = issued + 1].lost = call[p].lost
      BY <3>1 DEF CallType
    <3> QED BY <1>7, <3>2 DEF serverAnswers, serverFails
  <2>2. p \in Holding /\ ~call[p].lost /\ UNCHANGED file
    BY <1>7 DEF serverAnswers, serverFails, At, Holding, Held
  <2> QED BY <1>a, <2>1, <2>2
<1>8. ASSUME NEW p \in Processes, onCompromised(p) PROVE Held' /\ OwnedIsOnFile'
  BY <1>8 DEF onCompromised, Held
<1>9. ASSUME NEW p \in Processes, refreshReturns(p) PROVE Held' /\ OwnedIsOnFile'
  <2>1. p \in Holding /\ call[p].base = file
    BY <1>9 DEF refreshReturns, At, Holding, Held
  <2>2. KindsOf(Refreshed(p)) = KindsOf(file)
    <3>1. call[p].base \in Credentials /\ OAuth \in KindsOf(call[p].base) /\ call[p].token \in Nat
      BY <1>0, <2>1 DEF CallType, TypeInvariant, TokensIssued
    <3> QED BY <2>1, <3>1, RefreshedType
  <2>3. \A q \in Processes : call'[q] = IF q = p THEN NoCall ELSE call[q]
    BY <1>0, <1>9 DEF refreshReturns
  <2>4. \A q \in Processes : q \notin Holding'
    BY <2>1, <2>3, HolderIsAlone DEF Holding, NoCall
  <2> QED BY <1>9, <2>2, <2>4 DEF Held, OwnedIsOnFile, refreshReturns
<1>10. ASSUME NEW p \in Processes, refreshFails(p) PROVE Held' /\ OwnedIsOnFile'
  <2>1. [NoCall EXCEPT !.stage = "recovering"].stage = "recovering"
    BY DEF NoCall
  <2> QED BY <1>10, <1>a, <2>1 DEF refreshFails
<1> QED BY <1>1, <1>2, <1>3, <1>4, <1>5, <1>6, <1>7, <1>8, <1>9, <1>10 DEF Uses, Refresh

LEMMA OwnedStep == OwnedInvariant /\ [HistoryNext]_historyVars => OwnedInvariant'
<1> SUFFICES ASSUME OwnedInvariant, [HistoryNext]_historyVars PROVE OwnedInvariant'
  OBVIOUS
<1>1. TypeInvariant /\ TypeInvariant'
  BY HistoryIsStep, TypeStep, TokensStep DEF OwnedInvariant, TypeInvariant, historyVars
<1>2. ASSUME Kept' PROVE Held' /\ OwnedIsOnFile'
  <2>1. ASSUME NEW p \in Processes, Changes(p) PROVE Held' /\ OwnedIsOnFile'
    BY <1>1, <1>2, <2>1, ChangesKeepOwned DEF OwnedInvariant
  <2>2. CASE Uses /\ UNCHANGED <<owned, limited>> /\ swaps({})
    BY <1>1, <1>2, <2>2, KeptStep, UsesKeepOwned DEF OwnedInvariant
  <2>3. CASE UNCHANGED historyVars
    BY <1>2, <2>3 DEF OwnedInvariant, historyVars, vars, memory, server, Kept, Held, Holding,
                      OwnedIsOnFile
  <2> QED BY <2>1, <2>2, <2>3 DEF HistoryNext
<1> QED BY <1>1, <1>2 DEF OwnedInvariant

LEMMA OwnedInit == HistoryInit => OwnedInvariant
<1> SUFFICES ASSUME HistoryInit PROVE OwnedInvariant
  OBVIOUS
<1>1. TypeInvariant
  BY TypeInit DEF HistoryInit
<1>2. Held /\ OwnedIsOnFile
  BY DEF HistoryInit, Init, Held, Holding, NoCall, OwnedIsOnFile, KindsOf
<1> QED BY <1>1, <1>2 DEF OwnedInvariant

\* No process loses what another one added, and none brings back what another removed,
\* although a refresh writes back what it read before it asked the server: unless a copy
\* was out of date, a change was not written, or a lock was taken away.  That a process
\* dies in the middle of a refresh, or a reply of the server is lost, loses no credential.
THEOREM NothingOwnedIsLost == HistorySpec => []CalmOwnedIsOnFile
<1>1. OwnedInvariant => CalmOwnedIsOnFile
  BY DEF OwnedInvariant, CalmOwnedIsOnFile, Kept, Lost
<1> QED BY <1>1, OwnedInit, OwnedStep, PTL DEF HistorySpec, historyVars

-----------------------------------------------------------------------------
(* What is backed off is what hit a limit *)

Unmoved == seen \cap {"swapped", "mistaken"} = {}

BackoffInvariant ==
  /\ TypeInvariant
  /\ limited \in [Processes -> SUBSET (Kinds \cup {NoKind})]
  /\ Unmoved => BackoffFollows

\* The kinds that process q has backed off.
BackedOff(q) == {data[q][i].kind : i \in backoff[q]}

\* An index is remapped to where its credential has been moved.
LEMMA RemappedFollows ==
  ASSUME NEW s \in Seq(Credential), NEW u \in 1..Len(s)
  PROVE  LET r == Append(Without(s, u), s[u])
         IN  /\ DOMAIN r = 1..Len(s) /\ r[Len(s)] = s[u]
             /\ \A i \in 1..Len(s) : /\ Remapped(i, u, Len(s)) \in 1..Len(s)
                                     /\ r[Remapped(i, u, Len(s))] = s[i]
<1> DEFINE w == Without(s, u)
           r == Append(w, s[u])
<1>1. /\ w \in Seq(Credential) /\ Len(w) = Len(s) - 1
      /\ \A i \in 1..(Len(s) - 1) : w[i] = s[IF i < u THEN i ELSE i + 1]
  BY WithoutType
<1>2. s[u] \in Credential /\ Len(s) \in Nat
  OBVIOUS
<1> HIDE DEF w
<1>3. /\ DOMAIN r = 1..Len(s) /\ r[Len(s)] = s[u]
      /\ \A i \in 1..(Len(s) - 1) : r[i] = w[i]
  BY <1>1, <1>2
<1> HIDE DEF r
<1>4. ASSUME NEW i \in 1..Len(s)
      PROVE  Remapped(i, u, Len(s)) \in 1..Len(s) /\ r[Remapped(i, u, Len(s))] = s[i]
  <2>1. CASE i = u
    BY <1>2, <1>3, <2>1 DEF Remapped
  <2>2. CASE i > u
    <3>1. Remapped(i, u, Len(s)) = i - 1 /\ i - 1 \in 1..(Len(s) - 1) /\ ~(i - 1 < u)
      BY <1>2, <2>2 DEF Remapped
    <3>2. (i - 1) + 1 = i /\ i - 1 \in 1..Len(s)
      BY <1>2, <3>1
    <3>3. r[i - 1] = w[i - 1]
      BY ONLY <1>3, <3>1
    <3>4. w[i - 1] = s[i]
      BY ONLY <1>1, <3>1, <3>2
    <3> QED BY ONLY <3>1, <3>2, <3>3, <3>4
  <2>3. CASE i < u
    <3>1. Remapped(i, u, Len(s)) = i /\ i \in 1..(Len(s) - 1)
      BY <1>2, <2>3 DEF Remapped
    <3> QED BY <1>1, <1>2, <1>3, <2>3, <3>1
  <2> QED BY <2>1, <2>2, <2>3
<1> QED BY <1>3, <1>4 DEF r, w

\* Who backs off the credential that hit the limit has it backed off, and all others still.
LEMMA MarkFollows ==
  ASSUME TypeInvariant, BackoffFollows, NEW p \in Processes, markUsageLimitReached(p),
         data[p][StartAt(p, 0)].kind = used[p],
         limited \in [Processes -> SUBSET (Kinds \cup {NoKind})], limits(p, limited[p] \cup {used[p]})
  PROVE  BackoffFollows'
<1>1. /\ data \in [Processes -> Credentials] /\ backoff \in [Processes -> SUBSET (Nat \ {0})]
      /\ TypeOK /\ data[p] \in Seq(Credential)
  BY DEF TypeInvariant, TypeOK, Credentials
<1> DEFINE n == Len(data[p])
           u == StartAt(p, 0)
           r == Append(Without(data[p], u), data[p][u])
<1>2. u \in 1..n /\ DOMAIN data[p] = 1..n /\ n \in Nat
  BY <1>1, StartType DEF markUsageLimitReached
<1>3. /\ DOMAIN r = 1..n /\ r[n] = data[p][u]
      /\ \A i \in 1..n : Remapped(i, u, n) \in 1..n /\ r[Remapped(i, u, n)] = data[p][i]
  BY <1>1, <1>2, RemappedFollows
<1>4. /\ data' = [data EXCEPT ![p] = r]
      /\ backoff' = [backoff EXCEPT ![p] = {Remapped(i, u, n) : i \in @} \cup {n}]
  BY DEF markUsageLimitReached
<1>5. limited'[p] = limited[p] \cup {data[p][u].kind} /\ \A q \in Processes \ {p} : limited'[q] = limited[q]
  BY DEF limits
<1> HIDE DEF n, u, r
<1>6. backoff[p] \subseteq 1..n /\ BackedOff(p) = limited[p]
  BY <1>2 DEF BackoffFollows, BackedOff
<1>7. data'[p] = r /\ backoff'[p] = {Remapped(i, u, n) : i \in backoff[p]} \cup {n}
  BY <1>1, <1>4
<1>8. ASSUME NEW i \in backoff'[p] PROVE i \in DOMAIN data'[p]
  <2>1. CASE i = n
    <3>1. n \in 1..n
      BY <1>2
    <3> QED BY <1>3, <1>7, <2>1, <3>1
  <2>2. CASE i # n
    <3>1. PICK j \in backoff[p] : i = Remapped(j, u, n)
      BY <1>7, <2>2
    <3>2. i \in 1..n
      BY <1>3, <1>6, <3>1
    <3> QED BY <1>3, <1>7, <3>2
  <2> QED BY <2>1, <2>2
<1>9. {data'[p][i].kind : i \in backoff'[p]} = BackedOff(p) \cup {data[p][u].kind}
  <2>1. ASSUME NEW i \in backoff'[p]
        PROVE  data'[p][i].kind \in BackedOff(p) \cup {data[p][u].kind}
    <3>1. CASE i = n
      BY <1>3, <1>7, <3>1
    <3>2. CASE i # n
      <4>1. PICK j \in backoff[p] : i = Remapped(j, u, n)
        BY <1>7, <3>2
      <4>2. r[i] = data[p][j]
        BY <1>3, <1>6, <4>1
      <4> QED BY <1>7, <4>1, <4>2 DEF BackedOff
    <3> QED BY <3>1, <3>2
  <2>2. ASSUME NEW j \in backoff[p]
        PROVE  \E i \in backoff'[p] : data'[p][i].kind = data[p][j].kind
    <3>1. Remapped(j, u, n) \in backoff'[p] /\ r[Remapped(j, u, n)] = data[p][j]
      BY <1>3, <1>6, <1>7
    <3> QED BY <1>7, <3>1
  <2>3. n \in backoff'[p] /\ data'[p][n].kind = data[p][u].kind
    BY <1>3, <1>7
  <2> QED BY <2>1, <2>2, <2>3 DEF BackedOff
<1>10. ASSUME NEW q \in Processes, q # p
       PROVE  data'[q] = data[q] /\ backoff'[q] = backoff[q]
  BY <1>1, <1>4, <1>10
<1> SUFFICES ASSUME NEW q \in Processes
             PROVE  /\ backoff'[q] \subseteq DOMAIN data'[q]
                    /\ {data'[q][i].kind : i \in backoff'[q]} = limited'[q]
  BY DEF BackoffFollows
<1>11. CASE q = p
  BY <1>5, <1>6, <1>8, <1>9, <1>11
<1>12. CASE q # p
  BY <1>5, <1>10, <1>12 DEF BackoffFollows
<1> QED BY <1>11, <1>12

\* Copies change only where no index is backed off, or keep what the indices say.
LEMMA UnswappedFollows ==
  ASSUME BackoffFollows, ~Swapped, UNCHANGED <<backoff, limited>>
  PROVE  BackoffFollows'
<1> SUFFICES ASSUME NEW p \in Processes
             PROVE  /\ backoff'[p] \subseteq DOMAIN data'[p]
                    /\ {data'[p][i].kind : i \in backoff'[p]} = limited'[p]
  BY DEF BackoffFollows
<1>1. \A i \in backoff[p] : i \in DOMAIN data'[p] /\ data'[p][i].kind = data[p][i].kind
  BY DEF BackoffFollows, Swapped
<1>2. {data'[p][i].kind : i \in backoff[p]} = {data[p][i].kind : i \in backoff[p]}
  BY <1>1
<1> QED BY <1>1, <1>2 DEF BackoffFollows

\* The process forgets what it has backed off.
LEMMA ForgottenFollows ==
  ASSUME BackoffFollows, NEW p \in Processes,
         backoff \in [Processes -> SUBSET (Nat \ {0})], data \in [Processes -> Credentials],
         limited \in [Processes -> SUBSET (Kinds \cup {NoKind})],
         backoff' = [backoff EXCEPT ![p] = {}], limits(p, {}),
         \A q \in Processes \ {p} : data'[q] = data[q]
  PROVE  BackoffFollows'
<1> SUFFICES ASSUME NEW q \in Processes
             PROVE  /\ backoff'[q] \subseteq DOMAIN data'[q]
                    /\ {data'[q][i].kind : i \in backoff'[q]} = limited'[q]
  BY DEF BackoffFollows
<1>1. CASE q = p
  <2>1. backoff'[q] = {} /\ limited'[q] = {}
    BY <1>1 DEF limits
  <2> QED BY <2>1
<1>2. CASE q # p
  BY <1>2 DEF BackoffFollows, limits
<1> QED BY <1>1, <1>2

LEMMA BackoffStep == BackoffInvariant /\ [HistoryNext]_historyVars => BackoffInvariant'
<1> SUFFICES ASSUME BackoffInvariant, [HistoryNext]_historyVars PROVE BackoffInvariant'
  OBVIOUS
<1>0. /\ TypeInvariant /\ TypeInvariant'
      /\ data \in [Processes -> Credentials] /\ backoff \in [Processes -> SUBSET (Nat \ {0})]
      /\ used \in [Processes -> Kinds \cup {NoKind}]
      /\ limited \in [Processes -> SUBSET (Kinds \cup {NoKind})]
  BY HistoryIsStep, TypeStep, TokensStep DEF BackoffInvariant, TypeInvariant, TypeOK, historyVars
<1>1. limited' \in [Processes -> SUBSET (Kinds \cup {NoKind})]
  <2>1. ASSUME NEW p \in Processes, Changes(p)
        PROVE  UNCHANGED limited \/ \E S \in SUBSET (Kinds \cup {NoKind}) : limits(p, S)
    <3>1. \A i \in backoff[p] : limited[p] \ {data[p][j].kind : j \in {i} \cap DOMAIN data[p]}
                                \in SUBSET (Kinds \cup {NoKind})
      BY <1>0
    <3>2. limited[p] \cup {used[p]} \in SUBSET (Kinds \cup {NoKind})
      BY <1>0
    <3> QED BY <2>1, <3>1, <3>2 DEF Changes
  <2> QED BY <1>0, <2>1 DEF HistoryNext, historyVars, limits
<1>2. ASSUME Unmoved' PROVE BackoffFollows'
  <2>1. ASSUME NEW S, slips(S) \/ swaps(S) PROVE Unmoved /\ S \cap {"swapped", "mistaken"} = {}
    <3>1. PICK T : slips(T) /\ S \subseteq T
      BY <2>1 DEF swaps
    <3> QED BY <1>2, <3>1 DEF slips, Unmoved
  <2>2. ASSUME NEW S, swaps(S) PROVE ~Swapped
    <3>1. slips(S \cup IF Swapped THEN {"swapped"} ELSE {})
      BY <2>2 DEF swaps
    <3> QED BY <2>1, <3>1
  <2>3. ASSUME NEW p \in Processes, Changes(p) PROVE BackoffFollows'
    <3>0. Unmoved /\ BackoffFollows
      BY <2>1, <2>3 DEF Changes, BackoffInvariant
    <3>1. ASSUME NEW k \in Keys, setApiKey(p, k), UNCHANGED limited PROVE BackoffFollows'
      <4>1. data' = [data EXCEPT ![p] = Append(data[p], ApiKey(k))] /\ UNCHANGED backoff
        BY <3>1 DEF setApiKey
      <4>2. data[p] \in Seq(Credential) /\ ApiKey(k) \in Credential
        BY <1>0, CredentialTypes DEF Credentials
      <4>3. \A i \in DOMAIN data[p] : /\ i \in DOMAIN Append(data[p], ApiKey(k))
                                      /\ Append(data[p], ApiKey(k))[i] = data[p][i]
        BY <4>2
      <4>4. ASSUME NEW q \in Processes, NEW i \in DOMAIN data[q]
            PROVE  i \in DOMAIN data'[q] /\ data'[q][i] = data[q][i]
        <5>1. CASE q = p
          <6>1. data'[q] = Append(data[p], ApiKey(k))
            BY <1>0, <4>1, <5>1
          <6> QED BY <4>3, <5>1, <6>1
        <5>2. CASE q # p
          BY <1>0, <4>1, <5>2
        <5> QED BY <5>1, <5>2
      <4>5. ~Swapped
        BY <3>0, <4>4 DEF Swapped, BackoffFollows
      <4> QED BY <3>0, <3>1, <4>1, <4>5, UnswappedFollows
    <3>2. ASSUME login(p), UNCHANGED limited, swaps(WriteSlip(p)) PROVE BackoffFollows'
      BY <2>2, <3>0, <3>2, UnswappedFollows DEF login
    <3>3. ASSUME remove(p), limits(p, {}) PROVE BackoffFollows'
      BY <1>0, <3>0, <3>3, ForgottenFollows DEF remove
    <3>4. ASSUME markUsageLimitReached(p), limits(p, limited[p] \cup {used[p]}),
                 slips(WriteSlip(p) \cup IF data[p][StartAt(p, 0)].kind # used[p] THEN {"mistaken"} ELSE {})
          PROVE  BackoffFollows'
      <4>1. data[p][StartAt(p, 0)].kind = used[p]
        BY <2>1, <3>4
      <4> QED BY <1>0, <3>0, <3>4, <4>1, MarkFollows
    <3>5. ASSUME restart(p), limits(p, {}) PROVE BackoffFollows'
      BY <1>0, <3>0, <3>5, ForgottenFollows DEF restart, reloads
    <3>6. ASSUME NEW i \in backoff[p], backoffEnds(p, i),
                 limits(p, limited[p] \ {data[p][j].kind : j \in {i} \cap DOMAIN data[p]})
          PROVE  BackoffFollows'
      <4>1. i \in DOMAIN data[p] /\ backoff[p] \subseteq DOMAIN data[p] /\ BackedOff(p) = limited[p]
        BY <3>0, <3>6 DEF BackoffFollows, BackedOff
      <4>2. limited'[p] = limited[p] \ {data[p][i].kind} /\ \A q \in Processes \ {p} : limited'[q] = limited[q]
        BY <1>0, <3>6, <4>1 DEF limits
      <4>3. \A j \in DOMAIN data[p] : data[p][j].kind = data[p][i].kind => j = i
        BY <1>0, <4>1 DEF Credentials
      <4>4. /\ UNCHANGED data /\ backoff'[p] = backoff[p] \ {i}
            /\ \A q \in Processes \ {p} : backoff'[q] = backoff[q]
        BY <1>0, <3>6 DEF backoffEnds
      <4>5. {data[p][j].kind : j \in backoff[p] \ {i}} = limited[p] \ {data[p][i].kind}
        BY <4>1, <4>3 DEF BackedOff
      <4> QED BY <3>0, <4>1, <4>2, <4>4, <4>5 DEF BackoffFollows
    <3>7. ASSUME answerIsLost(p), UNCHANGED limited PROVE BackoffFollows'
      BY <3>0, <3>7 DEF answerIsLost, BackoffFollows
    <3> QED BY <2>3, <3>1, <3>2, <3>3, <3>4, <3>5, <3>6, <3>7 DEF Changes
  <2>4. CASE Uses /\ UNCHANGED <<owned, limited>> /\ swaps({})
    <3>1. UNCHANGED backoff
      BY <2>4 DEF Uses, Refresh, tokenExpires, reload, getApiKey, lockGivesUp,
         refreshOAuthTokenWithLock, serverAnswers, serverFails, onCompromised, refreshReturns,
         refreshFails, recover, memory
    <3> QED BY <2>1, <2>2, <2>4, <3>1, UnswappedFollows DEF BackoffInvariant
  <2>5. CASE UNCHANGED historyVars
    BY <1>2, <2>5 DEF BackoffInvariant, historyVars, vars, memory, Unmoved, BackoffFollows
  <2> QED BY <2>3, <2>4, <2>5 DEF HistoryNext
<1> QED BY <1>0, <1>1, <1>2 DEF BackoffInvariant

LEMMA BackoffInit == HistoryInit => BackoffInvariant
<1> SUFFICES ASSUME HistoryInit PROVE BackoffInvariant
  OBVIOUS
<1>1. TypeInvariant
  BY TypeInit DEF HistoryInit
<1>2. BackoffFollows /\ limited \in [Processes -> SUBSET (Kinds \cup {NoKind})]
  BY DEF HistoryInit, Init, BackoffFollows
<1> QED BY <1>1, <1>2 DEF BackoffInvariant

\* Credentials are backed off by index, and the list they index is reordered whenever one
\* hits a limit (auth-storage.ts:588): the indices follow, so that what is skipped is just
\* what hit a limit, however long the list is and however often it is reordered.
THEOREM LimitsFollowCredentials == HistorySpec => []CalmBackoffFollows
<1>1. BackoffInvariant => CalmBackoffFollows
  BY DEF BackoffInvariant, CalmBackoffFollows, Unmoved
<1> QED BY <1>1, BackoffInit, BackoffStep, PTL DEF HistorySpec, historyVars
=============================================================================
