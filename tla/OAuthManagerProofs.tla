------------------------- MODULE OAuthManagerProofs -------------------------
(***************************************************************************)
(* Proofs of the safety properties of OAuthManager, for any number of       *)
(* callers, refresh attempts, replaces, rotations and restarts.             *)
(***************************************************************************)
EXTENDS OAuthManager, TLAPS

USE DEF Logins, Phases, Idle, Statuses, Resting, Failed, WaitingOn

LEMMA EnvTokenType == EnvToken \in Token
  BY ConstantsAssumption DEF EnvToken, Token

LEMMA SelectInitialType ==
  ASSUME NEW file \in Token \cup {None}
  PROVE  SelectInitial(file) \in Token
  BY EnvTokenType DEF SelectInitial

LEMMA ServedType ==
  ASSUME NEW t \in Token
  PROVE  Served(t) \in [status: Statuses, on: Attempts \cup {None}]
  BY DEF Served

LEMMA TokenFields ==
  ASSUME NEW t \in Token
  PROVE  /\ t.login \in Logins /\ t.gen \in 0..MaxRotation
         /\ t.access \in BOOLEAN /\ t.expiresAt \in Nat
  BY DEF Token

LEMMA RefreshTokenType ==
  ASSUME NEW t \in Token
  PROVE  RefreshToken(t) \in [login: Logins, gen: 0..MaxRotation]
  BY TokenFields DEF RefreshToken

LEMMA GrantedType ==
  ASSUME NEW t \in Token, t.gen < MaxRotation
  PROVE  /\ t.gen + 1 \in 0..MaxRotation
         /\ [t EXCEPT !.gen = t.gen + 1, !.access = TRUE] \in Token
<1>1. t.gen + 1 \in 0..MaxRotation
  BY TokenFields, ConstantsAssumption
<1> QED BY <1>1 DEF Token

LEMMA StoredType ==
  ASSUME NEW t \in Token, NEW e \in Nat
  PROVE  [t EXCEPT !.expiresAt = e] \in Token
  BY DEF Token

\* The manager's state always has the shape createOAuthManager gives it.
THEOREM TypeCorrect == Spec => []TypeOK
<1>1. Init => TypeOK
  BY ConstantsAssumption, EnvTokenType, SelectInitialType DEF Init, TypeOK
<1>2. TypeOK /\ [Next]_vars => TypeOK'
  <2> SUFFICES ASSUME TypeOK, [Next]_vars PROVE TypeOK'
    OBVIOUS
  <2> USE ConstantsAssumption, EnvTokenType
  <2>1. ASSUME NEW c \in Callers, NEW force \in BOOLEAN, EnsureFresh(c, force)
        PROVE  TypeOK'
    <3>1. CASE AnswerAtOnce(c)
      BY <2>1, <3>1, ServedType DEF TypeOK, EnsureFresh, AnswerAtOnce
    <3>2. CASE Join(c)
      BY <2>1, <3>2 DEF TypeOK, EnsureFresh, Join
    <3>3. CASE StartRefresh(c)
      BY <2>1, <3>3 DEF TypeOK, EnsureFresh, StartRefresh, Launch, Note, Mishaps
    <3> QED BY <2>1, <3>1, <3>2, <3>3 DEF EnsureFresh
  <2>2. ASSUME NEW r \in Attempts, Grant(r) PROVE TypeOK'
    <3> DEFINE t == attempt[r].token
               next == [t EXCEPT !.gen = t.gen + 1, !.access = TRUE]
    <3>1. t \in Token
      BY DEF TypeOK
    <3>2. t.gen + 1 \in 0..MaxRotation /\ next \in Token
      BY <2>2, <3>1, GrantedType DEF Grant
    <3>3. rotation' \in [Logins -> 0..MaxRotation]
      BY <2>2, <3>2 DEF TypeOK, Grant
    <3>4. attempt' \in [Attempts -> [phase: Phases, token: Token]]
      BY <2>2, <3>2 DEF TypeOK, Grant
    <3> QED BY <2>2, <3>3, <3>4 DEF TypeOK, Grant
  <2>3. ASSUME NEW r \in Attempts, RefreshRejected(r) PROVE TypeOK'
    BY <2>3 DEF TypeOK, RefreshRejected, Settle
  <2>4. ASSUME NEW r \in Attempts, RefreshTimeout(r) PROVE TypeOK'
    <3>1. attempt[r].token \in Token
      BY DEF TypeOK
    <3>2. stray' \in SUBSET [login: Logins, gen: 0..MaxRotation]
      BY <2>4, <3>1, RefreshTokenType DEF TypeOK, RefreshTimeout
    <3> QED BY <2>4, <3>2 DEF TypeOK, RefreshTimeout, Settle, Note, Mishaps
  <2>5. ASSUME NEW r \in Attempts, RefreshStore(r) PROVE TypeOK'
    <3> DEFINE next == [attempt[r].token EXCEPT !.expiresAt = now + Life]
    <3>1. attempt[r].token \in Token /\ now + Life \in Nat
      BY DEF TypeOK
    <3>2. next \in Token
      BY <3>1, StoredType
    <3> QED BY <2>5, <3>2 DEF TypeOK, RefreshStore
  <2>6. ASSUME NEW r \in Attempts, RefreshSaved(r) PROVE TypeOK'
    BY <2>6, ServedType DEF TypeOK, RefreshSaved, Settle
  <2>7. ASSUME NEW r \in Attempts, RefreshSaveFails(r) PROVE TypeOK'
    BY <2>7 DEF TypeOK, RefreshSaveFails, Settle, Note, Mishaps
  <2>8. ASSUME NEW t \in stray, GrantStray(t) PROVE TypeOK'
    BY <2>8 DEF TypeOK, GrantStray
  <2>9. ASSUME NEW access \in BOOLEAN, NEW expiresAt \in {0, now + Life},
               Replace(access, expiresAt)
        PROVE  TypeOK'
    <3> DEFINE next == [login |-> pasted + 1, gen |-> 0, access |-> access,
                        expiresAt |-> expiresAt]
    <3>1. next \in Token /\ pasted + 1 \in 0..MaxReplace
      BY <2>9 DEF TypeOK, Replace, Token
    <3> QED BY <2>9, <3>1 DEF TypeOK, Replace, Note, Mishaps
  <2>10. ASSUME NEW t \in saving, ReplaceSaved(t) PROVE TypeOK'
    BY <2>10 DEF TypeOK, ReplaceSaved
  <2>11. ASSUME NEW t \in saving, ReplaceSaveFails(t) PROVE TypeOK'
    BY <2>11 DEF TypeOK, ReplaceSaveFails, Note, Mishaps
  <2>12. CASE Restart
    <3>1. stray' \in SUBSET [login: Logins, gen: 0..MaxRotation]
      BY <2>12, RefreshTokenType DEF TypeOK, Restart
    <3> QED BY <2>12, <3>1, SelectInitialType DEF TypeOK, Restart, Note, Mishaps
  <2>13. CASE Tick
    BY <2>13 DEF TypeOK, Tick
  <2>14. CASE UNCHANGED vars
    BY <2>14 DEF TypeOK, vars
  <2> QED
    BY <2>1, <2>2, <2>3, <2>4, <2>5, <2>6, <2>7, <2>8, <2>9, <2>10, <2>11,
       <2>12, <2>13, <2>14 DEF Next
<1> QED BY <1>1, <1>2, PTL DEF Spec

LEMMA MishapsAccumulate == [Next]_vars => mishap \subseteq mishap'
  BY DEF Next, vars, EnsureFresh, AnswerAtOnce, Join, StartRefresh, Launch,
         Grant, GrantStray, RefreshRejected, RefreshTimeout, RefreshStore,
         RefreshSaved, RefreshSaveFails, Replace, ReplaceSaved,
         ReplaceSaveFails, Restart, Tick, Note

-----------------------------------------------------------------------------
\* refreshInFlight names the one doRefresh that runs, whatever the callers,
\* the endpoint, the operator and the disk do.
THEOREM RefreshIsSingleFlight == Spec => []SingleFlight
<1>1. Init => SingleFlight
  BY NoneAssumption DEF Init, SingleFlight
<1>2. TypeOK /\ SingleFlight /\ [Next]_vars => SingleFlight'
  <2> SUFFICES ASSUME TypeOK, SingleFlight, [Next]_vars PROVE SingleFlight'
    OBVIOUS
  <2> USE NoneAssumption DEF SingleFlight
  <2>1. ASSUME NEW c \in Callers, NEW force \in BOOLEAN, EnsureFresh(c, force)
        PROVE  SingleFlight'
    BY <2>1 DEF TypeOK, EnsureFresh, AnswerAtOnce, Join, StartRefresh, Launch
  <2>2. ASSUME NEW r \in Attempts, Grant(r) PROVE SingleFlight'
    BY <2>2 DEF TypeOK, Grant
  <2>3. ASSUME NEW r \in Attempts, RefreshRejected(r) PROVE SingleFlight'
    BY <2>3 DEF TypeOK, RefreshRejected, Settle
  <2>4. ASSUME NEW r \in Attempts, RefreshTimeout(r) PROVE SingleFlight'
    BY <2>4 DEF TypeOK, RefreshTimeout, Settle
  <2>5. ASSUME NEW r \in Attempts, RefreshStore(r) PROVE SingleFlight'
    BY <2>5 DEF TypeOK, RefreshStore
  <2>6. ASSUME NEW r \in Attempts, RefreshSaved(r) PROVE SingleFlight'
    BY <2>6 DEF TypeOK, RefreshSaved, Settle
  <2>7. ASSUME NEW r \in Attempts, RefreshSaveFails(r) PROVE SingleFlight'
    BY <2>7 DEF TypeOK, RefreshSaveFails, Settle
  <2>8. CASE Restart
    BY <2>8 DEF TypeOK, Restart
  <2>9. CASE UNCHANGED <<attempt, inFlight>>
    BY <2>9
  <2> QED
    BY <2>1, <2>2, <2>3, <2>4, <2>5, <2>6, <2>7, <2>8, <2>9
       DEF Next, vars, GrantStray, Replace, ReplaceSaved, ReplaceSaveFails, Tick
<1> QED BY <1>1, <1>2, TypeCorrect, PTL DEF Spec

-----------------------------------------------------------------------------
\* The token a refresh was granted is never empty, so none of its callers can
\* be handed an empty one.
CarriesAccess ==
    \A r \in Attempts :
        attempt[r].phase \in {"answered", "saving"} => attempt[r].token.access

AccessInv == CarriesAccess /\ NoEmptyAccessToken

\* No caller is handed an empty access token (oauth.ts 131, 142).
THEOREM AccessTokensAreReal == Spec => []NoEmptyAccessToken
<1>1. Init => AccessInv
  BY DEF Init, AccessInv, CarriesAccess, NoEmptyAccessToken
<1>2. TypeOK /\ AccessInv /\ [Next]_vars => AccessInv'
  <2> SUFFICES ASSUME TypeOK, AccessInv, [Next]_vars PROVE AccessInv'
    OBVIOUS
  <2> USE DEF AccessInv, CarriesAccess, NoEmptyAccessToken
  <2>1. ASSUME NEW c \in Callers, NEW force \in BOOLEAN, EnsureFresh(c, force)
        PROVE  AccessInv'
    <3>1. CASE Fresh(current) /\ AnswerAtOnce(c)
      BY <2>1, <3>1 DEF TypeOK, EnsureFresh, AnswerAtOnce, Fresh, Served
    <3>2. CASE Join(c)
      BY <2>1, <3>2 DEF TypeOK, EnsureFresh, Join
    <3>3. CASE StartRefresh(c)
      BY <2>1, <3>3 DEF TypeOK, EnsureFresh, StartRefresh, Launch
    <3> QED BY <2>1, <3>1, <3>2, <3>3 DEF EnsureFresh
  <2>2. ASSUME NEW r \in Attempts, Grant(r) PROVE AccessInv'
    <3>1. attempt[r].token \in Token
      BY DEF TypeOK
    <3>2. attempt'[r].token.access
      BY <2>2, <3>1 DEF TypeOK, Grant, Token
    <3>3. \A s \in Attempts : s # r => attempt'[s] = attempt[s]
      BY <2>2 DEF TypeOK, Grant
    <3> QED BY <2>2, <3>2, <3>3 DEF TypeOK, Grant
  <2>3. ASSUME NEW r \in Attempts, RefreshRejected(r) PROVE AccessInv'
    BY <2>3 DEF TypeOK, RefreshRejected, Settle
  <2>4. ASSUME NEW r \in Attempts, RefreshTimeout(r) PROVE AccessInv'
    BY <2>4 DEF TypeOK, RefreshTimeout, Settle
  <2>5. ASSUME NEW r \in Attempts, RefreshStore(r) PROVE AccessInv'
    <3>1. attempt[r].token \in Token
      BY DEF TypeOK
    <3>2. attempt'[r].token.access
      BY <2>5, <3>1 DEF TypeOK, RefreshStore, Token
    <3>3. \A s \in Attempts : s # r => attempt'[s] = attempt[s]
      BY <2>5 DEF TypeOK, RefreshStore
    <3> QED BY <2>5, <3>2, <3>3 DEF TypeOK, RefreshStore
  <2>6. ASSUME NEW r \in Attempts, RefreshSaved(r) PROVE AccessInv'
    BY <2>6 DEF TypeOK, RefreshSaved, Settle, Served
  <2>7. ASSUME NEW r \in Attempts, RefreshSaveFails(r) PROVE AccessInv'
    BY <2>7 DEF TypeOK, RefreshSaveFails, Settle
  <2>8. CASE Restart
    BY <2>8 DEF TypeOK, Restart
  <2>9. CASE UNCHANGED <<attempt, caller>>
    BY <2>9
  <2> QED
    BY <2>1, <2>2, <2>3, <2>4, <2>5, <2>6, <2>7, <2>8, <2>9
       DEF Next, vars, GrantStray, Replace, ReplaceSaved, ReplaceSaveFails, Tick
<1>3. AccessInv => NoEmptyAccessToken
  BY DEF AccessInv
<1> QED BY <1>1, <1>2, <1>3, TypeCorrect, PTL DEF Spec

-----------------------------------------------------------------------------
\* While nothing has overlapped, memory and every refresh are on the
\* operator's latest login.
OnLatestLogin ==
    restarts = 0 /\ "overlap" \notin mishap =>
        /\ current.login = pasted
        /\ \A r \in Active : attempt[r].token.login = pasted

\* A replace that overlapped nothing holds until a restart (oauth.ts 145-156).
THEOREM QuietReplaceIsKept == Spec => []QuietReplaceHolds
<1>1. Init => OnLatestLogin
  BY DEF Init, OnLatestLogin, SelectInitial, EnvToken, Active
<1>2. TypeOK /\ SingleFlight /\ OnLatestLogin /\ [Next]_vars => OnLatestLogin'
  <2> SUFFICES ASSUME TypeOK, SingleFlight, OnLatestLogin, [Next]_vars
               PROVE  OnLatestLogin'
    OBVIOUS
  <2> USE NoneAssumption DEF OnLatestLogin, Active
  <2>1. ASSUME NEW c \in Callers, NEW force \in BOOLEAN, EnsureFresh(c, force)
        PROVE  OnLatestLogin'
    BY <2>1 DEF TypeOK, EnsureFresh, AnswerAtOnce, Join, StartRefresh, Launch,
                Note
  <2>2. ASSUME NEW r \in Attempts, Grant(r) PROVE OnLatestLogin'
    <3>1. attempt[r].token \in Token
      BY DEF TypeOK
    <3>2. attempt'[r].token.login = attempt[r].token.login
      BY <2>2, <3>1 DEF TypeOK, Grant, Token
    <3>3. \A s \in Attempts : s # r => attempt'[s] = attempt[s]
      BY <2>2 DEF TypeOK, Grant
    <3> QED BY <2>2, <3>2, <3>3 DEF TypeOK, Grant
  <2>3. ASSUME NEW r \in Attempts, RefreshRejected(r) PROVE OnLatestLogin'
    BY <2>3 DEF TypeOK, RefreshRejected, Settle
  <2>4. ASSUME NEW r \in Attempts, RefreshTimeout(r) PROVE OnLatestLogin'
    BY <2>4 DEF TypeOK, RefreshTimeout, Settle, Note
  <2>5. ASSUME NEW r \in Attempts, RefreshStore(r) PROVE OnLatestLogin'
    <3>1. attempt[r].token \in Token
      BY DEF TypeOK
    <3>2. /\ attempt'[r].token.login = attempt[r].token.login
          /\ current'.login = attempt[r].token.login
      BY <2>5, <3>1 DEF TypeOK, RefreshStore, Token
    <3>3. \A s \in Attempts : s # r => attempt'[s] = attempt[s]
      BY <2>5 DEF TypeOK, RefreshStore
    <3> QED BY <2>5, <3>2, <3>3 DEF TypeOK, RefreshStore
  <2>6. ASSUME NEW r \in Attempts, RefreshSaved(r) PROVE OnLatestLogin'
    BY <2>6 DEF TypeOK, RefreshSaved, Settle
  <2>7. ASSUME NEW r \in Attempts, RefreshSaveFails(r) PROVE OnLatestLogin'
    BY <2>7 DEF TypeOK, RefreshSaveFails, Settle, Note
  <2>8. ASSUME NEW access \in BOOLEAN, NEW expiresAt \in {0, now + Life},
               Replace(access, expiresAt)
        PROVE  OnLatestLogin'
    BY <2>8 DEF TypeOK, Replace, Note, SingleFlight
  <2>9. CASE Restart
    BY <2>9 DEF TypeOK, Restart
  <2>10. ASSUME NEW t \in saving, ReplaceSaveFails(t) PROVE OnLatestLogin'
    BY <2>10 DEF ReplaceSaveFails, Note
  <2>11. CASE UNCHANGED <<current, attempt, pasted, restarts, mishap>>
    BY <2>11
  <2> QED
    BY <2>1, <2>2, <2>3, <2>4, <2>5, <2>6, <2>7, <2>8, <2>9, <2>10, <2>11
       DEF Next, vars, GrantStray, ReplaceSaved, Tick
<1>3. OnLatestLogin => QuietReplaceHolds
  BY DEF OnLatestLogin, QuietReplaceHolds
<1> QED BY <1>1, <1>2, <1>3, TypeCorrect, RefreshIsSingleFlight, PTL DEF Spec

-----------------------------------------------------------------------------
\* Where the token in memory is on its way to the disk: with a refresh that is
\* saving it, with a replace that is, or nowhere because the file holds it (or
\* it is the environment's own).
MemoryReachesDisk ==
    mishap \subseteq {"tokenLost"} =>
        \/ /\ saving = {}
           /\ \E r \in Attempts : attempt[r].phase = "saving"
                                  /\ attempt[r].token = current
        \/ saving = {current} /\ Active = {}
        \/ /\ saving = {}
           /\ \A r \in Attempts : attempt[r].phase # "saving"
           /\ disk = current \/ current = EnvToken

\* Once all writes have landed, a restart resumes the token in memory, unless
\* a write failed or overlapped (oauth.ts 125-127, 154-155, 60-68).
THEOREM RestartKeepsMemory == Spec => []RestartResumesMemory
<1>1. Init => MemoryReachesDisk
  BY DEF Init, MemoryReachesDisk, SelectInitial
<1>2. TypeOK /\ SingleFlight /\ MemoryReachesDisk /\ [Next]_vars
      => MemoryReachesDisk'
  <2> SUFFICES ASSUME TypeOK, SingleFlight, MemoryReachesDisk, [Next]_vars,
                      mishap' \subseteq {"tokenLost"}, mishap \subseteq {"tokenLost"}
               PROVE  MemoryReachesDisk'
    BY MishapsAccumulate DEF MemoryReachesDisk
  <2> USE NoneAssumption DEF MemoryReachesDisk, Active
  <2>1. ASSUME NEW c \in Callers, NEW force \in BOOLEAN, EnsureFresh(c, force)
        PROVE  MemoryReachesDisk'
    <3>1. CASE AnswerAtOnce(c) \/ Join(c)
      BY <2>1, <3>1 DEF EnsureFresh, AnswerAtOnce, Join
    <3>2. CASE StartRefresh(c)
      <4>1. saving = {} /\ \A r \in Attempts : attempt[r].phase = "idle"
        BY <3>2 DEF StartRefresh, Launch, Note, SingleFlight
      <4> QED BY <2>1, <3>2, <4>1 DEF TypeOK, EnsureFresh, StartRefresh, Launch
    <3> QED BY <2>1, <3>1, <3>2 DEF EnsureFresh
  <2>2. ASSUME NEW r \in Attempts, Grant(r) PROVE MemoryReachesDisk'
    BY <2>2 DEF TypeOK, SingleFlight, Grant
  <2>3. ASSUME NEW r \in Attempts, RefreshRejected(r) PROVE MemoryReachesDisk'
    BY <2>3 DEF TypeOK, SingleFlight, RefreshRejected, Settle
  <2>4. ASSUME NEW r \in Attempts, RefreshTimeout(r) PROVE MemoryReachesDisk'
    BY <2>4 DEF TypeOK, SingleFlight, RefreshTimeout, Settle
  <2>5. ASSUME NEW r \in Attempts, RefreshStore(r) PROVE MemoryReachesDisk'
    BY <2>5 DEF TypeOK, SingleFlight, RefreshStore
  <2>6. ASSUME NEW r \in Attempts, RefreshSaved(r) PROVE MemoryReachesDisk'
    BY <2>6 DEF TypeOK, SingleFlight, RefreshSaved, Settle, Idle
  <2>7. ASSUME NEW r \in Attempts, RefreshSaveFails(r) PROVE MemoryReachesDisk'
    BY <2>7 DEF RefreshSaveFails, Note
  <2>8. ASSUME NEW access \in BOOLEAN, NEW expiresAt \in {0, now + Life},
               Replace(access, expiresAt)
        PROVE  MemoryReachesDisk'
    <3>1. inFlight = None /\ saving = {}
      BY <2>8 DEF Replace, Note
    <3> QED BY <2>8, <3>1 DEF Replace, SingleFlight
  <2>9. ASSUME NEW t \in saving, ReplaceSaved(t) PROVE MemoryReachesDisk'
    BY <2>9 DEF ReplaceSaved
  <2>10. ASSUME NEW t \in saving, ReplaceSaveFails(t) PROVE MemoryReachesDisk'
    BY <2>10 DEF ReplaceSaveFails, Note
  <2>11. CASE Restart
    BY <2>11 DEF Restart, SelectInitial, Idle
  <2>12. CASE UNCHANGED <<current, disk, attempt, saving, mishap>>
    BY <2>12
  <2> QED
    BY <2>1, <2>2, <2>3, <2>4, <2>5, <2>6, <2>7, <2>8, <2>9, <2>10, <2>11, <2>12
       DEF Next, vars, GrantStray, Tick
<1>3. TypeOK /\ MemoryReachesDisk => RestartResumesMemory
  <2> SUFFICES ASSUME TypeOK, MemoryReachesDisk, Active = {}, saving = {},
                      mishap \subseteq {"tokenLost"}, current.expiresAt > EnvExpiry
               PROVE  SelectInitial(disk) = current
    BY DEF RestartResumesMemory
  <2>1. current # EnvToken
    BY ConstantsAssumption DEF EnvToken
  <2>2. disk = current
    BY <2>1 DEF MemoryReachesDisk, Active
  <2>3. current # None
    BY NoneAssumption DEF TypeOK
  <2> QED BY <2>2, <2>3 DEF SelectInitial
<1> QED BY <1>1, <1>2, <1>3, TypeCorrect, RefreshIsSingleFlight, PTL DEF Spec

-----------------------------------------------------------------------------
\* The refresh token in memory, in the file and with the running refresh is
\* the one the endpoint honours, or the running refresh has just been granted
\* its successor; logins not pasted yet are untouched.
LatestHeld(t) ==
    \/ t.gen = rotation[t.login]
    \/ \E r \in Attempts : /\ attempt[r].phase \in {"answered", "saving"}
                           /\ attempt[r].token.login = t.login

HoldsLatest ==
    mishap = {} =>
        /\ \A r \in Active :
              /\ attempt[r].token.gen = rotation[attempt[r].token.login]
              /\ attempt[r].token.login <= pasted
        /\ current.login <= pasted
        /\ \/ current.gen = rotation[current.login]
           \/ \E r \in Attempts : /\ attempt[r].phase = "answered"
                                  /\ attempt[r].token.login = current.login
        /\ disk # None => disk.login <= pasted /\ LatestHeld(disk)
        /\ disk = None => LatestHeld(EnvToken)
        /\ \A t \in saving : t.login <= pasted /\ t.gen = rotation[t.login]
        /\ saving # {} => Active = {}
        /\ stray = {}
        /\ \A l \in Logins : l > pasted => rotation[l] = 0

\* The manager never submits a refresh token it has spent (oauth.ts 86-128).
THEOREM SpentTokensAreNotSubmitted == Spec => []NeverSubmitsSpentToken
<1>1. Init => HoldsLatest
  BY NoneAssumption, ConstantsAssumption
     DEF Init, HoldsLatest, LatestHeld, SelectInitial, EnvToken, Active
<1>2. TypeOK /\ SingleFlight /\ HoldsLatest /\ [Next]_vars => HoldsLatest'
  <2> SUFFICES ASSUME TypeOK, SingleFlight, HoldsLatest, [Next]_vars,
                      mishap' = {}, mishap = {}
               PROVE  HoldsLatest'
    BY MishapsAccumulate DEF HoldsLatest
  <2>1. ASSUME NEW c \in Callers, NEW force \in BOOLEAN, EnsureFresh(c, force)
        PROVE  HoldsLatest'
    <3>1. CASE AnswerAtOnce(c) \/ Join(c)
      BY <2>1, <3>1 DEF EnsureFresh, AnswerAtOnce, Join, HoldsLatest, LatestHeld,
                        Active
    <3>2. CASE StartRefresh(c)
      <4>1. saving = {} /\ \A r \in Attempts : attempt[r].phase = "idle"
        BY <3>2, NoneAssumption DEF StartRefresh, Launch, Note, SingleFlight
      <4>2. PICK r \in Attempts :
               attempt' = [attempt EXCEPT ![r] = [phase |-> "sent",
                                                  token |-> current]]
        BY <3>2 DEF StartRefresh, Launch
      <4>3. current.gen = rotation[current.login]
        BY <4>1 DEF HoldsLatest
      <4>4. /\ attempt'[r].token = current
            /\ \A s \in Attempts : s # r => attempt'[s].phase = "idle"
        BY <4>1, <4>2 DEF TypeOK
      <4>5. UNCHANGED <<current, disk, saving, rotation, stray, pasted>>
        BY <2>1 DEF EnsureFresh
      <4>6. disk # None => disk.gen = rotation[disk.login]
        BY <4>1 DEF HoldsLatest, LatestHeld
      <4>7. disk = None => EnvToken.gen = rotation[EnvToken.login]
        BY <4>1 DEF HoldsLatest, LatestHeld
      <4> QED BY <4>1, <4>3, <4>4, <4>5, <4>6, <4>7
                 DEF HoldsLatest, LatestHeld, Active
    <3> QED BY <2>1, <3>1, <3>2 DEF EnsureFresh
  <2>2. ASSUME NEW r \in Attempts, Grant(r) PROVE HoldsLatest'
    <3> DEFINE t == attempt[r].token
               l == t.login
    <3>1. t \in Token /\ l \in Logins /\ t.gen \in 0..MaxRotation
      BY TokenFields DEF TypeOK
    <3>2. /\ attempt'[r].phase = "answered"
          /\ attempt'[r].token.login = l
          /\ attempt'[r].token.gen = t.gen + 1
      BY <2>2, <3>1 DEF TypeOK, Grant, Token
    <3>3. \A s \in Attempts : s # r => attempt'[s] = attempt[s]
                                       /\ attempt[s].phase = "idle"
      BY <2>2 DEF TypeOK, Grant, SingleFlight
    <3>4. /\ rotation'[l] = t.gen + 1
          /\ \A k \in Logins : k # l => rotation'[k] = rotation[k]
      BY <2>2, <3>1 DEF TypeOK, Grant
    <3>5. UNCHANGED <<current, disk, saving, stray, pasted>>
      BY <2>2 DEF Grant
    <3>6. r \in Active /\ l <= pasted /\ saving = {} /\ stray = {}
      BY <2>2 DEF Grant, Active, HoldsLatest
    <3>7. ASSUME NEW u \in Token, LatestHeld(u) PROVE LatestHeld(u)'
      <4>1. u.login \in Logins
        BY TokenFields
      <4> QED BY <2>2, <3>2, <3>3, <3>4, <3>7, <4>1 DEF LatestHeld, Grant
    <3>8. EnvToken \in Token /\ disk # None => disk \in Token
      BY EnvTokenType DEF TypeOK
    <3>9. current.login \in Logins
      BY TokenFields DEF TypeOK
    <3>10. \/ current'.gen = rotation'[current'.login]
           \/ \E s \in Attempts : /\ attempt'[s].phase = "answered"
                                  /\ attempt'[s].token.login = current'.login
      <4>1. CASE current.login = l
        BY <3>2, <3>5, <4>1
      <4>2. CASE current.login # l
        <5>1. current.gen = rotation[current.login]
          BY <2>2, <3>3, <4>2 DEF HoldsLatest, Grant
        <5> QED BY <3>4, <3>5, <3>9, <4>2, <5>1
      <4> QED BY <4>1, <4>2
    <3>11. /\ disk' # None => disk'.login <= pasted' /\ LatestHeld(disk)'
           /\ disk' = None => LatestHeld(EnvToken)'
      BY <3>5, <3>7, <3>8, EnvTokenType DEF HoldsLatest, TypeOK
    <3>12. \A k \in Logins : k > pasted' => rotation'[k] = 0
      BY <3>1, <3>4, <3>5, <3>6 DEF HoldsLatest, TypeOK
    <3>13. \A s \in Active' : /\ attempt'[s].token.gen
                                    = rotation'[attempt'[s].token.login]
                              /\ attempt'[s].token.login <= pasted'
      BY <3>2, <3>3, <3>4, <3>5, <3>6 DEF Active
    <3>14. current'.login <= pasted' /\ saving' = {} /\ stray' = {}
      BY <3>5, <3>6 DEF HoldsLatest
    <3> QED BY <3>10, <3>11, <3>12, <3>13, <3>14 DEF HoldsLatest
  <2>3. ASSUME NEW r \in Attempts, RefreshRejected(r) PROVE HoldsLatest'
    <3>1. \A s \in Attempts : attempt'[s].phase = "idle"
                              /\ attempt[s].phase \notin {"answered", "saving"}
      BY <2>3 DEF TypeOK, RefreshRejected, Settle, SingleFlight
    <3>2. UNCHANGED <<current, disk, saving, rotation, stray, pasted>>
      BY <2>3 DEF RefreshRejected
    <3> QED BY <3>1, <3>2 DEF HoldsLatest, LatestHeld, Active
  <2>4. ASSUME NEW r \in Attempts, RefreshTimeout(r) PROVE HoldsLatest'
    BY <2>4 DEF RefreshTimeout, Note
  <2>5. ASSUME NEW r \in Attempts, RefreshStore(r) PROVE HoldsLatest'
    <3> DEFINE t == attempt[r].token
    <3>1. t \in Token
      BY DEF TypeOK
    <3>2. /\ attempt'[r].phase = "saving"
          /\ attempt'[r].token.login = t.login /\ attempt'[r].token.gen = t.gen
          /\ current'.login = t.login /\ current'.gen = t.gen
      BY <2>5, <3>1 DEF TypeOK, RefreshStore, Token
    <3>3. \A s \in Attempts : s # r => attempt'[s] = attempt[s]
                                       /\ attempt[s].phase = "idle"
      BY <2>5 DEF TypeOK, RefreshStore, SingleFlight
    <3>4. UNCHANGED <<disk, saving, rotation, stray, pasted>>
      BY <2>5 DEF RefreshStore
    <3>5. r \in Active
      BY <2>5 DEF RefreshStore, Active
    <3>6. t.gen = rotation[t.login] /\ t.login <= pasted /\ saving = {}
      BY <3>5 DEF HoldsLatest
    <3>7. \A u : LatestHeld(u) => LatestHeld(u)'
      BY <3>2, <3>3, <3>4 DEF LatestHeld
    <3>8. /\ disk' # None => disk'.login <= pasted' /\ LatestHeld(disk)'
          /\ disk' = None => LatestHeld(EnvToken)'
      BY <3>4, <3>7 DEF HoldsLatest, LatestHeld
    <3> QED BY <3>2, <3>3, <3>4, <3>6, <3>8 DEF HoldsLatest, Active
  <2>6. ASSUME NEW r \in Attempts, RefreshSaved(r) PROVE HoldsLatest'
    <3>1. /\ \A s \in Attempts : attempt'[s].phase = "idle"
          /\ \A s \in Attempts : s # r => attempt[s].phase = "idle"
          /\ attempt[r].phase = "saving"
      BY <2>6 DEF TypeOK, RefreshSaved, Settle, SingleFlight
    <3>2. UNCHANGED <<current, saving, rotation, stray, pasted>>
          /\ disk' = attempt[r].token
      BY <2>6 DEF RefreshSaved
    <3>3. attempt[r].token # None
      BY NoneAssumption DEF TypeOK
    <3>4. r \in Active
      BY <3>1 DEF Active
    <3>5. current.gen = rotation[current.login]
      BY <3>1 DEF HoldsLatest
    <3> QED BY <3>1, <3>2, <3>3, <3>4, <3>5 DEF HoldsLatest, LatestHeld, Active
  <2>7. ASSUME NEW r \in Attempts, RefreshSaveFails(r) PROVE HoldsLatest'
    BY <2>7 DEF RefreshSaveFails, Note
  <2>8. ASSUME NEW access \in BOOLEAN, NEW expiresAt \in {0, now + Life},
               Replace(access, expiresAt)
        PROVE  HoldsLatest'
    <3>1. inFlight = None /\ saving = {} /\ pasted < MaxReplace
      BY <2>8 DEF Replace, Note
    <3>2. pasted + 1 \in Logins /\ Active = {}
      <4>1. pasted + 1 \in Logins
        BY <3>1, ConstantsAssumption DEF TypeOK
      <4>2. Active = {}
        BY <3>1, NoneAssumption DEF Active, SingleFlight
      <4> QED BY <4>1, <4>2
    <3>3. rotation[pasted + 1] = 0
      BY <3>2 DEF HoldsLatest, TypeOK
    <3>4. /\ pasted' = pasted + 1 /\ saving' = {current'}
          /\ current'.login = pasted + 1 /\ current'.gen = 0
          /\ UNCHANGED <<disk, attempt, rotation, stray>>
      BY <2>8, <3>1 DEF Replace
    <3>5. Active' = {}
      BY <3>2, <3>4 DEF Active
    <3>6. disk # None => disk.login \in Logins
      BY TokenFields DEF TypeOK
    <3>7. /\ disk' # None => disk'.login <= pasted' /\ LatestHeld(disk)'
          /\ disk' = None => LatestHeld(EnvToken)'
      BY <3>4, <3>6, ConstantsAssumption DEF HoldsLatest, LatestHeld, TypeOK
    <3>8. \A l \in Logins : l > pasted' => rotation'[l] = 0
      BY <3>4, ConstantsAssumption DEF HoldsLatest, TypeOK
    <3> QED BY <3>3, <3>4, <3>5, <3>7, <3>8, ConstantsAssumption
               DEF HoldsLatest, TypeOK
  <2>9. ASSUME NEW t \in saving, ReplaceSaved(t) PROVE HoldsLatest'
    <3>1. t # None
      BY NoneAssumption DEF TypeOK
    <3> QED BY <2>9, <3>1 DEF ReplaceSaved, HoldsLatest, LatestHeld, Active
  <2>10. ASSUME NEW t \in saving, ReplaceSaveFails(t) PROVE HoldsLatest'
    BY <2>10 DEF ReplaceSaveFails, Note
  <2>11. CASE Restart
    <3>1. Active = {} /\ saving = {} /\ (disk # None => SelectInitial(disk) = disk)
      BY <2>11 DEF Restart, Note
    <3>2. /\ \A r \in Attempts : attempt'[r].phase = "idle"
          /\ current' = SelectInitial(disk) /\ saving' = {}
          /\ UNCHANGED <<disk, rotation, pasted>>
          /\ stray' = {}
      <4>1. \A r \in Attempts : attempt[r].phase # "sent"
        BY <3>1 DEF Active
      <4> QED BY <2>11, <4>1 DEF Restart, HoldsLatest
    <3>3. \A r \in Attempts : attempt[r].phase = "idle"
      BY <3>1 DEF Active
    <3>4. /\ disk # None => disk.gen = rotation[disk.login]
          /\ disk = None => EnvToken.gen = rotation[EnvToken.login]
      BY <3>3 DEF HoldsLatest, LatestHeld
    <3>5. disk = None => SelectInitial(disk) = EnvToken
      BY DEF SelectInitial
    <3>6. EnvToken.login <= pasted
      BY DEF EnvToken, TypeOK
    <3> QED BY <3>1, <3>2, <3>4, <3>5, <3>6 DEF HoldsLatest, LatestHeld, Active
  <2>12. ASSUME NEW t \in stray, GrantStray(t) PROVE HoldsLatest'
    BY <2>12 DEF HoldsLatest
  <2>13. CASE UNCHANGED <<current, disk, attempt, saving, rotation, stray, pasted,
                          mishap>>
    BY <2>13 DEF HoldsLatest, LatestHeld, Active
  <2> QED
    BY <2>1, <2>2, <2>3, <2>4, <2>5, <2>6, <2>7, <2>8, <2>9, <2>10, <2>11, <2>12,
       <2>13 DEF Next, vars, Tick
<1>3. HoldsLatest => NeverSubmitsSpentToken
  BY DEF HoldsLatest, NeverSubmitsSpentToken, Active
<1> QED BY <1>1, <1>2, <1>3, TypeCorrect, RefreshIsSingleFlight, PTL DEF Spec
-----------------------------------------------------------------------------
(* The refinement of TokenSource.                                           *)

\* Callers wait for the refresh in flight; a grant is never a first token; and
\* no token is of a login the operator has yet to paste.
WaitersJoined ==
    \A c \in Callers :
        caller[c].status = "waiting" => inFlight # None /\ caller[c].on = inFlight
GrantedGen == \A r \in Attempts : attempt[r].phase = "answered" => attempt[r].token.gen > 0
LoginsIssued ==
    /\ current.login <= pasted
    /\ disk # None => disk.login <= pasted
    /\ \A t \in saving : t.login <= pasted
    /\ \A r \in Attempts : attempt[r].token.login <= pasted

SourceInv == WaitersJoined /\ GrantedGen /\ LoginsIssued

LEMMA WaitersJoinedNext == TypeOK /\ SingleFlight /\ WaitersJoined /\ [Next]_vars => WaitersJoined'
<1> SUFFICES ASSUME TypeOK, SingleFlight, WaitersJoined, [Next]_vars PROVE WaitersJoined'
  OBVIOUS
<1> USE NoneAssumption DEF WaitersJoined
<1>1. ASSUME NEW c \in Callers, NEW force \in BOOLEAN, EnsureFresh(c, force)
      PROVE  WaitersJoined'
  <2>1. CASE AnswerAtOnce(c)
    BY <1>1, <2>1 DEF TypeOK, EnsureFresh, AnswerAtOnce, Served
  <2>2. CASE Join(c)
    BY <1>1, <2>2 DEF TypeOK, EnsureFresh, Join
  <2>3. CASE StartRefresh(c)
    BY <1>1, <2>3 DEF TypeOK, EnsureFresh, StartRefresh, Launch
  <2> QED BY <1>1, <2>1, <2>2, <2>3 DEF EnsureFresh
<1>2. ASSUME NEW r \in Attempts, NEW outcome, Settle(r, outcome), attempt[r].phase # "idle",
             outcome.status # "waiting"
      PROVE  WaitersJoined'
  BY <1>2 DEF TypeOK, Settle, SingleFlight
<1>3. \A t \in Token : Served(t).status # "waiting"
  BY DEF Served
<1>4. ASSUME NEW r \in Attempts,
             RefreshRejected(r) \/ RefreshTimeout(r) \/ RefreshSaved(r) \/ RefreshSaveFails(r)
      PROVE  WaitersJoined'
  BY <1>2, <1>3, <1>4 DEF TypeOK, RefreshRejected, RefreshTimeout, RefreshSaved, RefreshSaveFails
<1>5. CASE Restart
  BY <1>5 DEF Restart
<1>6. CASE UNCHANGED <<inFlight, caller>>
  BY <1>6
<1> QED
  BY <1>1, <1>4, <1>5, <1>6
     DEF Next, vars, Grant, GrantStray, RefreshStore, Replace, ReplaceSaved, ReplaceSaveFails, Tick

LEMMA GrantedGenNext == TypeOK /\ GrantedGen /\ [Next]_vars => GrantedGen'
<1> SUFFICES ASSUME TypeOK, GrantedGen, [Next]_vars, NEW r \in Attempts,
                    attempt'[r].phase = "answered"
             PROVE  attempt'[r].token.gen > 0
  BY DEF GrantedGen
<1>1. CASE Grant(r)
  <2>1. attempt[r].token \in Token
    BY DEF TypeOK
  <2>2. attempt'[r].token.gen = attempt[r].token.gen + 1
    BY <1>1, <2>1 DEF TypeOK, Grant, Token
  <2> QED BY <2>1, <2>2, TokenFields
<1>2. CASE ~Grant(r)
  <2>1. attempt'[r] = attempt[r]
    <3>1. ASSUME NEW c \in Callers, NEW force \in BOOLEAN, EnsureFresh(c, force)
          PROVE  attempt'[r] = attempt[r]
      BY <3>1 DEF TypeOK, EnsureFresh, AnswerAtOnce, Join, StartRefresh, Launch
    <3>2. ASSUME NEW s \in Attempts, Grant(s) PROVE attempt'[r] = attempt[r]
      BY <1>2, <3>2 DEF TypeOK, Grant
    <3>3. ASSUME NEW s \in Attempts,
                 \/ RefreshRejected(s) \/ RefreshTimeout(s) \/ RefreshStore(s)
                 \/ RefreshSaved(s) \/ RefreshSaveFails(s)
          PROVE  attempt'[r] = attempt[r]
      BY <3>3 DEF TypeOK, RefreshRejected, RefreshTimeout, RefreshStore, RefreshSaved,
                  RefreshSaveFails, Settle
    <3>4. ~Restart
      BY DEF Restart
    <3> QED
      BY <3>1, <3>2, <3>3, <3>4
         DEF Next, vars, GrantStray, Replace, ReplaceSaved, ReplaceSaveFails, Tick
  <2> QED BY <2>1 DEF GrantedGen
<1> QED BY <1>1, <1>2

LEMMA LoginsIssuedNext == TypeOK /\ LoginsIssued /\ [Next]_vars => LoginsIssued'
<1> SUFFICES ASSUME TypeOK, LoginsIssued, [Next]_vars PROVE LoginsIssued'
  OBVIOUS
<1> USE DEF LoginsIssued
<1>t. /\ pasted \in Nat /\ current \in Token /\ disk \in Token \cup {None} /\ saving \in SUBSET Token
      /\ \A r \in Attempts : attempt[r].token \in Token
  BY DEF TypeOK
<1>e. EnvToken.login <= pasted
  BY <1>t DEF EnvToken
<1>1. ASSUME NEW c \in Callers, NEW force \in BOOLEAN, EnsureFresh(c, force)
      PROVE  LoginsIssued'
  BY <1>1 DEF TypeOK, EnsureFresh, AnswerAtOnce, Join, StartRefresh, Launch
<1>2. ASSUME NEW r \in Attempts, Grant(r) PROVE LoginsIssued'
  <2>1. attempt'[r].token.login = attempt[r].token.login
    BY <1>2, <1>t DEF TypeOK, Grant, Token
  <2>2. \A s \in Attempts : s # r => attempt'[s] = attempt[s]
    BY <1>2 DEF TypeOK, Grant
  <2> QED BY <1>2, <2>1, <2>2 DEF Grant
<1>3. ASSUME NEW r \in Attempts,
             RefreshRejected(r) \/ RefreshTimeout(r) \/ RefreshSaved(r) \/ RefreshSaveFails(r)
      PROVE  LoginsIssued'
  BY <1>3, <1>t, <1>e, NoneAssumption
     DEF TypeOK, RefreshRejected, RefreshTimeout, RefreshSaved, RefreshSaveFails, Settle
<1>4. ASSUME NEW r \in Attempts, RefreshStore(r) PROVE LoginsIssued'
  <2> DEFINE next == [attempt[r].token EXCEPT !.expiresAt = now + Life]
  <2>1. next.login <= pasted
    BY <1>t DEF Token
  <2> QED BY <1>4, <2>1 DEF TypeOK, RefreshStore
<1>5. ASSUME NEW access \in BOOLEAN, NEW expiresAt \in {0, now + Life}, Replace(access, expiresAt)
      PROVE  LoginsIssued'
  <2>1. /\ current'.login = pasted + 1 /\ pasted' = pasted + 1 /\ saving' = saving \cup {current'}
        /\ UNCHANGED <<disk, attempt>>
    BY <1>5 DEF Replace
  <2>2. \A t \in Token : t.login \in Nat
    BY ConstantsAssumption DEF Token
  <2>3. \A n \in Nat : n <= pasted => n <= pasted'
    BY <1>t, <2>1
  <2> QED BY <1>t, <2>1, <2>2, <2>3
<1>6. ASSUME NEW t \in saving, ReplaceSaved(t) \/ ReplaceSaveFails(t) PROVE LoginsIssued'
  BY <1>6 DEF ReplaceSaved, ReplaceSaveFails
<1>7. CASE Restart
  <2>1. /\ current' = SelectInitial(disk) /\ saving' = {} /\ UNCHANGED <<disk, pasted>>
        /\ \A r \in Attempts : attempt'[r].token = EnvToken
    BY <1>7 DEF Restart
  <2>2. SelectInitial(disk).login <= pasted
    BY <1>e DEF SelectInitial
  <2> QED BY <1>e, <2>1, <2>2
<1>8. CASE UNCHANGED <<current, disk, saving, attempt, pasted>>
  BY <1>8
<1> QED
  BY <1>1, <1>2, <1>3, <1>4, <1>5, <1>6, <1>7, <1>8 DEF Next, vars, GrantStray, Tick

-----------------------------------------------------------------------------
(* Each step is one of the source, or a stutter.                            *)

\* What callers see of a refresh, by its phase.
LEMMA Seen ==
    /\ inFlight = None => FlightSeen = Source!NoFlight
    /\ inFlight # None => FlightSeen.phase \in {"asked", "saving"} /\ FlightSeen # Source!NoFlight
  BY DEF FlightSeen, RefreshToken, EnvToken, Source!NoFlight, Source!First

LEMMA NextSource ==
    ASSUME TypeOK, SingleFlight, SourceInv, Next
    PROVE  Source!Next \/ UNCHANGED Source!svars
<1> USE NoneAssumption DEF SourceInv
<1>t. /\ current \in Token /\ now \in Nat /\ pasted \in Nat
      /\ \A r \in Attempts : attempt[r].token \in Token
  BY DEF TypeOK
<1>f. ASSUME UNCHANGED <<now, current>> PROVE RefreshToken(current)' = RefreshToken(current) /\ Fresh(current)' = Fresh(current)
  BY <1>f DEF RefreshToken, Fresh, NearExpiry
<1>b. Fresh(current)' \in BOOLEAN
  BY DEF Fresh
\* What a step that leaves callers, attempts and memory alone does to the source.
<1>s. ASSUME UNCHANGED <<now, current, attempt, inFlight, caller, pasted>>
      PROVE  UNCHANGED Source!svars
  BY <1>s, <1>f DEF Source!svars, FlightSeen, WaitingCallers
<1>1. ASSUME NEW c \in Callers, NEW force \in BOOLEAN, EnsureFresh(c, force)
      PROVE  Source!Next \/ UNCHANGED Source!svars
  <2>1. CASE AnswerAtOnce(c)
    <3>1. WaitingCallers' = WaitingCallers
      BY <1>1, <2>1 DEF TypeOK, EnsureFresh, AnswerAtOnce, WaitingCallers, Served
    <3>2. FlightSeen' = FlightSeen
      BY <2>1 DEF AnswerAtOnce, FlightSeen
    <3> QED BY <1>1, <1>f, <3>1, <3>2 DEF EnsureFresh, Source!svars
  <2>2. CASE Join(c) \/ StartRefresh(c)
    <3>1. WaitingCallers' = WaitingCallers \cup {c} /\ c \notin WaitingCallers
      BY <1>1, <2>2 DEF TypeOK, EnsureFresh, Join, StartRefresh, Launch, WaitingCallers
    <3>2. ASSUME Join(c) PROVE FlightSeen # Source!NoFlight /\ FlightSeen' = FlightSeen
      <4>1. FlightSeen' = FlightSeen
        BY <3>2 DEF Join, FlightSeen
      <4> QED BY <3>2, <4>1, Seen DEF Join
    <3>3. ASSUME StartRefresh(c)
          PROVE  FlightSeen = Source!NoFlight
                 /\ FlightSeen' = [phase |-> "asked", token |-> RefreshToken(current)]
      <4>1. FlightSeen = Source!NoFlight
        BY <3>3, Seen DEF StartRefresh
      <4>2. PICK r \in Attempts : /\ inFlight' = r
                                  /\ attempt' = [attempt EXCEPT ![r] = [phase |-> "sent", token |-> current]]
        BY <3>3 DEF StartRefresh, Launch
      <4>3. attempt'[r] = [phase |-> "sent", token |-> current]
        BY <4>2 DEF TypeOK
      <4> QED BY <4>1, <4>2, <4>3 DEF FlightSeen, RefreshToken
    <3>4. FlightSeen' = IF FlightSeen = Source!NoFlight
                        THEN [phase |-> "asked", token |-> RefreshToken(current)] ELSE FlightSeen
      BY <2>2, <3>2, <3>3
    <3>5. Source!Wait(c)
      BY <1>1, <1>f, <3>1, <3>4 DEF EnsureFresh, Source!Wait
    <3> QED BY <3>5 DEF Source!Next
  <2> QED BY <1>1, <2>1, <2>2 DEF EnsureFresh
<1>2. ASSUME NEW r \in Attempts, Grant(r) PROVE UNCHANGED Source!svars
  <2> DEFINE t == attempt[r].token
             granted == [t EXCEPT !.gen = t.gen + 1, !.access = TRUE]
  <2>1. inFlight = r /\ inFlight' = r /\ attempt[r].phase = "sent"
    BY <1>2 DEF Grant, SingleFlight
  <2>2. attempt'[r] = [phase |-> "answered", token |-> granted]
    BY <1>2 DEF Grant, TypeOK
  <2>3. t \in Token /\ t.gen \in Nat /\ granted.login = t.login /\ granted.gen = t.gen + 1
    BY <1>t, TokenFields, ConstantsAssumption DEF Token
  <2>4. granted.gen - 1 = t.gen
    BY <2>3
  <2>5. FlightSeen = [phase |-> "asked", token |-> [login |-> t.login, gen |-> t.gen]]
    BY <2>1 DEF FlightSeen
  <2>6. FlightSeen' = [phase |-> "asked", token |-> [login |-> granted.login, gen |-> granted.gen - 1]]
    <3>1. attempt'[inFlight'].phase = "answered" /\ attempt'[inFlight'].token = granted
      BY <2>1, <2>2
    <3> HIDE DEF granted
    <3> QED BY <2>1, <3>1 DEF FlightSeen
  <2>7. WaitingCallers' = WaitingCallers
    BY <1>2 DEF Grant, WaitingCallers
  <2> QED BY <1>2, <1>f, <2>3, <2>4, <2>5, <2>6, <2>7 DEF Grant, Source!svars
<1>3. ASSUME NEW r \in Attempts, NEW outcome, Settle(r, outcome), attempt[r].phase # "idle",
             outcome.status # "waiting", UNCHANGED <<now, current, pasted>>
      PROVE  Source!Next
  <2>1. inFlight = r
    BY <1>3 DEF SingleFlight
  <2>2. FlightSeen # Source!NoFlight /\ FlightSeen' = Source!NoFlight
    <3>1. FlightSeen # Source!NoFlight
      BY <2>1, Seen
    <3>2. inFlight' = None
      BY <1>3 DEF Settle
    <3> QED BY <3>1, <3>2 DEF FlightSeen, RefreshToken, EnvToken, Source!NoFlight, Source!First
  <2>3. WaitingCallers' = {}
    BY <1>3, <2>1 DEF Settle, WaitingCallers, WaitersJoined, TypeOK
  <2>4. Source!Settle
    BY <1>3, <1>f, <2>2, <2>3 DEF Source!Settle
  <2> QED BY <2>4 DEF Source!Next
<1>4. ASSUME NEW r \in Attempts,
             RefreshRejected(r) \/ RefreshTimeout(r) \/ RefreshSaved(r) \/ RefreshSaveFails(r)
      PROVE  Source!Next
  <2>1. \A t \in Token : Served(t).status # "waiting"
    BY DEF Served
  <2> QED BY <1>3, <1>4, <1>t, <2>1 DEF RefreshRejected, RefreshTimeout, RefreshSaved, RefreshSaveFails
<1>5. ASSUME NEW r \in Attempts, RefreshStore(r) PROVE Source!Next
  <2> DEFINE t == attempt[r].token
             next == [t EXCEPT !.expiresAt = now + Life]
             seen == [login |-> t.login, gen |-> t.gen - 1]
  <2>1. inFlight = r /\ inFlight' = r /\ attempt[r].phase = "answered"
    BY <1>5 DEF RefreshStore, SingleFlight
  <2>2. attempt'[r] = [phase |-> "saving", token |-> next] /\ current' = next
    BY <1>5 DEF RefreshStore, TypeOK
  <2>3. t \in Token /\ next.login = t.login /\ next.gen = t.gen /\ t.gen \in Nat
    BY <1>t, TokenFields, ConstantsAssumption DEF Token
  <2>4. FlightSeen = [phase |-> "asked", token |-> seen]
    BY <2>1 DEF FlightSeen
  <2>5. FlightSeen' = [phase |-> "saving", token |-> [login |-> t.login, gen |-> t.gen]]
    <3>1. attempt'[inFlight'].phase = "saving" /\ attempt'[inFlight'].token = next
      BY <2>1, <2>2
    <3> HIDE DEF next
    <3> QED BY <2>1, <2>3, <3>1 DEF FlightSeen
  <2>6. RefreshToken(current)' = [login |-> t.login, gen |-> t.gen]
    BY <2>2, <2>3 DEF RefreshToken
  <2>7. [seen EXCEPT !.gen = @ + 1] = [login |-> t.login, gen |-> t.gen]
    BY <2>3
  <2>8. WaitingCallers' = WaitingCallers /\ pasted' = pasted
    BY <1>5 DEF RefreshStore, WaitingCallers
  <2> HIDE DEF t, next, seen
  <2>9. Source!Store
    BY <1>b, <2>4, <2>5, <2>6, <2>7, <2>8 DEF Source!Store
  <2> QED BY <2>9 DEF Source!Next
<1>6. ASSUME NEW access \in BOOLEAN, NEW expiresAt \in {0, now + Life}, Replace(access, expiresAt)
      PROVE  Source!Next
  <2>1. /\ pasted' = pasted + 1 /\ UNCHANGED <<attempt, inFlight, caller>>
        /\ RefreshToken(current)' = [login |-> pasted + 1, gen |-> 0]
    BY <1>6 DEF Replace, RefreshToken
  <2>2. FlightSeen' = FlightSeen /\ WaitingCallers' = WaitingCallers
    BY <2>1 DEF FlightSeen, WaitingCallers
  <2>3. Source!Replace
    BY <1>b, <2>1, <2>2 DEF Source!Replace
  <2> QED BY <2>3 DEF Source!Next
<1>7. CASE Restart
  <2>1. current' = SelectInitial(disk) /\ inFlight' = None /\ pasted' = pasted
        /\ caller' = [c \in Callers |-> Resting]
    BY <1>7 DEF Restart
  <2>2. FlightSeen' = Source!NoFlight /\ WaitingCallers' = {}
    BY <2>1 DEF FlightSeen, WaitingCallers, RefreshToken, EnvToken, Source!NoFlight, Source!First
  <2>3. current' \in Token /\ current'.login <= pasted
    <3>1. disk \in Token \cup {None} /\ (disk # None => disk.login <= pasted)
      BY DEF TypeOK, LoginsIssued
    <3>2. EnvToken.login <= pasted
      BY <1>t DEF EnvToken
    <3>3. SelectInitial(disk) \in {disk, EnvToken} /\ (disk = None => SelectInitial(disk) = EnvToken)
      BY DEF SelectInitial
    <3> QED BY <2>1, <3>1, <3>2, <3>3, SelectInitialType
  <2>4. RefreshToken(current)' \in Source!Tokens /\ RefreshToken(current)'.login <= pasted
    BY <2>3, TokenFields, ConstantsAssumption DEF RefreshToken, Source!Tokens
  <2>5. Source!Restart
    BY <1>b, <2>1, <2>2, <2>4 DEF Source!Restart
  <2> QED BY <2>5 DEF Source!Next
<1>8. CASE Tick
  <2>1. now' = now + 1 /\ UNCHANGED <<current, attempt, inFlight, caller, pasted>>
    BY <1>8 DEF Tick
  <2>2. FlightSeen' = FlightSeen /\ WaitingCallers' = WaitingCallers
        /\ RefreshToken(current)' = RefreshToken(current)
    BY <2>1 DEF FlightSeen, WaitingCallers, RefreshToken
  <2>3. Fresh(current)' => Fresh(current)
    BY <1>t, <2>1, TokenFields, ConstantsAssumption DEF Fresh, NearExpiry
  <2>4. CASE Fresh(current) /\ ~Fresh(current)'
    <3>1. Source!Expire
      BY <2>1, <2>2, <2>4, <1>b DEF Source!Expire
    <3> QED BY <3>1 DEF Source!Next
  <2>5. CASE Fresh(current)' = Fresh(current)
    BY <2>1, <2>2, <2>5 DEF Source!svars
  <2> QED BY <2>3, <2>4, <2>5, <1>b DEF Fresh
<1> QED
  BY <1>1, <1>2, <1>4, <1>5, <1>6, <1>7, <1>8, <1>s
     DEF Next, GrantStray, ReplaceSaved, ReplaceSaveFails

\* The manager is a TokenSource to its callers, through every interleaving of
\* callers, refreshes, replaces, failures and restarts (oauth.ts 86-156).
THEOREM ManagerKeepsSource == Spec => KeepsSource
<1>1. Init => SourceInv
  BY ConstantsAssumption, NoneAssumption
     DEF Init, SourceInv, WaitersJoined, GrantedGen, LoginsIssued, SelectInitial, EnvToken
<1>2. TypeOK /\ SingleFlight /\ SourceInv /\ [Next]_vars => SourceInv'
  BY WaitersJoinedNext, GrantedGenNext, LoginsIssuedNext DEF SourceInv
<1>3. Init => Source!Init
  BY DEF Init, Source!Init, Source!First, Source!NoFlight, RefreshToken, SelectInitial,
         EnvToken, Fresh, FlightSeen, WaitingCallers
<1>4. TypeOK /\ SingleFlight /\ SourceInv /\ [Next]_vars => [Source!Next]_(Source!svars)
  <2>1. ASSUME UNCHANGED vars PROVE UNCHANGED Source!svars
    BY <2>1 DEF vars, Source!svars, FlightSeen, WaitingCallers, RefreshToken, Fresh, NearExpiry
  <2> QED BY <2>1, NextSource
<1> QED
  BY <1>1, <1>2, <1>3, <1>4, TypeCorrect, RefreshIsSingleFlight, PTL
     DEF Spec, KeepsSource, Source!Spec
=============================================================================
