------------------------- MODULE AuthSessions_proofs -------------------------
(***************************************************************************)
(* Proofs about AuthSessions, for every value of its constants.            *)
(***************************************************************************)
EXTENDS AuthSessions, TLAPS

USE SettingsAssumption, BoundsAssumption, NullAssumption, NullRowAssumption DEF Time

----------------------------------------------------------------------------
(* Type correctness *)

LEMMA DbTimesType ==
  ASSUME TypeOK, NEW t \in DbTimes
  PROVE  t \in Nat
BY DEF DbTimes, TypeOK

LEMMA EarlierType ==
  ASSUME NEW a \in Nat, NEW b \in Nat
  PROVE  Earlier(a, b) \in Nat /\ Earlier(a, b) <= a /\ Earlier(a, b) <= b
BY DEF Earlier

LEMMA MintedTokenType ==
  ASSUME NEW s \in SessionIds, NEW g \in Nat
  PROVE  MintedToken(s, g) \in Token
BY DEF MintedToken, Token

LEMMA PresentableType ==
  ASSUME TypeOK, NEW token \in Presentable
  PROVE  token \in Token
BY DEF TypeOK, Presentable, Issued, Token, Session

\* The rows the account operations return are rows.
LEMMA AccountRowTypes ==
  ASSUME NEW account \in Account, NEW t \in Nat,
         NEW hash \in PasswordHash \cup {Null}
  PROVE  /\ RecordFailedLogin(account, t) \in Account
         /\ RecordSuccessfulLogin(account) \in Account
         /\ UpdatePassword(account, hash) \in Account
         /\ ActivateUser(account, hash) \in Account
         /\ NextVersion(account) \in Nat
<1>1. AttemptsAfterFailure(account, t) \in Nat
  BY DEF AttemptsAfterFailure, Account
<1>2. LockAfterFailure(account, t) \in Nat \cup {Null}
  BY <1>1 DEF LockAfterFailure
<1>3. RecordFailedLogin(account, t) \in Account
  BY <1>1, <1>2 DEF RecordFailedLogin, Account
<1>4. NextVersion(account) \in Nat
  BY DEF NextVersion, Account, PasswordHash
<1>5. UpdatePassword(account, hash) \in Account
  BY DEF UpdatePassword, Account
<1>6. ActivateUser(account, hash) \in Account
  <2>1. (IF hash = Null THEN account.passwordHash ELSE hash) \in PasswordHash \cup {Null}
    BY DEF Account
  <2> QED
    BY <2>1 DEF ActivateUser, Account, AccountStatus
<1> QED
  BY <1>3, <1>4, <1>5, <1>6 DEF RecordSuccessfulLogin, Account

\* The rows the session operations return are rows.
LEMMA SessionRowTypes ==
  ASSUME NEW s \in SessionIds, NEW session \in Session, NEW t \in Nat,
         NEW login \in LoginCall
  PROVE  /\ NewSession(login, s) \in Session
         /\ TouchedIdle(session, t) \in Nat
         /\ Rotated(session, s, t) \in Session
         /\ [session EXCEPT !.revoked = TRUE] \in Session
         /\ [session EXCEPT !.idleExpiresAt = TouchedIdle(session, t)] \in Session
<1>1. TouchedIdle(session, t) \in Nat
  BY DEF TouchedIdle, Earlier, Session
<1>2. NewSession(login, s) \in Session
  BY MintedTokenType DEF NewSession, Session, LoginCall
<1>3. Rotated(session, s, t) \in Session
  <2>1. session.refreshGeneration + 1 \in Nat
    BY DEF Session
  <2>2. MintedToken(s, session.refreshGeneration + 1) \in Token
    BY <2>1, MintedTokenType
  <2> QED
    BY <1>1, <2>1, <2>2 DEF Rotated, Session
<1> QED
  BY <1>1, <1>2, <1>3 DEF Session

\* Revoking keeps the table's type.
LEMMA RevocationTypes ==
  ASSUME TypeOK, NEW s \in SessionIds, sessions[s] # Null, NEW u, NEW except
  PROVE  /\ RevokeSession(s) \in [SessionIds -> Session \cup {Null}]
         /\ RevokeUserSessions(u, except) \in [SessionIds -> Session \cup {Null}]
<1>1. \A i \in SessionIds : sessions[i] # Null =>
        [sessions[i] EXCEPT !.revoked = TRUE] \in Session
  BY DEF TypeOK, Session
<1> QED
  BY <1>1 DEF TypeOK, RevokeSession, RevokeUserSessions, UserSessions

LEMMA InitTypeOK == Init => TypeOK
BY DEF Init, TypeOK, Account, AccountStatus, PasswordHash

LEMMA LoginNextTypeOK ==
  ASSUME TypeOK, LoginNext
  PROVE  TypeOK'
<1> USE DEF TypeOK
<1>1. ASSUME NEW r \in Requests, NEW u \in Users, NEW p \in Passwords, NEW m \in BOOLEAN,
             LoginRead(r, u, p, m)
      PROVE  TypeOK'
  <2>1. [stage |-> "verify", userId |-> u, password |-> p,
         lifetime |-> SessionLifetime(m), user |-> accounts[u],
         expiresAt |-> 0, idleExpiresAt |-> 0] \in LoginCall
    BY DEF LoginCall, SessionLifetime
  <2> QED
    BY <1>1, <2>1 DEF LoginRead
<1>2. ASSUME NEW r \in Requests, NEW t \in DbTimes, LoginRecordFailure(r, t)
      PROVE  TypeOK'
  <2>1. logins[r] \in LoginCall /\ logins[r].userId \in Users /\ t \in Nat
    BY <1>2, DbTimesType DEF LoginRecordFailure, Verifying, LoginCall
  <2>2. RecordFailedLogin(accounts[logins[r].userId], t) \in Account
    BY <2>1, AccountRowTypes
  <2> QED
    BY <1>2, <2>1, <2>2 DEF LoginRecordFailure, Answered
<1>3. ASSUME NEW r \in Requests, LoginRejected(r)
      PROVE  TypeOK'
  BY <1>3 DEF LoginRejected, Answered
<1>4. ASSUME NEW r \in Requests, LoginBegin(r)
      PROVE  TypeOK'
  <2> DEFINE expiry == now + logins[r].lifetime
             idle == Earlier(expiry, now + IdleTimeout)
  <2>1. logins[r] \in LoginCall
    BY <1>4 DEF LoginBegin, Verifying
  <2>2. expiry \in Nat /\ idle \in Nat
    BY <2>1 DEF LoginCall, Earlier
  <2> HIDE DEF expiry, idle
  <2> DEFINE begun == [logins[r] EXCEPT !.stage = "commit", !.expiresAt = expiry,
                                       !.idleExpiresAt = idle]
  <2>3. begun \in LoginCall
    BY <2>1, <2>2 DEF LoginCall
  <2>4. logins' = [logins EXCEPT ![r] = begun]
    BY <1>4, <2>1 DEF LoginBegin, expiry, idle
  <2> HIDE DEF begun
  <2>5. logins' \in [Requests -> LoginCall \cup {Null}]
    BY <2>3, <2>4
  <2>6. UNCHANGED <<now, accounts, sessions, history, exchanged, closed>>
    BY <1>4 DEF LoginBegin
  <2> QED
    BY <2>5, <2>6
<1>5. ASSUME NEW r \in Requests, NEW s \in SessionIds, LoginCommit(r, s)
      PROVE  TypeOK'
  <2>1. logins[r] \in LoginCall /\ logins[r].userId \in Users
    BY <1>5 DEF LoginCommit, Committing, LoginCall
  <2>2. RecordSuccessfulLogin(accounts[logins[r].userId]) \in Account
    <3>1. accounts[logins[r].userId] \in Account /\ 0 \in Nat
      BY <2>1
    <3> QED
      BY <3>1, AccountRowTypes
  <2>3. NewSession(logins[r], s) \in Session
    BY <2>1, MintedTokenType DEF NewSession, Session, LoginCall
  <2> QED
    BY <1>5, <2>1, <2>2, <2>3 DEF LoginCommit, Answered
<1>6. ASSUME NEW r \in Requests, LoginRolledBack(r)
      PROVE  TypeOK'
  BY <1>6 DEF LoginRolledBack, Answered
<1> QED
  BY <1>1, <1>2, <1>3, <1>4, <1>5, <1>6 DEF LoginNext, LoginChecks

LEMMA ObserveType ==
  ASSUME TypeOK, NEW token \in Token, Observe(token) \/ ObserveLogout(token)
  PROVE  closed' \in SUBSET SessionIds
BY DEF TypeOK, Observe, ObserveLogout, Token

LEMMA SessionNextTypeOK ==
  ASSUME TypeOK, SessionNext
  PROVE  TypeOK'
<1> USE DEF TypeOK
<1>1. ASSUME NEW token \in Presentable, RefreshInactive(token) \/ RefreshReused(token)
      PROVE  TypeOK'
  <2>1. token \in Token /\ token.sessionId \in SessionIds
    BY PresentableType DEF Token
  <2>2. sessions' \in [SessionIds -> Session \cup {Null}]
    BY <1>1, <2>1, RevocationTypes DEF RefreshInactive, RefreshReused, Exists
  <2>3. closed' \in SUBSET SessionIds
    BY <1>1, <2>1, ObserveType DEF RefreshInactive, RefreshReused
  <2> QED
    BY <1>1, <2>2, <2>3 DEF RefreshInactive, RefreshReused
<1>2. ASSUME NEW token \in Presentable, NEW t \in DbTimes, RefreshRejected(token, t)
      PROVE  TypeOK'
  <2>1. token \in Token
    BY PresentableType
  <2> QED
    BY <1>2, <2>1, ObserveType DEF RefreshRejected
<1>3. ASSUME NEW token \in Presentable, NEW t \in DbTimes, RefreshRotated(token, t)
      PROVE  TypeOK'
  <2> DEFINE s == token.sessionId
  <2>1. token \in Token /\ s \in SessionIds /\ sessions[s] \in Session
    BY <1>3, PresentableType DEF RefreshRotated, Exists, Token
  <2>2. Rotated(sessions[s], s, t) \in Session
    <3>1. TouchedIdle(sessions[s], t) \in Nat
      BY <2>1, DbTimesType DEF TouchedIdle, Earlier, Session
    <3>2. sessions[s].refreshGeneration + 1 \in Nat
      BY <2>1 DEF Session
    <3>3. MintedToken(s, sessions[s].refreshGeneration + 1) \in Token
      BY <2>1, <3>2, MintedTokenType
    <3> QED
      BY <2>1, <3>1, <3>2, <3>3 DEF Rotated, Session
  <2>3. Superseded(token) \in HistoryRow
    BY <2>1 DEF Superseded, HistoryRow, Session
  <2>4. closed' \in SUBSET SessionIds
    BY <1>3, <2>1, ObserveType DEF RefreshRotated
  <2> QED
    BY <1>3, <2>1, <2>2, <2>3, <2>4 DEF RefreshRotated
<1>4. ASSUME NEW token \in Presentable, Logout(token)
      PROVE  TypeOK'
  <2>1. token \in Token /\ token.sessionId \in SessionIds
    BY PresentableType DEF Token
  <2>2. closed' \in SUBSET SessionIds
    BY <1>4, <2>1, ObserveType DEF Logout, LogoutRevokes, LogoutIgnored
  <2>3. sessions' \in [SessionIds -> Session \cup {Null}]
    BY <1>4, <2>1, RevocationTypes DEF Logout, LogoutRevokes, LogoutIgnored, Exists
  <2> QED
    BY <1>4, <2>2, <2>3 DEF Logout, LogoutRevokes, LogoutIgnored
<1>5. ASSUME NEW s \in SessionIds, NEW t \in DbTimes, FindActiveSession(s, t)
      PROVE  TypeOK'
  <2>1. sessions[s] \in Session
    BY <1>5 DEF FindActiveSession
  <2>2. TouchedIdle(sessions[s], t) \in Nat
    BY <2>1, DbTimesType DEF TouchedIdle, Earlier, Session
  <2>3. [sessions[s] EXCEPT !.idleExpiresAt = TouchedIdle(sessions[s], t)] \in Session
    BY <2>1, <2>2 DEF Session
  <2> QED
    BY <1>5, <2>3 DEF FindActiveSession
<1> QED
  BY <1>1, <1>2, <1>3, <1>4, <1>5 DEF SessionNext, RefreshAuthentication

LEMMA AccountNextTypeOK ==
  ASSUME TypeOK, AccountNext
  PROVE  TypeOK'
<1> USE DEF TypeOK
<1>1. ASSUME NEW u \in Users, NEW p \in Passwords, NEW k \in Kept(u), ReplacePassword(u, p, k)
      PROVE  TypeOK'
  <2> DEFINE hash == [password |-> p, version |-> NextVersion(accounts[u])]
  <2>1. hash \in PasswordHash
    BY DEF NextVersion, Account, PasswordHash
  <2>2. UpdatePassword(accounts[u], hash) \in Account
    <3>1. accounts[u] \in Account /\ 0 \in Nat
      OBVIOUS
    <3> QED
      BY <2>1, <3>1, AccountRowTypes
  <2>3. accounts' = [accounts EXCEPT ![u] = UpdatePassword(accounts[u], hash)]
    BY <1>1 DEF ReplacePassword
  <2>4. \A i \in SessionIds : sessions[i] # Null =>
          [sessions[i] EXCEPT !.revoked = TRUE] \in Session
    BY DEF Session
  <2>5. sessions' \in [SessionIds -> Session \cup {Null}]
    BY <1>1, <2>4 DEF ReplacePassword, RevokeUserSessions, UserSessions
  <2> HIDE DEF hash
  <2> QED
    BY <1>1, <2>2, <2>3, <2>5 DEF ReplacePassword
<1>2. ASSUME NEW u \in Users, NEW h \in InitialHashes(u), Activate(u, h)
      PROVE  TypeOK'
  <2>1. h \in PasswordHash \cup {Null}
    BY DEF InitialHashes, PasswordHash, NextVersion
  <2>2. ActivateUser(accounts[u], h) \in Account
    BY <2>1, AccountRowTypes
  <2> QED
    BY <1>2, <2>2 DEF Activate
<1>3. ASSUME NEW u \in Users, NEW status \in AccountStatus, SetAccountStatus(u, status)
      PROVE  TypeOK'
  <2>1. [accounts[u] EXCEPT !.accountStatus = status] \in Account
    BY DEF Account
  <2> QED
    BY <1>3, <2>1 DEF SetAccountStatus
<1> QED
  BY <1>1, <1>2, <1>3 DEF AccountNext

LEMMA StepTypeOK ==
  ASSUME TypeOK, [Next]_vars
  PROVE  TypeOK'
<1>1. CASE Tick
  BY <1>1 DEF TypeOK, Tick
<1>2. CASE UNCHANGED vars
  BY <1>2 DEF TypeOK, vars
<1> QED
  BY <1>1, <1>2, LoginNextTypeOK, SessionNextTypeOK, AccountNextTypeOK DEF Next

\* Every reachable state of the login, refresh, logout and guard code keeps
\* its columns in their types, for any settings and any number of users,
\* sessions and concurrent logins.
THEOREM TypeCorrect == Spec => []TypeOK
<1>1. TypeOK /\ [Next]_vars => TypeOK'
  BY StepTypeOK
<1> QED
  BY InitTypeOK, <1>1, PTL DEF Spec

----------------------------------------------------------------------------
(* The lockout columns *)

\* A lock exactly when the counter has reached the threshold.
LockMatchesCounter(account) ==
  account.lockedUntil # Null <=> account.failedLoginAttempts >= LockoutThreshold

LockBounded(account, t) ==
  account.lockedUntil # Null => account.lockedUntil <= t + ClockDrift + LockoutDuration

LEMMA FailureKeepsLock ==
  ASSUME NEW account \in Account, NEW t \in Nat, NEW n \in Nat, t <= n + ClockDrift
  PROVE  /\ LockMatchesCounter(RecordFailedLogin(account, t))
         /\ LockBounded(RecordFailedLogin(account, t), n)
<1> DEFINE attempts == AttemptsAfterFailure(account, t)
           lock == LockAfterFailure(account, t)
<1>1. attempts \in Nat
  BY DEF AttemptsAfterFailure, Account
<1>2. /\ lock # Null <=> attempts >= LockoutThreshold
      /\ lock # Null => lock \in Nat /\ lock <= n + ClockDrift + LockoutDuration
  BY <1>1 DEF LockAfterFailure
<1>3. /\ RecordFailedLogin(account, t).failedLoginAttempts = attempts
      /\ RecordFailedLogin(account, t).lockedUntil = lock
  BY DEF RecordFailedLogin, Account
<1> QED
  BY <1>2, <1>3 DEF LockMatchesCounter, LockBounded

LEMMA ResetClearsLock ==
  ASSUME NEW account \in Account, NEW hash, NEW n \in Nat,
         NEW row \in {RecordSuccessfulLogin(account), UpdatePassword(account, hash),
                      ActivateUser(account, hash)}
  PROVE  LockMatchesCounter(row) /\ LockBounded(row, n)
<1>1. row.failedLoginAttempts = 0 /\ row.lockedUntil = Null
  BY DEF RecordSuccessfulLogin, UpdatePassword, ActivateUser, Account
<1> QED
  BY <1>1 DEF LockMatchesCounter, LockBounded

LEMMA StepLockout ==
  ASSUME TypeOK, LockoutConsistent, [Next]_vars
  PROVE  LockoutConsistent'
<1> USE DEF TypeOK
<1> DEFINE Good(account, t) == LockMatchesCounter(account) /\ LockBounded(account, t)
<1>1. LockoutConsistent <=> \A u \in Users : Good(accounts[u], now)
  BY DEF LockoutConsistent, LockMatchesCounter, LockBounded
<1>2. LockoutConsistent' <=> \A u \in Users : Good(accounts'[u], now')
  BY DEF LockoutConsistent, LockMatchesCounter, LockBounded
<1>3. CASE UNCHANGED <<now, accounts>>
  BY <1>1, <1>2, <1>3 DEF LockMatchesCounter, LockBounded
<1>4. ASSUME NEW r \in Requests, NEW t \in DbTimes, LoginRecordFailure(r, t)
      PROVE  LockoutConsistent'
  <2> DEFINE u == logins[r].userId
  <2>1. u \in Users /\ t \in Nat /\ t <= now + ClockDrift
    BY <1>4 DEF LoginRecordFailure, Verifying, LoginCall, DbTimes
  <2>2. accounts' = [accounts EXCEPT ![u] = RecordFailedLogin(accounts[u], t)] /\ now' = now
    BY <1>4 DEF LoginRecordFailure
  <2>3. accounts[u] \in Account
    BY <2>1
  <2>4. Good(RecordFailedLogin(accounts[u], t), now)
    BY <2>1, <2>3, FailureKeepsLock
  <2>5. \A v \in Users : accounts'[v] = IF v = u THEN RecordFailedLogin(accounts[u], t)
                                                 ELSE accounts[v]
    BY <2>1, <2>2
  <2> HIDE DEF Good
  <2> QED
    BY <1>1, <1>2, <2>2, <2>4, <2>5
<1>5. ASSUME NEW u \in Users, NEW hash, now' = now,
             NEW row \in {RecordSuccessfulLogin(accounts[u]), UpdatePassword(accounts[u], hash),
                          ActivateUser(accounts[u], hash)},
             accounts' = [accounts EXCEPT ![u] = row]
      PROVE  LockoutConsistent'
  <2>1. Good(row, now)
    BY <1>5, ResetClearsLock
  <2>2. \A v \in Users : accounts'[v] = IF v = u THEN row ELSE accounts[v]
    BY <1>5
  <2> HIDE DEF Good
  <2> QED
    BY <1>1, <1>2, <1>5, <2>1, <2>2
<1>6. ASSUME NEW r \in Requests, NEW s \in SessionIds, LoginCommit(r, s)
      PROVE  LockoutConsistent'
  <2>1. logins[r].userId \in Users
    BY <1>6 DEF LoginCommit, Committing, LoginCall
  <2> QED
    BY <1>5, <1>6, <2>1 DEF LoginCommit
<1>7. ASSUME NEW u \in Users, NEW p \in Passwords, NEW k \in Kept(u), ReplacePassword(u, p, k)
      PROVE  LockoutConsistent'
  BY <1>5, <1>7 DEF ReplacePassword
<1>8. ASSUME NEW u \in Users, NEW h \in InitialHashes(u), Activate(u, h)
      PROVE  LockoutConsistent'
  BY <1>5, <1>8 DEF Activate
<1>9. ASSUME NEW u \in Users, NEW status \in AccountStatus, SetAccountStatus(u, status)
      PROVE  LockoutConsistent'
  <2>1. /\ accounts'[u].failedLoginAttempts = accounts[u].failedLoginAttempts
        /\ accounts'[u].lockedUntil = accounts[u].lockedUntil
        /\ \A v \in Users : v # u => accounts'[v] = accounts[v]
        /\ now' = now
    BY <1>9 DEF SetAccountStatus, Account
  <2>2. Good(accounts'[u], now)
    BY <1>1, <2>1 DEF LockMatchesCounter, LockBounded
  <2> HIDE DEF Good
  <2> QED
    BY <1>1, <1>2, <2>1, <2>2
<1>10. CASE Tick
  <2>1. now' = now + 1 /\ accounts' = accounts /\ now \in Nat
    BY <1>10 DEF Tick
  <2>2. \A u \in Users : accounts[u].lockedUntil # Null => accounts[u].lockedUntil \in Nat
    BY DEF Account
  <2> QED
    BY <1>1, <1>2, <2>1, <2>2 DEF LockMatchesCounter, LockBounded
<1>11. CASE SessionNext
  BY <1>3, <1>11 DEF SessionNext, RefreshAuthentication, RefreshInactive, RefreshReused,
       RefreshRejected, RefreshRotated, Logout, LogoutRevokes, LogoutIgnored, FindActiveSession
<1>12. CASE LoginNext
  BY <1>3, <1>4, <1>6, <1>12 DEF LoginNext, LoginChecks, LoginRead, LoginRejected, LoginBegin, LoginRolledBack
<1>13. CASE AccountNext
  BY <1>7, <1>8, <1>9, <1>13 DEF AccountNext
<1> QED
  BY <1>3, <1>10, <1>11, <1>12, <1>13 DEF Next, vars

\* However failed logins that read the account at different times interleave
\* with logins, password changes and activations, the counter and the lock
\* agree, so no account is locked below the threshold or unlocked above it.
THEOREM LockoutIsConsistent == Spec => []LockoutConsistent
<1>1. Init => LockoutConsistent
  BY DEF Init, LockoutConsistent
<1>2. TypeOK /\ LockoutConsistent /\ [Next]_vars => LockoutConsistent'
  BY StepLockout
<1> QED
  BY <1>1, <1>2, TypeCorrect, PTL DEF Spec

----------------------------------------------------------------------------
(* Refresh-token families *)

LEMMA NextGeneration ==
  ASSUME NEW s \in SessionIds, NEW g \in Nat
  PROVE  SupersededRows(s, g + 1) = SupersededRows(s, g) \cup
           {[sessionId |-> s, generation |-> g, tokenHash |-> MintedToken(s, g)]}
<1>1. 0 .. (g + 1) - 1 = (0 .. g - 1) \cup {g}
  OBVIOUS
<1> QED
  BY <1>1 DEF SupersededRows

\* A step that leaves the history alone and, in every session row, the token
\* and its generation.
SameFamilies ==
  /\ history' = history
  /\ \A s \in SessionIds :
       \/ sessions'[s] = sessions[s]
       \/ /\ sessions[s] # Null /\ sessions'[s] # Null
          /\ sessions'[s].tokenHash = sessions[s].tokenHash
          /\ sessions'[s].refreshGeneration = sessions[s].refreshGeneration

LEMMA SameFamiliesKeepHistory ==
  ASSUME RotationHistory, SameFamilies
  PROVE  RotationHistory'
BY DEF RotationHistory, SameFamilies, FamilyRecorded

LEMMA RevokedRow ==
  ASSUME NEW session \in Session
  PROVE  /\ [session EXCEPT !.revoked = TRUE] # Null
         /\ [session EXCEPT !.revoked = TRUE].tokenHash = session.tokenHash
         /\ [session EXCEPT !.revoked = TRUE].refreshGeneration = session.refreshGeneration
         /\ [session EXCEPT !.revoked = TRUE].revoked
<1>1. [session EXCEPT !.revoked = TRUE] \in Session
  BY DEF Session
<1> QED
  BY <1>1 DEF Session

LEMMA StepRotationHistory ==
  ASSUME TypeOK, RotationHistory, [Next]_vars
  PROVE  RotationHistory'
<1> USE DEF TypeOK
<1>1. CASE UNCHANGED <<sessions, history>>
  BY <1>1 DEF RotationHistory, FamilyRecorded
<1>2. ASSUME NEW r \in Requests, NEW s \in SessionIds, LoginCommit(r, s)
      PROVE  RotationHistory'
  <2>1. logins[r] \in LoginCall
    BY <1>2 DEF LoginCommit, Committing
  <2>2. NewSession(logins[r], s) \in Session
    BY <2>1, MintedTokenType DEF NewSession, Session, LoginCall
  <2>3. SupersededRows(s, 0) = {}
    <3>1. 0 .. 0 - 1 = {}
      OBVIOUS
    <3> QED
      BY <3>1 DEF SupersededRows
  <2>4. FamilyRecorded(s, NewSession(logins[r], s), {h \in history : h.sessionId = s})
    BY <1>2, <2>2, <2>3 DEF LoginCommit, RotationHistory, FamilyRecorded, NewSession
  <2>5. /\ history' = history
        /\ \A i \in SessionIds :
             sessions'[i] = IF i = s THEN NewSession(logins[r], s) ELSE sessions[i]
    BY <1>2 DEF LoginCommit
  <2> QED
    BY <2>4, <2>5 DEF RotationHistory
<1>3. ASSUME NEW token \in Presentable, sessions' = RevokeSession(token.sessionId),
             Exists(token), history' = history
      PROVE  RotationHistory'
  <2>1. token.sessionId \in SessionIds
    BY PresentableType DEF Token
  <2>2. SameFamilies
    BY <1>3, <2>1, RevokedRow DEF SameFamilies, RevokeSession, Exists
  <2> QED
    BY <2>2, SameFamiliesKeepHistory
<1>4. ASSUME NEW token \in Presentable, NEW t \in DbTimes, RefreshRotated(token, t)
      PROVE  RotationHistory'
  <2> DEFINE s == token.sessionId
             g == sessions[s].refreshGeneration
             row == Rotated(sessions[s], s, t)
  <2>1. s \in SessionIds /\ sessions[s] \in Session /\ g \in Nat
    BY <1>4, PresentableType DEF RefreshRotated, Exists, Token, Session
  <2>2. /\ sessions[s].tokenHash = MintedToken(s, g)
        /\ {h \in history : h.sessionId = s} = SupersededRows(s, g)
    BY <2>1 DEF RotationHistory, FamilyRecorded
  <2>3. /\ row # Null
        /\ row.tokenHash = MintedToken(s, g + 1)
        /\ row.refreshGeneration = g + 1
    <3>1. row.tokenHash = MintedToken(s, g + 1) /\ row.refreshGeneration = g + 1
      BY <2>1 DEF Rotated, Session
    <3>2. row \in Session
      <4>1. t \in Nat
        BY DbTimesType
      <4>2. TouchedIdle(sessions[s], t) \in Nat
        BY <2>1, <4>1 DEF TouchedIdle, Earlier, Session
      <4>3. g + 1 \in Nat /\ MintedToken(s, g + 1) \in Token
        BY <2>1, MintedTokenType
      <4> QED
        BY <2>1, <4>2, <4>3 DEF Rotated, Session
    <3> QED
      BY <3>1, <3>2
  <2>4. Superseded(token) = [sessionId |-> s, generation |-> g, tokenHash |-> MintedToken(s, g)]
    BY <2>2 DEF Superseded
  <2>5. {h \in history' : h.sessionId = s} = SupersededRows(s, g + 1)
    BY <1>4, <2>1, <2>2, <2>4, NextGeneration DEF RefreshRotated
  <2>6. \A i \in SessionIds : i # s =>
          {h \in history' : h.sessionId = i} = {h \in history : h.sessionId = i}
    BY <1>4, <2>4 DEF RefreshRotated
  <2>7. \A i \in SessionIds : sessions'[i] = IF i = s THEN row ELSE sessions[i]
    BY <1>4, <2>1 DEF RefreshRotated
  <2>8. FamilyRecorded(s, sessions'[s], {h \in history' : h.sessionId = s})
    BY <2>1, <2>3, <2>5, <2>7 DEF FamilyRecorded
  <2>9. \A i \in SessionIds : i # s =>
          FamilyRecorded(i, sessions'[i], {h \in history' : h.sessionId = i})
    BY <2>6, <2>7 DEF RotationHistory
  <2> QED
    BY <2>8, <2>9 DEF RotationHistory
<1>5. ASSUME NEW s \in SessionIds, NEW t \in DbTimes, FindActiveSession(s, t)
      PROVE  RotationHistory'
  <2> DEFINE row == [sessions[s] EXCEPT !.idleExpiresAt = TouchedIdle(sessions[s], t)]
  <2>1. sessions[s] \in Session /\ t \in Nat
    BY <1>5, DbTimesType DEF FindActiveSession
  <2>2. row \in Session /\ row.tokenHash = sessions[s].tokenHash
        /\ row.refreshGeneration = sessions[s].refreshGeneration
    BY <2>1 DEF TouchedIdle, Earlier, Session
  <2>3. SameFamilies
    BY <1>5, <2>1, <2>2 DEF SameFamilies, FindActiveSession
  <2> QED
    BY <2>3, SameFamiliesKeepHistory
<1>6. ASSUME NEW u \in Users, NEW p \in Passwords, NEW k \in Kept(u), ReplacePassword(u, p, k)
      PROVE  RotationHistory'
  <2>1. SameFamilies
    BY <1>6, RevokedRow DEF SameFamilies, ReplacePassword, RevokeUserSessions, UserSessions
  <2> QED
    BY <2>1, SameFamiliesKeepHistory
<1>7. CASE LoginNext
  BY <1>1, <1>2, <1>7 DEF LoginNext, LoginChecks, LoginRead, LoginRecordFailure, LoginRejected,
       LoginBegin, LoginRolledBack
<1>8. CASE SessionNext
  BY <1>1, <1>3, <1>4, <1>5, <1>8 DEF SessionNext, RefreshAuthentication, RefreshInactive,
       RefreshReused, RefreshRejected, Logout, LogoutRevokes, LogoutIgnored
<1>9. CASE AccountNext
  BY <1>1, <1>6, <1>9 DEF AccountNext, Activate, SetAccountStatus
<1> QED
  BY <1>1, <1>7, <1>8, <1>9 DEF Next, Tick, vars

\* Whatever rotations, replays, logouts and password changes interleave, the
\* history table holds exactly the superseded tokens of each session.
THEOREM HistoryIsComplete == Spec => []RotationHistory
<1>1. Init => RotationHistory
  BY DEF Init, RotationHistory, FamilyRecorded
<1>2. TypeOK /\ RotationHistory /\ [Next]_vars => RotationHistory'
  BY StepRotationHistory
<1> QED
  BY <1>1, <1>2, TypeCorrect, PTL DEF Spec

----------------------------------------------------------------------------
(* Revoked and expired sessions *)

Frozen(s) == sessions'[s] \in {sessions[s], [sessions[s] EXCEPT !.revoked = TRUE]}

\* A time the database can read is not behind a deadline that has passed on
\* every clock.
LEMMA DeadIsExpired ==
  ASSUME TypeOK, NEW s \in SessionIds, Dead(s), NEW t \in DbTimes
  PROVE  /\ ~(~sessions[s].revoked /\ UnexpiredAt(sessions[s], t))
         /\ ~RefreshSessionIsActive(sessions[s])
<1>1. sessions[s] \in Session /\ t \in Nat /\ now \in Nat /\ now <= t + ClockDrift
  BY DbTimesType DEF Dead, TypeOK, DbTimes
<1> QED
  BY <1>1 DEF Dead, UnexpiredAt, RefreshSessionIsActive, Session

\* Nor is it before a lock that runs on every clock.
LEMMA BarredIsInactive ==
  ASSUME TypeOK, NEW s \in SessionIds, Barred(s), NEW t \in DbTimes
  PROVE  /\ ~(/\ accounts[sessions[s].userId].accountStatus = "active"
              /\ ~LockedAt(accounts[sessions[s].userId], t))
         /\ ~RefreshSessionIsActive(sessions[s])
<1>1. /\ accounts[sessions[s].userId] \in Account
      /\ t \in Nat /\ now \in Nat /\ t <= now + ClockDrift
  BY DbTimesType DEF Barred, TypeOK, Session, DbTimes
<1> QED
  BY <1>1, BoundsAssumption
     DEF Barred, LockedAt, IsCurrentlyLocked, RefreshSessionIsActive, Account, Time

LEMMA StepDeadFrozen ==
  ASSUME TypeOK, [Next]_vars, NEW s \in SessionIds, Dead(s) \/ Barred(s)
  PROVE  Frozen(s)
<1> USE DEF TypeOK
<1>1. CASE sessions' = sessions
  BY <1>1 DEF Frozen
<1>2. ASSUME NEW r \in Requests, NEW i \in SessionIds, LoginCommit(r, i)
      PROVE  Frozen(s)
  BY <1>2 DEF LoginCommit, Dead, Barred, Frozen
<1>3. ASSUME NEW token \in Presentable, sessions' = RevokeSession(token.sessionId)
      PROVE  Frozen(s)
  BY <1>3 DEF RevokeSession, Frozen
<1>4. ASSUME NEW token \in Presentable, NEW t \in DbTimes, RefreshRotated(token, t)
      PROVE  Frozen(s)
  <2>1. token.sessionId # s
    BY <1>4, DeadIsExpired, BarredIsInactive DEF RefreshRotated
  <2> QED
    BY <1>4, <2>1 DEF RefreshRotated, Frozen
<1>5. ASSUME NEW i \in SessionIds, NEW t \in DbTimes, FindActiveSession(i, t)
      PROVE  Frozen(s)
  <2>1. i # s
    BY <1>5, DeadIsExpired, BarredIsInactive DEF FindActiveSession
  <2> QED
    BY <1>5, <2>1 DEF FindActiveSession, Frozen
<1>6. ASSUME NEW u \in Users, NEW p \in Passwords, NEW k \in Kept(u), ReplacePassword(u, p, k)
      PROVE  Frozen(s)
  BY <1>6 DEF ReplacePassword, RevokeUserSessions, Frozen
<1>7. CASE LoginNext
  BY <1>1, <1>2, <1>7 DEF LoginNext, LoginChecks, LoginRead, LoginRecordFailure, LoginRejected,
       LoginBegin, LoginRolledBack
<1>8. CASE SessionNext
  BY <1>1, <1>3, <1>4, <1>5, <1>8 DEF SessionNext, RefreshAuthentication, RefreshInactive,
       RefreshReused, RefreshRejected, Logout, LogoutRevokes, LogoutIgnored
<1>9. CASE AccountNext
  BY <1>1, <1>6, <1>9 DEF AccountNext, Activate, SetAccountStatus
<1> QED
  BY <1>1, <1>7, <1>8, <1>9 DEF Next, Tick, vars

\* A revoked session, one expired on every clock, and one whose account is
\* suspended, deactivated or locked, is never rotated, prolonged or
\* un-revoked, for any clock drift.
THEOREM DeadSessionsStayDead == Spec => DeadSessionsFrozen
<1>1. TypeOK /\ [Next]_vars =>
        [\A s \in SessionIds : Dead(s) \/ Barred(s) =>
           sessions'[s] \in {sessions[s], [sessions[s] EXCEPT !.revoked = TRUE]}]_vars
  BY StepDeadFrozen DEF Frozen
<1> QED
  BY <1>1, TypeCorrect, PTL DEF Spec, DeadSessionsFrozen

----------------------------------------------------------------------------
(* Replayed and logged-out sessions *)

\* What the refresh code relies on: a token that was exchanged is found in
\* the history table.
ExchangedRecorded == \A token \in exchanged : WasRefreshTokenUsed(token)

LEMMA UsedNotCurrent ==
  ASSUME TypeOK, RotationHistory, NEW token \in Token, WasRefreshTokenUsed(token)
  PROVE  Exists(token) /\ ~TokenIsCurrent(token)
<1> DEFINE s == token.sessionId
<1>1. s \in SessionIds
  BY DEF Token
<1>2. PICK h \in history : h.sessionId = s /\ h.tokenHash = token
  BY DEF WasRefreshTokenUsed
<1>3. sessions[s] # Null /\ h \in SupersededRows(s, sessions[s].refreshGeneration)
  BY <1>1, <1>2 DEF RotationHistory, FamilyRecorded
<1>4. sessions[s] \in Session /\ sessions[s].refreshGeneration \in Nat
  BY <1>1, <1>3 DEF TypeOK, Session
<1>5. PICK i \in 0 .. sessions[s].refreshGeneration - 1 : token = MintedToken(s, i)
  BY <1>2, <1>3 DEF SupersededRows
<1>6. token.generation = i /\ i # sessions[s].refreshGeneration
  BY <1>4, <1>5 DEF MintedToken
<1> QED
  BY <1>3, <1>6 DEF Exists, TokenIsCurrent

LEMMA IssuedIsKnown ==
  ASSUME TypeOK, RotationHistory, ExchangedRecorded, NEW token \in Issued
  PROVE  Exists(token) /\ (TokenIsCurrent(token) \/ WasRefreshTokenUsed(token))
<1>1. CASE token \in exchanged
  BY <1>1, UsedNotCurrent DEF ExchangedRecorded, TypeOK
<1>2. ASSUME NEW s \in SessionIds, sessions[s] # Null, token = sessions[s].tokenHash
      PROVE  Exists(token) /\ TokenIsCurrent(token)
  <2>1. token = MintedToken(s, sessions[s].refreshGeneration)
    BY <1>2 DEF RotationHistory, FamilyRecorded
  <2>2. token.sessionId = s /\ token.generation = sessions[s].refreshGeneration
    BY <2>1 DEF MintedToken
  <2> QED
    BY <1>2, <2>2 DEF Exists, TokenIsCurrent
<1> QED
  BY <1>1, <1>2 DEF Issued

LEMMA StepExchangedRecorded ==
  ASSUME TypeOK, ExchangedRecorded, [Next]_vars
  PROVE  ExchangedRecorded'
<1>1. CASE UNCHANGED <<history, exchanged>>
  BY <1>1 DEF ExchangedRecorded, WasRefreshTokenUsed
<1>2. ASSUME NEW token \in Presentable, NEW t \in DbTimes, RefreshRotated(token, t)
      PROVE  ExchangedRecorded'
  <2>1. /\ Superseded(token).sessionId = token.sessionId
        /\ Superseded(token).tokenHash = token
    BY <1>2 DEF RefreshRotated, Superseded, TokenIsCurrent
  <2> QED
    BY <1>2, <2>1 DEF RefreshRotated, ExchangedRecorded, WasRefreshTokenUsed
<1>3. CASE LoginNext
  BY <1>1, <1>3 DEF LoginNext, LoginChecks, LoginRead, LoginRecordFailure, LoginRejected,
       LoginBegin, LoginCommit, LoginRolledBack
<1>4. CASE SessionNext
  BY <1>1, <1>2, <1>4 DEF SessionNext, RefreshAuthentication, RefreshInactive, RefreshReused,
       RefreshRejected, Logout, LogoutRevokes, LogoutIgnored, FindActiveSession
<1>5. CASE AccountNext
  BY <1>1, <1>5 DEF AccountNext, ReplacePassword, Activate, SetAccountStatus
<1> QED
  BY <1>1, <1>3, <1>4, <1>5 DEF Next, Tick, vars

LEMMA RevocationIsPermanent ==
  ASSUME TypeOK, [Next]_vars, NEW s \in SessionIds, sessions[s] # Null, sessions[s].revoked
  PROVE  sessions'[s] # Null /\ sessions'[s].revoked
<1>1. Frozen(s) /\ sessions[s] \in Session
  BY StepDeadFrozen DEF Dead, TypeOK
<1> QED
  BY <1>1, RevokedRow DEF Frozen

LEMMA StepClosed ==
  ASSUME TypeOK, RotationHistory, ExchangedRecorded, ClosedSessionsRevoked, [Next]_vars
  PROVE  ClosedSessionsRevoked'
<1> USE DEF TypeOK
<1>1. \A s \in closed : sessions'[s] # Null /\ sessions'[s].revoked
  BY RevocationIsPermanent DEF ClosedSessionsRevoked
<1>2. CASE closed' = closed
  BY <1>1, <1>2 DEF ClosedSessionsRevoked
<1>3. ASSUME NEW token \in Presentable, Exists(token), sessions' = RevokeSession(token.sessionId),
             closed' \subseteq closed \cup {token.sessionId}
      PROVE  ClosedSessionsRevoked'
  <2>1. token.sessionId \in SessionIds /\ sessions[token.sessionId] \in Session
    BY <1>3, PresentableType DEF Token, Exists
  <2>2. sessions'[token.sessionId] # Null /\ sessions'[token.sessionId].revoked
    BY <1>3, <2>1, RevokedRow DEF RevokeSession
  <2> QED
    BY <1>1, <1>3, <2>2 DEF ClosedSessionsRevoked
<1>4. ASSUME NEW token \in Presentable, RefreshInactive(token) \/ RefreshReused(token)
                                         \/ LogoutRevokes(token)
      PROVE  ClosedSessionsRevoked'
  BY <1>3, <1>4 DEF RefreshInactive, RefreshReused, LogoutRevokes, Observe, ObserveLogout
<1>5. ASSUME NEW token \in Presentable, NEW t \in DbTimes,
             RefreshRejected(token, t) \/ RefreshRotated(token, t)
      PROVE  ClosedSessionsRevoked'
  <2>1. token \notin exchanged
    BY <1>5, UsedNotCurrent DEF RefreshRejected, RefreshRotated, ExchangedRecorded
  <2> QED
    BY <1>2, <1>5, <2>1 DEF RefreshRejected, RefreshRotated, Observe
<1>6. ASSUME NEW token \in Presentable, LogoutIgnored(token)
      PROVE  ClosedSessionsRevoked'
  <2>1. token \notin Issued
    BY <1>6, IssuedIsKnown DEF LogoutIgnored
  <2> QED
    BY <1>2, <1>6, <2>1 DEF LogoutIgnored, ObserveLogout
<1>7. CASE LoginNext
  BY <1>2, <1>7 DEF LoginNext, LoginChecks, LoginRead, LoginRecordFailure, LoginRejected,
       LoginBegin, LoginCommit, LoginRolledBack
<1>8. CASE SessionNext
  BY <1>2, <1>4, <1>5, <1>6, <1>8 DEF SessionNext, RefreshAuthentication, Logout,
       FindActiveSession
<1>9. CASE AccountNext
  BY <1>2, <1>9 DEF AccountNext, ReplacePassword, Activate, SetAccountStatus
<1> QED
  BY <1>2, <1>7, <1>8, <1>9 DEF Next, Tick, vars

\* Reuse detection is complete: a session is revoked once a token that was
\* already exchanged is presented to refresh, or any issued token to logout.
\* The induction needs the history table to be complete (RotationHistory)
\* and every exchanged token to be in it (ExchangedRecorded).
THEOREM ReuseRevokesFamily == Spec => []ClosedSessionsRevoked
<1>1. Init => ExchangedRecorded /\ ClosedSessionsRevoked
  BY DEF Init, ExchangedRecorded, ClosedSessionsRevoked
<1>2. TypeOK /\ ExchangedRecorded /\ [Next]_vars => ExchangedRecorded'
  BY StepExchangedRecorded
<1>3. TypeOK /\ RotationHistory /\ ExchangedRecorded /\ ClosedSessionsRevoked
        /\ [Next]_vars => ClosedSessionsRevoked'
  BY StepClosed
<1> QED
  BY <1>1, <1>2, <1>3, TypeCorrect, HistoryIsComplete, PTL DEF Spec

----------------------------------------------------------------------------
(* Logins that read the account before they lock it *)

\* A login whose transaction has begun verified its password against the
\* hash it read.
CommitsVerified == \A r \in Requests : Committing(r) => SnapshotMatches(r)

LEMMA StepCommitsVerified ==
  ASSUME TypeOK, CommitsVerified, [Next]_vars
  PROVE  CommitsVerified'
<1> USE DEF TypeOK, CommitsVerified, Committing, SnapshotMatches
<1>1. CASE logins' = logins
  BY <1>1
<1>2. ASSUME NEW r \in Requests, Answered(r)
      PROVE  CommitsVerified'
  BY <1>2 DEF Answered
<1>3. ASSUME NEW r \in Requests, NEW u \in Users, NEW p \in Passwords, NEW m \in BOOLEAN,
             LoginRead(r, u, p, m)
      PROVE  CommitsVerified'
  BY <1>3 DEF LoginRead
<1>4. ASSUME NEW r \in Requests, LoginBegin(r)
      PROVE  CommitsVerified'
  <2>1. logins[r] \in LoginCall
    BY <1>4 DEF LoginBegin, Verifying
  <2>2. /\ logins'[r].user = logins[r].user
        /\ logins'[r].password = logins[r].password
        /\ \A i \in Requests : i # r => logins'[i] = logins[i]
    BY <1>4, <2>1 DEF LoginBegin, LoginCall
  <2> QED
    BY <1>4, <2>2 DEF LoginBegin
<1>5. CASE LoginNext
  BY <1>2, <1>3, <1>4, <1>5 DEF LoginNext, LoginChecks, LoginRecordFailure, LoginRejected,
       LoginCommit, LoginRolledBack
<1>6. CASE SessionNext
  BY <1>1, <1>6 DEF SessionNext, RefreshAuthentication, RefreshInactive, RefreshReused,
       RefreshRejected, RefreshRotated, Logout, LogoutRevokes, LogoutIgnored, FindActiveSession
<1>7. CASE AccountNext
  BY <1>1, <1>7 DEF AccountNext, ReplacePassword, Activate, SetAccountStatus
<1> QED
  BY <1>1, <1>5, <1>6, <1>7 DEF Next, Tick, vars

\* The login r creates a session in this step for an account whose password,
\* status and lock allow it now.
CurrentLogin(r, s) ==
  /\ Ends(r)
  /\ logins[r].userId = sessions'[s].userId
  /\ LET account == accounts[logins[r].userId]
     IN  /\ PasswordMatches(account.passwordHash, logins[r].password)
         /\ account.accountStatus = "active"
         /\ ~IsCurrentlyLocked(account)

LEMMA StepCurrentCredentials ==
  ASSUME TypeOK, CommitsVerified, Next, NEW s \in SessionIds,
         sessions[s] = Null, sessions'[s] # Null
  PROVE  \E r \in Requests : CurrentLogin(r, s)
<1> USE DEF TypeOK
<1>1. ASSUME NEW r \in Requests, NEW i \in SessionIds, LoginCommit(r, i)
      PROVE  CurrentLogin(r, s)
  <2>1. i = s /\ sessions'[s] = NewSession(logins[r], s)
    BY <1>1 DEF LoginCommit
  <2>2. Ends(r)
    BY <1>1 DEF LoginCommit, Committing, Ends, Answered
  <2>3. sessions'[s].userId = logins[r].userId
    BY <2>1 DEF NewSession
  <2>4. LoginStillAllowed(logins[r]) /\ SnapshotMatches(r)
    BY <1>1 DEF LoginCommit, CommitsVerified
  <2> QED
    BY <2>2, <2>3, <2>4 DEF CurrentLogin, LoginStillAllowed, SnapshotMatches
<1>2. ~SessionNext
  BY DEF SessionNext, RefreshAuthentication, RefreshInactive, RefreshReused, RefreshRejected,
     RefreshRotated, Logout, LogoutRevokes, LogoutIgnored, FindActiveSession, RevokeSession,
     Exists
<1>3. ~AccountNext
  BY DEF AccountNext, ReplacePassword, RevokeUserSessions, UserSessions, Activate,
     SetAccountStatus
<1>4. CASE LoginNext
  BY <1>1, <1>4 DEF LoginNext, LoginChecks, LoginRead, LoginRecordFailure, LoginRejected, LoginBegin,
     LoginRolledBack
<1> QED
  BY <1>2, <1>3, <1>4 DEF Next, Tick

\* A login never creates a session from a stale read: at the moment of the
\* insert the password is the account's, and the account is active and
\* unlocked.
THEOREM LoginsUseCurrentCredentials == Spec => SessionsNeedCurrentCredentials
<1>1. Init => CommitsVerified
  BY DEF Init, CommitsVerified, Committing
<1>2. TypeOK /\ CommitsVerified /\ [Next]_vars => CommitsVerified'
  BY StepCommitsVerified
<1>3. TypeOK /\ CommitsVerified /\ [Next]_vars =>
        [\A s \in SessionIds : sessions[s] = Null /\ sessions'[s] # Null =>
           \E r \in Requests :
             /\ Ends(r)
             /\ logins[r].userId = sessions'[s].userId
             /\ LET account == accounts[logins[r].userId]
                IN  /\ PasswordMatches(account.passwordHash, logins[r].password)
                    /\ account.accountStatus = "active"
                    /\ ~IsCurrentlyLocked(account)]_vars
  BY StepCurrentCredentials DEF CurrentLogin
<1> QED
  BY <1>1, <1>2, <1>3, TypeCorrect, PTL DEF Spec, SessionsNeedCurrentCredentials

\* The lock of u runs, on every clock, through a step that neither replaces
\* the password nor activates the account.
UntouchedLock(u) ==
  /\ LockedAt(accounts[u], now + ClockDrift)
  /\ accounts'[u].passwordHash = accounts[u].passwordHash
  /\ accounts[u].accountStatus = "pending_activation" =>
       accounts'[u].accountStatus = "pending_activation"

Holds(u) ==
  /\ accounts'[u].lockedUntil # Null
  /\ accounts'[u].lockedUntil + ClockDrift + ClockDrift >= accounts[u].lockedUntil

LEMMA StepLockHolds ==
  ASSUME TypeOK, LockoutConsistent, Next, NEW u \in Users, UntouchedLock(u)
  PROVE  Holds(u)
<1> USE DEF TypeOK
<1>1. /\ accounts[u] \in Account /\ now \in Nat
      /\ accounts[u].lockedUntil \in Nat
      /\ accounts[u].lockedUntil > now + ClockDrift
      /\ accounts[u].failedLoginAttempts \in Nat
      /\ accounts[u].failedLoginAttempts >= LockoutThreshold
      /\ accounts[u].lockedUntil <= now + ClockDrift + LockoutDuration
  BY DEF UntouchedLock, LockedAt, LockoutConsistent, Account
<1>2. CASE accounts'[u] = accounts[u] \/ accounts'[u].lockedUntil = accounts[u].lockedUntil
  BY <1>1, <1>2 DEF Holds
<1>3. ASSUME NEW r \in Requests, NEW t \in DbTimes, LoginRecordFailure(r, t)
      PROVE  Holds(u)
  <2>1. t \in Nat /\ t <= now + ClockDrift /\ now <= t + ClockDrift
    BY DEF DbTimes
  <2>2. AttemptsAfterFailure(accounts[u], t) = accounts[u].failedLoginAttempts + 1
    BY <1>1, <2>1 DEF AttemptsAfterFailure
  <2>3. LockAfterFailure(accounts[u], t) = t + LockoutDuration
    BY <1>1, <2>2 DEF LockAfterFailure
  <2>4. CASE logins[r].userId = u
    <3>1. accounts'[u] = RecordFailedLogin(accounts[u], t)
      BY <1>3, <2>4 DEF LoginRecordFailure
    <3>2. accounts'[u].lockedUntil = t + LockoutDuration
      BY <1>1, <2>3, <3>1 DEF RecordFailedLogin, Account
    <3> QED
      BY <1>1, <2>1, <3>2 DEF Holds
  <2>5. CASE logins[r].userId # u
    BY <1>2, <1>3, <2>5 DEF LoginRecordFailure
  <2> QED
    BY <2>4, <2>5
<1>4. ASSUME NEW r \in Requests, NEW s \in SessionIds, LoginCommit(r, s)
      PROVE  Holds(u)
  <2>1. logins[r].userId # u
    BY <1>1, <1>4 DEF LoginCommit, LoginStillAllowed, IsCurrentlyLocked, LockedAt
  <2> QED
    BY <1>2, <1>4, <2>1 DEF LoginCommit
<1>5. ASSUME NEW v \in Users, NEW p \in Passwords, NEW k \in Kept(v), ReplacePassword(v, p, k)
      PROVE  Holds(u)
  <2>1. CASE v = u
    <3> DEFINE hash == [password |-> p, version |-> NextVersion(accounts[u])]
    <3>1. hash # accounts[u].passwordHash
      BY <1>1 DEF NextVersion, Account, PasswordHash
    <3>2. accounts'[u] = UpdatePassword(accounts[u], hash)
      BY <1>5, <2>1 DEF ReplacePassword
    <3> HIDE DEF hash
    <3>3. accounts'[u].passwordHash = hash
      BY <1>1, <3>2 DEF UpdatePassword, Account
    <3> QED
      BY <3>1, <3>3 DEF UntouchedLock
  <2>2. CASE v # u
    BY <1>2, <1>5, <2>2 DEF ReplacePassword
  <2> QED
    BY <2>1, <2>2
<1>6. ASSUME NEW v \in Users, NEW h \in InitialHashes(v), Activate(v, h)
      PROVE  Holds(u)
  <2>1. v # u
    BY <1>1, <1>6 DEF Activate, ActivateUser, UntouchedLock, Account
  <2> QED
    BY <1>2, <1>6, <2>1 DEF Activate
<1>7. ASSUME NEW v \in Users, NEW status \in AccountStatus, SetAccountStatus(v, status)
      PROVE  Holds(u)
  <2>1. accounts'[u].lockedUntil = accounts[u].lockedUntil
    BY <1>1, <1>7 DEF SetAccountStatus, Account
  <2> QED
    BY <1>2, <2>1
<1>8. CASE LoginNext
  BY <1>2, <1>3, <1>4, <1>8 DEF LoginNext, LoginChecks, LoginRead, LoginRejected, LoginBegin,
       LoginRolledBack
<1>9. CASE SessionNext
  BY <1>2, <1>9 DEF SessionNext, RefreshAuthentication, RefreshInactive, RefreshReused,
       RefreshRejected, RefreshRotated, Logout, LogoutRevokes, LogoutIgnored, FindActiveSession
<1>10. CASE AccountNext
  BY <1>5, <1>6, <1>7, <1>10 DEF AccountNext
<1> QED
  BY <1>2, <1>8, <1>9, <1>10 DEF Next, Tick

\* No login -- failed, successful, or one that read the account before it was
\* locked -- lifts or shortens a running lock.
THEOREM RunningLockHolds == Spec => LockHolds
<1>1. TypeOK /\ LockoutConsistent /\ [Next]_vars =>
        [\A u \in Users :
           LockedAt(accounts[u], now + ClockDrift)
           /\ accounts'[u].passwordHash = accounts[u].passwordHash
           /\ (accounts[u].accountStatus = "pending_activation" =>
                 accounts'[u].accountStatus = "pending_activation")
           => /\ accounts'[u].lockedUntil # Null
              /\ accounts'[u].lockedUntil + ClockDrift + ClockDrift
                   >= accounts[u].lockedUntil]_vars
  BY StepLockHolds DEF UntouchedLock, Holds
<1> QED
  BY <1>1, TypeCorrect, LockoutIsConsistent, PTL DEF Spec, LockHolds

----------------------------------------------------------------------------
(* Deadlines and the refresh-token families *)

Revoked(ended) ==
  /\ \A s \in ended : sessions[s] # Null
  /\ sessions' = [s \in SessionIds |-> IF s \in ended THEN [sessions[s] EXCEPT !.revoked = TRUE]
                                                      ELSE sessions[s]]

\* What a step can do to auth_sessions.
SessionStep ==
  \/ sessions' = sessions
  \/ \E r \in Requests, s \in SessionIds : LoginCommit(r, s)
  \/ \E ended \in SUBSET SessionIds : Revoked(ended)
  \/ \E token \in Presentable, t \in DbTimes : RefreshRotated(token, t)
  \/ \E s \in SessionIds, t \in DbTimes : FindActiveSession(s, t)

LEMMA StepIsSessionStep ==
  ASSUME TypeOK, [Next]_vars
  PROVE  SessionStep
<1> USE DEF TypeOK
<1>1. ASSUME NEW token \in Presentable, Exists(token), sessions' = RevokeSession(token.sessionId)
      PROVE  SessionStep
  <2>1. token.sessionId \in SessionIds
    BY PresentableType DEF Token
  <2>2. Revoked({token.sessionId})
    BY <1>1, <2>1 DEF Revoked, RevokeSession, Exists
  <2> QED
    BY <2>1, <2>2 DEF SessionStep
<1>2. ASSUME NEW u \in Users, NEW p \in Passwords, NEW k \in Kept(u), ReplacePassword(u, p, k)
      PROVE  SessionStep
  <2>1. Revoked(UserSessions(u) \ k) /\ UserSessions(u) \ k \in SUBSET SessionIds
    BY <1>2 DEF Revoked, ReplacePassword, RevokeUserSessions, UserSessions
  <2> QED
    BY <2>1 DEF SessionStep
<1>3. CASE LoginNext
  BY <1>3 DEF LoginNext, LoginChecks, LoginRead, LoginRecordFailure, LoginRejected, LoginBegin,
       LoginRolledBack, SessionStep
<1>4. CASE SessionNext
  <2>1. ASSUME NEW token \in Presentable, NEW t \in DbTimes, RefreshAuthentication(token, t)
        PROVE  SessionStep
    BY <1>1, <2>1 DEF RefreshAuthentication, RefreshInactive, RefreshReused, RefreshRejected,
         SessionStep
  <2>2. ASSUME NEW token \in Presentable, Logout(token)
        PROVE  SessionStep
    BY <1>1, <2>2 DEF Logout, LogoutRevokes, LogoutIgnored, SessionStep
  <2> QED
    BY <1>4, <2>1, <2>2 DEF SessionNext, SessionStep
<1>5. CASE AccountNext
  BY <1>2, <1>5 DEF AccountNext, Activate, SetAccountStatus, SessionStep
<1> QED
  BY <1>3, <1>4, <1>5 DEF Next, Tick, vars, SessionStep

LEMMA ClockMovesForward ==
  ASSUME TypeOK, [Next]_vars
  PROVE  now \in Nat /\ now' \in Nat /\ now <= now'
<1>1. now \in Nat
  BY DEF TypeOK
<1>2. CASE Tick
  BY <1>1, <1>2 DEF Tick
<1>3. CASE now' = now
  BY <1>1, <1>3
<1>4. CASE LoginNext
  BY <1>3, <1>4 DEF LoginNext, LoginChecks, LoginRead, LoginRecordFailure, LoginRejected,
       LoginBegin, LoginRolledBack, LoginCommit
<1>5. CASE SessionNext
  BY <1>3, <1>5 DEF SessionNext, RefreshAuthentication, RefreshInactive, RefreshReused,
       RefreshRejected, RefreshRotated, Logout, LogoutRevokes, LogoutIgnored, FindActiveSession
<1>6. CASE AccountNext
  BY <1>3, <1>6 DEF AccountNext, ReplacePassword, Activate, SetAccountStatus
<1> QED
  BY <1>2, <1>3, <1>4, <1>5, <1>6 DEF Next, vars

RowDeadlines(row, time) ==
  row # Null => /\ row.idleExpiresAt <= row.expiresAt
                /\ row.idleExpiresAt <= time + ClockDrift + IdleTimeout

\* The deadlines a login has computed before its transaction.
LoginDeadlines(call, time) ==
  call # Null /\ call.stage = "commit" =>
    /\ call.idleExpiresAt <= call.expiresAt
    /\ call.idleExpiresAt <= time + IdleTimeout

LoginsInTime == \A r \in Requests : LoginDeadlines(logins[r], now)

LEMMA StepLoginsInTime ==
  ASSUME TypeOK, LoginsInTime, [Next]_vars
  PROVE  LoginsInTime'
<1> USE DEF TypeOK
<1> SUFFICES ASSUME NEW r \in Requests
             PROVE  LoginDeadlines(logins'[r], now')
  BY DEF LoginsInTime
<1>1. now' \in Nat /\ now <= now'
  BY ClockMovesForward
<1>2. CASE logins'[r] = logins[r]
  <2>1. LoginDeadlines(logins[r], now)
    BY DEF LoginsInTime
  <2>2. logins[r] # Null => logins[r].idleExpiresAt \in Nat
    BY DEF LoginCall
  <2>3. now \in Nat
    OBVIOUS
  <2> QED
    BY <1>1, <1>2, <2>1, <2>2, <2>3 DEF LoginDeadlines
<1>3. CASE logins'[r] = Null
  BY <1>3 DEF LoginDeadlines
<1>4. ASSUME NEW i \in Requests, NEW u \in Users, NEW p \in Passwords, NEW m \in BOOLEAN,
             LoginRead(i, u, p, m)
      PROVE  LoginDeadlines(logins'[r], now')
  <2>1. CASE i = r
    BY <1>4, <2>1 DEF LoginRead, LoginDeadlines
  <2> QED
    BY <1>2, <1>4, <2>1 DEF LoginRead
<1>5. ASSUME NEW i \in Requests, LoginBegin(i)
      PROVE  LoginDeadlines(logins'[r], now')
  <2>1. CASE i = r
    <3> DEFINE expiry == now + logins[r].lifetime
    <3>1. logins[r] \in LoginCall
      BY <1>5, <2>1 DEF LoginBegin, Verifying
    <3>2. expiry \in Nat /\ now + IdleTimeout \in Nat
      BY <3>1 DEF LoginCall
    <3>3. /\ logins'[r].expiresAt = expiry
          /\ logins'[r].idleExpiresAt = Earlier(expiry, now + IdleTimeout)
          /\ now' = now
      BY <1>5, <2>1, <3>1 DEF LoginBegin, LoginCall
    <3> HIDE DEF expiry
    <3> QED
      BY <3>2, <3>3, EarlierType DEF LoginDeadlines
  <2> QED
    BY <1>2, <1>5, <2>1 DEF LoginBegin
<1>6. CASE UNCHANGED logins
  BY <1>2, <1>6
<1>7. CASE LoginNext
  BY <1>2, <1>3, <1>4, <1>5, <1>7 DEF LoginNext, LoginChecks, LoginRecordFailure, LoginRejected,
       LoginRolledBack, LoginCommit, Answered
<1> QED
  BY <1>6, <1>7
     DEF Next, SessionNext, RefreshAuthentication, RefreshInactive, RefreshReused,
         RefreshRejected, RefreshRotated, Logout, LogoutRevokes, LogoutIgnored,
         FindActiveSession, AccountNext, ReplacePassword, Activate, SetAccountStatus, Tick, vars

\* LEAST(expires_at, ...) in the rotation and in the guard.
LEMMA TouchedIdleInTime ==
  ASSUME TypeOK, NEW row \in Session, NEW t \in DbTimes
  PROVE  /\ TouchedIdle(row, t) \in Nat
         /\ TouchedIdle(row, t) <= row.expiresAt
         /\ TouchedIdle(row, t) <= now + ClockDrift + IdleTimeout
<1>1. t \in Nat /\ t <= now + ClockDrift /\ now \in Nat /\ row.expiresAt \in Nat
  BY DbTimesType DEF DbTimes, TypeOK, Session
<1>2. t + IdleTimeout \in Nat
  BY <1>1
<1>3. /\ TouchedIdle(row, t) \in Nat
      /\ TouchedIdle(row, t) <= row.expiresAt
      /\ TouchedIdle(row, t) <= t + IdleTimeout
  BY <1>1, <1>2, EarlierType DEF TouchedIdle
<1> QED
  BY <1>1, <1>3

LEMMA StepDeadlines ==
  ASSUME TypeOK, LoginsInTime, SessionDeadlines, [Next]_vars
  PROVE  SessionDeadlines'
<1> USE DEF TypeOK
<1> SUFFICES ASSUME NEW s \in SessionIds
             PROVE  RowDeadlines(sessions'[s], now')
  BY DEF SessionDeadlines, RowDeadlines
<1>1. now \in Nat /\ now' \in Nat /\ now <= now'
  BY ClockMovesForward
<1>2. RowDeadlines(sessions[s], now)
  BY DEF SessionDeadlines, RowDeadlines
<1>3. CASE sessions'[s] = sessions[s]
  <2>1. sessions[s] # Null => sessions[s].idleExpiresAt \in Nat
    BY DEF Session
  <2> QED
    BY <1>1, <1>2, <1>3, <2>1 DEF RowDeadlines
<1>4. ASSUME NEW r \in Requests, LoginCommit(r, s)
      PROVE  RowDeadlines(sessions'[s], now')
  <2>1. logins[r] \in LoginCall /\ LoginDeadlines(logins[r], now) /\ logins[r].stage = "commit"
    BY <1>4 DEF LoginCommit, Committing, LoginsInTime
  <2>2. /\ sessions'[s].idleExpiresAt = logins[r].idleExpiresAt
        /\ sessions'[s].expiresAt = logins[r].expiresAt
    BY <1>4 DEF LoginCommit, NewSession
  <2>3. logins[r] # Null /\ logins[r].idleExpiresAt \in Nat
    BY <1>4, <2>1 DEF LoginCommit, Committing, LoginCall
  <2> QED
    BY <1>1, <2>1, <2>2, <2>3 DEF RowDeadlines, LoginDeadlines
<1>5. ASSUME NEW ended \in SUBSET SessionIds, Revoked(ended), s \in ended
      PROVE  RowDeadlines(sessions'[s], now')
  <2>1. sessions[s] \in Session
    BY <1>5 DEF Revoked
  <2>2. /\ sessions'[s].idleExpiresAt = sessions[s].idleExpiresAt
        /\ sessions'[s].expiresAt = sessions[s].expiresAt
    BY <1>5, <2>1 DEF Revoked, Session
  <2>3. sessions[s] # Null /\ sessions[s].idleExpiresAt \in Nat
    BY <1>5, <2>1 DEF Revoked, Session
  <2> QED
    BY <1>1, <1>2, <2>2, <2>3 DEF RowDeadlines
<1>6. ASSUME NEW t \in DbTimes, sessions[s] \in Session,
             sessions'[s].idleExpiresAt = TouchedIdle(sessions[s], t),
             sessions'[s].expiresAt = sessions[s].expiresAt
      PROVE  RowDeadlines(sessions'[s], now')
  BY <1>1, <1>6, TouchedIdleInTime DEF RowDeadlines
<1>7. ASSUME NEW token \in Presentable, NEW t \in DbTimes, RefreshRotated(token, t)
      PROVE  RowDeadlines(sessions'[s], now')
  <2>1. CASE token.sessionId = s
    <3>1. sessions[s] \in Session
      BY <1>7, <2>1 DEF RefreshRotated, Exists
    <3>2. sessions'[s] = Rotated(sessions[s], s, t)
      BY <1>7, <2>1 DEF RefreshRotated
    <3> QED
      BY <1>6, <3>1, <3>2 DEF Rotated, Session
  <2> QED
    BY <1>3, <1>7, <2>1 DEF RefreshRotated
<1>8. ASSUME NEW i \in SessionIds, NEW t \in DbTimes, FindActiveSession(i, t)
      PROVE  RowDeadlines(sessions'[s], now')
  <2>1. CASE i = s
    <3>1. sessions[s] \in Session
      BY <1>8, <2>1 DEF FindActiveSession
    <3>2. sessions'[s] = [sessions[s] EXCEPT !.idleExpiresAt = TouchedIdle(sessions[s], t)]
      BY <1>8, <2>1 DEF FindActiveSession
    <3> QED
      BY <1>6, <3>1, <3>2 DEF Session
  <2> QED
    BY <1>3, <1>8, <2>1 DEF FindActiveSession
<1>9. ASSUME NEW r \in Requests, NEW i \in SessionIds, LoginCommit(r, i)
      PROVE  RowDeadlines(sessions'[s], now')
  <2>1. CASE i # s
    BY <1>3, <1>9, <2>1 DEF LoginCommit
  <2> QED
    BY <1>4, <1>9, <2>1
<1>10. ASSUME NEW ended \in SUBSET SessionIds, Revoked(ended)
       PROVE  RowDeadlines(sessions'[s], now')
  <2>1. CASE s \notin ended
    BY <1>3, <1>10, <2>1 DEF Revoked
  <2> QED
    BY <1>5, <1>10, <2>1
<1> QED
  BY <1>3, <1>7, <1>8, <1>9, <1>10, StepIsSessionStep DEF SessionStep

\* No login, rotation or guard check can trip the CHECK on the two deadlines,
\* and no session can be left idle longer than the idle timeout, for any
\* settings and any clock drift.
THEOREM DeadlinesHold == Spec => []SessionDeadlines
<1>1. Init => LoginsInTime /\ SessionDeadlines
  BY DEF Init, LoginsInTime, LoginDeadlines, SessionDeadlines
<1>2. TypeOK /\ LoginsInTime /\ SessionDeadlines /\ [Next]_vars
        => LoginsInTime' /\ SessionDeadlines'
  BY StepLoginsInTime, StepDeadlines
<1> QED
  BY <1>1, <1>2, TypeCorrect, PTL DEF Spec

\* The families as the tables hold them.
TableFamilies == [s \in SessionIds |-> FamilyOf(s)]

LEMMA NextTableFamilies == TableFamilies' = [s \in SessionIds |-> FamilyOf(s)']
BY DEF TableFamilies

LEMMA CommitOpens ==
  ASSUME TypeOK, NEW r \in Requests, NEW s \in SessionIds, LoginCommit(r, s)
  PROVE  Families!Open(s)
<1>1. logins[r] \in LoginCall
  BY DEF LoginCommit, Committing, TypeOK
<1>2. NewSession(logins[r], s) \in Session
  BY <1>1, MintedTokenType DEF NewSession, Session, LoginCall
<1>3. /\ sessions[s] = Null
      /\ sessions'[s] = NewSession(logins[r], s)
      /\ \A i \in SessionIds : i # s => sessions'[i] = sessions[i]
  BY DEF LoginCommit, TypeOK
<1>4. sessions'[s] # Null /\ sessions'[s].revoked = FALSE /\ sessions'[s].refreshGeneration = 0
  <2>1. NewSession(logins[r], s).revoked = FALSE /\ NewSession(logins[r], s).refreshGeneration = 0
    BY DEF NewSession
  <2>2. NewSession(logins[r], s) # Null
    BY <1>2
  <2> QED
    BY <1>3, <2>1, <2>2
<1>5. FamilyOf(s) = [state |-> "unborn", generation |-> 0]
  BY <1>3 DEF FamilyOf
<1>6. FamilyOf(s)' = [state |-> "live", generation |-> 0]
  BY <1>4 DEF FamilyOf
<1>7. \A i \in SessionIds : i # s => FamilyOf(i)' = FamilyOf(i)
  BY <1>3 DEF FamilyOf
<1>8. TableFamilies[s] = [state |-> "unborn", generation |-> 0]
  BY <1>5 DEF TableFamilies
<1>9. TableFamilies' = [TableFamilies EXCEPT ![s].state = "live"]
  <2>1. [TableFamilies EXCEPT ![s].state = "live"] =
          [i \in SessionIds |-> IF i = s THEN [TableFamilies[s] EXCEPT !.state = "live"]
                                        ELSE FamilyOf(i)]
    BY DEF TableFamilies
  <2>2. [TableFamilies[s] EXCEPT !.state = "live"] = [state |-> "live", generation |-> 0]
    BY <1>8
  <2> QED
    BY <1>6, <1>7, <2>1, <2>2, NextTableFamilies
<1> QED
  BY <1>8, <1>9 DEF Families!Open, Families!Unborn, TableFamilies

LEMMA RotationExchanges ==
  ASSUME TypeOK, NEW token \in Presentable, NEW t \in DbTimes, RefreshRotated(token, t)
  PROVE  Families!Exchange(token.sessionId) /\ token.sessionId \in SessionIds
<1> DEFINE s == token.sessionId
<1>1. s \in SessionIds
  BY PresentableType DEF Token
<1>2. sessions[s] \in Session /\ sessions[s].revoked = FALSE /\ sessions[s] # Null
  BY <1>1 DEF RefreshRotated, Exists, RefreshSessionIsActive, TypeOK, Session
<1>3. Rotated(sessions[s], s, t) \in Session
  <2>1. t \in Nat
    BY DbTimesType
  <2>2. TouchedIdle(sessions[s], t) \in Nat
    BY <1>2, <2>1 DEF TouchedIdle, Earlier, Session
  <2>3. sessions[s].refreshGeneration + 1 \in Nat
    BY <1>2 DEF Session
  <2>4. MintedToken(s, sessions[s].refreshGeneration + 1) \in Token
    BY <1>1, <2>3, MintedTokenType
  <2> QED
    BY <1>2, <2>2, <2>3, <2>4 DEF Rotated, Session
<1>4. /\ sessions'[s] = Rotated(sessions[s], s, t)
      /\ \A i \in SessionIds : i # s => sessions'[i] = sessions[i]
  BY <1>1 DEF RefreshRotated, TypeOK
<1>5. /\ sessions'[s].refreshGeneration = sessions[s].refreshGeneration + 1
      /\ sessions'[s].revoked = FALSE
      /\ sessions'[s] # Null
  BY <1>2, <1>3, <1>4 DEF Rotated, Session
<1>6. FamilyOf(s) = [state |-> "live", generation |-> sessions[s].refreshGeneration]
  BY <1>2 DEF FamilyOf
<1>7. FamilyOf(s)' = [state |-> "live", generation |-> sessions[s].refreshGeneration + 1]
  BY <1>5 DEF FamilyOf
<1>8. \A i \in SessionIds : i # s => FamilyOf(i)' = FamilyOf(i)
  BY <1>4 DEF FamilyOf
<1>9. TableFamilies[s].state = "live"
  BY <1>1, <1>6 DEF TableFamilies
<1>10. TableFamilies' = [TableFamilies EXCEPT ![s].generation = @ + 1]
  <2>1. [TableFamilies EXCEPT ![s].generation = @ + 1] =
          [i \in SessionIds |->
             IF i = s THEN [state |-> "live", generation |-> sessions[s].refreshGeneration + 1]
                      ELSE FamilyOf(i)]
    BY <1>1, <1>6 DEF TableFamilies
  <2> QED
    BY <1>7, <1>8, <2>1, NextTableFamilies
<1> QED
  BY <1>1, <1>9, <1>10 DEF Families!Exchange, Families!Live, TableFamilies

LEMMA RevocationEnds ==
  ASSUME TypeOK, NEW ended \in SUBSET SessionIds, Revoked(ended)
  PROVE  \E gone \in SUBSET SessionIds : Families!End(gone)
<1> DEFINE gone == {s \in ended : ~sessions[s].revoked}
<1>1. \A s \in ended : /\ sessions[s] \in Session /\ sessions[s] # Null
                       /\ sessions'[s] = [sessions[s] EXCEPT !.revoked = TRUE]
  BY DEF Revoked, TypeOK
<1>2. \A s \in ended : /\ sessions'[s] # Null
                       /\ sessions'[s].revoked = TRUE
                       /\ sessions'[s].refreshGeneration = sessions[s].refreshGeneration
  <2> SUFFICES ASSUME NEW s \in ended
               PROVE  /\ sessions'[s] # Null
                      /\ sessions'[s].revoked = TRUE
                      /\ sessions'[s].refreshGeneration = sessions[s].refreshGeneration
    OBVIOUS
  <2>1. [sessions[s] EXCEPT !.revoked = TRUE] \in Session
    BY <1>1 DEF Session
  <2>2. /\ [sessions[s] EXCEPT !.revoked = TRUE].revoked = TRUE
        /\ [sessions[s] EXCEPT !.revoked = TRUE].refreshGeneration
              = sessions[s].refreshGeneration
    BY <1>1 DEF Session
  <2>3. [sessions[s] EXCEPT !.revoked = TRUE] # Null
    BY <2>1
  <2> QED
    BY <1>1, <2>2, <2>3
<1>3. \A s \in SessionIds \ ended : sessions'[s] = sessions[s]
  BY DEF Revoked
<1>4. \A s \in gone : FamilyOf(s) = [state |-> "live", generation |-> sessions[s].refreshGeneration]
  BY <1>1 DEF FamilyOf
<1>5. \A s \in gone : FamilyOf(s)' = [state |-> "ended", generation |-> sessions[s].refreshGeneration]
  BY <1>2 DEF FamilyOf
<1>6. \A s \in SessionIds \ gone : FamilyOf(s)' = FamilyOf(s)
  <2>1. \A s \in ended \ gone : FamilyOf(s)' = FamilyOf(s)
    BY <1>1, <1>2 DEF FamilyOf
  <2>2. \A s \in SessionIds \ ended : FamilyOf(s)' = FamilyOf(s)
    BY <1>3 DEF FamilyOf
  <2> QED
    BY <2>1, <2>2
<1> HIDE DEF gone
<1>7. gone \in SUBSET SessionIds
  BY DEF gone
<1>8. gone \subseteq {s \in SessionIds : TableFamilies[s].state = "live"}
  BY <1>4, <1>7 DEF TableFamilies
<1>9. TableFamilies' =
        [s \in SessionIds |-> IF s \in gone THEN [TableFamilies[s] EXCEPT !.state = "ended"]
                                            ELSE TableFamilies[s]]
  <2>1. \A s \in gone : [TableFamilies[s] EXCEPT !.state = "ended"] = FamilyOf(s)'
    BY <1>4, <1>5, <1>7 DEF TableFamilies
  <2>2. \A s \in SessionIds \ gone : TableFamilies[s] = FamilyOf(s)'
    BY <1>6 DEF TableFamilies
  <2> QED
    BY <2>1, <2>2, NextTableFamilies
<1> QED
  BY <1>7, <1>8, <1>9 DEF Families!End, Families!Live, TableFamilies

LEMMA StepImplementsFamilies ==
  ASSUME TypeOK, [Next]_vars
  PROVE  [Families!FamiliesNext]_TableFamilies
<1>1. ASSUME \A s \in SessionIds : FamilyOf(s)' = FamilyOf(s)
      PROVE  TableFamilies' = TableFamilies
  BY <1>1, NextTableFamilies DEF TableFamilies
<1>2. CASE sessions' = sessions
  BY <1>1, <1>2 DEF FamilyOf
<1>3. ASSUME NEW s \in SessionIds, NEW t \in DbTimes, FindActiveSession(s, t)
      PROVE  TableFamilies' = TableFamilies
  <2>1. /\ sessions[s] \in Session /\ sessions[s] # Null
        /\ sessions'[s] = [sessions[s] EXCEPT !.idleExpiresAt = TouchedIdle(sessions[s], t)]
        /\ \A i \in SessionIds : i # s => sessions'[i] = sessions[i]
    BY <1>3 DEF FindActiveSession, TypeOK
  <2>2. TouchedIdle(sessions[s], t) \in Nat
    BY <2>1, DbTimesType DEF TouchedIdle, Earlier, Session
  <2>3. sessions'[s] # Null
    BY <2>1, <2>2 DEF Session
  <2>4. /\ sessions'[s].revoked = sessions[s].revoked
        /\ sessions'[s].refreshGeneration = sessions[s].refreshGeneration
    BY <2>1 DEF Session
  <2> QED
    BY <1>1, <2>1, <2>3, <2>4 DEF FamilyOf
<1> QED
  BY <1>2, <1>3, CommitOpens, RotationExchanges, RevocationEnds, StepIsSessionStep
     DEF SessionStep, Families!FamiliesNext

\* Logins, refreshes, logouts, guard checks and password changes do to the
\* tables nothing but what TokenFamilies allows: RefreshCookie builds on it.
THEOREM RefinesTokenFamilies == Spec => ImplementsFamilies
<1>1. Init => Families!FamiliesInit
  BY DEF Init, Families!FamiliesInit, Families!Unborn, FamilyOf
<1>2. TypeOK /\ [Next]_vars => [Families!FamiliesNext]_[s \in SessionIds |-> FamilyOf(s)]
  BY StepImplementsFamilies DEF TableFamilies
<1> QED
  BY <1>1, <1>2, TypeCorrect, PTL DEF Spec, ImplementsFamilies, Families!FamiliesSpec

----------------------------------------------------------------------------
(* What ends an active session *)

\* The converse of ExchangedRecorded: only an exchanged token is in the
\* history, so only one is taken for reused.
RecordedExchanged ==
  \A h \in history : h.tokenHash \in exchanged /\ h.tokenHash.sessionId = h.sessionId

LEMMA StepRecordedExchanged ==
  ASSUME RecordedExchanged, [Next]_vars
  PROVE  RecordedExchanged'
<1>1. CASE UNCHANGED <<history, exchanged>>
  BY <1>1 DEF RecordedExchanged
<1>2. ASSUME NEW token \in Presentable, NEW t \in DbTimes, RefreshRotated(token, t)
      PROVE  RecordedExchanged'
  <2>1. /\ Superseded(token).sessionId = token.sessionId
        /\ Superseded(token).tokenHash = token
    BY <1>2 DEF RefreshRotated, Superseded, TokenIsCurrent
  <2> QED
    BY <1>2, <2>1 DEF RefreshRotated, RecordedExchanged
<1>3. CASE LoginNext
  BY <1>1, <1>3 DEF LoginNext, LoginChecks, LoginRead, LoginRecordFailure, LoginRejected,
       LoginBegin, LoginCommit, LoginRolledBack
<1>4. CASE SessionNext
  BY <1>1, <1>2, <1>4 DEF SessionNext, RefreshAuthentication, RefreshInactive, RefreshReused,
       RefreshRejected, Logout, LogoutRevokes, LogoutIgnored, FindActiveSession
<1>5. CASE AccountNext
  BY <1>1, <1>5 DEF AccountNext, ReplacePassword, Activate, SetAccountStatus
<1> QED
  BY <1>1, <1>3, <1>4, <1>5 DEF Next, Tick, vars

LEMMA RecordedExchangedHolds == Spec => []RecordedExchanged
<1>1. Init => RecordedExchanged
  BY DEF Init, RecordedExchanged
<1>2. RecordedExchanged /\ [Next]_vars => RecordedExchanged'
  BY StepRecordedExchanged
<1> QED
  BY <1>1, <1>2, PTL DEF Spec

\* A token that a logout or a refresh knows was issued.
LEMMA KnownIsIssued ==
  ASSUME TypeOK, RecordedExchanged, NEW token \in Presentable, Exists(token)
  PROVE  /\ WasRefreshTokenUsed(token) => token \in exchanged
         /\ TokenIsCurrent(token) => token \in Issued
<1>1. token.sessionId \in SessionIds
  BY PresentableType DEF Token
<1>2. WasRefreshTokenUsed(token) => token \in exchanged
  BY DEF WasRefreshTokenUsed, RecordedExchanged
<1> QED
  BY <1>1, <1>2 DEF TokenIsCurrent, Exists, Issued

LEMMA ReplacementIsNew ==
  ASSUME TypeOK, NEW u \in Users, NEW p \in Passwords, NEW k \in Kept(u), ReplacePassword(u, p, k)
  PROVE  accounts'[u].passwordHash # accounts[u].passwordHash
<1> DEFINE hash == [password |-> p, version |-> NextVersion(accounts[u])]
<1>1. accounts[u] \in Account /\ accounts' = [accounts EXCEPT ![u] = UpdatePassword(@, hash)]
  BY DEF TypeOK, ReplacePassword
<1>2. accounts'[u].passwordHash = hash
  BY <1>1 DEF TypeOK, Account, UpdatePassword
<1>3. accounts[u].passwordHash \in PasswordHash \cup {Null}
  BY <1>1 DEF Account
<1>4. CASE accounts[u].passwordHash = Null
  <2>1. hash \in PasswordHash
    BY <1>4 DEF NextVersion, PasswordHash
  <2> QED
    BY <1>2, <1>4, <2>1, NullRowAssumption
<1>5. CASE accounts[u].passwordHash # Null
  <2>1. accounts[u].passwordHash.version \in Nat
    BY <1>3, <1>5 DEF PasswordHash
  <2>2. hash.version = accounts[u].passwordHash.version + 1
    BY <1>5 DEF NextVersion
  <2> QED
    BY <1>2, <2>1, <2>2
<1> QED
  BY <1>4, <1>5

\* This step ends the unrevoked session s.
EndsSession(s) == sessions[s] # Null /\ ~sessions[s].revoked /\ sessions'[s].revoked

\* An exchanged token was shown to refresh, or an issued one to logout, or
\* the account's password was replaced.
HasReason(s) ==
  \/ \E token \in exchanged, t \in DbTimes :
       token.sessionId = s /\ RefreshAuthentication(token, t)
  \/ \E token \in Issued : token.sessionId = s /\ Logout(token)
  \/ LET u == sessions[s].userId
     IN  accounts'[u].passwordHash # accounts[u].passwordHash

\* Somebody named an inactive session to refresh.
WasInactive(s) ==
  /\ ~RefreshSessionIsActive(sessions[s])
  /\ \E token \in Presentable : token.sessionId = s /\ RefreshInactive(token)

LEMMA RevokedOnlyNamed ==
  ASSUME NEW token \in Presentable, sessions' = RevokeSession(token.sessionId),
         NEW s \in SessionIds, EndsSession(s)
  PROVE  token.sessionId = s
BY DEF RevokeSession, EndsSession

LEMMA WhySessionsEnd ==
  ASSUME TypeOK, RecordedExchanged, [Next]_vars, NEW s \in SessionIds, EndsSession(s)
  PROVE  HasReason(s) \/ WasInactive(s)
<1>1. sessions[s] \in Session /\ sessions[s].userId \in Users
  BY DEF TypeOK, EndsSession, Session
<1>2. sessions' # sessions
  BY DEF EndsSession
<1>3. CASE LoginNext
  <2>1. PICK r \in Requests, x \in SessionIds : LoginCommit(r, x)
    BY <1>2, <1>3 DEF LoginNext, LoginChecks, LoginRead, LoginRecordFailure, LoginRejected,
         LoginBegin, LoginRolledBack
  <2>2. x # s
    BY <2>1 DEF LoginCommit, EndsSession
  <2>3. sessions'[s] = sessions[s]
    BY <2>1, <2>2 DEF LoginCommit, TypeOK
  <2> QED
    BY <2>3 DEF EndsSession
<1>4. ASSUME NEW token \in Presentable, NEW t \in DbTimes, RefreshAuthentication(token, t)
      PROVE  HasReason(s) \/ WasInactive(s)
  <2>1. CASE RefreshInactive(token)
    <3>1. token.sessionId = s
      BY <2>1, RevokedOnlyNamed DEF RefreshInactive
    <3> QED
      BY <2>1, <3>1 DEF WasInactive, RefreshInactive
  <2>2. CASE RefreshReused(token)
    <3>1. token.sessionId = s /\ token \in exchanged
      BY <2>2, RevokedOnlyNamed, KnownIsIssued DEF RefreshReused
    <3> QED
      BY <1>4, <3>1 DEF HasReason
  <2>3. CASE RefreshRotated(token, t)
    <3> DEFINE x == token.sessionId
    <3>1. x \in SessionIds /\ sessions[x] \in Session
      BY <2>3, PresentableType DEF Token, RefreshRotated, Exists, TypeOK
    <3>2. sessions' = [sessions EXCEPT ![x] = Rotated(@, x, t)]
      BY <2>3 DEF RefreshRotated
    <3>3. Rotated(sessions[x], x, t).revoked = sessions[x].revoked
      BY <3>1 DEF Rotated, Session
    <3>4. sessions'[s].revoked = sessions[s].revoked
      BY <3>1, <3>2, <3>3 DEF TypeOK
    <3> QED
      BY <3>4 DEF EndsSession
  <2> QED
    BY <1>2, <1>4, <2>1, <2>2, <2>3 DEF RefreshAuthentication, RefreshRejected
<1>5. ASSUME NEW token \in Presentable, Logout(token)
      PROVE  HasReason(s)
  <2>1. LogoutRevokes(token)
    BY <1>2, <1>5 DEF Logout, LogoutIgnored
  <2>2. token.sessionId = s
    BY <2>1, RevokedOnlyNamed DEF LogoutRevokes
  <2>3. token \in Issued
    BY <2>1, KnownIsIssued DEF LogoutRevokes, Issued
  <2> QED
    BY <1>5, <2>2, <2>3 DEF HasReason
<1>6. ASSUME NEW x \in SessionIds, NEW t \in DbTimes, FindActiveSession(x, t)
      PROVE  FALSE
  <2>1. sessions[x] \in Session
    BY <1>6 DEF FindActiveSession, TypeOK
  <2>2. [sessions[x] EXCEPT !.idleExpiresAt = TouchedIdle(sessions[x], t)].revoked
          = sessions[x].revoked
    BY <2>1 DEF Session
  <2>3. sessions'[s].revoked = sessions[s].revoked
    BY <1>6, <2>2 DEF FindActiveSession, TypeOK
  <2> QED
    BY <2>3 DEF EndsSession
<1>7. ASSUME NEW u \in Users, NEW p \in Passwords, NEW k \in Kept(u), ReplacePassword(u, p, k)
      PROVE  HasReason(s)
  <2>1. s \in UserSessions(u)
    BY <1>7 DEF ReplacePassword, RevokeUserSessions, EndsSession
  <2> QED
    BY <1>7, <2>1, ReplacementIsNew DEF HasReason, UserSessions
<1>8. CASE SessionNext
  BY <1>4, <1>5, <1>6, <1>8 DEF SessionNext
<1>9. CASE AccountNext
  BY <1>2, <1>7, <1>9 DEF AccountNext, Activate, SetAccountStatus
<1> QED
  BY <1>2, <1>3, <1>8, <1>9 DEF Next, Tick, vars

\* No session that is alive, of an account that is active and not locked, ends
\* without a reason.
SessionsEndForAReason ==
  [][\A s \in SessionIds :
       EndsSession(s) /\ RefreshSessionIsActive(sessions[s]) => HasReason(s)]_vars

\* The converse of ReuseRevokesFamily: reuse detection never ends an active
\* session by mistake.  A retry, a rejected refresh, a string that was never
\* issued, another session's token or another account's password cannot.
THEOREM NoSessionEndsByMistake == Spec => SessionsEndForAReason
<1>1. TypeOK /\ RecordedExchanged /\ [Next]_vars =>
        [\A s \in SessionIds :
           EndsSession(s) /\ RefreshSessionIsActive(sessions[s]) => HasReason(s)]_vars
  BY WhySessionsEnd DEF WasInactive
<1> QED
  BY <1>1, TypeCorrect, RecordedExchangedHolds, PTL DEF Spec, SessionsEndForAReason

\* README.md:122 as far as it is true: a forged token revokes a legitimate
\* session only when shown to refresh while the account is locked, and
\* never when shown to logout.
ForgedTokensNeedALock ==
  [][\A token \in Presentable \ Issued :
       /\ Legitimate(token.sessionId) /\ (\E t \in DbTimes : RefreshAuthentication(token, t))
            /\ sessions'[token.sessionId].revoked
          => IsCurrentlyLocked(accounts[sessions[token.sessionId].userId])
       /\ Logout(token) => UNCHANGED sessions]_vars

\* The lock is the only way in which a forged token can do harm.
THEOREM ForgedTokensAreHarmless == Spec => ForgedTokensNeedALock
<1>1. ASSUME TypeOK, RecordedExchanged, NEW token \in Presentable \ Issued
      PROVE  /\ Legitimate(token.sessionId) /\ (\E t \in DbTimes : RefreshAuthentication(token, t))
                  /\ sessions'[token.sessionId].revoked
                => IsCurrentlyLocked(accounts[sessions[token.sessionId].userId])
             /\ Logout(token) => UNCHANGED sessions
  <2>1. Exists(token) => ~WasRefreshTokenUsed(token) /\ ~TokenIsCurrent(token)
    BY <1>1, KnownIsIssued DEF Issued
  <2>2. Logout(token) => UNCHANGED sessions
    BY <2>1 DEF Logout, LogoutRevokes, LogoutIgnored
  <2>3. ASSUME Legitimate(token.sessionId), NEW t \in DbTimes, RefreshAuthentication(token, t),
               sessions'[token.sessionId].revoked
        PROVE  IsCurrentlyLocked(accounts[sessions[token.sessionId].userId])
    <3>1. RefreshInactive(token)
      BY <2>1, <2>3 DEF RefreshAuthentication, RefreshReused, RefreshRejected, RefreshRotated,
           Legitimate
    <3> QED
      BY <2>3, <3>1 DEF RefreshInactive, RefreshSessionIsActive, Legitimate, UnexpiredAt
  <2> QED
    BY <2>2, <2>3
<1>2. TypeOK /\ RecordedExchanged /\ [Next]_vars =>
        [\A token \in Presentable \ Issued :
           /\ Legitimate(token.sessionId) /\ (\E t \in DbTimes : RefreshAuthentication(token, t))
                /\ sessions'[token.sessionId].revoked
              => IsCurrentlyLocked(accounts[sessions[token.sessionId].userId])
           /\ Logout(token) => UNCHANGED sessions]_vars
  BY <1>1
<1> QED
  BY <1>2, TypeCorrect, RecordedExchangedHolds, PTL DEF Spec, ForgedTokensNeedALock

=============================================================================
