---------------------------- MODULE AuthSessions ----------------------------
(***************************************************************************)
(* Login, refresh-token rotation, logout and the session check of the      *)
(* bearer-token guard: AuthService.ts over UserRepository.ts and           *)
(* SessionRepository.ts.                                                   *)
(*                                                                         *)
(* A login is three steps (it reads, verifies the password without a lock, *)
(* then runs a transaction that locks the user row and checks again).      *)
(* Refresh and logout lock the session and the user row in their first     *)
(* statement, so each is one step.  `now' is the application's new Date(); *)
(* the database's NOW() -- the start of the transaction, by the database's *)
(* clock -- is any time within ClockDrift of it.                           *)
(***************************************************************************)
EXTENDS Naturals, FiniteSets

CONSTANTS
  Users, Passwords, SessionIds,
  Requests,            \* login requests that can be in flight at one time
  Null,                \* SQL NULL, and an absent row
  LockoutThreshold, LockoutDuration,                  \* auth_settings
  IdleTimeout, AbsoluteTimeout, RememberMeTimeout,    \* auth_settings
  ClockDrift,          \* how far NOW() may be from new Date()
  MaxTime, MaxGeneration, MaxFailedAttempts, MaxHashVersion  \* bounds

ASSUME SettingsAssumption ==
  /\ LockoutThreshold \in Nat \ {0}
  /\ LockoutDuration \in Nat \ {0}
  /\ IdleTimeout \in Nat \ {0}
  /\ AbsoluteTimeout \in Nat \ {0}
  /\ RememberMeTimeout \in Nat \ {0}

ASSUME BoundsAssumption ==
  /\ ClockDrift \in Nat
  /\ MaxTime \in Nat
  /\ MaxGeneration \in Nat
  /\ MaxFailedAttempts \in Nat
  /\ MaxHashVersion \in Nat

\* The minute resolution of the settings is one tick of `now'.
Time == Nat

ASSUME NullAssumption == Null \notin Nat

AccountStatus == {"pending_activation", "active", "suspended", "inactive"}

\* Argon2id salts every hash, so two hashes of one password differ.
PasswordHash == [password : Passwords, version : Nat]

Account == [accountStatus : AccountStatus,
            passwordHash : PasswordHash \cup {Null},
            failedLoginAttempts : Nat,
            lockedUntil : Time \cup {Null}]

\* `<session>.<generation>.<secret>'.  "minted" is the random secret that
\* createRefreshToken drew for that session and generation, "other" any
\* string it did not.  SHA-256 is injective here: a hash is its token.
Token == [sessionId : SessionIds, generation : Nat, secret : {"minted", "other"}]

Session == [userId : Users,
            tokenHash : Token,
            refreshGeneration : Nat,
            expiresAt : Time,
            idleExpiresAt : Time,
            revoked : BOOLEAN]           \* revoked_at IS NOT NULL

HistoryRow == [sessionId : SessionIds, generation : Nat, tokenHash : Token]

ASSUME NullRowAssumption ==
  /\ Null \notin Account
  /\ Null \notin Session
  /\ Null \notin PasswordHash

VARIABLES
  now,
  accounts,      \* users
  sessions,      \* auth_sessions
  history,       \* auth_refresh_token_history
  logins,        \* AuthService.login calls in flight
  exchanged,     \* observation: tokens a refresh has rotated away
  closed         \* observation: sessions whose family must be dead

vars == <<now, accounts, sessions, history, logins, exchanged, closed>>

Earlier(a, b) == IF a <= b THEN a ELSE b

\* What NOW() can be in a transaction whose code reads new Date() = now.
DbTimes == {t \in 0 .. now + ClockDrift : now <= t + ClockDrift}

PasswordMatches(hash, password) == hash # Null /\ hash.password = password

LockedAt(account, t) == account.lockedUntil # Null /\ account.lockedUntil > t

IsCurrentlyLocked(account) == LockedAt(account, now)

MintedToken(s, g) == [sessionId |-> s, generation |-> g, secret |-> "minted"]

\* Every refresh token the service has handed out.
Issued == exchanged \cup {sessions[s].tokenHash : s \in {i \in SessionIds : sessions[i] # Null}}

\* What a client can present: any issued token at any time, again and late,
\* or a string the service never issued.
Presentable == Issued \cup [sessionId : SessionIds, generation : 0 .. MaxGeneration, secret : {"other"}]

----------------------------------------------------------------------------
(* Rows of the users table *)

AttemptsAfterFailure(account, t) ==
  IF account.lockedUntil # Null /\ account.lockedUntil <= t
  THEN 1
  ELSE account.failedLoginAttempts + 1

LockAfterFailure(account, t) ==
  IF AttemptsAfterFailure(account, t) >= LockoutThreshold
  THEN t + LockoutDuration
  ELSE Null

RecordFailedLogin(account, t) ==
  [account EXCEPT !.failedLoginAttempts = AttemptsAfterFailure(account, t),
                  !.lockedUntil = LockAfterFailure(account, t)]

\* Mutant: the counter is reset and the expired lock is left in place.
RecordSuccessfulLogin_KeepsLock(account) ==
  [account EXCEPT !.failedLoginAttempts = 0]

RecordSuccessfulLogin(account) ==
  [account EXCEPT !.failedLoginAttempts = 0, !.lockedUntil = Null]

UpdatePassword(account, hash) ==
  [account EXCEPT !.passwordHash = hash,
                  !.failedLoginAttempts = 0,
                  !.lockedUntil = Null]

ActivateUser(account, hash) ==
  [account EXCEPT !.passwordHash = IF hash = Null THEN @ ELSE hash,
                  !.accountStatus = "active",
                  !.failedLoginAttempts = 0,
                  !.lockedUntil = Null]

NextVersion(account) ==
  IF account.passwordHash = Null THEN 0 ELSE account.passwordHash.version + 1

----------------------------------------------------------------------------
(* Rows of auth_sessions *)

\* Mutant: the revocation flag is not initialised.
NewSession_NoFlag(login, s) ==
  [userId |-> login.userId,
   tokenHash |-> MintedToken(s, 0),
   refreshGeneration |-> 0,
   expiresAt |-> login.expiresAt,
   idleExpiresAt |-> login.idleExpiresAt,
   revoked |-> Null]

NewSession(login, s) ==
  [userId |-> login.userId,
   tokenHash |-> MintedToken(s, 0),
   refreshGeneration |-> 0,
   expiresAt |-> login.expiresAt,
   idleExpiresAt |-> login.idleExpiresAt,
   revoked |-> FALSE]

RevokeSession(s) == [sessions EXCEPT ![s].revoked = TRUE]

UserSessions(u) == {s \in SessionIds : sessions[s] # Null /\ sessions[s].userId = u}

RevokeUserSessions(u, except) ==
  [s \in SessionIds |-> IF s \in UserSessions(u) \ except
                        THEN [sessions[s] EXCEPT !.revoked = TRUE]
                        ELSE sessions[s]]

\* The lookup by id that both refresh and logout start with.
Exists(token) == sessions[token.sessionId] # Null

\* Mutant: the lock of the account is not looked at.
RefreshSessionIsActive_IgnoresLock(session) ==
  /\ ~session.revoked
  /\ session.expiresAt > now
  /\ session.idleExpiresAt > now
  /\ accounts[session.userId].accountStatus = "active"

RefreshSessionIsActive(session) ==
  /\ ~session.revoked
  /\ session.expiresAt > now
  /\ session.idleExpiresAt > now
  /\ accounts[session.userId].accountStatus = "active"
  /\ ~IsCurrentlyLocked(accounts[session.userId])

TokenIsCurrent(token) ==
  /\ token.generation = sessions[token.sessionId].refreshGeneration
  /\ token = sessions[token.sessionId].tokenHash

\* Mutant: only the token of the previous generation is recognised.
WasRefreshTokenUsed_LastOnly(token) ==
  \E h \in history : /\ h.sessionId = token.sessionId
                     /\ h.tokenHash = token
                     /\ h.generation + 1 = sessions[token.sessionId].refreshGeneration

WasRefreshTokenUsed(token) ==
  \E h \in history : h.sessionId = token.sessionId /\ h.tokenHash = token

UnexpiredAt(session, t) == session.expiresAt > t /\ session.idleExpiresAt > t

\* Mutant: LEAST(expires_at, ...) is dropped.
TouchedIdle_NoLeast(session, t) == t + IdleTimeout

TouchedIdle(session, t) == Earlier(session.expiresAt, t + IdleTimeout)

----------------------------------------------------------------------------
(* AuthService.login *)

SessionLifetime(rememberMe) == IF rememberMe THEN RememberMeTimeout ELSE AbsoluteTimeout

\* The settings and the user are read without a lock; the password is then
\* verified against what was read.
LoginRead(r, u, password, rememberMe) ==
  /\ logins[r] = Null
  /\ logins' = [logins EXCEPT ![r] =
                  [stage |-> "verify", userId |-> u, password |-> password,
                   lifetime |-> SessionLifetime(rememberMe), user |-> accounts[u],
                   expiresAt |-> 0, idleExpiresAt |-> 0]]
  /\ UNCHANGED <<now, accounts, sessions, history, exchanged, closed>>

Verifying(r) == logins[r] # Null /\ logins[r].stage = "verify"

SnapshotMatches(r) == PasswordMatches(logins[r].user.passwordHash, logins[r].password)

Answered(r) == logins' = [logins EXCEPT ![r] = Null]

LoginRecordFailure(r, t) ==
  /\ Verifying(r)
  /\ ~SnapshotMatches(r)
  /\ ~IsCurrentlyLocked(logins[r].user)
  /\ AttemptsAfterFailure(accounts[logins[r].userId], t) <= MaxFailedAttempts
  /\ accounts' = [accounts EXCEPT ![logins[r].userId] = RecordFailedLogin(@, t)]
  /\ Answered(r)
  /\ UNCHANGED <<now, sessions, history, exchanged, closed>>

\* A wrong password for an account that was read as locked, or a right one
\* for an account read as locked or not active.
LoginRejected(r) ==
  /\ Verifying(r)
  /\ \/ IsCurrentlyLocked(logins[r].user)
     \/ SnapshotMatches(r) /\ logins[r].user.accountStatus # "active"
  /\ Answered(r)
  /\ UNCHANGED <<now, accounts, sessions, history, exchanged, closed>>

LoginBegin(r) ==
  /\ Verifying(r)
  /\ SnapshotMatches(r)
  /\ ~IsCurrentlyLocked(logins[r].user)
  /\ logins[r].user.accountStatus = "active"
  /\ LET expiry == now + logins[r].lifetime
     IN  logins' = [logins EXCEPT
                      ![r].stage = "commit",
                      ![r].expiresAt = expiry,
                      ![r].idleExpiresAt = Earlier(expiry, now + IdleTimeout)]
  /\ UNCHANGED <<now, accounts, sessions, history, exchanged, closed>>

Committing(r) == logins[r] # Null /\ logins[r].stage = "commit"

\* Mutant: the password hash is not compared with the one read before.
LoginStillAllowed_NoHashCheck(login) ==
  /\ ~IsCurrentlyLocked(accounts[login.userId])
  /\ accounts[login.userId].accountStatus = "active"

\* Mutant: the lock is not looked at again.
LoginStillAllowed_NoLockCheck(login) ==
  /\ accounts[login.userId].passwordHash = login.user.passwordHash
  /\ accounts[login.userId].accountStatus = "active"

\* The checks made again under the user's row lock.
LoginStillAllowed(login) ==
  /\ accounts[login.userId].passwordHash = login.user.passwordHash
  /\ ~IsCurrentlyLocked(accounts[login.userId])
  /\ accounts[login.userId].accountStatus = "active"

LoginCommit(r, s) ==
  /\ Committing(r)
  /\ sessions[s] = Null
  /\ LoginStillAllowed(logins[r])
  /\ accounts' = [accounts EXCEPT ![logins[r].userId] = RecordSuccessfulLogin(@)]
  /\ sessions' = [sessions EXCEPT ![s] = NewSession(logins[r], s)]
  /\ Answered(r)
  /\ UNCHANGED <<now, history, exchanged, closed>>

\* A check under the lock fails, or signing the access token does: the
\* transaction rolls back.
LoginRolledBack(r) ==
  /\ Committing(r)
  /\ Answered(r)
  /\ UNCHANGED <<now, accounts, sessions, history, exchanged, closed>>

----------------------------------------------------------------------------
(* AuthService.refreshAuthentication *)

\* Observation: presenting a token that was already exchanged closes its
\* session, whatever the service answers.
Observe(token) ==
  closed' = IF token \in exchanged THEN closed \cup {token.sessionId} ELSE closed

RefreshInactive(token) ==
  /\ Exists(token)
  /\ ~RefreshSessionIsActive(sessions[token.sessionId])
  /\ sessions' = RevokeSession(token.sessionId)
  /\ Observe(token)
  /\ UNCHANGED <<now, accounts, history, logins, exchanged>>

RefreshReused(token) ==
  /\ Exists(token)
  /\ RefreshSessionIsActive(sessions[token.sessionId])
  /\ ~TokenIsCurrent(token)
  /\ WasRefreshTokenUsed(token)
  /\ sessions' = RevokeSession(token.sessionId)
  /\ Observe(token)
  /\ UNCHANGED <<now, accounts, history, logins, exchanged>>

\* A token that is neither current nor used, or a session that the database
\* finds expired although the application did not: thrown inside the
\* transaction, which rolls back.
RefreshRejected(token, t) ==
  /\ Exists(token)
  /\ RefreshSessionIsActive(sessions[token.sessionId])
  /\ \/ ~TokenIsCurrent(token) /\ ~WasRefreshTokenUsed(token)
     \/ TokenIsCurrent(token) /\ ~UnexpiredAt(sessions[token.sessionId], t)
  /\ Observe(token)
  /\ UNCHANGED <<now, accounts, sessions, history, logins, exchanged>>

\* Mutant: the history row is inserted after the session row was updated.
Superseded_AfterUpdate(token) ==
  [sessionId |-> token.sessionId,
   generation |-> sessions[token.sessionId].refreshGeneration + 1,
   tokenHash |-> MintedToken(token.sessionId, sessions[token.sessionId].refreshGeneration + 1)]

Superseded(token) ==
  [sessionId |-> token.sessionId,
   generation |-> sessions[token.sessionId].refreshGeneration,
   tokenHash |-> sessions[token.sessionId].tokenHash]

Rotated(session, s, t) ==
  [session EXCEPT !.tokenHash = MintedToken(s, session.refreshGeneration + 1),
                  !.refreshGeneration = @ + 1,
                  !.idleExpiresAt = TouchedIdle(session, t)]

RefreshRotated(token, t) ==
  /\ Exists(token)
  /\ RefreshSessionIsActive(sessions[token.sessionId])
  /\ TokenIsCurrent(token)
  /\ UnexpiredAt(sessions[token.sessionId], t)
  /\ sessions[token.sessionId].refreshGeneration < MaxGeneration
  /\ history' = history \cup {Superseded(token)}
  /\ sessions' = [sessions EXCEPT ![token.sessionId] = Rotated(@, token.sessionId, t)]
  /\ exchanged' = exchanged \cup {token}
  /\ Observe(token)
  /\ UNCHANGED <<now, accounts, logins>>

RefreshAuthentication(token, t) ==
  \/ RefreshInactive(token)
  \/ RefreshReused(token)
  \/ RefreshRejected(token, t)
  \/ RefreshRotated(token, t)

----------------------------------------------------------------------------
(* AuthService.logout *)

\* Observation: the holder of an issued token closed its session.
ObserveLogout(token) ==
  closed' = IF token \in Issued THEN closed \cup {token.sessionId} ELSE closed

LogoutRevokes(token) ==
  /\ Exists(token)
  /\ TokenIsCurrent(token) \/ WasRefreshTokenUsed(token)
  /\ sessions' = RevokeSession(token.sessionId)
  /\ ObserveLogout(token)
  /\ UNCHANGED <<now, accounts, history, logins, exchanged>>

LogoutIgnored(token) ==
  /\ Exists(token)
  /\ ~TokenIsCurrent(token)
  /\ ~WasRefreshTokenUsed(token)
  /\ ObserveLogout(token)
  /\ UNCHANGED <<now, accounts, sessions, history, logins, exchanged>>

Logout(token) == LogoutRevokes(token) \/ LogoutIgnored(token)

----------------------------------------------------------------------------
(* SessionRepository.findActiveSessionById, called by the bearer guard *)

FindActiveSession(s, t) ==
  /\ sessions[s] # Null
  /\ ~sessions[s].revoked
  /\ UnexpiredAt(sessions[s], t)
  /\ accounts[sessions[s].userId].accountStatus = "active"
  /\ ~LockedAt(accounts[sessions[s].userId], t)
  /\ sessions' = [sessions EXCEPT ![s].idleExpiresAt = TouchedIdle(sessions[s], t)]
  /\ UNCHANGED <<now, accounts, history, logins, exchanged, closed>>

----------------------------------------------------------------------------
(* What the other services do to these tables *)

\* A password reset or change: updatePassword, then revokeUserSessions for
\* all sessions, for all but the caller's, or not at all, by the settings.
ReplacePassword(u, password, kept) ==
  /\ accounts[u].accountStatus = "active"
  /\ NextVersion(accounts[u]) <= MaxHashVersion
  /\ accounts' = [accounts EXCEPT ![u] = UpdatePassword(@,
                    [password |-> password, version |-> NextVersion(@)])]
  /\ sessions' = RevokeUserSessions(u, kept)
  /\ UNCHANGED <<now, history, logins, exchanged, closed>>

Kept(u) == {{}, UserSessions(u)} \cup {{s} : s \in UserSessions(u)}

\* ActivationService.completeActivation; a password is optional when the
\* account has one.
Activate(u, hash) ==
  /\ accounts[u].accountStatus = "pending_activation"
  /\ accounts[u].passwordHash # Null \/ hash # Null
  /\ accounts' = [accounts EXCEPT ![u] = ActivateUser(@, hash)]
  /\ UNCHANGED <<now, sessions, history, logins, exchanged, closed>>

InitialHashes(u) ==
  {Null} \cup [password : Passwords,
               version : {NextVersion(accounts[u])} \cap (0 .. MaxHashVersion)]

\* An administrator suspends, deactivates or reinstates an account: no code
\* of the repository does.
SetAccountStatus(u, status) ==
  /\ accounts[u].accountStatus # "pending_activation"
  /\ status # "pending_activation"
  /\ accounts' = [accounts EXCEPT ![u].accountStatus = status]
  /\ UNCHANGED <<now, sessions, history, logins, exchanged, closed>>

Tick ==
  /\ now < MaxTime
  /\ now' = now + 1
  /\ UNCHANGED <<accounts, sessions, history, logins, exchanged, closed>>

----------------------------------------------------------------------------

Init ==
  /\ now = 0
  /\ accounts \in [Users -> {a \in [accountStatus : {"pending_activation", "active"},
                                    passwordHash : [password : Passwords, version : {0}] \cup {Null},
                                    failedLoginAttempts : {0},
                                    lockedUntil : {Null}] :
                               a.passwordHash = Null => a.accountStatus = "pending_activation"}]
  /\ sessions = [s \in SessionIds |-> Null]
  /\ history = {}
  /\ logins = [r \in Requests |-> Null]
  /\ exchanged = {}
  /\ closed = {}

\* A step of a login that creates no session.
LoginChecks(r) ==
  \/ \E u \in Users, p \in Passwords, m \in BOOLEAN : LoginRead(r, u, p, m)
  \/ \E t \in DbTimes : LoginRecordFailure(r, t)
  \/ LoginRejected(r)
  \/ LoginBegin(r)
  \/ LoginRolledBack(r)

LoginNext ==
  \E r \in Requests : LoginChecks(r) \/ \E s \in SessionIds : LoginCommit(r, s)

SessionNext ==
  \/ \E token \in Presentable, t \in DbTimes : RefreshAuthentication(token, t)
  \/ \E token \in Presentable : Logout(token)
  \/ \E s \in SessionIds, t \in DbTimes : FindActiveSession(s, t)

AccountNext ==
  \E u \in Users :
    \/ \E p \in Passwords, k \in Kept(u) : ReplacePassword(u, p, k)
    \/ \E h \in InitialHashes(u) : Activate(u, h)
    \/ \E status \in AccountStatus : SetAccountStatus(u, status)

Next == LoginNext \/ SessionNext \/ AccountNext \/ Tick

Spec == Init /\ [][Next]_vars

----------------------------------------------------------------------------
(* Properties *)

LoginCall == [stage : {"verify", "commit"}, userId : Users, password : Passwords,
              lifetime : Nat, user : Account,
              expiresAt : Time, idleExpiresAt : Time]

\* Every variable has its type.
TypeOK ==
  /\ now \in Time
  /\ accounts \in [Users -> Account]
  /\ sessions \in [SessionIds -> Session \cup {Null}]
  /\ history \in SUBSET HistoryRow
  /\ logins \in [Requests -> LoginCall \cup {Null}]
  /\ exchanged \in SUBSET Token
  /\ closed \in SUBSET SessionIds

SupersededRows(s, g) ==
  {[sessionId |-> s, generation |-> i, tokenHash |-> MintedToken(s, i)] : i \in 0 .. g - 1}

FamilyRecorded(s, session, rows) ==
  IF session = Null
  THEN rows = {}
  ELSE /\ session.tokenHash = MintedToken(s, session.refreshGeneration)
       /\ rows = SupersededRows(s, session.refreshGeneration)

\* The rows of one session in auth_refresh_token_history are its superseded
\* generations, each once and with the token minted for it; the current one
\* is in auth_sessions only.  So every token a client was ever given is
\* either current or recognised as used, and (session_id, generation) and
\* token_hash stay unique, as the table's constraints demand.
RotationHistory ==
  \A s \in SessionIds : FamilyRecorded(s, sessions[s], {h \in history : h.sessionId = s})

\* Once a token that was already exchanged is presented to refresh, or any
\* issued token to logout, its session is revoked, however rotations,
\* retries and duplicates interleave.
ClosedSessionsRevoked ==
  \A s \in closed : sessions[s] # Null /\ sessions[s].revoked

\* Whatever failed logins, successful logins, password changes and
\* activations interleave, an account carries a lock exactly when its counter
\* has reached the threshold, and never one longer than the lockout duration.
LockoutConsistent ==
  \A u \in Users :
    /\ accounts[u].lockedUntil # Null <=> accounts[u].failedLoginAttempts >= LockoutThreshold
    /\ accounts[u].lockedUntil # Null =>
         accounts[u].lockedUntil <= now + ClockDrift + LockoutDuration

\* The CHECK of auth_sessions (idle_expires_at <= expires_at) never aborts a
\* login, a rotation or the guard, and no session can be left idle longer
\* than the idle timeout.
SessionDeadlines ==
  \A s \in SessionIds : sessions[s] # Null =>
    /\ sessions[s].idleExpiresAt <= sessions[s].expiresAt
    /\ sessions[s].idleExpiresAt <= now + ClockDrift + IdleTimeout

\* Revoked, or expired on every clock.
Dead(s) ==
  /\ sessions[s] # Null
  /\ \/ sessions[s].revoked
     \/ sessions[s].expiresAt + ClockDrift <= now
     \/ sessions[s].idleExpiresAt + ClockDrift <= now

\* Its account is suspended or deactivated, or locked on every clock.
Barred(s) ==
  /\ sessions[s] # Null
  /\ LET account == accounts[sessions[s].userId]
     IN  account.accountStatus # "active" \/ LockedAt(account, now + ClockDrift)

\* A revoked or expired session never comes back, and none lives on under an
\* account that was suspended, deactivated or locked meanwhile: no refresh,
\* guard check or login gives it a new token or a later deadline, or clears
\* its revocation.
DeadSessionsFrozen ==
  [][\A s \in SessionIds : Dead(s) \/ Barred(s) =>
       sessions'[s] \in {sessions[s], [sessions[s] EXCEPT !.revoked = TRUE]}]_vars

\* The login r ends in this step.
Ends(r) == logins[r] # Null /\ logins'[r] = Null

\* A session is created only by a login whose password is the account's
\* password at that moment, for an account active and unlocked at that
\* moment, although the password was verified against an earlier read.
SessionsNeedCurrentCredentials ==
  [][\A s \in SessionIds : sessions[s] = Null /\ sessions'[s] # Null =>
       \E r \in Requests :
         /\ Ends(r)
         /\ logins[r].userId = sessions'[s].userId
         /\ LET account == accounts[logins[r].userId]
            IN  /\ PasswordMatches(account.passwordHash, logins[r].password)
                /\ account.accountStatus = "active"
                /\ ~IsCurrentlyLocked(account)]_vars

\* While a lock runs, only a change of the password or an activation lifts
\* it: no login that read the account before the lock clears or shortens it
\* (by more than the clocks differ).
LockHolds ==
  [][\A u \in Users :
       LockedAt(accounts[u], now + ClockDrift)
       /\ accounts'[u].passwordHash = accounts[u].passwordHash
       /\ (accounts[u].accountStatus = "pending_activation" =>
             accounts'[u].accountStatus = "pending_activation")
       => /\ accounts'[u].lockedUntil # Null
          /\ accounts'[u].lockedUntil + ClockDrift + ClockDrift >= accounts[u].lockedUntil]_vars

FamilyOf(s) ==
  IF sessions[s] = Null
  THEN [state |-> "unborn", generation |-> 0]
  ELSE [state |-> IF sessions[s].revoked THEN "ended" ELSE "live",
        generation |-> sessions[s].refreshGeneration]

Families == INSTANCE TokenFamilies
              WITH Sessions <- SessionIds, families <- [s \in SessionIds |-> FamilyOf(s)]

\* The tables keep the promise of TokenFamilies: the tokens of a session are
\* exchanged one by one while it lives, and an ended family stays ended.
ImplementsFamilies == Families!FamiliesSpec

\* README.md:122: "A forged token does not revoke a legitimate session."  A
\* session is legitimate here when it is unrevoked and unexpired and its
\* account is active.
Legitimate(s) ==
  /\ sessions[s] # Null
  /\ ~sessions[s].revoked
  /\ UnexpiredAt(sessions[s], now)
  /\ accounts[sessions[s].userId].accountStatus = "active"

ForgedTokenRevokesNothing ==
  [][\A token \in Presentable \ Issued :
       Legitimate(token.sessionId) /\ (\E t \in DbTimes : RefreshAuthentication(token, t))
       => ~sessions'[token.sessionId].revoked]_vars

=============================================================================
