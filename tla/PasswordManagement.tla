------------------------- MODULE PasswordManagement -------------------------
(***************************************************************************)
(* Forgotten, reset and changed passwords -- PasswordManagementService.ts  *)
(* and PasswordResetRepository.ts -- running together with the logins,     *)
(* refreshes and guards of AuthSessions.                                   *)
(*                                                                         *)
(* Each call is two steps: it reads and checks without a lock and opens    *)
(* its transaction, then the transaction locks the rows, checks again and  *)
(* commits or rolls back.  NOW() is the time the transaction was opened,   *)
(* which the created_at and revoked_at columns record and a CHECK          *)
(* constraint compares; both clocks agree on it here.                      *)
(***************************************************************************)
EXTENDS AuthSessions

CONSTANTS
  ResetTokens,      \* the random tokens, and their rows
  Calls,            \* password calls that can be in flight at one time
  ResetValidity,                        \* auth_settings
  TerminateSessionsOnPasswordReset,     \* auth_settings
  TerminateOtherSessionsOnPasswordChange

ASSUME PasswordSettingsAssumption ==
  /\ ResetValidity \in Nat \ {0}
  /\ TerminateSessionsOnPasswordReset \in BOOLEAN
  /\ TerminateOtherSessionsOnPasswordChange \in BOOLEAN

VARIABLES
  resetTokens,   \* password_reset_tokens
  calls,         \* the password calls in flight
  outbox,        \* the events enqueued in auth_outbox_events
  failed,        \* observation: operations answered with an internal error
  provenBy,      \* observation: the hash each session's login verified, or its change set
  issuedUnder    \* observation: the account's hash when a token was issued

pmTables == <<resetTokens, calls, outbox, failed, issuedUnder>>
pmVars == <<vars, resetTokens, calls, outbox, failed, provenBy, issuedUnder>>

ResetRow == [userId : Users, createdAt : Time, expiresAt : Time,
             used : BOOLEAN, revoked : BOOLEAN]

ASSUME NullRowsAssumption ==
  /\ Null \notin ResetRow
  /\ Null \notin [proves : Nat, revoked : BOOLEAN]

Call ==
  [op : {"request"}, userId : Users, expiresAt : Time, began : Time]
  \cup [op : {"reset"}, token : ResetTokens, password : Passwords, began : Time]
  \cup [op : {"change"}, session : SessionIds, userId : Users,
        current : Passwords, password : Passwords, began : Time]

HasActivePassword(u) ==
  /\ accounts[u].accountStatus = "active"
  /\ accounts[u].passwordHash # Null

Unused(token) ==
  resetTokens[token] # Null /\ ~resetTokens[token].used /\ ~resetTokens[token].revoked

UnusedOf(u) == {token \in ResetTokens : Unused(token) /\ resetTokens[token].userId = u}

AssertValidReset(token) ==
  /\ Unused(token)
  /\ HasActivePassword(resetTokens[token].userId)
  /\ resetTokens[token].expiresAt > now

\* CHECK (revoked_at >= created_at) on the rows a transaction that began at t
\* is about to revoke.
CheckAllowsRevoking(tokens, t) ==
  \A token \in tokens : resetTokens[token].createdAt <= t

\* Mutant: a link that was already mailed stays valid.
RevokeTokens_Never(tokens) == resetTokens

RevokeTokens(tokens) ==
  [token \in ResetTokens |-> IF token \in tokens
                             THEN [resetTokens[token] EXCEPT !.revoked = TRUE]
                             ELSE resetTokens[token]]

Open(c, call) ==
  /\ calls[c] = Null
  /\ calls' = [calls EXCEPT ![c] = call]

Done(c) == calls' = [calls EXCEPT ![c] = Null]

Running(c, op) == calls[c] # Null /\ calls[c].op = op

----------------------------------------------------------------------------
(* requestPasswordReset *)

RequestBegin(c, u) ==
  /\ HasActivePassword(u)
  /\ Open(c, [op |-> "request", userId |-> u,
              expiresAt |-> now + ResetValidity, began |-> now])
  /\ UNCHANGED <<vars, resetTokens, outbox, failed, provenBy, issuedUnder>>

\* Mutant: used_at is not initialised.
NewResetRow_NoFlag(call) ==
  [userId |-> call.userId, createdAt |-> call.began, expiresAt |-> call.expiresAt,
   used |-> Null, revoked |-> FALSE]

NewResetRow(call) ==
  [userId |-> call.userId, createdAt |-> call.began, expiresAt |-> call.expiresAt,
   used |-> FALSE, revoked |-> FALSE]

RequestCommit(c, token) ==
  /\ Running(c, "request")
  /\ LET u == calls[c].userId
     IN  /\ HasActivePassword(u)
         /\ CheckAllowsRevoking(UnusedOf(u), calls[c].began)
         /\ resetTokens[token] = Null
         /\ resetTokens' = [RevokeTokens(UnusedOf(u)) EXCEPT ![token] = NewResetRow(calls[c])]
         /\ outbox' = outbox \cup {[type |-> "password.reset.requested", token |-> token]}
         /\ issuedUnder' = [issuedUnder EXCEPT ![token] = accounts[u].passwordHash]
  /\ Done(c)
  /\ UNCHANGED <<vars, failed, provenBy>>

\* The account stopped being active meanwhile; the answer is the same.
RequestIgnored(c) ==
  /\ Running(c, "request")
  /\ ~HasActivePassword(calls[c].userId)
  /\ Done(c)
  /\ UNCHANGED <<vars, resetTokens, outbox, failed, provenBy, issuedUnder>>

\* The constraint rejects a revoked_at older than the created_at of a token
\* committed by a transaction that began later but took the lock first.
RequestFails(c) ==
  /\ Running(c, "request")
  /\ HasActivePassword(calls[c].userId)
  /\ ~CheckAllowsRevoking(UnusedOf(calls[c].userId), calls[c].began)
  /\ failed' = failed \cup {"request"}
  /\ Done(c)
  /\ UNCHANGED <<vars, resetTokens, outbox, provenBy, issuedUnder>>

----------------------------------------------------------------------------
(* resetPassword *)

PasswordUnchanged(u, password) == PasswordMatches(accounts[u].passwordHash, password)

ResetBegin(c, token, password) ==
  /\ AssertValidReset(token)
  /\ ~PasswordUnchanged(resetTokens[token].userId, password)
  /\ Open(c, [op |-> "reset", token |-> token, password |-> password, began |-> now])
  /\ UNCHANGED <<vars, resetTokens, outbox, failed, provenBy, issuedUnder>>

ResetAllowed(call) ==
  /\ AssertValidReset(call.token)
  /\ ~PasswordUnchanged(resetTokens[call.token].userId, call.password)

\* The sessions revokeUserSessions leaves alone.
KeptByReset(u) == IF TerminateSessionsOnPasswordReset THEN {} ELSE UserSessions(u)

\* The CHECK constraint cannot fail here: a valid link is the only
\* outstanding one of its account (OutstandingLinkIsCurrent).
ResetCommit(c) ==
  /\ Running(c, "reset")
  /\ ResetAllowed(calls[c])
  /\ LET token == calls[c].token
         u == resetTokens[token].userId
     IN  /\ CheckAllowsRevoking(UnusedOf(u) \ {token}, calls[c].began)
         /\ ReplacePassword(u, calls[c].password, KeptByReset(u))
         /\ resetTokens' = [RevokeTokens(UnusedOf(u) \ {token}) EXCEPT ![token].used = TRUE]
         /\ outbox' = outbox \cup {[type |-> "password.reset.completed", token |-> token]}
  /\ Done(c)
  /\ UNCHANGED <<failed, provenBy, issuedUnder>>

ResetRejected(c) ==
  /\ Running(c, "reset")
  /\ ~ResetAllowed(calls[c])
  /\ Done(c)
  /\ UNCHANGED <<vars, resetTokens, outbox, failed, provenBy, issuedUnder>>

----------------------------------------------------------------------------
(* changePassword, behind the bearer guard *)

ChangeBegin(c, s, current, password) ==
  /\ FindActiveSession(s, now)
  /\ Open(c, [op |-> "change", session |-> s, userId |-> sessions[s].userId,
              current |-> current, password |-> password, began |-> now])
  /\ UNCHANGED <<resetTokens, outbox, failed, provenBy, issuedUnder>>

\* Mutant: the current password is not asked for again under the lock.
ChangeAllowed_NoVerify(call) ==
  /\ HasActivePassword(call.userId)
  /\ ~PasswordUnchanged(call.userId, call.password)

ChangeAllowed(call) ==
  /\ HasActivePassword(call.userId)
  /\ PasswordMatches(accounts[call.userId].passwordHash, call.current)
  /\ ~PasswordUnchanged(call.userId, call.password)

KeptByChange(u, s) ==
  IF TerminateOtherSessionsOnPasswordChange THEN {s} ELSE UserSessions(u)

ChangeCommit(c) ==
  /\ Running(c, "change")
  /\ ChangeAllowed(calls[c])
  /\ LET u == calls[c].userId
     IN  /\ CheckAllowsRevoking(UnusedOf(u), calls[c].began)
         /\ ReplacePassword(u, calls[c].password, KeptByChange(u, calls[c].session))
         /\ resetTokens' = RevokeTokens(UnusedOf(u))
         /\ outbox' = outbox \cup {[type |-> "password.changed",
                                    hash |-> accounts'[u].passwordHash]}
         /\ provenBy' = [provenBy EXCEPT ![calls[c].session] = accounts'[u].passwordHash]
  /\ Done(c)
  /\ UNCHANGED <<failed, issuedUnder>>

ChangeRejected(c) ==
  /\ Running(c, "change")
  /\ ~ChangeAllowed(calls[c])
  /\ Done(c)
  /\ UNCHANGED <<vars, resetTokens, outbox, failed, provenBy, issuedUnder>>

ChangeFails(c) ==
  /\ Running(c, "change")
  /\ ChangeAllowed(calls[c])
  /\ ~CheckAllowsRevoking(UnusedOf(calls[c].userId), calls[c].began)
  /\ failed' = failed \cup {"change"}
  /\ Done(c)
  /\ UNCHANGED <<vars, resetTokens, outbox, provenBy, issuedUnder>>

----------------------------------------------------------------------------
(* The rest of the service *)

LoginStep ==
  \/ \E r \in Requests, s \in SessionIds :
       /\ LoginCommit(r, s)
       /\ provenBy' = [provenBy EXCEPT ![s] = logins[r].user.passwordHash]
       /\ UNCHANGED pmTables
  \/ \E r \in Requests : LoginChecks(r) /\ UNCHANGED <<pmTables, provenBy>>

OtherStep ==
  /\ \/ SessionNext
     \/ Tick
     \/ \E u \in Users :
          \/ \E h \in InitialHashes(u) : Activate(u, h)
          \/ \E status \in AccountStatus : SetAccountStatus(u, status)
  /\ UNCHANGED <<pmTables, provenBy>>

PMInit ==
  /\ Init
  /\ resetTokens = [token \in ResetTokens |-> Null]
  /\ calls = [c \in Calls |-> Null]
  /\ outbox = {}
  /\ failed = {}
  /\ provenBy = [s \in SessionIds |-> Null]
  /\ issuedUnder = [token \in ResetTokens |-> Null]

PasswordNext ==
  \E c \in Calls :
    \/ \E u \in Users : RequestBegin(c, u)
    \/ \E token \in ResetTokens : RequestCommit(c, token)
    \/ RequestIgnored(c)
    \/ RequestFails(c)
    \/ \E token \in ResetTokens, p \in Passwords : ResetBegin(c, token, p)
    \/ ResetCommit(c)
    \/ ResetRejected(c)
    \/ \E s \in SessionIds, p \in Passwords, q \in Passwords : ChangeBegin(c, s, p, q)
    \/ ChangeCommit(c)
    \/ ChangeRejected(c)
    \/ ChangeFails(c)

PMNext == PasswordNext \/ LoginStep \/ OtherStep

PMSpec == PMInit /\ [][PMNext]_pmVars

----------------------------------------------------------------------------
(* Properties *)

\* Every variable has its type.
PMTypeOK ==
  /\ TypeOK
  /\ resetTokens \in [ResetTokens -> ResetRow \cup {Null}]
  /\ calls \in [Calls -> Call \cup {Null}]
  /\ failed \subseteq {"request", "change"}
  /\ provenBy \in [SessionIds -> PasswordHash \cup {Null}]
  /\ issuedUnder \in [ResetTokens -> PasswordHash \cup {Null}]

\* However requests, resets and changes interleave, an account has at most
\* one outstanding link, and it was issued under the password the account
\* has now: no link mailed before a password change can undo the change.
OutstandingLinkIsCurrent ==
  \A u \in Users :
    /\ Cardinality(UnusedOf(u)) <= 1
    /\ \A token \in UnusedOf(u) : issuedUnder[token] = accounts[u].passwordHash

\* With both terminate settings on, every live session logged in with the
\* account's current password, or set it: no login, reset or change in flight
\* leaves an older session behind.
SessionsFollowPassword ==
  TerminateSessionsOnPasswordReset /\ TerminateOtherSessionsOnPasswordChange =>
    \A s \in SessionIds : sessions[s] # Null /\ ~sessions[s].revoked =>
      provenBy[s] = accounts[sessions[s].userId].passwordHash

\* A used or revoked link is never touched again, so never used twice.
SettledTokensFrozen ==
  [][\A token \in ResetTokens :
       resetTokens[token] # Null /\ ~Unused(token)
         => resetTokens'[token] = resetTokens[token]]_pmVars

\* An active account's password is replaced only in a step that spends an
\* outstanding link of it, unexpired at the check under the lock, or that ends
\* a change whose caller named the password the account has at that moment.
ReplacementIsAuthorised ==
  [][\A u \in Users :
       accounts[u].accountStatus = "active"
       /\ accounts'[u].passwordHash # accounts[u].passwordHash =>
         \/ \E token \in UnusedOf(u) : /\ resetTokens'[token].used
                                       /\ resetTokens[token].expiresAt > now
         \/ \E c \in Calls :
              /\ Running(c, "change") /\ calls'[c] = Null
              /\ calls[c].userId = u
              /\ PasswordMatches(accounts[u].passwordHash, calls[c].current)]_pmVars

\* The rows of one account, as CredentialRows has them: with both terminate
\* settings on, what is done to them are its single steps (CallsImplementRows).
PasswordNumber(u) ==
  IF accounts[u].passwordHash = Null THEN 0 ELSE accounts[u].passwordHash.version

SessionRowOf(u, id) ==
  IF id \in UserSessions(u)
  THEN [proves |-> provenBy[id].version, revoked |-> sessions[id].revoked]
  ELSE Null

LinkState(row) == IF row.used THEN "used" ELSE IF row.revoked THEN "revoked" ELSE "open"

LinkOf(u, id) ==
  IF id \in ResetTokens /\ resetTokens[id] # Null /\ resetTokens[id].userId = u
  THEN LinkState(resetTokens[id])
  ELSE "none"

SessionsOf(u) == [id \in SessionIds \cup ResetTokens |-> SessionRowOf(u, id)]

LinksOf(u) == [id \in SessionIds \cup ResetTokens |-> LinkOf(u, id)]

Rows(u) == INSTANCE CredentialRows
             WITH Ids <- SessionIds \cup ResetTokens, password <- PasswordNumber(u),
                  sessions <- SessionsOf(u), links <- LinksOf(u)

\* README.md:166: "The endpoint always returns the same accepted response for
\* syntactically valid email addresses, whether or not an active account
\* exists."
RequestAlwaysAccepted == "request" \notin failed

=============================================================================
