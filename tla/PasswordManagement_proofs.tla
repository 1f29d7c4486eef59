---------------------- MODULE PasswordManagement_proofs ----------------------
(***************************************************************************)
(* Proofs about PasswordManagement, for every value of its constants.      *)
(*                                                                         *)
(* The password calls are first shown to do nothing to the tables of       *)
(* AuthSessions that Spec does not allow; what is proved of Spec then      *)
(* holds with resets and changes in flight.                                *)
(***************************************************************************)
EXTENDS PasswordManagement, AuthSessions_proofs, FiniteSetTheorems

USE SettingsAssumption, BoundsAssumption, NullAssumption, NullRowAssumption,
    PasswordSettingsAssumption DEF Time

----------------------------------------------------------------------------
(* The password calls are steps of AuthSessions *)

\* The session behind a running change is a row of its account: the guard
\* found it, and rows stay.
CallersKnown ==
  \A c \in Calls : Running(c, "change") =>
    /\ calls[c].session \in SessionIds
    /\ sessions[calls[c].session] # Null
    /\ sessions[calls[c].session].userId = calls[c].userId

\* The types of the variables that PasswordManagement adds.
TablesTyped ==
  /\ resetTokens \in [ResetTokens -> ResetRow \cup {Null}]
  /\ calls \in [Calls -> Call \cup {Null}]
  /\ failed \subseteq {"request", "change"}
  /\ provenBy \in [SessionIds -> PasswordHash \cup {Null}]
  /\ issuedUnder \in [ResetTokens -> PasswordHash \cup {Null}]

Composed == TypeOK /\ TablesTyped /\ CallersKnown

LEMMA CallTypes ==
  ASSUME TablesTyped, NEW c \in Calls
  PROVE  /\ Running(c, "request") =>
              /\ calls[c].userId \in Users
              /\ calls[c].expiresAt \in Nat
              /\ calls[c].began \in Nat
         /\ Running(c, "reset") =>
              /\ calls[c].token \in ResetTokens
              /\ calls[c].password \in Passwords
         /\ Running(c, "change") =>
              /\ calls[c].session \in SessionIds
              /\ calls[c].userId \in Users
              /\ calls[c].password \in Passwords
BY DEF TablesTyped, Running, Call

LEMMA UnusedTypes ==
  ASSUME TablesTyped, NEW token \in ResetTokens, Unused(token)
  PROVE  /\ resetTokens[token] \in ResetRow
         /\ resetTokens[token].userId \in Users
         /\ resetTokens[token].used = FALSE
         /\ resetTokens[token].revoked = FALSE
BY DEF TablesTyped, Unused, ResetRow

\* A reset or change that commits replaces a password as AuthSessions says.
LEMMA CommitsReplace ==
  ASSUME Composed, NEW c \in Calls
  PROVE  /\ ResetCommit(c) =>
              LET u == resetTokens[calls[c].token].userId
              IN  /\ u \in Users
                  /\ calls[c].password \in Passwords
                  /\ KeptByReset(u) \in Kept(u)
                  /\ ReplacePassword(u, calls[c].password, KeptByReset(u))
         /\ ChangeCommit(c) =>
              LET u == calls[c].userId
              IN  /\ u \in Users
                  /\ calls[c].password \in Passwords
                  /\ KeptByChange(u, calls[c].session) \in Kept(u)
                  /\ ReplacePassword(u, calls[c].password, KeptByChange(u, calls[c].session))
<1>1. ASSUME ResetCommit(c)
      PROVE  LET u == resetTokens[calls[c].token].userId
             IN  /\ u \in Users
                 /\ calls[c].password \in Passwords
                 /\ KeptByReset(u) \in Kept(u)
                 /\ ReplacePassword(u, calls[c].password, KeptByReset(u))
  <2>1. Running(c, "reset") /\ Unused(calls[c].token)
    BY <1>1 DEF ResetCommit, ResetAllowed, AssertValidReset
  <2>2. calls[c].token \in ResetTokens /\ calls[c].password \in Passwords
    BY <2>1, CallTypes DEF Composed
  <2>3. resetTokens[calls[c].token].userId \in Users
    BY <2>1, <2>2, UnusedTypes DEF Composed
  <2> QED
    BY <1>1, <2>2, <2>3 DEF ResetCommit, KeptByReset, Kept
<1>2. ASSUME ChangeCommit(c)
      PROVE  LET u == calls[c].userId
             IN  /\ u \in Users
                 /\ calls[c].password \in Passwords
                 /\ KeptByChange(u, calls[c].session) \in Kept(u)
                 /\ ReplacePassword(u, calls[c].password, KeptByChange(u, calls[c].session))
  <2>1. Running(c, "change")
    BY <1>2 DEF ChangeCommit
  <2>2. /\ calls[c].userId \in Users
        /\ calls[c].password \in Passwords
        /\ calls[c].session \in UserSessions(calls[c].userId)
    BY <2>1, CallTypes DEF Composed, CallersKnown, UserSessions
  <2> QED
    BY <1>2, <2>2 DEF ChangeCommit, KeptByChange, Kept
<1> QED
  BY <1>1, <1>2

\* What a step of PasswordNext that leaves AuthSessions' tables alone is.
CallStep(c) ==
  \/ \E u \in Users : RequestBegin(c, u)
  \/ \E token \in ResetTokens : RequestCommit(c, token)
  \/ RequestIgnored(c)
  \/ RequestFails(c)
  \/ \E token \in ResetTokens, p \in Passwords : ResetBegin(c, token, p)
  \/ ResetRejected(c)
  \/ ChangeRejected(c)
  \/ ChangeFails(c)

LEMMA CallStepsKeepTables ==
  ASSUME NEW c \in Calls, CallStep(c)
  PROVE  UNCHANGED vars /\ UNCHANGED provenBy
BY DEF CallStep, RequestBegin, RequestCommit, RequestIgnored, RequestFails, ResetBegin,
       ResetRejected, ChangeRejected, ChangeFails

LEMMA PasswordStepCases ==
  ASSUME PasswordNext
  PROVE  \E c \in Calls :
           \/ CallStep(c)
           \/ \E s \in SessionIds, p \in Passwords, q \in Passwords : ChangeBegin(c, s, p, q)
           \/ ResetCommit(c)
           \/ ChangeCommit(c)
BY DEF PasswordNext, CallStep

LEMMA StepIsAuthStep ==
  ASSUME Composed, [PMNext]_pmVars
  PROVE  [Next]_vars
<1>1. ASSUME NEW c \in Calls, CallStep(c)
      PROVE  UNCHANGED vars
  BY <1>1, CallStepsKeepTables
<1>2. ASSUME NEW c \in Calls, NEW s \in SessionIds, NEW p \in Passwords, NEW q \in Passwords,
             ChangeBegin(c, s, p, q)
      PROVE  Next
  <2>1. now \in DbTimes
    BY DEF Composed, TypeOK, DbTimes
  <2>2. FindActiveSession(s, now)
    BY <1>2 DEF ChangeBegin
  <2> QED
    BY <2>1, <2>2 DEF Next, SessionNext
<1>3. ASSUME NEW c \in Calls, ResetCommit(c) \/ ChangeCommit(c)
      PROVE  Next
  <2>1. \E u \in Users : \E p \in Passwords, k \in Kept(u) : ReplacePassword(u, p, k)
    BY <1>3, CommitsReplace
  <2>2. AccountNext
    BY <2>1 DEF AccountNext
  <2> QED
    BY <2>2 DEF Next
<1>4. CASE LoginStep
  BY <1>4 DEF LoginStep, Next, LoginNext
<1>5. CASE OtherStep
  BY <1>5 DEF OtherStep, Next, AccountNext
<1>6. CASE UNCHANGED pmVars
  BY <1>6 DEF pmVars
<1> QED
  BY <1>1, <1>2, <1>3, <1>4, <1>5, <1>6, PasswordStepCases DEF PMNext

LEMMA RowsStay ==
  ASSUME TypeOK, [Next]_vars, NEW s \in SessionIds, sessions[s] # Null
  PROVE  sessions'[s] # Null /\ sessions'[s].userId = sessions[s].userId
<1> USE DEF TypeOK
<1>1. sessions[s] \in Session
  OBVIOUS
<1>2. CASE \E r \in Requests, i \in SessionIds : LoginCommit(r, i)
  BY <1>2 DEF LoginCommit
<1>3. CASE \E ended \in SUBSET SessionIds : Revoked(ended)
  <2>1. sessions'[s] = [sessions[s] EXCEPT !.revoked = TRUE] \/ sessions'[s] = sessions[s]
    BY <1>3 DEF Revoked
  <2>2. [sessions[s] EXCEPT !.revoked = TRUE].userId = sessions[s].userId
    BY <1>1 DEF Session
  <2> QED
    BY <1>1, <2>1, <2>2, RevokedRow
<1>4. ASSUME NEW token \in Presentable, NEW t \in DbTimes, RefreshRotated(token, t)
      PROVE  sessions'[s] # Null /\ sessions'[s].userId = sessions[s].userId
  <2>1. token.sessionId \in SessionIds /\ t \in Nat
    BY PresentableType, DbTimesType DEF Token
  <2>2. CASE token.sessionId = s
    <3>1. sessions'[s] = Rotated(sessions[s], s, t)
      BY <1>4, <2>2 DEF RefreshRotated
    <3>2. TouchedIdle(sessions[s], t) \in Nat
      BY <1>1, <2>1 DEF TouchedIdle, Earlier, Session
    <3>3. MintedToken(s, sessions[s].refreshGeneration + 1) \in Token
      BY <1>1, MintedTokenType DEF Session
    <3>4. sessions[s].refreshGeneration + 1 \in Nat
      BY <1>1 DEF Session
    <3>5. /\ Rotated(sessions[s], s, t) \in Session
          /\ Rotated(sessions[s], s, t).userId = sessions[s].userId
      <4> DEFINE row    == sessions[s]
                 minted == MintedToken(s, row.refreshGeneration + 1)
                 idle   == TouchedIdle(row, t)
      <4>1. Rotated(row, s, t) = [row EXCEPT !.tokenHash = minted,
                                             !.refreshGeneration = row.refreshGeneration + 1,
                                             !.idleExpiresAt = idle]
        BY <1>1 DEF Rotated
      <4>2. row \in Session /\ minted \in Token /\ idle \in Nat /\ row.refreshGeneration + 1 \in Nat
        BY <1>1, <3>2, <3>3, <3>4
      <4> HIDE DEF row, minted, idle
      <4>3. Rotated(row, s, t) \in Session /\ Rotated(row, s, t).userId = row.userId
        BY <4>1, <4>2 DEF Session
      <4> QED
        BY <4>3 DEF row
    <3> QED
      BY <3>1, <3>5
  <2>3. CASE token.sessionId # s
    BY <1>4, <2>1, <2>3 DEF RefreshRotated
  <2> QED
    BY <2>2, <2>3
<1>5. ASSUME NEW i \in SessionIds, NEW t \in DbTimes, FindActiveSession(i, t)
      PROVE  sessions'[s] # Null /\ sessions'[s].userId = sessions[s].userId
  <2>1. t \in Nat
    BY DbTimesType
  <2>2. CASE i = s
    <3>1. sessions'[s] = [sessions[s] EXCEPT !.idleExpiresAt = TouchedIdle(sessions[s], t)]
      BY <1>5, <2>2 DEF FindActiveSession
    <3>2. TouchedIdle(sessions[s], t) \in Nat
      BY <1>1, <2>1 DEF TouchedIdle, Earlier, Session
    <3>3. [sessions[s] EXCEPT !.idleExpiresAt = TouchedIdle(sessions[s], t)] \in Session
      BY <1>1, <3>2 DEF Session
    <3> QED
      BY <1>1, <3>1, <3>3 DEF Session
  <2>3. CASE i # s
    BY <1>5, <2>3 DEF FindActiveSession
  <2> QED
    BY <2>2, <2>3
<1> QED
  BY <1>2, <1>3, <1>4, <1>5, StepIsSessionStep DEF SessionStep

\* The hash a commit gives its account.
LEMMA ReplacementSets ==
  ASSUME Composed, NEW v \in Users, NEW p \in Passwords, NEW kept, ReplacePassword(v, p, kept)
  PROVE  /\ NextVersion(accounts[v]) \in Nat
         /\ accounts'[v].passwordHash = [password |-> p, version |-> NextVersion(accounts[v])]
         /\ accounts'[v].passwordHash \in PasswordHash
<1> DEFINE hash == [password |-> p, version |-> NextVersion(accounts[v])]
<1>1. accounts' = [accounts EXCEPT ![v] = UpdatePassword(accounts[v], hash)]
  BY DEF ReplacePassword
<1>2. accounts[v] \in Account
  BY DEF Composed, TypeOK
<1>3. NextVersion(accounts[v]) \in Nat
  BY <1>2 DEF NextVersion, Account, PasswordHash
<1>4. hash \in PasswordHash
  BY <1>3 DEF PasswordHash
<1> HIDE DEF hash
<1>5. UpdatePassword(accounts[v], hash).passwordHash = hash
  BY <1>2 DEF UpdatePassword, Account
<1>6. accounts'[v].passwordHash = hash
  BY <1>1, <1>5 DEF Composed, TypeOK
<1> QED
  BY <1>3, <1>4, <1>6 DEF hash

\* What a commit does to the account it is for, and to the others.
LEMMA ReplacementOf ==
  ASSUME Composed, NEW v \in Users, NEW p \in Passwords, NEW kept, ReplacePassword(v, p, kept)
  PROVE  /\ accounts[v].accountStatus = "active"
         /\ accounts'[v].accountStatus = "active"
         /\ \A u \in Users \ {v} : accounts'[u] = accounts[u]
<1> DEFINE hash == [password |-> p, version |-> NextVersion(accounts[v])]
<1>1. accounts' = [accounts EXCEPT ![v] = UpdatePassword(accounts[v], hash)]
  BY DEF ReplacePassword
<1>2. accounts[v] \in Account /\ accounts[v].accountStatus = "active"
  BY DEF Composed, TypeOK, ReplacePassword
<1> HIDE DEF hash
<1>3. UpdatePassword(accounts[v], hash).accountStatus = "active"
  BY <1>2 DEF UpdatePassword, Account
<1> QED
  BY <1>1, <1>2, <1>3 DEF Composed, TypeOK

----------------------------------------------------------------------------
(* Type correctness *)

LEMMA RevokeTokensTypes ==
  ASSUME TablesTyped, NEW tokens \in SUBSET ResetTokens,
         \A token \in tokens : resetTokens[token] # Null
  PROVE  RevokeTokens(tokens) \in [ResetTokens -> ResetRow \cup {Null}]
<1>1. \A row \in ResetRow : [row EXCEPT !.revoked = TRUE] \in ResetRow
  BY DEF ResetRow
<1>2. \A token \in ResetTokens : resetTokens[token] \in ResetRow \cup {Null}
  BY DEF TablesTyped
<1> QED
  BY <1>1, <1>2 DEF RevokeTokens

LEMMA StepTablesTyped ==
  ASSUME Composed, [PMNext]_pmVars
  PROVE  TablesTyped'
<1> USE DEF Composed, TablesTyped
<1>1. \A u : UnusedOf(u) \in SUBSET ResetTokens /\ \A token \in UnusedOf(u) : resetTokens[token] # Null
  BY DEF UnusedOf, Unused
<1>2. now \in Nat /\ \A u \in Users : accounts[u].passwordHash \in PasswordHash \cup {Null}
  BY DEF TypeOK, Account
<1>3. ASSUME NEW c \in Calls, CallStep(c)
      PROVE  TablesTyped'
  <2>1. ASSUME NEW u \in Users, RequestBegin(c, u)
        PROVE  TablesTyped'
    <3>1. [op |-> "request", userId |-> u, expiresAt |-> now + ResetValidity, began |-> now] \in Call
      BY <1>2 DEF Call
    <3> QED
      BY <2>1, <3>1 DEF RequestBegin, Open
  <2>2. ASSUME NEW token \in ResetTokens, RequestCommit(c, token)
        PROVE  TablesTyped'
    <3>1. Running(c, "request") /\ calls[c].userId \in Users
      BY <2>2, CallTypes DEF RequestCommit
    <3>2. NewResetRow(calls[c]) \in ResetRow
      BY <3>1, CallTypes DEF NewResetRow, ResetRow
    <3>3. RevokeTokens(UnusedOf(calls[c].userId)) \in [ResetTokens -> ResetRow \cup {Null}]
      BY <1>1, RevokeTokensTypes
    <3> QED
      BY <1>2, <2>2, <3>1, <3>2, <3>3 DEF RequestCommit, Done
  <2>3. ASSUME NEW token \in ResetTokens, NEW p \in Passwords, ResetBegin(c, token, p)
        PROVE  TablesTyped'
    <3>1. [op |-> "reset", token |-> token, password |-> p, began |-> now] \in Call
      BY <1>2 DEF Call
    <3> QED
      BY <2>3, <3>1 DEF ResetBegin, Open
  <2>4. CASE RequestIgnored(c) \/ ResetRejected(c) \/ ChangeRejected(c)
    <3>1. Done(c) /\ UNCHANGED <<resetTokens, failed, provenBy, issuedUnder>>
      BY <2>4 DEF RequestIgnored, ResetRejected, ChangeRejected
    <3> QED
      BY <3>1 DEF Done
  <2>5. CASE RequestFails(c) \/ ChangeFails(c)
    <3>1. /\ Done(c) /\ UNCHANGED <<resetTokens, provenBy, issuedUnder>>
          /\ failed' = failed \cup {"request"} \/ failed' = failed \cup {"change"}
      BY <2>5 DEF RequestFails, ChangeFails
    <3> QED
      BY <3>1 DEF Done
  <2> QED
    BY <1>3, <2>1, <2>2, <2>3, <2>4, <2>5 DEF CallStep
<1>4. ASSUME NEW c \in Calls, NEW s \in SessionIds, NEW p \in Passwords, NEW q \in Passwords,
             ChangeBegin(c, s, p, q)
      PROVE  TablesTyped'
  <2>1. sessions[s].userId \in Users
    BY <1>4 DEF ChangeBegin, FindActiveSession, TypeOK, Session
  <2>2. [op |-> "change", session |-> s, userId |-> sessions[s].userId,
         current |-> p, password |-> q, began |-> now] \in Call
    BY <1>2, <2>1 DEF Call
  <2> QED
    BY <1>4, <2>2 DEF ChangeBegin, Open
<1>5. ASSUME NEW c \in Calls, ResetCommit(c)
      PROVE  TablesTyped'
  <2> DEFINE token == calls[c].token
             u == resetTokens[token].userId
             revoked == RevokeTokens(UnusedOf(u) \ {token})
  <2>1. Running(c, "reset") /\ Unused(token)
    BY <1>5 DEF ResetCommit, ResetAllowed, AssertValidReset
  <2>2. token \in ResetTokens
    BY <2>1, CallTypes
  <2>3. resetTokens[token] \in ResetRow /\ revoked \in [ResetTokens -> ResetRow \cup {Null}]
    BY <1>1, <2>1, <2>2, UnusedTypes, RevokeTokensTypes
  <2>4. revoked[token] = resetTokens[token]
    BY <2>2 DEF RevokeTokens
  <2>5. [resetTokens[token] EXCEPT !.used = TRUE] \in ResetRow
    BY <2>3 DEF ResetRow
  <2>6. resetTokens' = [revoked EXCEPT ![token].used = TRUE]
    BY <1>5 DEF ResetCommit
  <2>7. UNCHANGED <<failed, provenBy, issuedUnder>>
    BY <1>5 DEF ResetCommit
  <2>8. calls' \in [Calls -> Call \cup {Null}]
    BY <1>5 DEF ResetCommit, Done
  <2> HIDE DEF token, u, revoked
  <2>9. resetTokens' \in [ResetTokens -> ResetRow \cup {Null}]
    BY <2>2, <2>3, <2>4, <2>5, <2>6
  <2> QED
    BY <2>7, <2>8, <2>9
<1>6. ASSUME NEW c \in Calls, ChangeCommit(c)
      PROVE  TablesTyped'
  <2>1. calls[c].userId \in Users /\ calls[c].session \in SessionIds
    BY <1>6, CallTypes DEF ChangeCommit
  <2>2. RevokeTokens(UnusedOf(calls[c].userId)) \in [ResetTokens -> ResetRow \cup {Null}]
    BY <1>1, RevokeTokensTypes
  <2>3. accounts'[calls[c].userId].passwordHash \in PasswordHash
    BY <1>6, <2>1, CommitsReplace, ReplacementSets
  <2> QED
    BY <1>6, <2>1, <2>2, <2>3 DEF ChangeCommit, Done
<1>7. CASE LoginStep
  <2>1. ASSUME NEW r \in Requests, NEW s \in SessionIds, LoginCommit(r, s)
        PROVE  logins[r].user.passwordHash \in PasswordHash \cup {Null}
    BY <2>1 DEF LoginCommit, Committing, TypeOK, LoginCall, Account
  <2> QED
    BY <1>7, <2>1 DEF LoginStep, pmTables
<1>8. CASE OtherStep
  BY <1>8 DEF OtherStep, pmTables
<1>9. CASE UNCHANGED pmVars
  BY <1>9 DEF pmVars
<1> QED
  BY <1>3, <1>4, <1>5, <1>6, <1>7, <1>8, <1>9, PasswordStepCases DEF PMNext

LEMMA StepCallersKnown ==
  ASSUME Composed, [PMNext]_pmVars
  PROVE  CallersKnown'
<1> USE DEF Composed
<1>1. SUFFICES ASSUME NEW c \in Calls, Running(c, "change")'
               PROVE  /\ calls'[c].session \in SessionIds
                      /\ sessions'[calls'[c].session] # Null
                      /\ sessions'[calls'[c].session].userId = calls'[c].userId
  BY DEF CallersKnown, Running
<1>2. CASE calls'[c] = calls[c]
  <2>1. /\ calls[c].session \in SessionIds
        /\ sessions[calls[c].session] # Null
        /\ sessions[calls[c].session].userId = calls[c].userId
    BY <1>1, <1>2 DEF Running, CallersKnown
  <2> QED
    BY <1>2, <2>1, RowsStay, StepIsAuthStep
<1>3. CASE calls'[c] # calls[c]
  <2>1. ASSUME NEW d \in Calls, CallStep(d) \/ ResetCommit(d) \/ ChangeCommit(d)
        PROVE  FALSE
    <3>1. \/ Done(d)
          \/ \E u \in Users : RequestBegin(d, u)
          \/ \E token \in ResetTokens, p \in Passwords : ResetBegin(d, token, p)
      BY <2>1 DEF CallStep, RequestCommit, RequestIgnored, RequestFails, ResetRejected,
           ChangeRejected, ChangeFails, ResetCommit, ChangeCommit
    <3>2. calls'[d] = Null \/ calls'[d].op \in {"request", "reset"}
      BY <3>1 DEF RequestBegin, ResetBegin, Open, Done, TablesTyped
    <3>3. c # d => calls'[c] = calls[c]
      BY <3>1 DEF RequestBegin, ResetBegin, Open, Done, TablesTyped
    <3> QED
      BY <1>1, <1>3, <3>2, <3>3 DEF Running
  <2>2. ~(UNCHANGED calls)
    BY <1>3
  <2>3. PICK d \in Calls, s \in SessionIds, p \in Passwords, q \in Passwords : ChangeBegin(d, s, p, q)
    BY <2>1, <2>2, PasswordStepCases DEF PMNext, LoginStep, OtherStep, pmTables, pmVars
  <2>4. d = c
    BY <1>3, <2>3 DEF ChangeBegin, Open, TablesTyped
  <2>5. calls'[c].session = s /\ calls'[c].userId = sessions[s].userId /\ sessions[s] # Null
    BY <2>3, <2>4 DEF ChangeBegin, Open, FindActiveSession, TablesTyped
  <2> QED
    BY <2>5, RowsStay, StepIsAuthStep
<1> QED
  BY <1>2, <1>3

LEMMA InitComposed == PMInit => Composed
BY InitTypeOK DEF PMInit, Composed, TablesTyped, CallersKnown, Running

LEMMA StepComposed ==
  ASSUME Composed, [PMNext]_pmVars
  PROVE  Composed'
BY StepIsAuthStep, StepTypeOK, StepTablesTyped, StepCallersKnown DEF Composed

\* Requests, resets and changes, however they interleave with logins and
\* refreshes, do nothing to accounts and sessions that AuthSessions does not
\* allow its environment: what is proved of AuthSessions alone holds beside
\* them.
THEOREM PasswordCallsRefineSessions == PMSpec => Spec
<1>1. PMInit => Init
  BY DEF PMInit
<1> QED
  BY <1>1, InitComposed, StepComposed, StepIsAuthStep, PTL DEF PMSpec, Spec

\* The tables and calls of password management keep their types for any
\* number of accounts, links and calls in flight.
THEOREM PasswordTypes == PMSpec => []PMTypeOK
<1>1. Composed => PMTypeOK
  BY DEF Composed, TablesTyped, PMTypeOK
<1> QED
  BY <1>1, InitComposed, StepComposed, PTL DEF PMSpec

----------------------------------------------------------------------------
(* Links and passwords *)

Activated(u) == accounts[u].accountStatus # "pending_activation"

\* Only a reset, a change or the activation replaces the password of an
\* account, and none that was activated goes back to pending.
LEMMA OthersKeepPasswords ==
  ASSUME Composed, NEW u \in Users, LoginStep \/ OtherStep \/ UNCHANGED accounts
  PROVE  \/ \E h \in InitialHashes(u) : Activate(u, h)
         \/ /\ accounts'[u].passwordHash = accounts[u].passwordHash
            /\ Activated(u) => accounts'[u].accountStatus # "pending_activation"
<1> USE DEF Composed, TypeOK, Activated
<1>1. accounts[u] \in Account
  OBVIOUS
<1>2. ASSUME NEW r \in Requests, LoginNext
      PROVE  /\ accounts'[u].passwordHash = accounts[u].passwordHash
             /\ accounts'[u].accountStatus = accounts[u].accountStatus
  <2>1. ASSUME NEW q \in Requests, NEW t \in DbTimes, LoginRecordFailure(q, t)
        PROVE  accounts' = [accounts EXCEPT ![logins[q].userId] =
                              RecordFailedLogin(accounts[logins[q].userId], t)]
    BY <2>1 DEF LoginRecordFailure
  <2>2. ASSUME NEW q \in Requests, NEW s \in SessionIds, LoginCommit(q, s)
        PROVE  accounts' = [accounts EXCEPT ![logins[q].userId] =
                              RecordSuccessfulLogin(accounts[logins[q].userId])]
    BY <2>2 DEF LoginCommit
  <2>3. \A account \in Account : \A t :
          /\ RecordFailedLogin(account, t).passwordHash = account.passwordHash
          /\ RecordFailedLogin(account, t).accountStatus = account.accountStatus
          /\ RecordSuccessfulLogin(account).passwordHash = account.passwordHash
          /\ RecordSuccessfulLogin(account).accountStatus = account.accountStatus
    BY DEF RecordFailedLogin, RecordSuccessfulLogin, Account
  <2> QED
    BY <1>1, <1>2, <2>1, <2>2, <2>3 DEF LoginNext, LoginChecks, LoginRead, LoginRejected,
         LoginBegin, LoginRolledBack
<1>3. CASE LoginStep
  BY <1>2, <1>3 DEF LoginStep, LoginNext
<1>4. ASSUME NEW v \in Users, NEW h, v # u, Activate(v, h)
      PROVE  accounts'[u] = accounts[u]
  BY <1>4 DEF Activate
<1>5. ASSUME NEW v \in Users, NEW status \in AccountStatus, SetAccountStatus(v, status)
      PROVE  /\ accounts'[u].passwordHash = accounts[u].passwordHash
             /\ accounts'[u].accountStatus # "pending_activation" \/ accounts'[u] = accounts[u]
  BY <1>1, <1>5 DEF SetAccountStatus, Account
<1>6. CASE SessionNext \/ Tick
  BY <1>6 DEF SessionNext, Tick, RefreshAuthentication, RefreshInactive, RefreshReused,
       RefreshRejected, RefreshRotated, Logout, LogoutRevokes, LogoutIgnored, FindActiveSession
<1> QED
  BY <1>3, <1>4, <1>5, <1>6 DEF OtherStep

\* An account has one outstanding link, and it belongs to an account that was
\* activated and still has the password it was issued under.
OneLink ==
  \A a, b \in ResetTokens :
    Unused(a) /\ Unused(b) /\ resetTokens[a].userId = resetTokens[b].userId => a = b

LinksCurrent ==
  \A token \in ResetTokens : Unused(token) =>
    /\ Activated(resetTokens[token].userId)
    /\ issuedUnder[token] = accounts[resetTokens[token].userId].passwordHash

\* The unused links of this state that are not in gone.
Outlived(gone) ==
  \A token \in ResetTokens : Unused(token)' =>
    /\ Unused(token) /\ token \notin gone
    /\ resetTokens'[token] = resetTokens[token]

LEMMA RevokedAreUsedUp ==
  ASSUME TablesTyped, NEW tokens \in SUBSET ResetTokens,
         \A token \in tokens : resetTokens[token] # Null,
         NEW t \in ResetTokens
  PROVE  /\ t \in tokens => RevokeTokens(tokens)[t].revoked
         /\ t \notin tokens => RevokeTokens(tokens)[t] = resetTokens[t]
BY DEF TablesTyped, RevokeTokens, ResetRow

LEMMA ResetSpends ==
  ASSUME Composed, NEW c \in Calls, ResetCommit(c)
  PROVE  /\ Outlived(UnusedOf(resetTokens[calls[c].token].userId))
         /\ issuedUnder' = issuedUnder
         /\ calls[c].token \in UnusedOf(resetTokens[calls[c].token].userId)
         /\ resetTokens'[calls[c].token].used
         /\ resetTokens[calls[c].token].expiresAt > now
<1> DEFINE token == calls[c].token
           u == resetTokens[token].userId
           gone == UnusedOf(u)
<1> USE DEF Composed
<1>1. Running(c, "reset") /\ Unused(token) /\ resetTokens[token].expiresAt > now
  BY DEF ResetCommit, ResetAllowed, AssertValidReset
<1>2. token \in ResetTokens /\ token \in gone
  BY <1>1, CallTypes DEF UnusedOf
<1>3. /\ gone \in SUBSET ResetTokens
      /\ \A t \in gone : resetTokens[t] # Null
  BY DEF UnusedOf, Unused
<1>4. resetTokens' = [RevokeTokens(gone \ {token}) EXCEPT ![token].used = TRUE]
      /\ issuedUnder' = issuedUnder
  BY DEF ResetCommit
<1>5. resetTokens[token] \in ResetRow
  BY <1>1, <1>2, UnusedTypes
<1> HIDE DEF token, u, gone
<1>6. RevokeTokens(gone \ {token}) \in [ResetTokens -> ResetRow \cup {Null}]
  BY <1>3, RevokeTokensTypes
<1>7. RevokeTokens(gone \ {token})[token] = resetTokens[token]
  BY <1>2, <1>3, RevokedAreUsedUp
<1>8. resetTokens'[token].used
  BY <1>2, <1>4, <1>5, <1>6, <1>7 DEF ResetRow
<1>9. ASSUME NEW t \in ResetTokens, Unused(t)'
      PROVE  Unused(t) /\ t \notin gone /\ resetTokens'[t] = resetTokens[t]
  <2>1. t # token
    BY <1>8, <1>9 DEF Unused
  <2>2. resetTokens'[t] = RevokeTokens(gone \ {token})[t]
    BY <1>4, <1>6, <2>1
  <2>3. t \notin gone
    BY <1>3, <1>9, <2>1, <2>2, RevokedAreUsedUp DEF Unused
  <2>4. resetTokens'[t] = resetTokens[t]
    BY <1>3, <2>2, <2>3, RevokedAreUsedUp
  <2> QED
    BY <1>9, <2>3, <2>4 DEF Unused
<1> QED
  BY <1>1, <1>2, <1>4, <1>8, <1>9 DEF Outlived, token, u, gone

LEMMA ChangeSpends ==
  ASSUME Composed, NEW c \in Calls, ChangeCommit(c)
  PROVE  Outlived(UnusedOf(calls[c].userId)) /\ issuedUnder' = issuedUnder
<1> DEFINE gone == UnusedOf(calls[c].userId)
<1>1. resetTokens' = RevokeTokens(gone) /\ issuedUnder' = issuedUnder
  BY DEF ChangeCommit
<1>2. gone \in SUBSET ResetTokens /\ \A t \in gone : resetTokens[t] # Null
  BY DEF UnusedOf, Unused
<1> HIDE DEF gone
<1>3. ASSUME NEW t \in ResetTokens, Unused(t)'
      PROVE  Unused(t) /\ t \notin gone /\ resetTokens'[t] = resetTokens[t]
  <2>1. t \notin gone
    BY <1>1, <1>2, <1>3, RevokedAreUsedUp DEF Unused, Composed
  <2> QED
    BY <1>1, <1>2, <1>3, <2>1, RevokedAreUsedUp DEF Unused, Composed
<1> QED
  BY <1>1, <1>3 DEF Outlived, gone

\* A step that mails no link keeps those that are left, if it replaces only
\* the password of an account whose links are gone.
LEMMA OutlivedKeepLinks ==
  ASSUME Composed, OneLink, LinksCurrent, NEW gone, Outlived(gone), issuedUnder' = issuedUnder,
         \A u \in Users : Activated(u) =>
           /\ accounts'[u].accountStatus # "pending_activation"
           /\ \/ accounts'[u].passwordHash = accounts[u].passwordHash
              \/ UnusedOf(u) \subseteq gone
  PROVE  OneLink' /\ LinksCurrent'
<1>1. OneLink'
  BY DEF Outlived, OneLink
<1>2. ASSUME NEW token \in ResetTokens, Unused(token)'
      PROVE  /\ Activated(resetTokens[token].userId)'
             /\ issuedUnder'[token] = accounts'[resetTokens'[token].userId].passwordHash
  <2> DEFINE u == resetTokens[token].userId
  <2>1. Unused(token) /\ token \notin gone /\ resetTokens'[token] = resetTokens[token]
    BY <1>2 DEF Outlived
  <2>2. u \in Users /\ token \in UnusedOf(u)
    BY <2>1, UnusedTypes DEF UnusedOf, Composed
  <2>3. Activated(u) /\ issuedUnder[token] = accounts[u].passwordHash
    BY <2>1 DEF LinksCurrent
  <2>4. accounts'[u].accountStatus # "pending_activation"
        /\ accounts'[u].passwordHash = accounts[u].passwordHash
    BY <2>1, <2>2, <2>3
  <2> QED
    BY <2>1, <2>3, <2>4 DEF Activated
<1> QED
  BY <1>1, <1>2 DEF LinksCurrent

LEMMA RequestKeepsLinks ==
  ASSUME Composed, OneLink, LinksCurrent, NEW c \in Calls, NEW token \in ResetTokens,
         RequestCommit(c, token)
  PROVE  OneLink' /\ LinksCurrent'
<1> DEFINE u    == calls[c].userId
           row  == NewResetRow(calls[c])
           gone == UnusedOf(u)
<1> USE DEF Composed
<1>1. Running(c, "request") /\ HasActivePassword(u) /\ accounts' = accounts
  BY DEF RequestCommit, vars
<1>2. u \in Users /\ Activated(u)
  BY <1>1, CallTypes DEF HasActivePassword, Activated
<1>3. resetTokens' = [RevokeTokens(gone) EXCEPT ![token] = row]
      /\ issuedUnder' = [issuedUnder EXCEPT ![token] = accounts[u].passwordHash]
  BY DEF RequestCommit
<1>4. gone \in SUBSET ResetTokens /\ \A t \in gone : resetTokens[t] # Null
  BY DEF UnusedOf, Unused
<1>5. row.userId = u
  BY DEF NewResetRow
<1>6. \A t \in ResetTokens : (Unused(t) /\ resetTokens[t].userId = u) <=> t \in gone
  BY DEF UnusedOf
<1> HIDE DEF row, gone, u
<1>7. RevokeTokens(gone) \in [ResetTokens -> ResetRow \cup {Null}]
  BY <1>4, RevokeTokensTypes
<1>8. resetTokens'[token] = row /\ issuedUnder'[token] = accounts[u].passwordHash
  BY <1>3, <1>7 DEF TablesTyped
<1>9. ASSUME NEW t \in ResetTokens, t # token, Unused(t)'
      PROVE  /\ Unused(t) /\ t \notin gone
             /\ resetTokens'[t] = resetTokens[t]
             /\ issuedUnder'[t] = issuedUnder[t]
  <2>1. resetTokens'[t] = RevokeTokens(gone)[t] /\ issuedUnder'[t] = issuedUnder[t]
    BY <1>3, <1>7, <1>9 DEF TablesTyped
  <2>2. t \notin gone
    BY <1>4, <1>9, <2>1, RevokedAreUsedUp DEF Unused
  <2>3. resetTokens'[t] = resetTokens[t]
    BY <1>4, <2>1, <2>2, RevokedAreUsedUp
  <2> QED
    BY <1>9, <2>1, <2>2, <2>3 DEF Unused
<1>10. OneLink'
  <2>1. ASSUME NEW a \in ResetTokens, NEW b \in ResetTokens, Unused(a)', Unused(b)',
               resetTokens'[a].userId = resetTokens'[b].userId
        PROVE  a = b
    <3>1. CASE a # token /\ b # token
      BY <1>9, <2>1, <3>1 DEF OneLink
    <3>2. CASE a = token /\ b # token
      BY <1>5, <1>6, <1>8, <1>9, <2>1, <3>2
    <3>3. CASE a # token /\ b = token
      BY <1>5, <1>6, <1>8, <1>9, <2>1, <3>3
    <3> QED
      BY <3>1, <3>2, <3>3
  <2> QED
    BY <2>1 DEF OneLink
<1>11. ASSUME NEW t \in ResetTokens, Unused(t)'
       PROVE  /\ Activated(resetTokens[t].userId)'
              /\ issuedUnder'[t] = accounts'[resetTokens'[t].userId].passwordHash
  <2>1. CASE t = token
    BY <1>1, <1>2, <1>5, <1>8, <2>1 DEF Activated
  <2>2. CASE t # token
    BY <1>1, <1>9, <1>11, <2>2 DEF LinksCurrent, Activated
  <2> QED
    BY <2>1, <2>2
<1> QED
  BY <1>10, <1>11 DEF LinksCurrent

\* The steps that replace no password and mail no link.
QuietStep ==
  \/ \E c \in Calls : CallStep(c) /\ resetTokens' = resetTokens /\ issuedUnder' = issuedUnder
  \/ \E c \in Calls, s \in SessionIds, p \in Passwords, q \in Passwords : ChangeBegin(c, s, p, q)
  \/ LoginStep
  \/ OtherStep
  \/ UNCHANGED pmVars

LEMMA StepCases ==
  ASSUME [PMNext]_pmVars
  PROVE  \/ QuietStep
         \/ \E c \in Calls, token \in ResetTokens : RequestCommit(c, token)
         \/ \E c \in Calls : ResetCommit(c)
         \/ \E c \in Calls : ChangeCommit(c)
<1>1. ASSUME NEW c \in Calls, CallStep(c)
      PROVE  \/ resetTokens' = resetTokens /\ issuedUnder' = issuedUnder
             \/ \E token \in ResetTokens : RequestCommit(c, token)
  BY <1>1 DEF CallStep, RequestBegin, RequestIgnored, RequestFails, ResetBegin, ResetRejected,
       ChangeRejected, ChangeFails
<1> QED
  BY <1>1, PasswordStepCases DEF PMNext, QuietStep

LEMMA QuietIsQuiet ==
  ASSUME Composed, QuietStep
  PROVE  /\ resetTokens' = resetTokens /\ issuedUnder' = issuedUnder
         /\ LoginStep \/ OtherStep \/ UNCHANGED accounts
         /\ \A u \in Users : Activated(u) =>
              /\ accounts'[u].accountStatus # "pending_activation"
              /\ accounts'[u].passwordHash = accounts[u].passwordHash
<1>1. ASSUME NEW c \in Calls, CallStep(c)
      PROVE  UNCHANGED accounts
  BY <1>1 DEF CallStep, RequestBegin, RequestCommit, RequestIgnored, RequestFails, ResetBegin,
       ResetRejected, ChangeRejected, ChangeFails, vars
<1>2. /\ resetTokens' = resetTokens /\ issuedUnder' = issuedUnder
      /\ LoginStep \/ OtherStep \/ UNCHANGED accounts
  BY <1>1 DEF QuietStep, ChangeBegin, FindActiveSession, LoginStep, OtherStep, pmTables, pmVars, vars
<1> QED
  BY <1>2, OthersKeepPasswords DEF Activated, Activate

LEMMA StepKeepsLinks ==
  ASSUME Composed, OneLink, LinksCurrent, [PMNext]_pmVars
  PROVE  OneLink' /\ LinksCurrent'
<1>1. CASE QuietStep
  <2>1. Outlived({})
    BY <1>1, QuietIsQuiet DEF Outlived, Unused
  <2> QED
    BY <1>1, <2>1, QuietIsQuiet, OutlivedKeepLinks
<1>2. ASSUME NEW c \in Calls, NEW v \in Users, NEW p \in Passwords, NEW kept,
             ReplacePassword(v, p, kept), Outlived(UnusedOf(v)), issuedUnder' = issuedUnder
      PROVE  OneLink' /\ LinksCurrent'
  <2>1. \A u \in Users : Activated(u) =>
          /\ accounts'[u].accountStatus # "pending_activation"
          /\ \/ accounts'[u].passwordHash = accounts[u].passwordHash
             \/ UnusedOf(u) \subseteq UnusedOf(v)
    BY <1>2, ReplacementOf DEF Activated
  <2> QED
    BY <1>2, <2>1, OutlivedKeepLinks
<1>3. ASSUME NEW c \in Calls, ResetCommit(c)
      PROVE  OneLink' /\ LinksCurrent'
  BY <1>2, <1>3, CommitsReplace, ResetSpends
<1>4. ASSUME NEW c \in Calls, ChangeCommit(c)
      PROVE  OneLink' /\ LinksCurrent'
  BY <1>2, <1>4, CommitsReplace, ChangeSpends
<1> QED
  BY <1>1, <1>3, <1>4, StepCases, RequestKeepsLinks

LEMMA OneLinkCounted ==
  ASSUME OneLink, NEW u \in Users
  PROVE  Cardinality(UnusedOf(u)) <= 1
<1>1. CASE UnusedOf(u) = {}
  BY <1>1, FS_EmptySet
<1>2. CASE UnusedOf(u) # {}
  <2>1. PICK token : token \in UnusedOf(u)
    BY <1>2
  <2>2. UnusedOf(u) = {token}
    BY <2>1 DEF UnusedOf, OneLink
  <2> QED
    BY <2>2, FS_Singleton
<1> QED
  BY <1>1, <1>2

\* However requests, resets and changes interleave, an account has at most
\* one outstanding link, issued under the password it has now.
THEOREM OneCurrentLink == PMSpec => []OutstandingLinkIsCurrent
<1>1. PMInit => OneLink /\ LinksCurrent
  BY DEF PMInit, OneLink, LinksCurrent, Unused
<1>2. OneLink /\ LinksCurrent => OutstandingLinkIsCurrent
  BY OneLinkCounted DEF LinksCurrent, OutstandingLinkIsCurrent, UnusedOf
<1> QED
  BY <1>1, <1>2, InitComposed, StepComposed, StepKeepsLinks, PTL DEF PMSpec

\* The CHECK on revoked_at cannot abort a reset, as it can a request or a
\* change: no other link of the account is left to revoke.
ResetPassesCheck ==
  \A c \in Calls : Running(c, "reset") /\ ResetAllowed(calls[c]) =>
    CheckAllowsRevoking(UnusedOf(resetTokens[calls[c].token].userId) \ {calls[c].token},
                        calls[c].began)

\* A reset that is allowed commits, whatever was begun, committed or
\* abandoned since it began: ResetCommit needs no failing twin.
THEOREM ResetsPassTheCheck == PMSpec => []ResetPassesCheck
<1>1. PMInit => OneLink /\ LinksCurrent
  BY DEF PMInit, OneLink, LinksCurrent, Unused
<1>2. ASSUME Composed, OneLink
      PROVE  ResetPassesCheck
  <2>1. ASSUME NEW c \in Calls, Running(c, "reset"), ResetAllowed(calls[c])
        PROVE  UnusedOf(resetTokens[calls[c].token].userId) \ {calls[c].token} = {}
    <3>1. calls[c].token \in ResetTokens /\ Unused(calls[c].token)
      BY <1>2, <2>1, CallTypes DEF Composed, ResetAllowed, AssertValidReset
    <3> QED
      BY <1>2, <3>1 DEF OneLink, UnusedOf
  <2> QED
    BY <2>1 DEF ResetPassesCheck, CheckAllowsRevoking
<1> QED
  BY <1>1, <1>2, InitComposed, StepComposed, StepKeepsLinks, PTL DEF PMSpec

LEMMA StepKeepsSettled ==
  ASSUME Composed, [PMNext]_pmVars, NEW t \in ResetTokens, resetTokens[t] # Null, ~Unused(t)
  PROVE  resetTokens'[t] = resetTokens[t]
<1> USE DEF Composed
<1>1. \A u : /\ UnusedOf(u) \in SUBSET ResetTokens
             /\ \A i \in UnusedOf(u) : resetTokens[i] # Null
             /\ t \notin UnusedOf(u)
  BY DEF UnusedOf, Unused
<1>2. ASSUME NEW tokens \in SUBSET ResetTokens, NEW u, tokens \subseteq UnusedOf(u)
      PROVE  /\ RevokeTokens(tokens)[t] = resetTokens[t]
             /\ RevokeTokens(tokens) \in [ResetTokens -> ResetRow \cup {Null}]
  BY <1>1, <1>2, RevokedAreUsedUp, RevokeTokensTypes
<1>3. ASSUME NEW c \in Calls, NEW token \in ResetTokens, RequestCommit(c, token)
      PROVE  resetTokens'[t] = resetTokens[t]
  <2> DEFINE revoked == RevokeTokens(UnusedOf(calls[c].userId))
  <2>1. t # token /\ resetTokens' = [revoked EXCEPT ![token] = NewResetRow(calls[c])]
    BY <1>3 DEF RequestCommit
  <2>2. revoked[t] = resetTokens[t] /\ revoked \in [ResetTokens -> ResetRow \cup {Null}]
    BY <1>1, <1>2
  <2> HIDE DEF revoked
  <2> QED
    BY <2>1, <2>2
<1>4. ASSUME NEW c \in Calls, ResetCommit(c)
      PROVE  resetTokens'[t] = resetTokens[t]
  <2> DEFINE token   == calls[c].token
             others  == UnusedOf(resetTokens[token].userId) \ {token}
             revoked == RevokeTokens(others)
  <2>1. t # token /\ resetTokens' = [revoked EXCEPT ![token].used = TRUE]
    BY <1>4 DEF ResetCommit, ResetAllowed, AssertValidReset
  <2>2. others \in SUBSET ResetTokens /\ others \subseteq UnusedOf(resetTokens[token].userId)
    BY <1>1
  <2>3. revoked[t] = resetTokens[t] /\ revoked \in [ResetTokens -> ResetRow \cup {Null}]
    BY <1>2, <2>2
  <2> HIDE DEF token, revoked
  <2> QED
    BY <2>1, <2>3
<1>5. ASSUME NEW c \in Calls, ChangeCommit(c)
      PROVE  resetTokens'[t] = resetTokens[t]
  BY <1>1, <1>2, <1>5 DEF ChangeCommit
<1> QED
  BY <1>3, <1>4, <1>5, StepCases, QuietIsQuiet

\* A used or revoked link is never touched again, so never used twice.
THEOREM SettledLinksStay == PMSpec => SettledTokensFrozen
<1>1. Composed /\ [PMNext]_pmVars =>
        [\A token \in ResetTokens :
           resetTokens[token] # Null /\ ~Unused(token)
             => resetTokens'[token] = resetTokens[token]]_pmVars
  BY StepKeepsSettled
<1> QED
  BY <1>1, InitComposed, StepComposed, PTL DEF PMSpec, SettledTokensFrozen

----------------------------------------------------------------------------
(* Which calls meet the CHECK *)

\* No request for a link is in flight while another request or a change of
\* the same account is.
RequestsAlone ==
  \A c, d \in Calls :
    c # d /\ Running(c, "request") /\ (Running(d, "request") \/ Running(d, "change"))
      => calls[c].userId # calls[d].userId

\* A call in flight that would revoke an outstanding link began after it.
LinksOlder ==
  /\ \A token \in ResetTokens : Unused(token) => resetTokens[token].createdAt <= now
  /\ \A c \in Calls : Running(c, "request") \/ Running(c, "change") =>
       /\ calls[c].began <= now
       /\ CheckAllowsRevoking(UnusedOf(calls[c].userId), calls[c].began)

LEMMA CallMoves ==
  ASSUME Composed, [PMNext]_pmVars, NEW d \in Calls, calls'[d] # Null
  PROVE  calls'[d] = calls[d] \/ calls'[d].began = now
<1>1. calls \in [Calls -> Call \cup {Null}]
  BY DEF Composed, TablesTyped
<1>2. ASSUME NEW c \in Calls, NEW call, call.began = now, Open(c, call)
      PROVE  calls'[d] = calls[d] \/ calls'[d].began = now
  BY <1>1, <1>2 DEF Open
<1>3. ASSUME NEW c \in Calls, Done(c)
      PROVE  calls'[d] = calls[d]
  BY <1>1, <1>3 DEF Done
<1>4. ASSUME NEW c \in Calls, NEW u \in Users, RequestBegin(c, u)
      PROVE  calls'[d] = calls[d] \/ calls'[d].began = now
  <2> DEFINE call == [op |-> "request", userId |-> u,
                      expiresAt |-> now + ResetValidity, began |-> now]
  <2>1. call.began = now /\ Open(c, call)
    BY <1>4 DEF RequestBegin
  <2> HIDE DEF call
  <2> QED
    BY <1>2, <2>1
<1>5. ASSUME NEW c \in Calls, NEW token \in ResetTokens, NEW p \in Passwords,
             ResetBegin(c, token, p)
      PROVE  calls'[d] = calls[d] \/ calls'[d].began = now
  <2> DEFINE call == [op |-> "reset", token |-> token, password |-> p, began |-> now]
  <2>1. call.began = now /\ Open(c, call)
    BY <1>5 DEF ResetBegin
  <2> HIDE DEF call
  <2> QED
    BY <1>2, <2>1
<1>6. ASSUME NEW c \in Calls, NEW s \in SessionIds, NEW p \in Passwords, NEW q \in Passwords,
             ChangeBegin(c, s, p, q)
      PROVE  calls'[d] = calls[d] \/ calls'[d].began = now
  <2> DEFINE call == [op |-> "change", session |-> s, userId |-> sessions[s].userId,
                      current |-> p, password |-> q, began |-> now]
  <2>1. call.began = now /\ Open(c, call)
    BY <1>6 DEF ChangeBegin
  <2> HIDE DEF call
  <2> QED
    BY <1>2, <2>1
<1>7. CASE PasswordNext
  BY <1>3, <1>4, <1>5, <1>6, <1>7 DEF PasswordNext, RequestCommit, RequestIgnored, RequestFails,
       ResetCommit, ResetRejected, ChangeCommit, ChangeRejected, ChangeFails
<1>8. CASE LoginStep \/ OtherStep \/ UNCHANGED pmVars
  BY <1>8 DEF LoginStep, OtherStep, pmTables, pmVars
<1> QED
  BY <1>7, <1>8 DEF PMNext

LEMMA BegunTypes ==
  ASSUME TablesTyped, NEW c \in Calls, Running(c, "request") \/ Running(c, "change")
  PROVE  calls[c].began \in Nat /\ calls[c].userId \in Users
BY DEF TablesTyped, Running, Call

\* What a request that commits leaves outstanding: its own link, and those of
\* other accounts.
LEMMA RequestLeaves ==
  ASSUME Composed, NEW c \in Calls, NEW token \in ResetTokens, RequestCommit(c, token)
  PROVE  /\ resetTokens'[token] = NewResetRow(calls[c])
         /\ \A t \in ResetTokens \ {token} :
              Unused(t)' => Unused(t) /\ resetTokens'[t] = resetTokens[t]
<1> DEFINE gone == UnusedOf(calls[c].userId)
           row  == NewResetRow(calls[c])
<1> USE DEF Composed
<1>1. resetTokens' = [RevokeTokens(gone) EXCEPT ![token] = row]
  BY DEF RequestCommit
<1>2. gone \in SUBSET ResetTokens /\ \A t \in gone : resetTokens[t] # Null
  BY DEF UnusedOf, Unused
<1> HIDE DEF row, gone
<1>3. RevokeTokens(gone) \in [ResetTokens -> ResetRow \cup {Null}]
  BY <1>2, RevokeTokensTypes
<1>4. resetTokens'[token] = row
  BY <1>1, <1>3
<1>5. ASSUME NEW t \in ResetTokens, t # token, Unused(t)'
      PROVE  Unused(t) /\ resetTokens'[t] = resetTokens[t]
  <2>1. resetTokens'[t] = RevokeTokens(gone)[t]
    BY <1>1, <1>3, <1>5
  <2>2. t \notin gone
    BY <1>2, <1>5, <2>1, RevokedAreUsedUp DEF Unused
  <2>3. resetTokens'[t] = resetTokens[t]
    BY <1>2, <2>1, <2>2, RevokedAreUsedUp
  <2> QED
    BY <1>5, <2>1, <2>3 DEF Unused
<1> QED
  BY <1>4, <1>5 DEF row

LEMMA StepLinksOlder ==
  ASSUME Composed, RequestsAlone, LinksOlder, [PMNext]_pmVars
  PROVE  LinksOlder'
<1> USE DEF Composed
<1>1. now \in Nat /\ now' \in Nat /\ now <= now'
  BY StepIsAuthStep, ClockMovesForward
<1>2. TablesTyped'
  BY StepComposed
<1>3. ASSUME NEW token \in ResetTokens, Unused(token)'
      PROVE  resetTokens'[token].createdAt \in Nat
  BY <1>2, <1>3, UnusedTypes DEF TablesTyped, Unused, ResetRow
\* Who keeps a link keeps it older than those it was older than.
<1>4. ASSUME \A t \in ResetTokens : Unused(t)' => Unused(t) /\ resetTokens'[t] = resetTokens[t]
      PROVE  LinksOlder'
  <2>1. \A t \in ResetTokens : Unused(t)' => resetTokens'[t].createdAt <= now
    BY <1>4 DEF LinksOlder
  <2>2. \A t \in ResetTokens : Unused(t)' => resetTokens'[t].createdAt <= now'
    BY <1>1, <1>3, <2>1
  <2>3. ASSUME NEW d \in Calls, Running(d, "request")' \/ Running(d, "change")'
        PROVE  /\ calls'[d].began <= now'
               /\ \A t \in UnusedOf(calls[d].userId)' : resetTokens'[t].createdAt <= calls'[d].began
    <3>1. calls'[d].began \in Nat
      BY <1>2, <2>3, BegunTypes DEF TablesTyped, Running, Call
    <3>2. CASE calls'[d] = calls[d]
      <4>1. Running(d, "request") \/ Running(d, "change")
        BY <2>3, <3>2 DEF Running
      <4>2. calls[d].began <= now
        BY <4>1 DEF LinksOlder
      <4>3. \A t \in UnusedOf(calls[d].userId) : resetTokens[t].createdAt <= calls[d].began
        BY <4>1 DEF LinksOlder, CheckAllowsRevoking
      <4> QED
        BY <1>1, <1>4, <3>1, <3>2, <4>2, <4>3 DEF UnusedOf
    <3>3. CASE calls'[d].began = now
      BY <1>1, <2>1, <3>3 DEF UnusedOf
    <3> QED
      BY <2>3, <3>2, <3>3, CallMoves DEF Running
  <2> QED
    BY <2>2, <2>3 DEF LinksOlder, CheckAllowsRevoking
<1>5. CASE QuietStep
  BY <1>4, <1>5, QuietIsQuiet DEF Unused
<1>6. ASSUME NEW c \in Calls, ResetCommit(c)
      PROVE  LinksOlder'
  BY <1>4, <1>6, ResetSpends DEF Outlived
<1>7. ASSUME NEW c \in Calls, ChangeCommit(c)
      PROVE  LinksOlder'
  BY <1>4, <1>7, ChangeSpends DEF Outlived
<1>8. ASSUME NEW c \in Calls, NEW token \in ResetTokens, RequestCommit(c, token)
      PROVE  LinksOlder'
  <2>1. /\ resetTokens'[token] = NewResetRow(calls[c])
        /\ \A t \in ResetTokens \ {token} :
             Unused(t)' => Unused(t) /\ resetTokens'[t] = resetTokens[t]
    BY <1>8, RequestLeaves
  <2>2. /\ Running(c, "request") /\ now' = now
        /\ calls' = [calls EXCEPT ![c] = Null]
    BY <1>8 DEF RequestCommit, Done, vars
  <2>3. /\ NewResetRow(calls[c]).createdAt = calls[c].began
        /\ NewResetRow(calls[c]).userId = calls[c].userId
    BY DEF NewResetRow
  <2>4. calls[c].began <= now
    BY <2>2 DEF LinksOlder
  <2>5. \A t \in ResetTokens : Unused(t)' => resetTokens'[t].createdAt <= now'
    BY <2>1, <2>2, <2>3, <2>4 DEF LinksOlder
  <2>6. ASSUME NEW d \in Calls, Running(d, "request")' \/ Running(d, "change")'
        PROVE  /\ calls'[d].began <= now'
               /\ \A t \in UnusedOf(calls[d].userId)' : resetTokens'[t].createdAt <= calls'[d].began
    <3>1. d # c /\ calls'[d] = calls[d]
      BY <2>2, <2>6 DEF Running, TablesTyped
    <3>2. Running(d, "request") \/ Running(d, "change")
      BY <2>6, <3>1 DEF Running
    <3>3. calls[c].userId # calls[d].userId
      BY <2>2, <3>1, <3>2 DEF RequestsAlone
    <3>4. /\ calls[d].began <= now
          /\ \A t \in UnusedOf(calls[d].userId) : resetTokens[t].createdAt <= calls[d].began
      BY <3>2 DEF LinksOlder, CheckAllowsRevoking
    <3>5. token \notin UnusedOf(calls[d].userId)'
      BY <2>1, <2>3, <3>1, <3>3 DEF UnusedOf
    <3> QED
      BY <2>1, <2>2, <3>1, <3>4, <3>5 DEF UnusedOf
  <2> QED
    BY <2>5, <2>6 DEF LinksOlder, CheckAllowsRevoking
<1> QED
  BY <1>5, <1>6, <1>7, <1>8, StepCases

\* No call of the service has ended in an internal error.
NoCallFails == failed = {}

\* Which overlap makes the constraint reject a call: a request for a link with
\* another request or a change of the same account.  While there is none, no
\* call ends in an internal error, and the endpoint of README.md:166 does
\* answer always the same.
THEOREM OnlyOverlapsFail == PMSpec /\ []RequestsAlone => []NoCallFails
<1>1. PMInit => LinksOlder /\ NoCallFails
  BY DEF PMInit, LinksOlder, Unused, Running, NoCallFails
<1>2. Composed /\ RequestsAlone /\ LinksOlder /\ [PMNext]_pmVars => LinksOlder'
  BY StepLinksOlder
<1>3. LinksOlder /\ NoCallFails /\ [PMNext]_pmVars => NoCallFails'
  <2> SUFFICES ASSUME LinksOlder, failed = {}, [PMNext]_pmVars
               PROVE  failed' = {}
    BY DEF NoCallFails
  <2>1. ASSUME NEW c \in Calls
        PROVE  ~RequestFails(c) /\ ~ChangeFails(c)
    BY <2>1 DEF RequestFails, ChangeFails, LinksOlder
  <2>2. CASE PasswordNext
    BY <2>1, <2>2 DEF PasswordNext, RequestBegin, RequestCommit, RequestIgnored, ResetBegin,
         ResetCommit, ResetRejected, ChangeBegin, ChangeCommit, ChangeRejected
  <2> QED
    BY <2>2 DEF PMNext, LoginStep, OtherStep, pmTables, pmVars
<1> QED
  BY <1>1, <1>2, <1>3, InitComposed, StepComposed, PTL DEF PMSpec

----------------------------------------------------------------------------
(* Who may replace a password *)

LEMMA StepIsAuthorised ==
  ASSUME Composed, PMNext, NEW u \in Users,
         accounts[u].accountStatus = "active",
         accounts'[u].passwordHash # accounts[u].passwordHash
  PROVE  \/ \E token \in UnusedOf(u) : /\ resetTokens'[token].used
                                       /\ resetTokens[token].expiresAt > now
         \/ \E c \in Calls :
              /\ Running(c, "change") /\ calls'[c] = Null
              /\ calls[c].userId = u
              /\ PasswordMatches(accounts[u].passwordHash, calls[c].current)
<1>1. ~QuietStep
  BY QuietIsQuiet DEF Activated
<1>2. \A c \in Calls, token \in ResetTokens : ~RequestCommit(c, token)
  BY DEF RequestCommit, vars
<1>3. ASSUME NEW c \in Calls, ResetCommit(c)
      PROVE  \E token \in UnusedOf(u) : /\ resetTokens'[token].used
                                        /\ resetTokens[token].expiresAt > now
  <2>1. resetTokens[calls[c].token].userId = u
    BY <1>3, CommitsReplace, ReplacementOf
  <2> QED
    BY <1>3, <2>1, ResetSpends
<1>4. ASSUME NEW c \in Calls, ChangeCommit(c)
      PROVE  /\ Running(c, "change") /\ calls'[c] = Null
             /\ calls[c].userId = u
             /\ PasswordMatches(accounts[u].passwordHash, calls[c].current)
  <2>1. calls[c].userId = u
    BY <1>4, CommitsReplace, ReplacementOf
  <2> QED
    BY <1>4, <2>1 DEF ChangeCommit, ChangeAllowed, Done, Composed, TablesTyped
<1> QED
  BY <1>1, <1>2, <1>3, <1>4, StepCases

\* The password of an active account is replaced only by spending an
\* unexpired outstanding link of it, or by a caller who named the password
\* the account has at that moment.
THEOREM ReplacementsAreAuthorised == PMSpec => ReplacementIsAuthorised
<1>1. Composed /\ [PMNext]_pmVars =>
        [\A u \in Users :
           accounts[u].accountStatus = "active"
           /\ accounts'[u].passwordHash # accounts[u].passwordHash =>
             \/ \E token \in UnusedOf(u) : /\ resetTokens'[token].used
                                           /\ resetTokens[token].expiresAt > now
             \/ \E c \in Calls :
                  /\ Running(c, "change") /\ calls'[c] = Null
                  /\ calls[c].userId = u
                  /\ PasswordMatches(accounts[u].passwordHash, calls[c].current)]_pmVars
  BY StepIsAuthorised
<1> QED
  BY <1>1, InitComposed, StepComposed, PTL DEF PMSpec, ReplacementIsAuthorised

----------------------------------------------------------------------------
(* Sessions after a replacement *)

\* Only a login creates a session, with the password it verified.
LEMMA OnlyLoginsCreate ==
  ASSUME Composed, [PMNext]_pmVars, NEW s \in SessionIds
  PROVE  \/ /\ sessions[s] = Null => sessions'[s] = Null
            /\ \/ provenBy'[s] = provenBy[s]
               \/ \E c \in Calls : ChangeCommit(c) /\ calls[c].session = s
         \/ \E r \in Requests :
              /\ LoginCommit(r, s)
              /\ provenBy' = [provenBy EXCEPT ![s] = logins[r].user.passwordHash]
<1> USE DEF Composed, TypeOK
<1>1. ASSUME NEW u, NEW p, NEW kept, ReplacePassword(u, p, kept)
      PROVE  sessions[s] = Null => sessions'[s] = Null
  BY <1>1 DEF ReplacePassword, RevokeUserSessions, UserSessions
<1>2. ASSUME NEW t, NEW i \in SessionIds, FindActiveSession(i, t)
      PROVE  sessions[s] = Null => sessions'[s] = Null
  BY <1>2 DEF FindActiveSession
<1>3. ASSUME NEW token \in Presentable, NEW t \in DbTimes,
             RefreshAuthentication(token, t) \/ Logout(token)
      PROVE  sessions[s] = Null => sessions'[s] = Null
  BY <1>3 DEF RefreshAuthentication, RefreshInactive, RefreshReused, RefreshRejected,
       RefreshRotated, Logout, LogoutRevokes, LogoutIgnored, Exists, RevokeSession
<1>4. CASE QuietStep /\ ~LoginStep
  <2>1. ASSUME NEW c \in Calls, CallStep(c)
        PROVE  sessions' = sessions /\ provenBy' = provenBy
    BY <2>1, CallStepsKeepTables DEF vars
  <2>2. ASSUME OtherStep
        PROVE  sessions[s] = Null => sessions'[s] = Null
    <3>1. CASE SessionNext
      <4>1. \/ \E token \in Presentable, t \in DbTimes : RefreshAuthentication(token, t)
            \/ \E token \in Presentable : Logout(token)
            \/ \E i \in SessionIds, t \in DbTimes : FindActiveSession(i, t)
        BY <3>1 DEF SessionNext
      <4>2. ASSUME NEW token \in Presentable, Logout(token)
            PROVE  sessions[s] = Null => sessions'[s] = Null
        BY <4>2 DEF Logout, LogoutRevokes, LogoutIgnored, Exists, RevokeSession
      <4> QED
        BY <1>2, <1>3, <4>1, <4>2
    <3>2. CASE ~SessionNext
      BY <2>2, <3>2 DEF OtherStep, Tick, Activate, SetAccountStatus
    <3> QED
      BY <3>1, <3>2
  <2>3. CASE OtherStep
    BY <2>2, <2>3 DEF OtherStep
  <2>4. CASE \E c \in Calls, i \in SessionIds, p \in Passwords, q \in Passwords :
               ChangeBegin(c, i, p, q)
    BY <1>2, <2>4 DEF ChangeBegin
  <2> QED
    BY <1>4, <2>1, <2>3, <2>4 DEF QuietStep, pmVars, vars
<1>5. CASE LoginStep
  <2>1. ASSUME NEW r \in Requests, LoginChecks(r)
        PROVE  sessions' = sessions
    BY <2>1 DEF LoginChecks, LoginRead, LoginRecordFailure, LoginRejected, LoginBegin,
         LoginRolledBack
  <2>2. ASSUME NEW r \in Requests, NEW i \in SessionIds, i # s, LoginCommit(r, i),
               provenBy' = [provenBy EXCEPT ![i] = logins[r].user.passwordHash]
        PROVE  sessions'[s] = sessions[s] /\ provenBy'[s] = provenBy[s]
    BY <2>2 DEF LoginCommit, TablesTyped
  <2> QED
    BY <1>5, <2>1, <2>2 DEF LoginStep
<1>6. ASSUME NEW c \in Calls, ResetCommit(c) \/ ChangeCommit(c)
      PROVE  /\ sessions[s] = Null => sessions'[s] = Null
             /\ provenBy'[s] = provenBy[s] \/ (ChangeCommit(c) /\ calls[c].session = s)
  <2>1. provenBy'[s] = provenBy[s] \/ (ChangeCommit(c) /\ calls[c].session = s)
    BY <1>6 DEF ResetCommit, ChangeCommit, TablesTyped
  <2>2. \E u, p, kept : ReplacePassword(u, p, kept)
    BY <1>6 DEF ResetCommit, ChangeCommit
  <2> QED
    BY <1>1, <2>1, <2>2
<1>7. ASSUME NEW c \in Calls, NEW token \in ResetTokens, RequestCommit(c, token)
      PROVE  sessions' = sessions /\ provenBy' = provenBy
  BY <1>7 DEF RequestCommit, vars
<1> QED
  BY <1>4, <1>5, <1>6, <1>7, StepCases

\* A session belongs to an account that was activated; with both terminate
\* settings on, a live one logged in with the password the account has now,
\* or set it.
SessionsActivated ==
  \A s \in SessionIds : sessions[s] # Null => Activated(sessions[s].userId)

LiveFollow ==
  \A s \in SessionIds : sessions[s] # Null /\ ~sessions[s].revoked =>
    provenBy[s] = accounts[sessions[s].userId].passwordHash

BothTerminate == TerminateSessionsOnPasswordReset /\ TerminateOtherSessionsOnPasswordChange

LEMMA StaysActivated ==
  ASSUME Composed, [PMNext]_pmVars, NEW u \in Users, Activated(u)
  PROVE  accounts'[u].accountStatus # "pending_activation"
<1>1. \/ QuietStep
      \/ accounts' = accounts
      \/ \E v \in Users : \E p \in Passwords, k \in Kept(v) : ReplacePassword(v, p, k)
  BY StepCases, CommitsReplace DEF RequestCommit, vars
<1>2. ASSUME NEW v \in Users, NEW p \in Passwords, NEW k, ReplacePassword(v, p, k)
      PROVE  accounts'[u].accountStatus # "pending_activation"
  BY <1>2, ReplacementOf DEF Activated
<1> QED
  BY <1>1, <1>2, QuietIsQuiet DEF Activated

LEMMA LoginIsCurrent ==
  ASSUME Composed, NEW r \in Requests, NEW s \in SessionIds, LoginCommit(r, s)
  PROVE  LET u == logins[r].userId
         IN  /\ u \in Users
             /\ sessions'[s].userId = u
             /\ Activated(u)
             /\ logins[r].user.passwordHash = accounts[u].passwordHash
<1> USE DEF Composed, TypeOK
<1>1. logins[r] \in LoginCall
  BY DEF LoginCommit, Committing
<1>2. sessions'[s] = NewSession(logins[r], s)
  BY DEF LoginCommit
<1>3. NewSession(logins[r], s).userId = logins[r].userId
  BY DEF NewSession
<1> QED
  BY <1>1, <1>2, <1>3 DEF LoginCommit, LoginStillAllowed, Activated, LoginCall

LEMMA StepSessionsActivated ==
  ASSUME Composed, SessionsActivated, [PMNext]_pmVars
  PROVE  SessionsActivated'
<1> SUFFICES ASSUME NEW s \in SessionIds, sessions'[s] # Null
             PROVE  accounts'[sessions'[s].userId].accountStatus # "pending_activation"
  BY DEF SessionsActivated, Activated
<1>1. CASE sessions[s] # Null
  <2>1. sessions'[s].userId = sessions[s].userId
    BY <1>1, RowsStay, StepIsAuthStep DEF Composed
  <2>2. sessions[s].userId \in Users /\ Activated(sessions[s].userId)
    BY <1>1 DEF SessionsActivated, Composed, TypeOK, Session
  <2> QED
    BY <2>1, <2>2, StaysActivated
<1>2. CASE sessions[s] = Null
  <2>1. PICK r \in Requests : LoginCommit(r, s)
    BY <1>2, OnlyLoginsCreate
  <2>2. sessions'[s].userId = logins[r].userId /\ logins[r].userId \in Users
        /\ Activated(logins[r].userId)
    BY <2>1, LoginIsCurrent
  <2> QED
    BY <2>2, StaysActivated
<1> QED
  BY <1>1, <1>2

\* With both settings on, a replacement leaves its account no live session
\* but the one it was asked from.
LEMMA ReplacementEndsSessions ==
  ASSUME Composed, BothTerminate, NEW c \in Calls, NEW s \in SessionIds,
         sessions'[s] # Null, ~sessions'[s].revoked,
         sessions[s] # Null
  PROVE  /\ ResetCommit(c) =>
              sessions[s].userId # resetTokens[calls[c].token].userId
         /\ ChangeCommit(c) =>
              \/ sessions[s].userId # calls[c].userId
              \/ calls[c].session = s
<1>1. sessions[s] \in Session
  BY DEF Composed, TypeOK
<1>2. [sessions[s] EXCEPT !.revoked = TRUE].revoked
  BY <1>1, RevokedRow
<1>3. ASSUME NEW u, NEW p, NEW kept, ReplacePassword(u, p, kept), s \notin kept
      PROVE  sessions[s].userId # u
  BY <1>2, <1>3 DEF ReplacePassword, RevokeUserSessions, UserSessions
<1>4. ASSUME ResetCommit(c)
      PROVE  sessions[s].userId # resetTokens[calls[c].token].userId
  BY <1>3, <1>4, CommitsReplace DEF KeptByReset, BothTerminate
<1>5. ASSUME ChangeCommit(c), calls[c].session # s
      PROVE  sessions[s].userId # calls[c].userId
  BY <1>3, <1>5, CommitsReplace DEF KeptByChange, BothTerminate
<1> QED
  BY <1>4, <1>5

LEMMA StepLiveFollow ==
  ASSUME Composed, BothTerminate, SessionsActivated, LiveFollow, [PMNext]_pmVars
  PROVE  LiveFollow'
<1> SUFFICES ASSUME NEW s \in SessionIds, sessions'[s] # Null, ~sessions'[s].revoked
             PROVE  provenBy'[s] = accounts'[sessions'[s].userId].passwordHash
  BY DEF LiveFollow
<1>1. CASE sessions[s] # Null
  <2> DEFINE u == sessions[s].userId
  <2>1. sessions'[s].userId = u
    BY <1>1, RowsStay, StepIsAuthStep DEF Composed
  <2>2. u \in Users /\ Activated(u)
    BY <1>1 DEF SessionsActivated, Composed, TypeOK, Session
  <2>3. provenBy[s] = accounts[u].passwordHash
    BY <1>1, RevocationIsPermanent, StepIsAuthStep DEF LiveFollow, Composed
  <2>4. \/ provenBy'[s] = provenBy[s]
        \/ \E c \in Calls : ChangeCommit(c) /\ calls[c].session = s
    BY <1>1, OnlyLoginsCreate DEF LoginCommit
  <2> HIDE DEF u
  <2>5. ASSUME NEW c \in Calls, ChangeCommit(c), calls[c].session = s
        PROVE  provenBy'[s] = accounts'[u].passwordHash
    <3>1. calls[c].userId = u
      BY <2>5 DEF ChangeCommit, Composed, CallersKnown, u
    <3> QED
      BY <2>5, <3>1 DEF ChangeCommit, Composed, TablesTyped
  <2>6. ASSUME NEW c \in Calls, ChangeCommit(c), calls[c].session # s
        PROVE  accounts'[u].passwordHash = accounts[u].passwordHash
    <3>1. u # calls[c].userId
      BY <1>1, <2>6, ReplacementEndsSessions DEF u
    <3> QED
      BY <2>2, <2>6, <3>1, CommitsReplace, ReplacementOf
  <2>7. ASSUME NEW c \in Calls, ResetCommit(c)
        PROVE  accounts'[u].passwordHash = accounts[u].passwordHash
    <3>1. u # resetTokens[calls[c].token].userId
      BY <1>1, <2>7, ReplacementEndsSessions DEF u
    <3> QED
      BY <2>2, <2>7, <3>1, CommitsReplace, ReplacementOf
  <2>8. ASSUME \/ QuietStep
               \/ \E c \in Calls, token \in ResetTokens : RequestCommit(c, token)
        PROVE  accounts'[u].passwordHash = accounts[u].passwordHash
    <3>1. CASE QuietStep
      BY <2>2, <3>1, QuietIsQuiet
    <3>2. CASE \E c \in Calls, token \in ResetTokens : RequestCommit(c, token)
      BY <3>2 DEF RequestCommit, vars
    <3> QED
      BY <2>8, <3>1, <3>2
  <2>9. CASE provenBy'[s] = provenBy[s]
    <3>1. ASSUME NEW c \in Calls, ChangeCommit(c)
          PROVE  provenBy'[s] = accounts'[u].passwordHash
      BY <2>3, <2>5, <2>6, <2>9, <3>1
    <3> QED
      BY <2>1, <2>3, <2>7, <2>8, <2>9, <3>1, StepCases
  <2> QED
    BY <2>1, <2>4, <2>5, <2>9
<1>2. CASE sessions[s] = Null
  <2>1. PICK r \in Requests :
          /\ LoginCommit(r, s)
          /\ provenBy' = [provenBy EXCEPT ![s] = logins[r].user.passwordHash]
    BY <1>2, OnlyLoginsCreate
  <2> DEFINE u == logins[r].userId
  <2>2. /\ sessions'[s].userId = u /\ u \in Users
        /\ logins[r].user.passwordHash = accounts[u].passwordHash
    BY <2>1, LoginIsCurrent
  <2>3. provenBy'[s] = accounts[u].passwordHash
    BY <2>1, <2>2 DEF Composed, TablesTyped
  <2>4. accounts'[u].passwordHash = accounts[u].passwordHash
    <3>1. accounts[u] \in Account
      BY <2>2 DEF Composed, TypeOK
    <3>2. accounts'[u] = RecordSuccessfulLogin(accounts[u])
      BY <2>1, <2>2 DEF LoginCommit, Composed, TypeOK
    <3>3. RecordSuccessfulLogin(accounts[u]).passwordHash = accounts[u].passwordHash
      BY <3>1 DEF RecordSuccessfulLogin, Account
    <3> QED
      BY <3>2, <3>3
  <2> QED
    BY <2>2, <2>3, <2>4
<1> QED
  BY <1>1, <1>2

\* With both terminate settings on, every live session was opened with the
\* password the account has now, or set it.
THEOREM SessionsFollow == PMSpec => []SessionsFollowPassword
<1> DEFINE Inv == Composed /\ SessionsActivated /\ (BothTerminate => LiveFollow)
<1>1. PMInit => Inv
  BY InitComposed DEF PMInit, Init, SessionsActivated, LiveFollow
<1>2. Inv /\ [PMNext]_pmVars => Inv'
  BY StepComposed, StepSessionsActivated, StepLiveFollow DEF BothTerminate
<1>3. Inv => SessionsFollowPassword
  BY DEF LiveFollow, BothTerminate, SessionsFollowPassword
<1> QED
  BY <1>1, <1>2, <1>3, PTL DEF PMSpec

----------------------------------------------------------------------------
(* The rows of one account *)

\* The accounts of links were activated, used up or not.
LinksKnown ==
  \A token \in ResetTokens : resetTokens[token] # Null => Activated(resetTokens[token].userId)

\* What is known of the hash behind a session.
ProvenKnown == \A s \in SessionIds : sessions[s] # Null => provenBy[s] \in PasswordHash

LEMMA LoginIsProven ==
  ASSUME Composed, CommitsVerified, NEW r \in Requests, NEW s \in SessionIds, LoginCommit(r, s)
  PROVE  logins[r].user.passwordHash \in PasswordHash
<1>1. logins[r] \in LoginCall /\ PasswordMatches(logins[r].user.passwordHash, logins[r].password)
  BY DEF LoginCommit, Committing, CommitsVerified, SnapshotMatches, Composed, TypeOK
<1> QED
  BY <1>1 DEF LoginCall, Account, PasswordMatches

LEMMA StepProvenKnown ==
  ASSUME Composed, CommitsVerified, ProvenKnown, [PMNext]_pmVars
  PROVE  ProvenKnown'
<1> SUFFICES ASSUME NEW s \in SessionIds, sessions'[s] # Null
             PROVE  provenBy'[s] \in PasswordHash
  BY DEF ProvenKnown
<1>1. ASSUME NEW r \in Requests, LoginCommit(r, s),
             provenBy' = [provenBy EXCEPT ![s] = logins[r].user.passwordHash]
      PROVE  provenBy'[s] \in PasswordHash
  BY <1>1, LoginIsProven DEF Composed, TablesTyped
<1>2. ASSUME NEW c \in Calls, ChangeCommit(c), calls[c].session = s
      PROVE  provenBy'[s] \in PasswordHash
  <2>1. accounts'[calls[c].userId].passwordHash \in PasswordHash
    BY <1>2, CommitsReplace, ReplacementSets
  <2> QED
    BY <1>2, <2>1 DEF ChangeCommit, Composed, TablesTyped
<1> QED
  BY <1>1, <1>2, OnlyLoginsCreate DEF ProvenKnown

\* The row of s is left alone, except for its token and its deadlines.
SameRow(s) ==
  /\ sessions'[s] = Null <=> sessions[s] = Null
  /\ sessions[s] # Null => /\ sessions'[s].userId = sessions[s].userId
                           /\ sessions'[s].revoked = sessions[s].revoked
  /\ provenBy'[s] = provenBy[s]

EndedRow(s) ==
  /\ sessions[s] # Null /\ sessions'[s] # Null
  /\ sessions'[s].userId = sessions[s].userId
  /\ sessions'[s].revoked = TRUE
  /\ provenBy'[s] = provenBy[s]

LEMMA RevocationOfOne ==
  ASSUME Composed, NEW token \in Presentable, Exists(token),
         sessions' = RevokeSession(token.sessionId), provenBy' = provenBy
  PROVE  \E s \in SessionIds : EndedRow(s) /\ \A i \in SessionIds \ {s} : SameRow(i)
<1>1. token.sessionId \in SessionIds
  BY PresentableType DEF Composed, Token
<1>2. sessions[token.sessionId] \in Session
  BY <1>1 DEF Exists, Composed, TypeOK
<1>3. sessions'[token.sessionId] = [sessions[token.sessionId] EXCEPT !.revoked = TRUE]
      /\ \A i \in SessionIds \ {token.sessionId} : sessions'[i] = sessions[i]
  BY <1>1 DEF RevokeSession, Composed, TypeOK
<1>4. [sessions[token.sessionId] EXCEPT !.revoked = TRUE] \in Session
  BY <1>2 DEF Session
<1>5. EndedRow(token.sessionId)
  BY <1>2, <1>3, <1>4 DEF EndedRow, Session
<1>6. \A i \in SessionIds \ {token.sessionId} : SameRow(i)
  BY <1>3 DEF SameRow
<1> QED
  BY <1>1, <1>5, <1>6

LEMMA GuardKeepsRows ==
  ASSUME Composed, NEW s \in SessionIds, NEW t \in DbTimes, FindActiveSession(s, t),
         provenBy' = provenBy
  PROVE  \A i \in SessionIds : SameRow(i)
<1>1. sessions[s] \in Session /\ t \in Nat
  BY DbTimesType DEF FindActiveSession, Composed, TypeOK
<1>2. TouchedIdle(sessions[s], t) \in Nat
  BY <1>1 DEF TouchedIdle, Earlier, Session
<1>3. [sessions[s] EXCEPT !.idleExpiresAt = TouchedIdle(sessions[s], t)] \in Session
  BY <1>1, <1>2 DEF Session
<1>4. /\ sessions'[s] = [sessions[s] EXCEPT !.idleExpiresAt = TouchedIdle(sessions[s], t)]
      /\ \A i \in SessionIds \ {s} : sessions'[i] = sessions[i]
  BY DEF FindActiveSession, Composed, TypeOK
<1>5. SameRow(s)
  BY <1>1, <1>3, <1>4 DEF SameRow, Session
<1> QED
  BY <1>4, <1>5 DEF SameRow

LEMMA RotationKeepsRows ==
  ASSUME Composed, NEW token \in Presentable, NEW t \in DbTimes, RefreshRotated(token, t),
         provenBy' = provenBy
  PROVE  \A i \in SessionIds : SameRow(i)
<1> DEFINE s == token.sessionId
           minted == MintedToken(s, sessions[s].refreshGeneration + 1)
           idle == TouchedIdle(sessions[s], t)
<1>1. s \in SessionIds /\ t \in Nat
  BY PresentableType, DbTimesType DEF Token, Composed
<1>2. sessions[s] \in Session
  BY <1>1 DEF RefreshRotated, Exists, Composed, TypeOK
<1>3. minted \in Token /\ idle \in Nat /\ sessions[s].refreshGeneration + 1 \in Nat
  BY <1>1, <1>2, MintedTokenType DEF TouchedIdle, Earlier, Session
<1>4. /\ sessions'[s] = [sessions[s] EXCEPT !.tokenHash = minted,
                                           !.refreshGeneration = sessions[s].refreshGeneration + 1,
                                           !.idleExpiresAt = idle]
      /\ \A i \in SessionIds \ {s} : sessions'[i] = sessions[i]
  BY <1>1, <1>2 DEF RefreshRotated, Rotated, Composed, TypeOK
<1> HIDE DEF s, minted, idle
<1>5. sessions'[s] \in Session
  BY <1>2, <1>3, <1>4 DEF Session
<1>6. sessions'[s].userId = sessions[s].userId /\ sessions'[s].revoked = sessions[s].revoked
  BY <1>2, <1>4 DEF Session
<1> QED
  BY <1>2, <1>4, <1>5, <1>6 DEF SameRow

\* Outside logins, resets and changes a step revokes one session or none.
LEMMA OtherStepRows ==
  ASSUME Composed,
         \/ OtherStep
         \/ \E c \in Calls, s \in SessionIds, p \in Passwords, q \in Passwords :
              ChangeBegin(c, s, p, q)
  PROVE  \/ \A s \in SessionIds : SameRow(s)
         \/ \E s \in SessionIds : EndedRow(s) /\ \A i \in SessionIds \ {s} : SameRow(i)
<1>1. provenBy' = provenBy
  BY DEF OtherStep, ChangeBegin
<1>2. CASE sessions' = sessions
  BY <1>1, <1>2 DEF SameRow
<1>3. now \in DbTimes
  BY DEF Composed, TypeOK, DbTimes
<1>4. CASE SessionNext
  <2>1. ASSUME NEW token \in Presentable, NEW t \in DbTimes, RefreshAuthentication(token, t)
        PROVE  \/ RefreshRotated(token, t)
               \/ sessions' = sessions
               \/ Exists(token) /\ sessions' = RevokeSession(token.sessionId)
    BY <2>1 DEF RefreshAuthentication, RefreshInactive, RefreshReused, RefreshRejected
  <2>2. ASSUME NEW token \in Presentable, Logout(token)
        PROVE  \/ sessions' = sessions
               \/ Exists(token) /\ sessions' = RevokeSession(token.sessionId)
    BY <2>2 DEF Logout, LogoutRevokes, LogoutIgnored
  <2> QED
    BY <1>1, <1>2, <1>4, <2>1, <2>2, RevocationOfOne, GuardKeepsRows, RotationKeepsRows
       DEF SessionNext
<1>5. CASE ~SessionNext /\ OtherStep
  BY <1>2, <1>5 DEF OtherStep, Tick, Activate, SetAccountStatus
<1>6. CASE \E c \in Calls, s \in SessionIds, p \in Passwords, q \in Passwords :
             ChangeBegin(c, s, p, q)
  BY <1>1, <1>3, <1>6, GuardKeepsRows DEF ChangeBegin
<1> QED
  BY <1>4, <1>5, <1>6

\* The sessions and links of an account as CredentialRows has them.
Keys == SessionIds \cup ResetTokens

LEMMA SameFields ==
  ASSUME NEW a \in [proves : Nat, revoked : BOOLEAN], NEW b \in [proves : Nat, revoked : BOOLEAN],
         a.proves = b.proves, a.revoked = b.revoked
  PROVE  a = b
OBVIOUS

LEMMA RowWithRevocation ==
  ASSUME NEW row \in [proves : Nat, revoked : BOOLEAN]
  PROVE  [row EXCEPT !.revoked = TRUE] = [proves |-> row.proves, revoked |-> TRUE]
<1> DEFINE a == [row EXCEPT !.revoked = TRUE]
           b == [proves |-> row.proves, revoked |-> TRUE]
<1>1. a \in [proves : Nat, revoked : BOOLEAN] /\ a.proves = row.proves /\ a.revoked = TRUE
  OBVIOUS
<1>2. b \in [proves : Nat, revoked : BOOLEAN] /\ b.proves = row.proves /\ b.revoked = TRUE
  OBVIOUS
<1> HIDE DEF a, b
<1>3. a = b
  BY <1>1, <1>2, SameFields
<1> QED
  BY <1>3 DEF a, b

LEMMA RowWithProof ==
  ASSUME NEW row \in [proves : Nat, revoked : BOOLEAN], NEW n \in Nat
  PROVE  [row EXCEPT !.proves = n] = [proves |-> n, revoked |-> row.revoked]
<1> DEFINE a == [row EXCEPT !.proves = n]
           b == [proves |-> n, revoked |-> row.revoked]
<1>1. a \in [proves : Nat, revoked : BOOLEAN] /\ a.proves = n /\ a.revoked = row.revoked
  OBVIOUS
<1>2. b \in [proves : Nat, revoked : BOOLEAN] /\ b.proves = n /\ b.revoked = row.revoked
  OBVIOUS
<1> HIDE DEF a, b
<1>3. a = b
  BY <1>1, <1>2, SameFields
<1> QED
  BY <1>3 DEF a, b

LEMMA ShownRow ==
  ASSUME Composed, ProvenKnown, NEW u, NEW id \in UserSessions(u)
  PROVE  /\ SessionRowOf(u, id) = [proves |-> provenBy[id].version, revoked |-> sessions[id].revoked]
         /\ SessionRowOf(u, id) # Null
         /\ SessionRowOf(u, id) \in [proves : Nat, revoked : BOOLEAN]
<1>1. provenBy[id].version \in Nat /\ sessions[id].revoked \in BOOLEAN
  BY DEF UserSessions, ProvenKnown, PasswordHash, Composed, TypeOK, Session
<1>2. SessionRowOf(u, id) = [proves |-> provenBy[id].version, revoked |-> sessions[id].revoked]
  BY DEF SessionRowOf
<1> QED
  BY <1>1, <1>2, NullRowsAssumption

LEMMA HiddenRow ==
  ASSUME NEW u, NEW id, id \notin UserSessions(u)
  PROVE  SessionRowOf(u, id) = Null
BY DEF SessionRowOf

LEMMA SameRowShown ==
  ASSUME NEW u, NEW id, id \in SessionIds => SameRow(id)
  PROVE  SessionRowOf(u, id)' = SessionRowOf(u, id)
<1>1. (id \in UserSessions(u))' <=> id \in UserSessions(u)
  BY DEF UserSessions, SameRow
<1>2. CASE id \in UserSessions(u)
  BY <1>1, <1>2 DEF SessionRowOf, UserSessions, SameRow
<1>3. CASE id \notin UserSessions(u)
  BY <1>1, <1>3 DEF SessionRowOf
<1> QED
  BY <1>2, <1>3

LEMMA EndedRowShown ==
  ASSUME Composed, ProvenKnown, NEW u, NEW s \in SessionIds, EndedRow(s)
  PROVE  /\ s \notin UserSessions(u) => SessionRowOf(u, s)' = SessionRowOf(u, s)
         /\ s \in UserSessions(u) =>
              SessionRowOf(u, s)' = [SessionRowOf(u, s) EXCEPT !.revoked = TRUE]
<1>1. (s \in UserSessions(u))' <=> s \in UserSessions(u)
  BY DEF UserSessions, EndedRow
<1>2. CASE s \in UserSessions(u)
  <2>1. SessionRowOf(u, s)' = [proves |-> provenBy[s].version, revoked |-> TRUE]
    BY <1>1, <1>2 DEF SessionRowOf, EndedRow
  <2>2. SessionRowOf(u, s) = [proves |-> provenBy[s].version, revoked |-> sessions[s].revoked]
    BY <1>2, ShownRow
  <2>3. SessionRowOf(u, s).proves = provenBy[s].version
    BY <2>2
  <2> QED
    BY <1>2, <2>1, <2>3, ShownRow, RowWithRevocation
<1>3. CASE s \notin UserSessions(u)
  BY <1>1, <1>3 DEF SessionRowOf
<1> QED
  BY <1>2, <1>3

LEMMA LinksPrime ==
  ASSUME NEW u
  PROVE  /\ SessionsOf(u)' = [id \in Keys |-> SessionRowOf(u, id)']
         /\ LinksOf(u)' = [id \in Keys |-> LinkOf(u, id)']
BY DEF SessionsOf, LinksOf, Keys

LEMMA SameLinksShown ==
  ASSUME NEW u, resetTokens' = resetTokens
  PROVE  LinksOf(u)' = LinksOf(u)
BY DEF LinksOf, LinkOf, LinkState

LEMMA OpenLinksShown ==
  ASSUME Composed, NEW u
  PROVE  Rows(u)!OpenLinks = UnusedOf(u)
BY DEF Rows!OpenLinks, LinksOf, LinkOf, LinkState, UnusedOf, Unused

LEMMA NumberIsNat ==
  ASSUME Composed, NEW u \in Users
  PROVE  PasswordNumber(u) \in Nat
BY DEF Composed, TypeOK, Account, PasswordHash, PasswordNumber

\* The account is not pending any more once it has rows.
LEMMA PendingHasNoRows ==
  ASSUME Composed, SessionsActivated, LinksKnown, NEW u \in Users, ~Activated(u)
  PROVE  \A id \in Keys : SessionsOf(u)[id] = Null /\ LinksOf(u)[id] = "none"
BY DEF SessionsActivated, LinksKnown, SessionsOf, LinksOf, SessionRowOf, LinkOf, UserSessions, Keys

\* A step that changes nothing of the rows but for the session it may end.
LEMMA QuietRows ==
  ASSUME Composed, ProvenKnown, SessionsActivated, LinksKnown, NEW u \in Users,
         QuietStep,
         \/ \A s \in SessionIds : SameRow(s)
         \/ \E s \in SessionIds : EndedRow(s) /\ \A i \in SessionIds \ {s} : SameRow(i)
  PROVE  [Rows(u)!RowsNext]_(Rows(u)!rows)
<1>1. resetTokens' = resetTokens /\ (LoginStep \/ OtherStep \/ UNCHANGED accounts)
  BY QuietIsQuiet
<1>2. LinksOf(u)' = LinksOf(u)
  BY <1>1, SameLinksShown
<1>3. CASE \E h \in InitialHashes(u) : Activate(u, h)
  <2>1. PICK h \in InitialHashes(u) : Activate(u, h)
    BY <1>3
  <2>2. \A s \in SessionIds : SameRow(s)
    <3>1. sessions' = sessions
      BY <2>1 DEF Activate
    <3> QED
      BY <3>1 DEF EndedRow, SameRow
  <2>3. SessionsOf(u)' = SessionsOf(u)
    BY <2>2, SameRowShown, LinksPrime DEF SessionsOf, Keys
  <2>4. accounts'[u].passwordHash = IF h = Null THEN accounts[u].passwordHash ELSE h
    <3>1. accounts[u] \in Account /\ accounts' = [accounts EXCEPT ![u] = ActivateUser(accounts[u], h)]
      BY <2>1 DEF Activate, Composed, TypeOK
    <3>2. ActivateUser(accounts[u], h).passwordHash = IF h = Null THEN accounts[u].passwordHash ELSE h
      BY <3>1 DEF ActivateUser, Account
    <3> QED
      BY <3>1, <3>2 DEF Composed, TypeOK
  <2>5. h = Null \/ (h \in PasswordHash /\ h.version = NextVersion(accounts[u]))
    BY <2>1 DEF InitialHashes, PasswordHash
  <2>6. PasswordNumber(u)' \in {PasswordNumber(u), PasswordNumber(u) + 1}
    BY <2>4, <2>5, NullRowAssumption DEF PasswordNumber, NextVersion
  <2>7. ~Activated(u)
    BY <2>1 DEF Activate, Activated
  <2> QED
    BY <1>2, <2>3, <2>6, <2>7, PendingHasNoRows
       DEF Rows!RowsNext, Rows!Activate, Rows!rows, Keys
<1>4. CASE accounts'[u].passwordHash = accounts[u].passwordHash
  <2>1. PasswordNumber(u)' = PasswordNumber(u)
    BY <1>4 DEF PasswordNumber
  <2>2. CASE \A s \in SessionIds : SameRow(s)
    <3>1. SessionsOf(u)' = SessionsOf(u)
      BY <2>2, SameRowShown, LinksPrime DEF SessionsOf, Keys
    <3> QED
      BY <1>2, <2>1, <3>1 DEF Rows!rows
  <2>3. ASSUME NEW s \in SessionIds, EndedRow(s), \A i \in SessionIds \ {s} : SameRow(i)
        PROVE  Rows(u)!LogOut(s) \/ UNCHANGED Rows(u)!rows
    <3>1. \A id \in Keys \ {s} : SessionRowOf(u, id)' = SessionRowOf(u, id)
      BY <2>3, SameRowShown
    <3>2. CASE s \in UserSessions(u)
      <4>1. SessionsOf(u)' = Rows(u)!RevokeSessions({s})
        BY <2>3, <3>1, <3>2, EndedRowShown, LinksPrime
           DEF Rows!RevokeSessions, SessionsOf, Keys
      <4>2. SessionsOf(u)[s] # Null
        BY <3>2, ShownRow DEF SessionsOf
      <4> QED
        BY <1>2, <2>1, <4>1, <4>2 DEF Rows!LogOut
    <3>3. CASE s \notin UserSessions(u)
      <4>1. SessionsOf(u)' = SessionsOf(u)
        BY <2>3, <3>1, <3>3, EndedRowShown, LinksPrime DEF SessionsOf, Keys
      <4> QED
        BY <1>2, <2>1, <4>1 DEF Rows!rows
    <3> QED
      BY <3>2, <3>3
  <2> QED
    BY <2>2, <2>3 DEF Rows!RowsNext
<1> QED
  BY <1>1, <1>3, <1>4, OthersKeepPasswords

\* A login that commits is LogIn to its account.
LEMMA LoginRows ==
  ASSUME Composed, CommitsVerified, ProvenKnown, NEW u \in Users,
         NEW r \in Requests, NEW s \in SessionIds, LoginCommit(r, s),
         provenBy' = [provenBy EXCEPT ![s] = logins[r].user.passwordHash],
         resetTokens' = resetTokens
  PROVE  Rows(u)!LogIn(s) \/ UNCHANGED Rows(u)!rows
<1> DEFINE v == logins[r].userId
           hash == logins[r].user.passwordHash
<1>1. /\ v \in Users /\ sessions'[s].userId = v
      /\ hash = accounts[v].passwordHash /\ hash \in PasswordHash
  BY LoginIsCurrent, LoginIsProven
<1>2. /\ sessions[s] = Null
      /\ sessions'[s] # Null /\ sessions'[s].revoked = FALSE
      /\ \A i \in SessionIds \ {s} : sessions'[i] = sessions[i]
  <2>1. sessions' = [sessions EXCEPT ![s] = NewSession(logins[r], s)] /\ sessions[s] = Null
    BY DEF LoginCommit
  <2>2. logins[r] \in LoginCall
    BY DEF LoginCommit, Committing, Composed, TypeOK
  <2>3. NewSession(logins[r], s) \in Session /\ NewSession(logins[r], s).revoked = FALSE
    BY <2>2, SessionRowTypes, MintedTokenType DEF NewSession, Session, LoginCall
  <2> QED
    BY <2>1, <2>3 DEF Composed, TypeOK
<1>3. provenBy'[s] = hash /\ \A i \in SessionIds \ {s} : provenBy'[i] = provenBy[i]
  BY DEF Composed, TablesTyped
<1>4. \A id \in Keys \ {s} : SessionRowOf(u, id)' = SessionRowOf(u, id)
  BY <1>2, <1>3, SameRowShown DEF SameRow
<1>5. SessionRowOf(u, s) = Null
  BY <1>2, HiddenRow DEF UserSessions
<1>6. LinksOf(u)' = LinksOf(u)
  BY SameLinksShown
<1>7. PasswordNumber(u)' = PasswordNumber(u)
  <2>1. accounts'[u].passwordHash = accounts[u].passwordHash
    <3>1. accounts' = [accounts EXCEPT ![v] = RecordSuccessfulLogin(accounts[v])]
      BY DEF LoginCommit
    <3>2. accounts[v] \in Account
      BY <1>1 DEF Composed, TypeOK
    <3>3. RecordSuccessfulLogin(accounts[v]).passwordHash = accounts[v].passwordHash
      BY <3>2 DEF RecordSuccessfulLogin, Account
    <3> QED
      BY <1>1, <3>1, <3>3 DEF Composed, TypeOK
  <2> QED
    BY <2>1 DEF PasswordNumber
<1>8. CASE u = v
  <2>1. SessionRowOf(u, s)' = [proves |-> PasswordNumber(u), revoked |-> FALSE]
    <3>1. (s \in UserSessions(u))'
      BY <1>1, <1>2, <1>8 DEF UserSessions
    <3>2. provenBy'[s].version = PasswordNumber(u)
      BY <1>1, <1>3, <1>8, NullRowAssumption DEF PasswordNumber
    <3> QED
      BY <1>2, <3>1, <3>2 DEF SessionRowOf
  <2>2. SessionsOf(u)' = [SessionsOf(u) EXCEPT ![s] = [proves |-> PasswordNumber(u), revoked |-> FALSE]]
    BY <1>4, <2>1, LinksPrime DEF SessionsOf, Keys
  <2>3. SessionsOf(u)[s] = Null
    BY <1>5 DEF SessionsOf
  <2> QED
    BY <1>6, <1>7, <2>2, <2>3 DEF Rows!LogIn
<1>9. CASE u # v
  <2>1. SessionRowOf(u, s)' = Null
    <3>1. ~(s \in UserSessions(u))'
      BY <1>1, <1>9 DEF UserSessions
    <3> QED
      BY <3>1 DEF SessionRowOf
  <2>2. SessionsOf(u)' = SessionsOf(u)
    BY <1>4, <1>5, <2>1, LinksPrime DEF SessionsOf, Keys
  <2> QED
    BY <1>6, <1>7, <2>2 DEF Rows!rows
<1> QED
  BY <1>8, <1>9

LEMMA SameSessionsShown ==
  ASSUME NEW u, sessions' = sessions, provenBy' = provenBy
  PROVE  SessionsOf(u)' = SessionsOf(u)
BY SameRowShown, LinksPrime DEF SessionsOf, Keys, SameRow

\* What RevokeTokens does to the links of the account, and to those of others.
LEMMA RevokedLinksShown ==
  ASSUME Composed, NEW u, NEW v, NEW spared, NEW t \in ResetTokens,
         resetTokens'[t] = RevokeTokens(UnusedOf(v) \ spared)[t]
  PROVE  LinkOf(u, t)' = IF u = v /\ t \notin spared /\ LinkOf(u, t) = "open"
                         THEN "revoked" ELSE LinkOf(u, t)
<1>1. CASE t \in UnusedOf(v) \ spared
  <2>1. /\ resetTokens[t] \in ResetRow /\ resetTokens[t].userId = v
        /\ resetTokens[t].used = FALSE /\ resetTokens[t].revoked = FALSE
    BY <1>1, UnusedTypes DEF UnusedOf, Composed
  <2>2. resetTokens'[t] = [resetTokens[t] EXCEPT !.revoked = TRUE]
    BY <1>1 DEF RevokeTokens
  <2>3. /\ resetTokens'[t] \in ResetRow /\ resetTokens'[t].userId = v
        /\ resetTokens'[t].used = FALSE /\ resetTokens'[t].revoked = TRUE
    BY <2>1, <2>2 DEF ResetRow
  <2> QED
    BY <1>1, <2>1, <2>3, NullRowsAssumption DEF LinkOf, LinkState
<1>2. CASE t \notin UnusedOf(v) \ spared
  <2>1. resetTokens'[t] = resetTokens[t]
    BY <1>2 DEF RevokeTokens
  <2>2. LinkOf(u, t)' = LinkOf(u, t)
    BY <2>1 DEF LinkOf
  <2>3. ~(u = v /\ t \notin spared /\ LinkOf(u, t) = "open")
    BY <1>2 DEF LinkOf, LinkState, UnusedOf, Unused
  <2> QED
    BY <2>2, <2>3
<1> QED
  BY <1>1, <1>2

\* A request that commits is IssueLink to its account.
LEMMA RequestRows ==
  ASSUME Composed, NEW u \in Users, NEW c \in Calls, NEW token \in ResetTokens,
         RequestCommit(c, token)
  PROVE  Rows(u)!IssueLink(token) \/ UNCHANGED Rows(u)!rows
<1> DEFINE v == calls[c].userId
<1>1. SessionsOf(u)' = SessionsOf(u) /\ PasswordNumber(u)' = PasswordNumber(u)
  BY SameSessionsShown DEF RequestCommit, vars, PasswordNumber
<1>2. /\ resetTokens[token] = Null
      /\ resetTokens' = [RevokeTokens(UnusedOf(v) \ {}) EXCEPT ![token] = NewResetRow(calls[c])]
  BY DEF RequestCommit
<1>3. /\ resetTokens'[token] = NewResetRow(calls[c])
      /\ \A t \in ResetTokens \ {token} : resetTokens'[t] = RevokeTokens(UnusedOf(v) \ {})[t]
  BY <1>2 DEF RevokeTokens
<1>4. NewResetRow(calls[c]) # Null
  <2>1. Running(c, "request")
    BY DEF RequestCommit
  <2>2. NewResetRow(calls[c]) \in ResetRow
    BY <2>1, CallTypes DEF Composed, NewResetRow, ResetRow
  <2> QED
    BY <2>2, NullRowsAssumption
<1>5. LinkOf(u, token) = "none" /\ LinkOf(u, token)' = IF u = v THEN "open" ELSE "none"
  BY <1>2, <1>3, <1>4 DEF LinkOf, LinkState, NewResetRow
<1>6. \A t \in ResetTokens \ {token} :
        LinkOf(u, t)' = IF u = v /\ LinkOf(u, t) = "open" THEN "revoked" ELSE LinkOf(u, t)
  <2> SUFFICES ASSUME NEW t \in ResetTokens \ {token}
               PROVE  LinkOf(u, t)' = IF u = v /\ LinkOf(u, t) = "open"
                                      THEN "revoked" ELSE LinkOf(u, t)
    OBVIOUS
  <2>1. resetTokens'[t] = RevokeTokens(UnusedOf(v) \ {})[t]
    BY <1>3
  <2> HIDE DEF v
  <2>2. LinkOf(u, t)' = IF u = v /\ t \notin {} /\ LinkOf(u, t) = "open"
                        THEN "revoked" ELSE LinkOf(u, t)
    BY <2>1, RevokedLinksShown
  <2> QED
    BY <2>2
<1>7. \A id \in Keys \ ResetTokens : LinkOf(u, id) = "none" /\ LinkOf(u, id)' = "none"
  BY DEF LinkOf
<1> HIDE DEF v
<1>8. CASE u = v
  <2>1. LinksOf(u)' = [Rows(u)!RevokeLinks(Rows(u)!OpenLinks) EXCEPT ![token] = "open"]
    BY <1>5, <1>6, <1>7, <1>8, LinksPrime
       DEF Rows!RevokeLinks, Rows!OpenLinks, LinksOf, Keys
  <2>2. LinksOf(u)[token] = "none"
    BY <1>5 DEF LinksOf
  <2> QED
    BY <1>1, <2>1, <2>2 DEF Rows!IssueLink
<1>9. CASE u # v
  <2>1. LinksOf(u)' = LinksOf(u)
    BY <1>5, <1>6, <1>7, <1>9, LinksPrime DEF LinksOf, Keys
  <2> QED
    BY <1>1, <2>1 DEF Rows!rows
<1> QED
  BY <1>8, <1>9

\* What a replacement does to the sessions of its account, and to others'.
LEMMA ReplacedRowsShown ==
  ASSUME Composed, ProvenKnown, NEW u, NEW v, NEW p, NEW kept, NEW s \in SessionIds,
         ReplacePassword(v, p, kept), provenBy'[s] = provenBy[s]
  PROVE  SessionRowOf(u, s)' = IF u = v /\ s \in UserSessions(u) \ kept
                               THEN [SessionRowOf(u, s) EXCEPT !.revoked = TRUE]
                               ELSE SessionRowOf(u, s)
<1>1. CASE s \in UserSessions(v) \ kept
  <2>1. sessions'[s] = [sessions[s] EXCEPT !.revoked = TRUE]
    BY <1>1 DEF ReplacePassword, RevokeUserSessions
  <2>2. sessions[s] \in Session /\ sessions[s].userId = v /\ sessions[s] # Null
    BY <1>1 DEF UserSessions, Composed, TypeOK
  <2>3. [sessions[s] EXCEPT !.revoked = TRUE] \in Session
    BY <2>2 DEF Session
  <2>4. EndedRow(s)
    BY <2>1, <2>2, <2>3 DEF EndedRow, Session
  <2> QED
    BY <1>1, <2>2, <2>4, EndedRowShown DEF UserSessions
<1>2. CASE s \notin UserSessions(v) \ kept
  <2>1. SameRow(s)
    BY <1>2 DEF ReplacePassword, RevokeUserSessions, SameRow
  <2> QED
    BY <1>2, <2>1, SameRowShown
<1> QED
  BY <1>1, <1>2

LEMMA ReplacedNumber ==
  ASSUME Composed, NEW u \in Users, NEW v \in Users, NEW p \in Passwords, NEW kept,
         ReplacePassword(v, p, kept), accounts[v].passwordHash # Null
  PROVE  PasswordNumber(u)' = IF u = v THEN PasswordNumber(u) + 1 ELSE PasswordNumber(u)
<1>1. CASE u = v
  <2>1. /\ accounts'[v].passwordHash # Null
        /\ accounts'[v].passwordHash.version = accounts[v].passwordHash.version + 1
    <3>1. NextVersion(accounts[v]) = accounts[v].passwordHash.version + 1
      BY DEF NextVersion
    <3>2. /\ accounts'[v].passwordHash = [password |-> p, version |-> NextVersion(accounts[v])]
          /\ accounts'[v].passwordHash \in PasswordHash
      BY ReplacementSets
    <3>3. accounts'[v].passwordHash.version = NextVersion(accounts[v])
      BY <3>2
    <3> QED
      BY <3>1, <3>2, <3>3, NullRowAssumption
  <2> QED
    BY <1>1, <2>1 DEF PasswordNumber
<1>2. CASE u # v
  BY <1>2, ReplacementOf DEF PasswordNumber
<1> QED
  BY <1>1, <1>2

\* Revoking all live sessions of the account but the kept one.
LEMMA ReplacedSessionsShown ==
  ASSUME Composed, ProvenKnown, NEW u, NEW p, NEW kept, NEW id \in Keys,
         ReplacePassword(u, p, kept), id \notin kept, id \in SessionIds => provenBy'[id] = provenBy[id]
  PROVE  SessionRowOf(u, id)' = Rows(u)!RevokeSessions(Rows(u)!LiveSessions \ kept)[id]
<1> DEFINE revoked == Rows(u)!RevokeSessions(Rows(u)!LiveSessions \ kept)
<1>1. revoked[id] = IF SessionRowOf(u, id) # Null /\ ~SessionRowOf(u, id).revoked
                    THEN [SessionRowOf(u, id) EXCEPT !.revoked = TRUE] ELSE SessionRowOf(u, id)
  BY DEF Rows!RevokeSessions, Rows!LiveSessions, SessionsOf, Keys
<1> HIDE DEF revoked
<1>2. CASE id \in UserSessions(u)
  <2>1. SessionRowOf(u, id)' = [SessionRowOf(u, id) EXCEPT !.revoked = TRUE]
    BY <1>2, ReplacedRowsShown DEF UserSessions
  <2>2. SessionRowOf(u, id) # Null /\ SessionRowOf(u, id) \in [proves : Nat, revoked : BOOLEAN]
    BY <1>2, ShownRow
  <2>3. CASE SessionRowOf(u, id).revoked
    <3>1. SessionRowOf(u, id).revoked = TRUE
      BY <2>2, <2>3
    <3>2. SessionRowOf(u, id)' = [proves |-> SessionRowOf(u, id).proves, revoked |-> TRUE]
      BY <2>1, <2>2, RowWithRevocation
    <3>3. SessionRowOf(u, id)' = SessionRowOf(u, id)
      BY <2>2, <3>1, <3>2
    <3> QED
      BY <1>1, <2>3, <3>3 DEF revoked
  <2>4. CASE ~SessionRowOf(u, id).revoked
    BY <1>1, <2>1, <2>2, <2>4 DEF revoked
  <2> QED
    BY <2>3, <2>4
<1>3. CASE id \notin UserSessions(u)
  <2>1. SessionRowOf(u, id) = Null
    BY <1>3, HiddenRow
  <2>2. SessionRowOf(u, id)' = SessionRowOf(u, id)
    <3>1. CASE id \in SessionIds
      BY <1>3, <3>1, ReplacedRowsShown
    <3>2. CASE id \notin SessionIds
      BY <3>2, SameRowShown
    <3> QED
      BY <3>1, <3>2
  <2> QED
    BY <1>1, <2>1, <2>2 DEF revoked
<1> QED
  BY <1>2, <1>3

\* The account of another's replacement is left alone.
LEMMA OthersRowsShown ==
  ASSUME Composed, ProvenKnown, NEW u, NEW v, u # v, NEW p, NEW kept, ReplacePassword(v, p, kept),
         \A s \in SessionIds \ UserSessions(v) : provenBy'[s] = provenBy[s]
  PROVE  SessionsOf(u)' = SessionsOf(u)
<1> SUFFICES ASSUME NEW id \in Keys
             PROVE  SessionRowOf(u, id)' = SessionRowOf(u, id)
  BY LinksPrime DEF SessionsOf, Keys
<1>1. CASE id \in SessionIds \ UserSessions(v)
  <2>1. SameRow(id)
    BY <1>1 DEF ReplacePassword, RevokeUserSessions, SameRow
  <2> QED
    BY <2>1, SameRowShown
<1>2. CASE id \in UserSessions(v)
  <2>1. sessions[id] \in Session /\ sessions[id].userId = v
    BY <1>2 DEF UserSessions, Composed, TypeOK
  <2>2. [sessions[id] EXCEPT !.revoked = TRUE].userId = v
    BY <2>1 DEF Session
  <2>3. sessions'[id].userId = v
    BY <1>2, <2>1, <2>2 DEF ReplacePassword, RevokeUserSessions, UserSessions
  <2> QED
    BY <2>1, <2>3 DEF SessionRowOf, UserSessions
<1>3. CASE id \notin SessionIds
  BY <1>3, SameRowShown
<1> QED
  BY <1>1, <1>2, <1>3 DEF UserSessions

\* A reset that commits is Reset to its account.
LEMMA ResetRows ==
  ASSUME Composed, ProvenKnown, BothTerminate, NEW u \in Users, NEW c \in Calls, ResetCommit(c),
         NEW token \in ResetTokens, token = calls[c].token
  PROVE  Rows(u)!Reset(token) \/ UNCHANGED Rows(u)!rows
<1> DEFINE v == resetTokens[token].userId
<1>1. /\ Running(c, "reset") /\ Unused(token) /\ HasActivePassword(v)
      /\ ReplacePassword(v, calls[c].password, {})
      /\ resetTokens' = [RevokeTokens(UnusedOf(v) \ {token}) EXCEPT ![token].used = TRUE]
      /\ provenBy' = provenBy
  BY DEF ResetCommit, ResetAllowed, AssertValidReset, KeptByReset, BothTerminate
<1>2. calls[c].password \in Passwords
  BY <1>1, CallTypes DEF Composed
<1>3. v \in Users /\ resetTokens[token] \in ResetRow
  BY <1>1, <1>2, UnusedTypes DEF Composed
<1>4. PasswordNumber(u)' = IF u = v THEN PasswordNumber(u) + 1 ELSE PasswordNumber(u)
  BY <1>1, <1>2, <1>3, ReplacedNumber DEF HasActivePassword
<1> HIDE DEF v
<1>5. LinkOf(u, token)' = (IF u = v THEN "used" ELSE "none")
      /\ LinkOf(u, token) = (IF u = v THEN "open" ELSE "none")
  <2>1. RevokeTokens(UnusedOf(v) \ {token})[token] = resetTokens[token]
    BY <1>2 DEF RevokeTokens
  <2>2. resetTokens'[token] = [resetTokens[token] EXCEPT !.used = TRUE]
    BY <1>1, <1>2, <2>1 DEF RevokeTokens
  <2>3. [resetTokens[token] EXCEPT !.used = TRUE] \in ResetRow
    BY <1>3 DEF ResetRow
  <2>4. resetTokens'[token].used = TRUE /\ resetTokens'[token].userId = v
    BY <1>3, <2>2 DEF ResetRow, v
  <2>5. resetTokens'[token] # Null
    BY <2>2, <2>3, NullRowsAssumption
  <2>6. LinkOf(u, token)' = IF u = v THEN "used" ELSE "none"
    BY <1>2, <2>4, <2>5 DEF LinkOf, LinkState
  <2>7. LinkOf(u, token) = IF u = v THEN "open" ELSE "none"
    BY <1>1, <1>2 DEF LinkOf, LinkState, Unused, v
  <2> QED
    BY <2>6, <2>7
<1>6. \A t \in ResetTokens \ {token} :
        LinkOf(u, t)' = IF u = v /\ LinkOf(u, t) = "open" THEN "revoked" ELSE LinkOf(u, t)
  <2> SUFFICES ASSUME NEW t \in ResetTokens \ {token}
               PROVE  LinkOf(u, t)' = IF u = v /\ LinkOf(u, t) = "open"
                                      THEN "revoked" ELSE LinkOf(u, t)
    OBVIOUS
  <2>1. resetTokens'[t] = RevokeTokens(UnusedOf(v) \ {token})[t]
    BY <1>1 DEF RevokeTokens
  <2>2. LinkOf(u, t)' = IF u = v /\ t \notin {token} /\ LinkOf(u, t) = "open"
                        THEN "revoked" ELSE LinkOf(u, t)
    BY <2>1, RevokedLinksShown
  <2> QED
    BY <2>2
<1>7. \A id \in Keys \ ResetTokens : LinkOf(u, id) = "none" /\ LinkOf(u, id)' = "none"
  BY DEF LinkOf
<1>8. CASE u = v
  <2>1. LinksOf(u)' = [Rows(u)!RevokeLinks(Rows(u)!OpenLinks) EXCEPT ![token] = "used"]
    BY <1>2, <1>5, <1>6, <1>7, <1>8, LinksPrime
       DEF Rows!RevokeLinks, Rows!OpenLinks, LinksOf, Keys
  <2>2. LinksOf(u)[token] = "open"
    BY <1>2, <1>5, <1>8 DEF LinksOf
  <2>3. SessionsOf(u)' = Rows(u)!RevokeSessions(Rows(u)!LiveSessions)
    <3>1. \A id \in Keys :
            SessionRowOf(u, id)' = Rows(u)!RevokeSessions(Rows(u)!LiveSessions \ {})[id]
      BY <1>1, <1>8, ReplacedSessionsShown
    <3>2. Rows(u)!LiveSessions \ {} = Rows(u)!LiveSessions
      OBVIOUS
    <3>3. SessionsOf(u)' =
            [id \in Keys |-> Rows(u)!RevokeSessions(Rows(u)!LiveSessions)[id]]
      BY <3>1, <3>2, LinksPrime
    <3> QED
      BY <3>3 DEF Rows!RevokeSessions, Keys
  <2> QED
    BY <1>4, <1>8, <2>1, <2>2, <2>3 DEF Rows!Reset
<1>9. CASE u # v
  <2>1. LinksOf(u)' = LinksOf(u)
    BY <1>2, <1>5, <1>6, <1>7, <1>9, LinksPrime DEF LinksOf, Keys
  <2>2. SessionsOf(u)' = SessionsOf(u)
    BY <1>1, <1>9, OthersRowsShown
  <2> QED
    BY <1>4, <1>9, <2>1, <2>2 DEF Rows!rows
<1> QED
  BY <1>8, <1>9

\* A change that commits is Change to its account.
LEMMA ChangeRows ==
  ASSUME Composed, ProvenKnown, BothTerminate, NEW u \in Users, NEW c \in Calls, ChangeCommit(c),
         NEW s \in SessionIds, s = calls[c].session
  PROVE  Rows(u)!Change(s) \/ UNCHANGED Rows(u)!rows
<1> DEFINE v == calls[c].userId
<1>1. /\ Running(c, "change") /\ HasActivePassword(v)
      /\ ReplacePassword(v, calls[c].password, {s})
      /\ resetTokens' = RevokeTokens(UnusedOf(v) \ {})
      /\ provenBy' = [provenBy EXCEPT ![s] = accounts'[v].passwordHash]
  BY DEF ChangeCommit, ChangeAllowed, KeptByChange, BothTerminate
<1>2. v \in Users /\ calls[c].password \in Passwords /\ s \in UserSessions(v)
  BY <1>1, CallTypes DEF Composed, CallersKnown, UserSessions
<1>3. PasswordNumber(u)' = IF u = v THEN PasswordNumber(u) + 1 ELSE PasswordNumber(u)
  BY <1>1, <1>2, ReplacedNumber DEF HasActivePassword
<1>4. provenBy'[s] = accounts'[v].passwordHash
      /\ \A i \in SessionIds \ {s} : provenBy'[i] = provenBy[i]
  BY <1>1 DEF Composed, TablesTyped
<1> HIDE DEF v
<1>5. \A t \in ResetTokens :
        LinkOf(u, t)' = IF u = v /\ LinkOf(u, t) = "open" THEN "revoked" ELSE LinkOf(u, t)
  <2> SUFFICES ASSUME NEW t \in ResetTokens
               PROVE  LinkOf(u, t)' = IF u = v /\ LinkOf(u, t) = "open"
                                      THEN "revoked" ELSE LinkOf(u, t)
    OBVIOUS
  <2>1. LinkOf(u, t)' = IF u = v /\ t \notin {} /\ LinkOf(u, t) = "open"
                        THEN "revoked" ELSE LinkOf(u, t)
    BY <1>1, RevokedLinksShown
  <2> QED
    BY <2>1
<1>6. \A id \in Keys \ ResetTokens : LinkOf(u, id) = "none" /\ LinkOf(u, id)' = "none"
  BY DEF LinkOf
<1>7. CASE u = v
  <2> DEFINE others == Rows(u)!RevokeSessions(Rows(u)!LiveSessions \ {s})
  <2>1. LinksOf(u)' = Rows(u)!RevokeLinks(Rows(u)!OpenLinks)
    BY <1>5, <1>6, <1>7, LinksPrime DEF Rows!RevokeLinks, Rows!OpenLinks, LinksOf, Keys
  <2>2. \A id \in Keys \ {s} : SessionRowOf(u, id)' = others[id]
    BY <1>1, <1>4, <1>7, ReplacedSessionsShown
  <2>3. others[s] = SessionRowOf(u, s)
    BY DEF Rows!RevokeSessions, SessionsOf, Keys
  <2>4. SessionRowOf(u, s) \in [proves : Nat, revoked : BOOLEAN] /\ SessionRowOf(u, s) # Null
        /\ SessionRowOf(u, s).revoked = sessions[s].revoked
    BY <1>2, <1>7, ShownRow
  <2>5. SessionRowOf(u, s)' = [SessionRowOf(u, s) EXCEPT !.proves = PasswordNumber(u) + 1]
    <3>1. sessions'[s] = sessions[s]
      BY <1>1 DEF ReplacePassword, RevokeUserSessions
    <3>2. provenBy'[s].version = PasswordNumber(u) + 1
      <4>1. accounts'[v].passwordHash \in PasswordHash
        BY <1>1, <1>2, ReplacementSets
      <4> QED
        BY <1>3, <1>4, <1>7, <4>1, NullRowAssumption DEF PasswordNumber
    <3>3. (s \in UserSessions(u))'
      BY <1>2, <1>7, <3>1 DEF UserSessions
    <3>4. SessionRowOf(u, s)' = [proves |-> PasswordNumber(u) + 1, revoked |-> sessions[s].revoked]
      BY <3>1, <3>2, <3>3 DEF SessionRowOf
    <3>5. PasswordNumber(u) + 1 \in Nat
      BY NumberIsNat
    <3> QED
      BY <2>4, <3>4, <3>5, RowWithProof
  <2>6. SessionsOf(u)' = [others EXCEPT ![s].proves = PasswordNumber(u) + 1]
    <3>1. others = [id \in Keys |-> others[id]]
      BY DEF Rows!RevokeSessions, Keys
    <3> HIDE DEF others
    <3>2. [others EXCEPT ![s].proves = PasswordNumber(u) + 1]
            = [id \in Keys |-> IF id = s THEN SessionRowOf(u, s)' ELSE others[id]]
      BY <2>3, <2>5, <3>1 DEF Keys
    <3> QED
      BY <2>2, <3>2, LinksPrime
  <2>7. SessionsOf(u)[s] # Null
    BY <2>4 DEF SessionsOf
  <2> QED
    BY <1>3, <1>7, <2>1, <2>6, <2>7 DEF Rows!Change
<1>8. CASE u # v
  <2>1. LinksOf(u)' = LinksOf(u)
    BY <1>5, <1>6, <1>8, LinksPrime DEF LinksOf, Keys
  <2>2. SessionsOf(u)' = SessionsOf(u)
    BY <1>1, <1>2, <1>4, <1>8, OthersRowsShown
  <2> QED
    BY <1>3, <1>8, <2>1, <2>2 DEF Rows!rows
<1> QED
  BY <1>7, <1>8

\* What the refinement needs to know of a state.
RowsKnown == Composed /\ SessionsActivated /\ LinksKnown /\ ProvenKnown /\ CommitsVerified

LEMMA InitRowsKnown == PMInit => RowsKnown
BY InitComposed DEF PMInit, Init, RowsKnown, SessionsActivated, LinksKnown, ProvenKnown,
   CommitsVerified, Committing

LEMMA StepLinksKnown ==
  ASSUME Composed, LinksKnown, [PMNext]_pmVars
  PROVE  LinksKnown'
<1> SUFFICES ASSUME NEW t \in ResetTokens, resetTokens'[t] # Null
             PROVE  accounts'[resetTokens'[t].userId].accountStatus # "pending_activation"
  BY DEF LinksKnown, Activated
<1> USE DEF Composed
<1>1. ASSUME resetTokens[t] # Null, resetTokens'[t].userId = resetTokens[t].userId
      PROVE  accounts'[resetTokens'[t].userId].accountStatus # "pending_activation"
  BY <1>1, StaysActivated DEF LinksKnown, TablesTyped, ResetRow
<1>2. ASSUME NEW tokens, \A i \in tokens : resetTokens[i] # Null,
             resetTokens'[t] = RevokeTokens(tokens)[t]
      PROVE  resetTokens[t] # Null /\ resetTokens'[t].userId = resetTokens[t].userId
  BY <1>2 DEF RevokeTokens, TablesTyped, ResetRow
<1>3. \A v : \A i \in UnusedOf(v) : resetTokens[i] # Null
  BY DEF UnusedOf, Unused
<1>4. CASE QuietStep
  BY <1>1, <1>4, QuietIsQuiet
<1>5. ASSUME NEW c \in Calls, NEW token \in ResetTokens, RequestCommit(c, token)
      PROVE  accounts'[resetTokens'[t].userId].accountStatus # "pending_activation"
  <2>1. CASE t = token
    <3>1. resetTokens'[t].userId = calls[c].userId
      BY <1>5, <2>1 DEF RequestCommit, NewResetRow, RevokeTokens
    <3> QED
      BY <1>5, <3>1 DEF RequestCommit, HasActivePassword, vars
  <2>2. CASE t # token
    <3>1. resetTokens'[t] = RevokeTokens(UnusedOf(calls[c].userId))[t]
      BY <1>5, <2>2 DEF RequestCommit, RevokeTokens
    <3> QED
      BY <1>1, <1>2, <1>3, <3>1
  <2> QED
    BY <2>1, <2>2
<1>6. ASSUME NEW c \in Calls, ChangeCommit(c)
      PROVE  accounts'[resetTokens'[t].userId].accountStatus # "pending_activation"
  BY <1>1, <1>2, <1>3, <1>6 DEF ChangeCommit
<1>7. ASSUME NEW c \in Calls, ResetCommit(c)
      PROVE  accounts'[resetTokens'[t].userId].accountStatus # "pending_activation"
  <2> DEFINE token == calls[c].token
             gone  == UnusedOf(resetTokens[token].userId) \ {token}
  <2>1. /\ resetTokens' = [RevokeTokens(gone) EXCEPT ![token].used = TRUE]
        /\ Running(c, "reset") /\ Unused(token)
    BY <1>7 DEF ResetCommit, ResetAllowed, AssertValidReset
  <2>2. token \in ResetTokens /\ resetTokens[token] \in ResetRow
    BY <2>1, CallTypes, UnusedTypes
  <2> HIDE DEF token
  <2>3. CASE t = token
    <3>1. resetTokens'[t] = [resetTokens[token] EXCEPT !.used = TRUE]
      BY <2>1, <2>2, <2>3 DEF RevokeTokens
    <3> QED
      BY <1>1, <2>1, <2>2, <2>3, <3>1 DEF ResetRow, Unused
  <2>4. CASE t # token
    <3>1. resetTokens'[t] = RevokeTokens(gone)[t]
      BY <2>1, <2>4 DEF RevokeTokens
    <3> QED
      BY <1>1, <1>2, <1>3, <3>1
  <2> QED
    BY <2>3, <2>4
<1> QED
  BY <1>4, <1>5, <1>6, <1>7, StepCases

LEMMA StepRowsKnown ==
  ASSUME RowsKnown, [PMNext]_pmVars
  PROVE  RowsKnown'
BY StepComposed, StepSessionsActivated, StepLinksKnown, StepProvenKnown, StepCommitsVerified,
   StepIsAuthStep DEF RowsKnown, Composed

LEMMA StepOnRows ==
  ASSUME RowsKnown, BothTerminate, NEW u \in Users, [PMNext]_pmVars
  PROVE  [Rows(u)!RowsNext]_(Rows(u)!rows)
<1> USE DEF RowsKnown
<1>1. CASE LoginStep
  <2>1. ASSUME NEW r \in Requests, LoginChecks(r), provenBy' = provenBy
        PROVE  \A s \in SessionIds : SameRow(s)
    BY <2>1 DEF LoginChecks, LoginRead, LoginRecordFailure, LoginRejected, LoginBegin,
         LoginRolledBack, SameRow
  <2>2. ASSUME NEW r \in Requests, NEW s \in SessionIds, LoginCommit(r, s),
               provenBy' = [provenBy EXCEPT ![s] = logins[r].user.passwordHash],
               resetTokens' = resetTokens
        PROVE  [Rows(u)!RowsNext]_(Rows(u)!rows)
    BY <2>2, LoginRows DEF Rows!RowsNext
  <2>3. QuietStep
    BY <1>1 DEF QuietStep
  <2>4. ASSUME \A s \in SessionIds : SameRow(s)
        PROVE  [Rows(u)!RowsNext]_(Rows(u)!rows)
    BY <2>3, <2>4, QuietRows
  <2> QED
    BY <1>1, <2>1, <2>2, <2>4 DEF LoginStep, pmTables
<1>2. CASE OtherStep \/ \E c \in Calls, s \in SessionIds, p \in Passwords, q \in Passwords :
                         ChangeBegin(c, s, p, q)
  <2>1. QuietStep
    BY <1>2 DEF QuietStep
  <2> QED
    BY <1>2, <2>1, OtherStepRows, QuietRows
<1>3. CASE QuietStep /\ sessions' = sessions /\ provenBy' = provenBy
  <2>1. \A s \in SessionIds : SameRow(s)
    BY <1>3 DEF SameRow
  <2> QED
    BY <1>3, <2>1, QuietRows
<1>4. CASE QuietStep
  BY <1>1, <1>2, <1>3, <1>4, CallStepsKeepTables DEF QuietStep, pmVars, vars
<1>5. ASSUME NEW c \in Calls, ResetCommit(c)
      PROVE  [Rows(u)!RowsNext]_(Rows(u)!rows)
  <2>1. calls[c].token \in ResetTokens
    BY <1>5, CallTypes DEF ResetCommit, Composed
  <2> QED
    BY <1>5, <2>1, ResetRows DEF Rows!RowsNext
<1>6. ASSUME NEW c \in Calls, ChangeCommit(c)
      PROVE  [Rows(u)!RowsNext]_(Rows(u)!rows)
  <2>1. calls[c].session \in SessionIds
    BY <1>6, CallTypes DEF ChangeCommit, Composed
  <2> QED
    BY <1>6, <2>1, ChangeRows DEF Rows!RowsNext
<1>7. ASSUME NEW c \in Calls, NEW token \in ResetTokens, RequestCommit(c, token)
      PROVE  [Rows(u)!RowsNext]_(Rows(u)!rows)
  BY <1>7, RequestRows DEF Rows!RowsNext
<1> QED
  BY <1>4, <1>5, <1>6, <1>7, StepCases

\* With both terminate settings on, logins, refreshes, requests, resets and
\* changes, however they interleave, do to the rows of every account only
\* what CredentialRows allows: single steps.  RowLocks, lock by lock, keeps
\* the same promise.
THEOREM CallsImplementRows ==
  ASSUME BothTerminate, NEW u \in Users
  PROVE  PMSpec => Rows(u)!RowsSpec
<1>1. PMInit => Rows(u)!RowsInit
  <2> SUFFICES ASSUME PMInit
               PROVE  Rows(u)!RowsInit
    OBVIOUS
  <2>1. PasswordNumber(u) = 0
    BY NullRowAssumption DEF PMInit, Init, PasswordNumber
  <2>2. \A id \in Keys : SessionRowOf(u, id) = Null /\ LinkOf(u, id) = "none"
    BY DEF PMInit, Init, SessionRowOf, UserSessions, LinkOf
  <2> QED
    BY <2>1, <2>2 DEF Rows!RowsInit, Rows!OpenLinks, SessionsOf, LinksOf, Keys
<1>2. RowsKnown /\ [PMNext]_pmVars => [Rows(u)!RowsNext]_(Rows(u)!rows)
  BY StepOnRows
<1> QED
  BY <1>1, <1>2, InitRowsKnown, StepRowsKnown, PTL DEF PMSpec, Rows!RowsSpec

=============================================================================
