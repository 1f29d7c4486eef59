-------------------------- MODULE AccountActivation --------------------------
(***************************************************************************)
(* Signing up and activating an account -- SignupService.ts,               *)
(* ActivationService.ts and ActivationRepository.ts -- with the row locks  *)
(* their transactions take.                                                *)
(*                                                                         *)
(* A call first reads and checks without a lock; its transaction then      *)
(* locks rows one statement after another and checks again.  PostgreSQL    *)
(* reads a row again once it is locked, lets a transaction wait while      *)
(* another one holds the row, releases the locks when the transaction ends *)
(* and ends one of two transactions that wait for each other.              *)
(*                                                                         *)
(* What activation means for logins and sessions is in AuthSessions.       *)
(***************************************************************************)
EXTENDS Integers

CONSTANTS
  Users,       \* the e-mail addresses, at most one account each
  Passwords,
  Links,       \* the random activation tokens, and their rows
  Calls,       \* calls that can be in flight at one time
  Validity,    \* auth_settings.activation_token_validity_hours
  MaxTime,     \* bound of the model
  Null

ASSUME ActivationAssumption ==
  /\ Validity \in Nat \ {0}
  /\ MaxTime \in Nat
  /\ Null \notin Passwords
  /\ Null \notin Links

VARIABLES
  now,
  users,       \* users
  links,       \* account_activation_tokens
  outbox,      \* how many events of each type the account has been queued
  calls        \* the calls in flight

vars == <<now, users, links, outbox, calls>>

\* Hashes are left out: signup and activation store a password, never compare it.
Account == [accountStatus : {"pending_activation", "active"},
            password : Passwords \cup {Null}]

Link == [userId : Users, createdAt : Nat, expiresAt : Nat,
         consumed : BOOLEAN, revoked : BOOLEAN]

Row == [table : {"user"}, id : Users] \cup [table : {"token"}, id : Links]

Call == [op : {"signup", "complete", "issue"},
         at : {"insert", "lock_token", "lock_user", "commit", "replace"},
         userId : Users,
         link : Links,
         password : Passwords \cup {Null},
         began : Nat,               \* NOW() of its transaction
         expiresAt : Nat,
         locks : SUBSET Row]

ASSUME NullRowAssumption ==
  /\ Null \notin Account
  /\ Null \notin Link
  /\ Null \notin Call

UserRow(u) == [table |-> "user", id |-> u]
TokenRow(l) == [table |-> "token", id |-> l]

At(c, op, at) == calls[c] # Null /\ calls[c].op = op /\ calls[c].at = at

Outstanding(l) == links[l] # Null /\ ~links[l].consumed /\ ~links[l].revoked

OutstandingOf(u) == {l \in Links : Outstanding(l) /\ links[l].userId = u}

----------------------------------------------------------------------------
(* Locks and transactions *)

\* The rows the next statement of a call locks.
Wanted(c) ==
  CASE At(c, "complete", "lock_token") -> {TokenRow(calls[c].link)}
    [] At(c, "complete", "lock_user")  -> {UserRow(calls[c].userId)}
    [] At(c, "issue", "lock_user")     -> {UserRow(calls[c].userId)}
    [] At(c, "issue", "replace")       -> {TokenRow(l) : l \in OutstandingOf(calls[c].userId)}
    [] OTHER                           -> {}

WaitsFor(c, d) == c # d /\ calls[d] # Null /\ Wanted(c) \cap calls[d].locks # {}

CanLock(c) == \A d \in Calls : ~WaitsFor(c, d)

Locks(c, row, next) ==
  calls' = [calls EXCEPT ![c].locks = @ \cup {row}, ![c].at = next]

Open(c, call) ==
  /\ calls[c] = Null
  /\ calls' = [calls EXCEPT ![c] = call]
  /\ UNCHANGED <<now, users, links, outbox>>

\* Mutant: an exception leaves the transaction open.
Answer_LeavesItOpen(c) == calls' = [calls EXCEPT ![c].at = "insert"]

\* The transaction ends, and with it its locks.
Answer(c) == calls' = [calls EXCEPT ![c] = Null]

\* randomBytes(32): a token no row has and no other call has drawn.
Fresh(l) ==
  /\ links[l] = Null
  /\ \A c \in Calls : calls[c] # Null => calls[c].link # l

RollBack(c) == Answer(c) /\ UNCHANGED <<now, users, links, outbox>>

\* Mutant: the statements run outside a transaction, so what the earlier ones
\* did stays.
Abort_KeepsRevocation(c) ==
  /\ calls[c] # Null
  /\ links' = [l \in Links |->
                 IF At(c, "issue", "replace") /\ l \in OutstandingOf(calls[c].userId)
                 THEN [links[l] EXCEPT !.revoked = TRUE]
                 ELSE links[l]]
  /\ Answer(c)
  /\ UNCHANGED <<now, users, outbox>>

\* The connection is lost or the process stops.
Abort(c) == calls[c] # Null /\ RollBack(c)

DeadlockVictim(c) ==
  /\ \E d \in Calls : WaitsFor(c, d) /\ WaitsFor(d, c)
  /\ RollBack(c)

----------------------------------------------------------------------------
(* The rows written *)

\* Mutant: consumed_at is not initialised.
NewLink_NoFlag(call) ==
  [userId |-> call.userId, createdAt |-> call.began, expiresAt |-> call.expiresAt,
   consumed |-> Null, revoked |-> FALSE]

NewLink(call) ==
  [userId |-> call.userId, createdAt |-> call.began, expiresAt |-> call.expiresAt,
   consumed |-> FALSE, revoked |-> FALSE]

\* Mutant: a link that was already sent stays valid.
Revoked_None(chosen) == links

Revoked(chosen) ==
  [l \in Links |-> IF l \in chosen THEN [links[l] EXCEPT !.revoked = TRUE] ELSE links[l]]

\* CHECK (revoked_at >= created_at) on the links a transaction that began at
\* t is about to revoke.
CheckAllowsRevoking(chosen, t) == \A l \in chosen : links[l].createdAt <= t

----------------------------------------------------------------------------
(* SignupService.signup *)

SignupBegin(c, u, password, l) ==
  /\ Fresh(l)
  /\ Open(c, [op |-> "signup", at |-> "insert", userId |-> u, link |-> l,
              password |-> password, began |-> now, expiresAt |-> now + Validity,
              locks |-> {}])

\* The account, its link and its event are inserted by one transaction.
SignupCommit(c) ==
  /\ At(c, "signup", "insert")
  /\ users[calls[c].userId] = Null
  /\ users' = [users EXCEPT ![calls[c].userId] =
                 [accountStatus |-> "pending_activation", password |-> calls[c].password]]
  /\ links' = [links EXCEPT ![calls[c].link] = NewLink(calls[c])]
  /\ outbox' = [outbox EXCEPT ![calls[c].userId].requested = @ + 1]
  /\ Answer(c)
  /\ UNCHANGED now

\* users_email_key: the address has an account.
SignupRejected(c) ==
  /\ At(c, "signup", "insert")
  /\ users[calls[c].userId] # Null
  /\ RollBack(c)

----------------------------------------------------------------------------
(* ActivationService.completeActivation *)

HasPassword(u, password) == password # Null \/ users[u].password # Null

AssertActivatable(l) ==
  /\ Outstanding(l)
  /\ users[links[l].userId].accountStatus = "pending_activation"
  /\ links[l].expiresAt > now

\* A password given is hashed here, before the transaction is opened.
CompleteBegin(c, l, password) ==
  /\ AssertActivatable(l)
  /\ HasPassword(links[l].userId, password)
  /\ Open(c, [op |-> "complete", at |-> "lock_token", userId |-> links[l].userId,
              link |-> l, password |-> password, began |-> now, expiresAt |-> 0,
              locks |-> {}])

\* FOR UPDATE OF activation, users locks in the order it names.
CompleteLockToken(c) ==
  /\ At(c, "complete", "lock_token")
  /\ CanLock(c)
  /\ Locks(c, TokenRow(calls[c].link), "lock_user")
  /\ UNCHANGED <<now, users, links, outbox>>

CompleteLockUser(c) ==
  /\ At(c, "complete", "lock_user")
  /\ CanLock(c)
  /\ Locks(c, UserRow(calls[c].userId), "commit")
  /\ UNCHANGED <<now, users, links, outbox>>

\* Mutant: the transaction trusts what was read before it.
CompleteAllowed_TrustsRead(c) == TRUE

\* Mutant: the deadline is not looked at again.
CompleteAllowed_IgnoresExpiry(c) ==
  /\ Outstanding(calls[c].link)
  /\ users[calls[c].userId].accountStatus = "pending_activation"
  /\ HasPassword(calls[c].userId, calls[c].password)

\* The assertion made again on the locked rows, which subsumes the WHERE
\* clauses of activateUser and consumeTokenAndRevokeOthers.
CompleteAllowed(c) ==
  /\ AssertActivatable(calls[c].link)
  /\ HasPassword(calls[c].userId, calls[c].password)

ActivateUser(account, password) ==
  [account EXCEPT !.accountStatus = "active",
                  !.password = IF password = Null THEN @ ELSE password]

ConsumeTokenAndRevokeOthers(l, u) ==
  [Revoked(OutstandingOf(u) \ {l}) EXCEPT ![l].consumed = TRUE]

CompleteCommit(c) ==
  /\ At(c, "complete", "commit")
  /\ CompleteAllowed(c)
  /\ users' = [users EXCEPT ![calls[c].userId] = ActivateUser(@, calls[c].password)]
  /\ links' = ConsumeTokenAndRevokeOthers(calls[c].link, calls[c].userId)
  /\ outbox' = [outbox EXCEPT ![calls[c].userId].activated = @ + 1]
  /\ Answer(c)
  /\ UNCHANGED now

CompleteRejected(c) ==
  /\ At(c, "complete", "commit")
  /\ ~CompleteAllowed(c)
  /\ RollBack(c)

----------------------------------------------------------------------------
(* ActivationService.issueActivationToken *)

IssueBegin(c, u, l) ==
  /\ Fresh(l)
  /\ Open(c, [op |-> "issue", at |-> "lock_user", userId |-> u, link |-> l,
              password |-> Null, began |-> now, expiresAt |-> now + Validity,
              locks |-> {}])

\* Mutant: an account that is active already is given a link too.
IssueAllowed_AnyStatus(u) == users[u] # Null

IssueAllowed(u) == users[u] # Null /\ users[u].accountStatus = "pending_activation"

IssueLockUser(c) ==
  /\ At(c, "issue", "lock_user")
  /\ CanLock(c)
  /\ IssueAllowed(calls[c].userId)
  /\ Locks(c, UserRow(calls[c].userId), "replace")
  /\ UNCHANGED <<now, users, links, outbox>>

IssueRejected(c) ==
  /\ At(c, "issue", "lock_user")
  /\ CanLock(c)
  /\ ~IssueAllowed(calls[c].userId)
  /\ RollBack(c)

IssueReplace(c) ==
  /\ At(c, "issue", "replace")
  /\ CanLock(c)
  /\ CheckAllowsRevoking(OutstandingOf(calls[c].userId), calls[c].began)
  /\ links' = [Revoked(OutstandingOf(calls[c].userId)) EXCEPT
                 ![calls[c].link] = NewLink(calls[c])]
  /\ Answer(c)
  /\ UNCHANGED <<now, users, outbox>>

\* The constraint rejects a revoked_at older than the created_at of a link
\* committed by a transaction that began later but locked the user first.
IssueFails(c) ==
  /\ At(c, "issue", "replace")
  /\ CanLock(c)
  /\ ~CheckAllowsRevoking(OutstandingOf(calls[c].userId), calls[c].began)
  /\ RollBack(c)

----------------------------------------------------------------------------

Tick == now < MaxTime /\ now' = now + 1 /\ UNCHANGED <<users, links, outbox, calls>>

\* Invited accounts exist without a password; no code in the service creates
\* them.
Init ==
  /\ now = 0
  /\ users \in [Users -> {Null, [accountStatus |-> "pending_activation", password |-> Null]}]
  /\ links = [l \in Links |-> Null]
  /\ outbox = [u \in Users |-> [requested |-> 0, activated |-> 0]]
  /\ calls = [c \in Calls |-> Null]

Begin(c) ==
  \E l \in Links :
    \/ \E u \in Users, p \in Passwords : SignupBegin(c, u, p, l)
    \/ \E p \in Passwords \cup {Null} : CompleteBegin(c, l, p)
    \/ \E u \in Users : IssueBegin(c, u, l)

\* The statements of c that need no lock another transaction holds.
Progress(c) ==
  \/ SignupCommit(c)
  \/ SignupRejected(c)
  \/ CompleteLockToken(c)
  \/ CompleteLockUser(c)
  \/ CompleteCommit(c)
  \/ CompleteRejected(c)
  \/ IssueLockUser(c)
  \/ IssueRejected(c)
  \/ IssueReplace(c)
  \/ IssueFails(c)

Next ==
  \/ \E c \in Calls : Begin(c) \/ Progress(c) \/ Abort(c) \/ DeadlockVictim(c)
  \/ Tick

Spec == Init /\ [][Next]_vars

\* PostgreSQL grants a row to its waiters in their order and looks for
\* deadlocks, and the process runs every call it has begun.
FairSpec ==
  /\ Spec
  /\ \A c \in Calls : SF_vars(Progress(c))
  /\ WF_vars(\E c \in Calls : DeadlockVictim(c))

----------------------------------------------------------------------------
(* Properties *)

\* The rows have the types of their columns and the calls in flight, with the
\* locks of their transactions, are well formed.
ActTypeOK ==
  /\ now \in 0 .. MaxTime
  /\ users \in [Users -> Account \cup {Null}]
  /\ links \in [Links -> Link \cup {Null}]
  /\ outbox \in [Users -> [requested : Nat, activated : Nat]]
  /\ calls \in [Calls -> Call \cup {Null}]

\* An account never has two links that are neither used nor revoked, whatever
\* signups, re-issues and completions overlap: issueActivationToken revokes
\* and creates under the user's lock.
OneOutstandingLink ==
  \A k, l \in Links :
    Outstanding(k) /\ Outstanding(l) /\ links[k].userId = links[l].userId => k = l

IsActive(u) == users[u] # Null /\ users[u].accountStatus = "active"

Spent(u) == {l \in Links : links[l] # Null /\ links[l].userId = u /\ links[l].consumed}

\* An account is activated by one completion of one link: it is active exactly
\* when one of its links is consumed and account.activated is queued once,
\* though the same link may be submitted twice at a time.
ActivatedOnce ==
  \A u \in Users :
    /\ outbox[u].activated = IF IsActive(u) THEN 1 ELSE 0
    /\ IF IsActive(u) THEN \E l \in Links : Spent(u) = {l} ELSE Spent(u) = {}

\* No link of an active account is left usable: a re-issue that overlaps the
\* completion is either revoked by it or turned away.
ActiveHasNoLink ==
  \A l \in Links : Outstanding(l) => users[links[l].userId].accountStatus # "active"

\* An account that signed up and is not active yet has a link that was not
\* used or revoked (it may have expired): no failed or interrupted re-issue
\* takes the old link away without giving a new one.
PendingHasLink ==
  \A u \in Users :
    outbox[u].requested > 0 /\ users[u].accountStatus = "pending_activation"
      => OutstandingOf(u) # {}

\* A link is consumed only before its deadline and while it is outstanding, at
\* the check under the row locks and not only when the request was read, and in
\* the step that activates its account.
LinksActivateInTime ==
  [][\A l \in Links :
       links[l] # Null /\ ~links[l].consumed /\ links'[l].consumed =>
         /\ Outstanding(l)
         /\ now < links[l].expiresAt
         /\ users[links[l].userId].accountStatus = "pending_activation"
         /\ users'[links[l].userId].accountStatus = "active"]_vars

\* The first completion settles the account: a second one that carries another
\* password, begun while the account was pending, changes nothing.
FirstCompletionWins ==
  [][\A u \in Users :
       users[u] # Null /\ users[u].accountStatus = "active" => users'[u] = users[u]]_vars

\* Every call ends: transactions that wait for each other, as a re-issue (the
\* user's row, then the token's) and a completion (the token's row, then the
\* user's) do, do not keep a third one waiting for ever.
EveryCallEnds == \A c \in Calls : (calls[c] # Null) ~> (calls[c] = Null)

----------------------------------------------------------------------------
(* What the invariants above need to be inductive *)

\* Links belong to accounts.
LinksHaveAccounts == \A l \in Links : links[l] # Null => users[links[l].userId] # Null

\* A completion is about a stored link and its owner; a drawn link is not
\* stored yet, and no other call has it.
CallLinks ==
  \A c \in Calls : calls[c] # Null =>
    IF calls[c].op = "complete"
    THEN links[calls[c].link] # Null /\ links[calls[c].link].userId = calls[c].userId
    ELSE /\ links[calls[c].link] = Null
         /\ \A d \in Calls \ {c} : calls[d] # Null => calls[d].link # calls[c].link

\* No two transactions hold one row.
LocksExclusive ==
  \A c, d \in Calls : c # d /\ calls[c] # Null /\ calls[d] # Null =>
    calls[c].locks \cap calls[d].locks = {}

\* Who writes holds the user's row.
WritersHoldUser ==
  \A c \in Calls : At(c, "complete", "commit") \/ At(c, "issue", "replace") =>
    UserRow(calls[c].userId) \in calls[c].locks

\* While a re-issue holds the user's row, the account stays as it found it.
ReplacePending ==
  \A c \in Calls : At(c, "issue", "replace") => IssueAllowed(calls[c].userId)

ActivationInv ==
  /\ ActTypeOK
  /\ LinksHaveAccounts
  /\ CallLinks
  /\ LocksExclusive
  /\ WritersHoldUser
  /\ ReplacePending
  /\ OneOutstandingLink
  /\ ActiveHasNoLink
  /\ ActivatedOnce
=============================================================================
