------------------------------ MODULE RowLocks ------------------------------
(***************************************************************************)
(* The transactions of AuthService.ts and PasswordManagementService.ts on  *)
(* the rows of one account, lock by lock, under PostgreSQL's READ          *)
(* COMMITTED and the connection pool.                                      *)
(*                                                                         *)
(* A statement finds its rows in what was committed when it starts, locks  *)
(* them one after another, waits where another transaction holds one, and  *)
(* leaves a row alone that no longer matches once it is locked.  A row is  *)
(* written only while it is locked, so what a transaction did appears at   *)
(* its COMMIT.  Transactions of different accounts share no row, only the  *)
(* pool.  The account is active, and both settings that end sessions are   *)
(* on.                                                                     *)
(***************************************************************************)
EXTENDS Naturals, Sequences, FiniteSets

CONSTANTS
  Calls,      \* requests, one transaction each
  OldSessions, OldLinks,   \* the rows from before
  PoolSize,   \* max of db/pool.ts
  Outages,    \* whether connections are lost, or come too late
  Null

\* randomUUID and randomBytes: what a call creates is named after the call.
Ids == Calls \cup OldSessions \cup OldLinks

ASSUME RowLocksAssumption ==
  /\ PoolSize \in Nat \ {0}
  /\ Outages \in BOOLEAN
  /\ Calls \cap (OldSessions \cup OldLinks) = {}

User == <<"user">>
SessionRow(s) == <<"session", s>>
LinkRow(l) == <<"link", l>>

Row == {User} \cup {SessionRow(s) : s \in Ids} \cup {LinkRow(l) : l \in Ids}

ASSUME RowNullAssumption == Null \notin Row

\* What a request asks for, and the session or the link it names.
Job == [kind : {"login", "refresh", "logout", "request", "reset", "change"}, names : Ids]

VARIABLES
  password,   \* users: how often password_hash was replaced
  sessions,   \* auth_sessions: the password each has proven, and revoked_at
  links,      \* password_reset_tokens
  jobs,       \* the requests
  calls       \* where the handler of each request is

tables == <<password, sessions, links>>
lockVars == <<password, sessions, links, jobs, calls>>

Data == INSTANCE CredentialRows

ASSUME RowNoSessionAssumption == Null \notin Data!Session

Kind(c) == jobs[c].kind
Named(c) == jobs[c].names
Running(c) == calls[c].at = "running"
Ended(c) == calls[c].at \in {"done", "failed"}

----------------------------------------------------------------------------
(* Statements and row locks *)

\* Mutant: the request revokes the outstanding links before it locks the user.
RequestLocks_LinksFirst == <<"links", "user">>

RequestLocks == <<"user", "links">>

\* Mutant: changePassword ends the sessions before it locks the user.
ChangeLocks_SessionsFirst == <<"sessions", "user", "links">>

ChangeLocks == <<"user", "links", "sessions">>

ResetLocks == <<"link and user", "links", "sessions">>

\* The statements of each transaction that lock rows, in their order.
Statements(kind) ==
  CASE kind = "login"                 -> <<"user">>
    [] kind \in {"refresh", "logout"} -> <<"session and user">>
    [] kind = "request"               -> RequestLocks
    [] kind = "reset"                 -> ResetLocks
    [] kind = "change"                -> ChangeLocks

\* revokeUserSessions: every live session, but not the one a change names.
SessionsToRevoke(c) == Data!LiveSessions \ (IF Kind(c) = "change" THEN {Named(c)} ELSE {})

\* The rows a statement finds, other than those the transaction has.
Finds(c, statement) ==
  CASE statement = "user"             -> {User}
    [] statement = "session and user" ->
         IF sessions[Named(c)] = Null THEN {} ELSE {SessionRow(Named(c)), User}
    [] statement = "link and user"    -> {LinkRow(Named(c)), User}
    [] statement = "links"            -> {LinkRow(l) : l \in Data!OpenLinks} \ calls[c].held
    [] statement = "sessions"         -> {SessionRow(s) : s \in SessionsToRevoke(c)}

\* Whether a row still matches once it is locked: a SELECT by id goes on in
\* any case, an UPDATE skips what was revoked or used meanwhile.
StillMatches(c, row) ==
  \/ row = User
  \/ row \in {SessionRow(Named(c)), LinkRow(Named(c))}
  \/ \E s \in Data!LiveSessions : row = SessionRow(s)
  \/ \E l \in Data!OpenLinks : row = LinkRow(l)

\* FOR UPDATE OF sessions, users and FOR UPDATE OF reset, users lock in the
\* order they name; an UPDATE meets its rows in any order.
Meets(found, row) ==
  IF found = {} THEN row = Null ELSE row \in found /\ (row = User => found = {User})

WaitsFor(c, d) ==
  c # d /\ calls[c].wants # Null /\ calls[c].wants \in calls[d].held

\* Each of D waits for another of D, and is waited for.
Cycle(D) ==
  /\ D # {}
  /\ \A c \in D : (\E d \in D : WaitsFor(c, d)) /\ (\E d \in D : WaitsFor(d, c))

\* The transaction has ended: no lock, no connection.
Leave(c, answer) ==
  calls' = [calls EXCEPT ![c] =
              [at |-> answer, read |-> 0, rest |-> <<>>, found |-> {}, wants |-> Null,
               held |-> {}]]

----------------------------------------------------------------------------
(* Before the transaction *)

\* Mutant: the password read before the transaction is not kept.
Begin_ForgetsPassword(c) ==
  /\ calls[c].at = "new"
  /\ Kind(c) = "reset" => links[Named(c)] = "open"
  /\ Kind(c) = "change" => Named(c) \in Data!LiveSessions
  /\ calls' = [calls EXCEPT ![c].at = "queued", ![c].read = Null]
  /\ UNCHANGED <<password, sessions, links, jobs>>

\* What is read or checked without a lock: login reads the account whose
\* password it verifies, resetPassword the link, the guard of a change the
\* session; the user who changes the password knows the present one.
Begin(c) ==
  /\ calls[c].at = "new"
  /\ Kind(c) = "reset" => links[Named(c)] = "open"
  /\ Kind(c) = "change" => Named(c) \in Data!LiveSessions
  /\ calls' = [calls EXCEPT ![c].at = "queued", ![c].read = password]
  /\ UNCHANGED <<password, sessions, links, jobs>>

PoolIsFull == Cardinality({c \in Calls : Running(c)}) = PoolSize

\* BEGIN, on a connection of the pool.
Connect(c) ==
  /\ calls[c].at = "queued"
  /\ ~PoolIsFull
  /\ calls' = [calls EXCEPT ![c].at = "running", ![c].rest = Statements(Kind(c))]
  /\ UNCHANGED <<password, sessions, links, jobs>>

----------------------------------------------------------------------------
(* In the transaction *)

\* What is checked again on the locked rows: login compares the hashes,
\* changePassword the present password, resetPassword the link.
Allowed(c) ==
  /\ Kind(c) \in {"login", "change"} => calls[c].read = password
  /\ Kind(c) = "reset" => links[Named(c)] = "open"

Execute(c) ==
  /\ Running(c)
  /\ calls[c].wants = Null
  /\ calls[c].rest # <<>>
  /\ User \in calls[c].held => Allowed(c)
  /\ \E wants \in Row \cup {Null} :
       LET found == Finds(c, Head(calls[c].rest))
       IN  /\ Meets(found, wants)
           /\ calls' = [calls EXCEPT ![c].rest = Tail(@), ![c].found = found,
                                     ![c].wants = wants]
  /\ UNCHANGED <<password, sessions, links, jobs>>

Lock(c) ==
  /\ Running(c)
  /\ calls[c].wants # Null
  /\ \A d \in Calls : ~WaitsFor(c, d)
  /\ \E wants \in Row \cup {Null} :
       LET row == calls[c].wants
           found == calls[c].found \ {row}
       IN  /\ Meets(found, wants)
           /\ calls' = [calls EXCEPT
                ![c].found = found, ![c].wants = wants,
                ![c].held = IF StillMatches(c, row) THEN @ \cup {row} ELSE @]
  /\ UNCHANGED <<password, sessions, links, jobs>>

\* The transaction has what it needs.
Ready(c) == Running(c) /\ calls[c].wants = Null /\ calls[c].rest = <<>> /\ Allowed(c)

HeldSessions(c) == {s \in Ids : SessionRow(s) \in calls[c].held}
HeldLinks(c) == {l \in Ids : LinkRow(l) \in calls[c].held}

CommitLogin(c) ==
  /\ Kind(c) = "login"
  /\ Ready(c)
  /\ sessions' = [sessions EXCEPT ![c] = [proves |-> calls[c].read, revoked |-> FALSE]]
  /\ Leave(c, "done")
  /\ UNCHANGED <<password, links, jobs>>

\* A refresh rotates the token, which is not seen here, or revokes.
CommitRefresh(c) ==
  /\ Kind(c) = "refresh"
  /\ Ready(c)
  /\ sessions' \in {sessions, Data!RevokeSessions(HeldSessions(c))}
  /\ \E answer \in {"done", "failed"} : Leave(c, answer)
  /\ UNCHANGED <<password, links, jobs>>

\* Mutant: revokeSession is called without the transaction; on a connection
\* of its own it waits for the row its caller holds.
CommitLogout_OutsideTransaction(c) ==
  /\ Kind(c) = "logout"
  /\ Ready(c)
  /\ HeldSessions(c) = {}
  /\ Leave(c, "done")
  /\ UNCHANGED <<password, sessions, links, jobs>>

CommitLogout(c) ==
  /\ Kind(c) = "logout"
  /\ Ready(c)
  /\ sessions' = Data!RevokeSessions(HeldSessions(c))
  /\ Leave(c, "done")
  /\ UNCHANGED <<password, links, jobs>>

CommitRequest(c) ==
  /\ Kind(c) = "request"
  /\ Ready(c)
  /\ links' = [Data!RevokeLinks(HeldLinks(c)) EXCEPT ![c] = "open"]
  /\ Leave(c, "done")
  /\ UNCHANGED <<password, sessions, jobs>>

CommitReset(c) ==
  /\ Kind(c) = "reset"
  /\ Ready(c)
  /\ password' = password + 1
  /\ links' = [Data!RevokeLinks(HeldLinks(c)) EXCEPT ![Named(c)] = "used"]
  /\ sessions' = Data!RevokeSessions(HeldSessions(c))
  /\ Leave(c, "done")
  /\ UNCHANGED jobs

\* The caller's session is taken to have proven the new password.
CommitChange(c) ==
  /\ Kind(c) = "change"
  /\ Ready(c)
  /\ password' = password + 1
  /\ links' = Data!RevokeLinks(HeldLinks(c))
  /\ sessions' = [Data!RevokeSessions(HeldSessions(c)) EXCEPT ![Named(c)].proves = password + 1]
  /\ Leave(c, "done")
  /\ UNCHANGED jobs

\* A check on the locked rows fails: ROLLBACK.
Reject(c) ==
  /\ Running(c)
  /\ calls[c].wants = Null
  /\ User \in calls[c].held
  /\ ~Allowed(c)
  /\ Leave(c, "failed")
  /\ UNCHANGED <<password, sessions, links, jobs>>

----------------------------------------------------------------------------
(* What else can end a transaction *)

\* PostgreSQL ends a transaction of a cycle.  Nothing tries it again.
DeadlockVictim(c) ==
  /\ \E D \in SUBSET Calls : c \in D /\ Cycle(D)
  /\ Leave(c, "failed")
  /\ UNCHANGED <<password, sessions, links, jobs>>

\* The connection is lost, or none came within connectionTimeoutMillis.
Outage(c) ==
  /\ Outages
  /\ Running(c) \/ (calls[c].at = "queued" /\ PoolIsFull)
  /\ Leave(c, "failed")
  /\ UNCHANGED <<password, sessions, links, jobs>>

----------------------------------------------------------------------------

\* The ids a request can know.
Known(kind) ==
  IF kind = "reset" THEN OldLinks \cup {c \in Calls : Kind(c) = "request"}
                    ELSE OldSessions \cup {c \in Calls : Kind(c) = "login"}

LocksInit ==
  /\ password = 0
  /\ sessions = [i \in Ids |-> IF i \in OldSessions THEN [proves |-> 0, revoked |-> FALSE]
                                                  ELSE Null]
  /\ \E outstanding \in SUBSET OldLinks :
       /\ \A k, l \in outstanding : k = l
       /\ links = [i \in Ids |-> IF i \in outstanding THEN "open" ELSE "none"]
  /\ jobs \in [Calls -> Job]
  /\ \A c \in Calls : IF Kind(c) \in {"login", "request"} THEN Named(c) = c
                                                         ELSE Named(c) \in Known(Kind(c))
  /\ calls = [c \in Calls |->
                [at |-> "new", read |-> 0, rest |-> <<>>, found |-> {}, wants |-> Null,
                 held |-> {}]]

Commit(c) ==
  \/ CommitLogin(c)
  \/ CommitRefresh(c)
  \/ CommitLogout(c)
  \/ CommitRequest(c)
  \/ CommitReset(c)
  \/ CommitChange(c)

Goes(c) == Connect(c) \/ Execute(c) \/ Lock(c) \/ Commit(c) \/ Reject(c)

LocksNext == \E c \in Calls : Begin(c) \/ Goes(c) \/ DeadlockVictim(c) \/ Outage(c)

LocksSpec == LocksInit /\ [][LocksNext]_lockVars

\* The pool and PostgreSQL serve waiters in their order, the event loop runs
\* every handler, and the deadlock detector looks at every wait.
FairLocksSpec ==
  /\ LocksSpec
  /\ \A c \in Calls : SF_lockVars(Goes(c))
  /\ WF_lockVars(\E c \in Calls : DeadlockVictim(c))

----------------------------------------------------------------------------
(* Properties *)

\* Every variable has its type.
LocksTypeOK ==
  /\ password \in Nat
  /\ sessions \in [Ids -> Data!Session \cup {Null}]
  /\ links \in [Ids -> {"none", "open", "used", "revoked"}]
  /\ jobs \in [Calls -> Job]
  /\ calls \in [Calls ->
       [at : {"new", "queued", "running", "done", "failed"}, read : Nat,
        rest : Seq({"user", "session and user", "link and user", "links", "sessions"}),
        found : SUBSET Row, wants : Row \cup {Null}, held : SUBSET Row]]

\* However the statements and the waits of the transactions interleave, they
\* have the effect of single steps one after another: a reset or a change
\* revokes every live session and every open link there is when it commits,
\* and a login proves the password of that moment.
LooksAtomic == Data!RowsSpec

\* A deadlock is an exchange of two: one call holds the account's row and
\* waits for the one row the other has, which waits for the account's.  A
\* reset or a change meets a refresh or a logout over its session, a request
\* or a change meets a reset over its link.  A login is never part of one.
DeadlocksAreExchanges ==
  \A D \in SUBSET Calls : Cycle(D) =>
    \E c, d \in D :
      /\ D = {c, d} /\ WaitsFor(c, d) /\ WaitsFor(d, c)
      /\ calls[c].wants = User
      /\ \/ /\ Kind(c) \in {"refresh", "logout"} /\ Kind(d) \in {"reset", "change"}
            /\ calls[d].wants = SessionRow(Named(c))
         \/ /\ Kind(c) = "reset" /\ Kind(d) \in {"request", "change"}
            /\ calls[d].wants = LinkRow(Named(c))

\* Every request that was begun is answered: locks and connections are given
\* up, and no transaction waits for itself.
EveryRequestEnds == \A c \in Calls : (calls[c].at = "queued") ~> Ended(c)

\* AuthService.ts:378: "logout is idempotent and always succeeds from the
\* caller's perspective either way"
LogoutSucceeds == \A c \in Calls : Kind(c) = "logout" => calls[c].at # "failed"

=============================================================================
