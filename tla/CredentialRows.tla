--------------------------- MODULE CredentialRows ---------------------------
(***************************************************************************)
(* What the transactions on one account promise together: they look like   *)
(* single steps, one after another, each on everything the others left.    *)
(* AuthSessions and PasswordManagement take every transaction as such a    *)
(* step; RowLocks shows that the row locks justify it.                     *)
(***************************************************************************)
EXTENDS Naturals

CONSTANTS
  Ids,    \* of sessions and of reset links
  Null

Session == [proves : Nat, revoked : BOOLEAN]

VARIABLES
  password,   \* how often the account's password was replaced
  sessions,   \* auth_sessions: the password each session has proven, or Null
  links       \* password_reset_tokens

rows == <<password, sessions, links>>

OpenLinks == {l \in Ids : links[l] = "open"}

LiveSessions == {s \in Ids : sessions[s] # Null /\ ~sessions[s].revoked}

RevokeSessions(chosen) ==
  [s \in Ids |-> IF s \in chosen THEN [sessions[s] EXCEPT !.revoked = TRUE] ELSE sessions[s]]

RevokeLinks(chosen) ==
  [l \in Ids |-> IF l \in chosen THEN "revoked" ELSE links[l]]

\* completeActivation sets the password, before there are sessions or links.
Activate ==
  /\ \A id \in Ids : sessions[id] = Null /\ links[id] = "none"
  /\ password' = password + 1
  /\ UNCHANGED <<sessions, links>>

\* login: the session proves the password the account has.
LogIn(s) ==
  /\ sessions[s] = Null
  /\ sessions' = [sessions EXCEPT ![s] = [proves |-> password, revoked |-> FALSE]]
  /\ UNCHANGED <<password, links>>

\* logout, and refresh when a token was reused.
LogOut(s) ==
  /\ sessions[s] # Null
  /\ sessions' = RevokeSessions({s})
  /\ UNCHANGED <<password, links>>

\* requestPasswordReset: the new link replaces the outstanding ones.
IssueLink(l) ==
  /\ links[l] = "none"
  /\ links' = [RevokeLinks(OpenLinks) EXCEPT ![l] = "open"]
  /\ UNCHANGED <<password, sessions>>

\* resetPassword: no link and no session of the old password survives.
Reset(l) ==
  /\ links[l] = "open"
  /\ password' = password + 1
  /\ links' = [RevokeLinks(OpenLinks) EXCEPT ![l] = "used"]
  /\ sessions' = RevokeSessions(LiveSessions)

\* changePassword: the caller's session is kept and has proven the new one.
Change(s) ==
  /\ sessions[s] # Null
  /\ password' = password + 1
  /\ links' = RevokeLinks(OpenLinks)
  /\ sessions' = [RevokeSessions(LiveSessions \ {s}) EXCEPT ![s].proves = password + 1]

\* No session proves another password than the account's, one link is open.
RowsInit ==
  /\ password = 0
  /\ sessions \in [Ids -> {Null, [proves |-> 0, revoked |-> FALSE]}]
  /\ links \in [Ids -> {"none", "open"}]
  /\ \A k, l \in OpenLinks : k = l

RowsNext ==
  \/ Activate
  \/ \E id \in Ids : LogIn(id) \/ LogOut(id) \/ IssueLink(id) \/ Reset(id) \/ Change(id)

RowsSpec == RowsInit /\ [][RowsNext]_rows

----------------------------------------------------------------------------

\* No session outlives the password it proved, and no link its successor.
CurrentOnly ==
  /\ \A s \in LiveSessions : sessions[s].proves = password
  /\ \A k, l \in OpenLinks : k = l

=============================================================================
