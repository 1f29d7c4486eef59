----------------------- MODULE AccountActivation_proofs -----------------------
(***************************************************************************)
(* Theorems about AccountActivation, for any number of addresses, links    *)
(* and calls in flight, any validity and any bound on the time.            *)
(*                                                                         *)
(* ActivationInv is inductive.  The argument for ActiveHasNoLink is about  *)
(* locks: a re-issue that is about to write holds the user's row, so the   *)
(* account it found pending cannot be activated before it commits.         *)
(***************************************************************************)
EXTENDS AccountActivation, TLAPS

LEMMA NewLinkType ==
  ASSUME NEW call \in Call
  PROVE  NewLink(call) \in Link
BY DEF NewLink, Call, Link

LEMMA RevokedType ==
  ASSUME links \in [Links -> Link \cup {Null}], NEW chosen,
         \A l \in chosen : links[l] # Null
  PROVE  /\ Revoked(chosen) \in [Links -> Link \cup {Null}]
         /\ \A l \in Links : l \in chosen => Revoked(chosen)[l] = [links[l] EXCEPT !.revoked = TRUE]
         /\ \A l \in Links : l \notin chosen => Revoked(chosen)[l] = links[l]
<1>1. \A l \in Links : links[l] # Null => [links[l] EXCEPT !.revoked = TRUE] \in Link
  BY DEF Link
<1> QED
  BY <1>1 DEF Revoked

LEMMA OutstandingStored ==
  \A u : \A l \in OutstandingOf(u) :
    /\ l \in Links
    /\ links[l] # Null
    /\ Outstanding(l)
    /\ links[l].userId = u
BY DEF OutstandingOf, Outstanding

----------------------------------------------------------------------------
(* Steps that write no table *)

LEMMA SameTables ==
  ASSUME UNCHANGED <<users, links, outbox>>,
         LinksHaveAccounts, OneOutstandingLink, ActiveHasNoLink, ActivatedOnce
  PROVE  (LinksHaveAccounts /\ OneOutstandingLink /\ ActiveHasNoLink /\ ActivatedOnce)'
<1>1. (LinksHaveAccounts /\ OneOutstandingLink /\ ActiveHasNoLink)'
  BY DEF LinksHaveAccounts, OneOutstandingLink, ActiveHasNoLink, Outstanding
<1>2. ActivatedOnce'
  BY DEF ActivatedOnce, IsActive, Spent
<1> QED
  BY <1>1, <1>2

\* A call that ends without effect releases its locks and disturbs nothing.
LEMMA RollBackInv ==
  ASSUME ActivationInv, NEW c \in Calls, RollBack(c)
  PROVE  ActivationInv'
<1>1. /\ UNCHANGED <<now, users, links, outbox>>
      /\ calls' = [calls EXCEPT ![c] = Null]
  BY DEF RollBack, Answer
<1>2. calls \in [Calls -> Call \cup {Null}]
  BY DEF ActivationInv, ActTypeOK
<1>3. \A d \in Calls : calls'[d] # Null => d # c /\ calls[d] # Null /\ calls'[d] = calls[d]
  BY <1>1, <1>2
<1>4. ActTypeOK'
  BY <1>1, <1>2 DEF ActivationInv, ActTypeOK
<1>5. (LinksHaveAccounts /\ OneOutstandingLink /\ ActiveHasNoLink /\ ActivatedOnce)'
  BY <1>1, SameTables DEF ActivationInv
<1>6. CallLinks'
  BY <1>1, <1>3 DEF ActivationInv, CallLinks
<1>7. LocksExclusive'
  BY <1>3 DEF ActivationInv, LocksExclusive
<1>8. (WritersHoldUser /\ ReplacePending)'
  BY <1>1, <1>3 DEF ActivationInv, WritersHoldUser, ReplacePending, At, IssueAllowed
<1> QED
  BY <1>4, <1>5, <1>6, <1>7, <1>8 DEF ActivationInv

\* A call opens with no lock, about a stored link or with a fresh one.
LEMMA OpenInv ==
  ASSUME ActivationInv, NEW c \in Calls, NEW call \in Call, Open(c, call),
         call.locks = {}, call.at \notin {"commit", "replace"},
         IF call.op = "complete"
         THEN links[call.link] # Null /\ links[call.link].userId = call.userId
         ELSE Fresh(call.link)
  PROVE  ActivationInv'
<1>1. /\ UNCHANGED <<now, users, links, outbox>>
      /\ calls' = [calls EXCEPT ![c] = call]
      /\ calls[c] = Null
  BY DEF Open
<1>2. calls \in [Calls -> Call \cup {Null}]
  BY DEF ActivationInv, ActTypeOK
<1>3. calls'[c] = call /\ \A d \in Calls \ {c} : calls'[d] = calls[d]
  BY <1>1, <1>2
<1>4. ActTypeOK'
  BY <1>1, <1>2 DEF ActivationInv, ActTypeOK
<1>5. (LinksHaveAccounts /\ OneOutstandingLink /\ ActiveHasNoLink /\ ActivatedOnce)'
  BY <1>1, SameTables DEF ActivationInv
<1>6. CallLinks'
  <2> SUFFICES ASSUME NEW d \in Calls, calls'[d] # Null
               PROVE  IF calls'[d].op = "complete"
                      THEN links[calls'[d].link] # Null
                           /\ links[calls'[d].link].userId = calls'[d].userId
                      ELSE /\ links[calls'[d].link] = Null
                           /\ \A e \in Calls \ {d} : calls'[e] # Null =>
                                calls'[e].link # calls'[d].link
    BY <1>1 DEF CallLinks
  <2>1. CASE d = c
    BY <2>1, <1>3 DEF Fresh
  <2>2. CASE d # c
    <3>1. calls'[d] = calls[d] /\ calls[d] # Null
      BY <2>2, <1>3
    <3>2. CASE calls[d].op = "complete"
      BY <3>1, <3>2 DEF ActivationInv, CallLinks
    <3>3. CASE calls[d].op # "complete"
      <4>1. links[calls[d].link] = Null
        BY <3>1, <3>3 DEF ActivationInv, CallLinks
      <4>2. call.link # calls[d].link
        BY <3>1, <4>1 DEF Fresh
      <4>3. \A e \in Calls \ {d} : calls[e] # Null => calls[e].link # calls[d].link
        BY <3>1, <3>3 DEF ActivationInv, CallLinks
      <4>4. \A e \in Calls \ {d} : calls'[e] # Null => calls'[e].link # calls[d].link
        BY <1>3, <4>2, <4>3
      <4> QED
        BY <3>1, <3>3, <4>1, <4>4
    <3> QED
      BY <3>2, <3>3
  <2> QED
    BY <2>1, <2>2
<1>7. LocksExclusive'
  BY <1>3 DEF ActivationInv, LocksExclusive
<1>8. (WritersHoldUser /\ ReplacePending)'
  BY <1>1, <1>3 DEF ActivationInv, WritersHoldUser, ReplacePending, At, IssueAllowed
<1> QED
  BY <1>4, <1>5, <1>6, <1>7, <1>8 DEF ActivationInv

LEMMA BeginInv ==
  ASSUME ActivationInv, NEW c \in Calls, Begin(c)
  PROVE  ActivationInv'
<1> USE ActivationAssumption
<1>0. now \in Nat /\ now + Validity \in Nat /\ links \in [Links -> Link \cup {Null}]
  BY DEF ActivationInv, ActTypeOK
<1>1. ASSUME NEW l \in Links, NEW u \in Users, NEW p \in Passwords, SignupBegin(c, u, p, l)
      PROVE  ActivationInv'
  <2> DEFINE call == [op |-> "signup", at |-> "insert", userId |-> u, link |-> l,
                      password |-> p, began |-> now, expiresAt |-> now + Validity,
                      locks |-> {}]
  <2>1. call \in Call /\ Fresh(call.link) /\ Open(c, call)
    BY <1>0, <1>1 DEF Call, SignupBegin
  <2> QED
    BY <2>1, OpenInv
<1>2. ASSUME NEW l \in Links, NEW p \in Passwords \cup {Null}, CompleteBegin(c, l, p)
      PROVE  ActivationInv'
  <2> DEFINE call == [op |-> "complete", at |-> "lock_token", userId |-> links[l].userId,
                      link |-> l, password |-> p, began |-> now, expiresAt |-> 0,
                      locks |-> {}]
  <2>1. links[l] # Null /\ links[l].userId \in Users
    BY <1>0, <1>2 DEF CompleteBegin, AssertActivatable, Outstanding, Link
  <2>2. call \in Call /\ Open(c, call)
    BY <1>0, <1>2, <2>1 DEF Call, CompleteBegin
  <2> QED
    BY <2>1, <2>2, OpenInv
<1>3. ASSUME NEW l \in Links, NEW u \in Users, IssueBegin(c, u, l)
      PROVE  ActivationInv'
  <2> DEFINE call == [op |-> "issue", at |-> "lock_user", userId |-> u, link |-> l,
                      password |-> Null, began |-> now, expiresAt |-> now + Validity,
                      locks |-> {}]
  <2>1. call \in Call /\ Fresh(call.link) /\ Open(c, call)
    BY <1>0, <1>3 DEF Call, IssueBegin
  <2> QED
    BY <2>1, OpenInv
<1> QED
  BY <1>1, <1>2, <1>3 DEF Begin

\* A granted row was held by no other transaction.
LEMMA LockInv ==
  ASSUME ActivationInv, NEW c \in Calls, NEW row \in Row, NEW next,
         calls[c] # Null, CanLock(c), row \in Wanted(c),
         Locks(c, row, next),
         next \in {"lock_user", "commit", "replace"},
         next \in {"commit", "replace"} => row = UserRow(calls[c].userId),
         calls[c].op = "issue" /\ next = "replace" => IssueAllowed(calls[c].userId),
         UNCHANGED <<now, users, links, outbox>>
  PROVE  ActivationInv'
<1> DEFINE locked == [calls[c] EXCEPT !.locks = @ \cup {row}, !.at = next]
<1>1. calls \in [Calls -> Call \cup {Null}] /\ calls[c] \in Call
  BY DEF ActivationInv, ActTypeOK
<1>2. /\ locked \in Call
      /\ locked.op = calls[c].op /\ locked.link = calls[c].link
      /\ locked.userId = calls[c].userId /\ locked.at = next
      /\ locked.locks = calls[c].locks \cup {row}
  BY <1>1 DEF Call
<1>3. calls' = [calls EXCEPT ![c] = locked]
  BY DEF Locks
<1> HIDE DEF locked
<1>4. calls'[c] = locked /\ locked # Null /\ \A d \in Calls \ {c} : calls'[d] = calls[d]
  BY <1>1, <1>2, <1>3, NullRowAssumption
<1>5. ActTypeOK'
  BY <1>1, <1>2, <1>3 DEF ActivationInv, ActTypeOK
<1>6. (LinksHaveAccounts /\ OneOutstandingLink /\ ActiveHasNoLink /\ ActivatedOnce)'
  BY SameTables DEF ActivationInv
<1>7. CallLinks'
  BY <1>2, <1>4 DEF ActivationInv, CallLinks
<1>8. LocksExclusive'
  <2>1. \A d \in Calls \ {c} : calls[d] # Null => row \notin calls[d].locks
    BY DEF CanLock, WaitsFor
  <2>2. \A d \in Calls \ {c} : calls[d] # Null => locked.locks \cap calls[d].locks = {}
    BY <1>2, <2>1 DEF ActivationInv, LocksExclusive
  <2> QED
    BY <1>4, <2>2 DEF ActivationInv, LocksExclusive
<1>9. WritersHoldUser'
  <2> SUFFICES ASSUME NEW d \in Calls,
                      (At(d, "complete", "commit") \/ At(d, "issue", "replace"))'
               PROVE  UserRow(calls'[d].userId) \in calls'[d].locks
    BY DEF WritersHoldUser, UserRow
  <2>1. CASE d = c
    BY <2>1, <1>2, <1>4 DEF At
  <2>2. CASE d # c
    BY <2>2, <1>4 DEF At, ActivationInv, WritersHoldUser
  <2> QED
    BY <2>1, <2>2
<1>10. ReplacePending'
  <2> SUFFICES ASSUME NEW d \in Calls, At(d, "issue", "replace")'
               PROVE  IssueAllowed(calls'[d].userId)
    BY DEF ReplacePending, IssueAllowed
  <2>1. CASE d = c
    BY <2>1, <1>2, <1>4 DEF At
  <2>2. CASE d # c
    BY <2>2, <1>4 DEF At, ActivationInv, ReplacePending
  <2> QED
    BY <2>1, <2>2
<1> QED
  BY <1>5, <1>6, <1>7, <1>8, <1>9, <1>10 DEF ActivationInv

LEMMA LockStepsInv ==
  ASSUME ActivationInv, NEW c \in Calls,
         CompleteLockToken(c) \/ CompleteLockUser(c) \/ IssueLockUser(c)
  PROVE  ActivationInv'
<1>1. calls \in [Calls -> Call \cup {Null}]
  BY DEF ActivationInv, ActTypeOK
<1>2. CASE CompleteLockToken(c)
  <2>1. calls[c] # Null /\ calls[c].link \in Links /\ calls[c].op = "complete"
    BY <1>1, <1>2 DEF CompleteLockToken, At, Call
  <2>2. TokenRow(calls[c].link) \in Row /\ TokenRow(calls[c].link) \in Wanted(c)
    BY <1>2, <2>1 DEF CompleteLockToken, TokenRow, Row, Wanted, At
  <2> QED
    BY <1>2, <2>1, <2>2, LockInv DEF CompleteLockToken
<1>3. CASE CompleteLockUser(c)
  <2>1. calls[c] # Null /\ calls[c].userId \in Users /\ calls[c].op = "complete"
    BY <1>1, <1>3 DEF CompleteLockUser, At, Call
  <2>2. UserRow(calls[c].userId) \in Row /\ UserRow(calls[c].userId) \in Wanted(c)
    BY <1>3, <2>1 DEF CompleteLockUser, UserRow, Row, Wanted, At
  <2> QED
    BY <1>3, <2>1, <2>2, LockInv DEF CompleteLockUser
<1>4. CASE IssueLockUser(c)
  <2>1. calls[c] # Null /\ calls[c].userId \in Users /\ calls[c].op = "issue"
    BY <1>1, <1>4 DEF IssueLockUser, At, Call
  <2>2. UserRow(calls[c].userId) \in Row /\ UserRow(calls[c].userId) \in Wanted(c)
    BY <1>4, <2>1 DEF IssueLockUser, UserRow, Row, Wanted, At
  <2> QED
    BY <1>4, <2>1, <2>2, LockInv DEF IssueLockUser
<1> QED
  BY <1>2, <1>3, <1>4

----------------------------------------------------------------------------
(* Steps that commit *)

\* What a commit of c leaves of the other calls.
LEMMA AnsweredCalls ==
  ASSUME ActTypeOK, NEW c \in Calls, Answer(c)
  PROVE  /\ calls' \in [Calls -> Call \cup {Null}]
         /\ \A d \in Calls : calls'[d] # Null =>
              d # c /\ calls[d] # Null /\ calls[d] \in Call /\ calls'[d] = calls[d]
BY DEF ActTypeOK, Answer

\* The lock part of the invariant only looks at the calls.
LEMMA AnswerLocksInv ==
  ASSUME ActivationInv, NEW c \in Calls, Answer(c)
  PROVE  LocksExclusive' /\ WritersHoldUser'
<1>1. \A d \in Calls : calls'[d] # Null => calls[d] # Null /\ calls'[d] = calls[d]
  BY AnsweredCalls DEF ActivationInv
<1>2. LocksExclusive'
  BY <1>1 DEF ActivationInv, LocksExclusive
<1>3. WritersHoldUser'
  <2> SUFFICES ASSUME NEW d \in Calls,
                      (At(d, "complete", "commit") \/ At(d, "issue", "replace"))'
               PROVE  UserRow(calls'[d].userId) \in calls'[d].locks
    BY DEF WritersHoldUser, UserRow
  <2> QED
    BY <1>1 DEF At, ActivationInv, WritersHoldUser
<1> QED
  BY <1>2, <1>3

LEMMA SignupCommitInv ==
  ASSUME ActivationInv, NEW c \in Calls, SignupCommit(c)
  PROVE  ActivationInv'
<1> DEFINE u == calls[c].userId
           k == calls[c].link
           fresh == NewLink(calls[c])
           account == [accountStatus |-> "pending_activation", password |-> calls[c].password]
<1>1. /\ calls[c] \in Call /\ calls[c].op = "signup" /\ calls[c] # Null
      /\ u \in Users /\ k \in Links /\ links[k] = Null /\ users[u] = Null
  BY DEF ActivationInv, ActTypeOK, SignupCommit, At, CallLinks, Call
<1>2. /\ fresh \in Link /\ fresh # Null /\ fresh.userId = u /\ ~fresh.consumed
      /\ account \in Account /\ account # Null
      /\ account.accountStatus = "pending_activation"
  BY <1>1, NewLinkType, NullRowAssumption DEF NewLink, Account, Call
<1>3. /\ users' = [users EXCEPT ![u] = account]
      /\ links' = [links EXCEPT ![k] = fresh]
      /\ outbox' = [outbox EXCEPT ![u].requested = @ + 1]
      /\ now' = now
      /\ Answer(c)
  BY DEF SignupCommit
<1> HIDE DEF fresh, account
<1>4. /\ users \in [Users -> Account \cup {Null}]
      /\ links \in [Links -> Link \cup {Null}]
      /\ outbox \in [Users -> [requested : Nat, activated : Nat]]
  BY DEF ActivationInv, ActTypeOK
<1>5. /\ calls' \in [Calls -> Call \cup {Null}]
      /\ \A d \in Calls : calls'[d] # Null =>
           d # c /\ calls[d] # Null /\ calls[d] \in Call /\ calls'[d] = calls[d]
  BY <1>3, AnsweredCalls DEF ActivationInv
<1>6. /\ users'[u] = account /\ links'[k] = fresh
      /\ \A v \in Users \ {u} : users'[v] = users[v]
      /\ \A l \in Links \ {k} : links'[l] = links[l]
  BY <1>1, <1>3, <1>4
<1>7. ActTypeOK'
  <2>1. outbox' \in [Users -> [requested : Nat, activated : Nat]]
    BY <1>1, <1>3, <1>4
  <2>2. users' \in [Users -> Account \cup {Null}] /\ links' \in [Links -> Link \cup {Null}]
    BY <1>1, <1>2, <1>3, <1>4
  <2> QED
    BY <1>3, <1>5, <2>1, <2>2 DEF ActivationInv, ActTypeOK
<1>8. \A l \in Links : links[l] # Null => links[l].userId \in Users /\ links[l].userId # u
  BY <1>1, <1>4 DEF ActivationInv, LinksHaveAccounts, Link
<1>9. LinksHaveAccounts'
  BY <1>1, <1>2, <1>6, <1>8 DEF ActivationInv, LinksHaveAccounts
<1>10. OneOutstandingLink'
  BY <1>2, <1>6, <1>8 DEF ActivationInv, OneOutstandingLink, Outstanding
<1>11. ActiveHasNoLink'
  BY <1>2, <1>6, <1>8 DEF ActivationInv, ActiveHasNoLink, Outstanding
<1>12. CallLinks'
  <2>1. \A d \in Calls \ {c} : calls[d] # Null => calls[d].link # k /\ calls[d].link \in Links
    BY <1>1, <1>4 DEF ActivationInv, ActTypeOK, CallLinks, Call
  <2> QED
    BY <1>5, <1>6, <2>1 DEF ActivationInv, CallLinks
<1>13. ReplacePending'
  <2> SUFFICES ASSUME NEW d \in Calls, At(d, "issue", "replace")'
               PROVE  (IssueAllowed(calls[d].userId))'
    BY DEF ReplacePending
  <2>1. At(d, "issue", "replace") /\ calls'[d] = calls[d] /\ calls[d].userId \in Users
    BY <1>5 DEF At, Call
  <2>2. IssueAllowed(calls[d].userId)
    BY <2>1 DEF ActivationInv, ReplacePending
  <2>3. users'[calls[d].userId] = users[calls[d].userId]
    BY <1>1, <1>6, <2>1, <2>2 DEF IssueAllowed
  <2> QED
    BY <2>1, <2>2, <2>3 DEF IssueAllowed
<1>14. ActivatedOnce'
  <2>1. \A v \in Users : IsActive(v)' <=> IsActive(v)
    BY <1>1, <1>2, <1>6 DEF IsActive
  <2>2. \A v \in Users : Spent(v)' = Spent(v)
    BY <1>1, <1>2, <1>6 DEF Spent
  <2>3. \A v \in Users : outbox'[v].activated = outbox[v].activated
    BY <1>1, <1>3, <1>4
  <2> QED
    BY <2>1, <2>2, <2>3 DEF ActivationInv, ActivatedOnce
<1> QED
  BY <1>3, <1>7, <1>9, <1>10, <1>11, <1>12, <1>13, <1>14, AnswerLocksInv DEF ActivationInv

LEMMA IssueReplaceInv ==
  ASSUME ActivationInv, NEW c \in Calls, IssueReplace(c)
  PROVE  ActivationInv'
<1> DEFINE u == calls[c].userId
           k == calls[c].link
           fresh == NewLink(calls[c])
           revoked == Revoked(OutstandingOf(u))
<1>1. /\ calls[c] \in Call /\ calls[c].op = "issue" /\ calls[c] # Null
      /\ u \in Users /\ k \in Links /\ links[k] = Null
      /\ IssueAllowed(u)
  BY DEF ActivationInv, ActTypeOK, IssueReplace, At, CallLinks, Call, ReplacePending
<1>2. fresh \in Link /\ fresh # Null /\ fresh.userId = u /\ ~fresh.consumed
  BY <1>1, NewLinkType, NullRowAssumption DEF NewLink
<1>3. /\ links' = [revoked EXCEPT ![k] = fresh]
      /\ UNCHANGED <<now, users, outbox>>
      /\ Answer(c)
  BY DEF IssueReplace
<1>4. /\ users \in [Users -> Account \cup {Null}]
      /\ links \in [Links -> Link \cup {Null}]
  BY DEF ActivationInv, ActTypeOK
<1>5. /\ calls' \in [Calls -> Call \cup {Null}]
      /\ \A d \in Calls : calls'[d] # Null =>
           d # c /\ calls[d] # Null /\ calls[d] \in Call /\ calls'[d] = calls[d]
  BY <1>3, AnsweredCalls DEF ActivationInv
<1>6. /\ revoked \in [Links -> Link \cup {Null}]
      /\ \A l \in Links : l \in OutstandingOf(u) => revoked[l] = [links[l] EXCEPT !.revoked = TRUE]
      /\ \A l \in Links : l \notin OutstandingOf(u) => revoked[l] = links[l]
  BY <1>4, RevokedType, OutstandingStored
<1> HIDE DEF fresh, revoked
<1>7. links'[k] = fresh /\ \A l \in Links \ {k} : links'[l] = revoked[l]
  BY <1>1, <1>3, <1>6
<1>8. ActTypeOK'
  <2>1. links' \in [Links -> Link \cup {Null}]
    BY <1>1, <1>2, <1>3, <1>6
  <2> QED
    BY <1>3, <1>5, <2>1 DEF ActivationInv, ActTypeOK
\* A stored link keeps its owner, and only revoked ones of u remain.
<1>9. \A l \in Links \ {k} :
        /\ (links'[l] = Null) <=> (links[l] = Null)
        /\ links[l] # Null => /\ links'[l].userId = links[l].userId
                              /\ links'[l].consumed = links[l].consumed
        /\ Outstanding(l)' => Outstanding(l) /\ links[l].userId # u
  <2> SUFFICES ASSUME NEW l \in Links \ {k}
               PROVE  /\ (links'[l] = Null) <=> (links[l] = Null)
                      /\ links[l] # Null => /\ links'[l].userId = links[l].userId
                                            /\ links'[l].consumed = links[l].consumed
                      /\ Outstanding(l)' => Outstanding(l) /\ links[l].userId # u
    OBVIOUS
  <2>1. CASE l \in OutstandingOf(u)
    <3>1. links[l] \in Link /\ links'[l] = [links[l] EXCEPT !.revoked = TRUE]
      <4>1. links[l] # Null
        BY <2>1, OutstandingStored
      <4>2. links'[l] = revoked[l] /\ revoked[l] = [links[l] EXCEPT !.revoked = TRUE]
        BY <1>6, <1>7, <2>1
      <4> QED
        BY <1>4, <4>1, <4>2
    <3>2. links'[l] \in Link /\ links'[l].revoked /\ links'[l].userId = links[l].userId
          /\ links'[l].consumed = links[l].consumed
      BY <3>1 DEF Link
    <3> QED
      BY <3>1, <3>2, NullRowAssumption DEF Outstanding
  <2>2. CASE l \notin OutstandingOf(u)
    BY <1>6, <1>7, <2>2 DEF OutstandingOf, Outstanding
  <2> QED
    BY <2>1, <2>2
<1>10. LinksHaveAccounts'
  BY <1>1, <1>2, <1>3, <1>7, <1>9 DEF ActivationInv, LinksHaveAccounts, IssueAllowed
<1>11. OneOutstandingLink'
  <2> SUFFICES ASSUME NEW l \in Links, NEW m \in Links, Outstanding(l)', Outstanding(m)',
                      links'[l].userId = links'[m].userId
               PROVE  l = m
    BY DEF OneOutstandingLink, Outstanding
  <2>1. CASE l = k \/ m = k
    BY <2>1, <1>2, <1>7, <1>9 DEF Outstanding
  <2>2. CASE l # k /\ m # k
    <3>1. /\ Outstanding(l) /\ Outstanding(m)
          /\ links'[l].userId = links[l].userId /\ links'[m].userId = links[m].userId
      BY <2>2, <1>9 DEF Outstanding
    <3> QED
      BY <3>1 DEF ActivationInv, OneOutstandingLink
  <2> QED
    BY <2>1, <2>2
<1>12. ActiveHasNoLink'
  <2> SUFFICES ASSUME NEW l \in Links, Outstanding(l)'
               PROVE  users[links'[l].userId].accountStatus # "active"
    BY <1>3 DEF ActiveHasNoLink, Outstanding
  <2>1. CASE l = k
    BY <2>1, <1>1, <1>2, <1>7 DEF IssueAllowed
  <2>2. CASE l # k
    <3>1. Outstanding(l) /\ links'[l].userId = links[l].userId
      BY <2>2, <1>9 DEF Outstanding
    <3> QED
      BY <3>1 DEF ActivationInv, ActiveHasNoLink
  <2> QED
    BY <2>1, <2>2
<1>13. CallLinks'
  <2>1. \A d \in Calls \ {c} : calls[d] # Null => calls[d].link # k /\ calls[d].link \in Links
    BY <1>1, <1>4 DEF ActivationInv, ActTypeOK, CallLinks, Call
  <2> QED
    BY <1>5, <1>9, <2>1 DEF ActivationInv, CallLinks
<1>14. ReplacePending'
  BY <1>3, <1>5 DEF ActivationInv, ReplacePending, At, IssueAllowed
<1>15. ActivatedOnce'
  <2>1. \A v \in Users : Spent(v)' = Spent(v)
    BY <1>1, <1>2, <1>7, <1>9 DEF Spent
  <2> QED
    BY <1>3, <2>1 DEF ActivationInv, ActivatedOnce, IsActive
<1> QED
  BY <1>3, <1>8, <1>10, <1>11, <1>12, <1>13, <1>14, <1>15, AnswerLocksInv DEF ActivationInv

LEMMA CompleteCommitInv ==
  ASSUME ActivationInv, NEW c \in Calls, CompleteCommit(c)
  PROVE  ActivationInv'
<1> DEFINE u == calls[c].userId
           k == calls[c].link
           account == ActivateUser(users[u], calls[c].password)
           chosen == OutstandingOf(u) \ {k}
           revoked == Revoked(chosen)
           spent == [links[k] EXCEPT !.consumed = TRUE]
<1>1. /\ calls[c] \in Call /\ calls[c].op = "complete" /\ calls[c] # Null
      /\ u \in Users /\ k \in Links /\ links[k] # Null /\ links[k].userId = u
      /\ UserRow(u) \in calls[c].locks
  BY DEF ActivationInv, ActTypeOK, CompleteCommit, At, CallLinks, Call, WritersHoldUser
<1>2. /\ Outstanding(k) /\ ~links[k].consumed /\ ~links[k].revoked
      /\ users[u].accountStatus = "pending_activation"
      /\ users[u] # Null
  BY <1>1 DEF CompleteCommit, CompleteAllowed, AssertActivatable, Outstanding,
              ActivationInv, LinksHaveAccounts
<1>3. /\ users' = [users EXCEPT ![u] = account]
      /\ links' = [revoked EXCEPT ![k].consumed = TRUE]
      /\ outbox' = [outbox EXCEPT ![u].activated = @ + 1]
      /\ now' = now
      /\ Answer(c)
  BY DEF CompleteCommit, ConsumeTokenAndRevokeOthers
<1>4. /\ users \in [Users -> Account \cup {Null}]
      /\ links \in [Links -> Link \cup {Null}]
      /\ outbox \in [Users -> [requested : Nat, activated : Nat]]
  BY DEF ActivationInv, ActTypeOK
<1>5. /\ calls' \in [Calls -> Call \cup {Null}]
      /\ \A d \in Calls : calls'[d] # Null =>
           d # c /\ calls[d] # Null /\ calls[d] \in Call /\ calls'[d] = calls[d]
  BY <1>3, AnsweredCalls DEF ActivationInv
<1>6. /\ revoked \in [Links -> Link \cup {Null}]
      /\ \A l \in Links : l \in chosen => revoked[l] = [links[l] EXCEPT !.revoked = TRUE]
      /\ \A l \in Links : l \notin chosen => revoked[l] = links[l]
  BY <1>4, RevokedType, OutstandingStored
<1>7. /\ account \in Account /\ account # Null /\ account.accountStatus = "active"
  <2>1. users[u] \in Account /\ calls[c].password \in Passwords \cup {Null}
    BY <1>1, <1>2, <1>4 DEF Call
  <2>2. account \in Account /\ account.accountStatus = "active"
    BY <2>1 DEF ActivateUser, Account
  <2> QED
    BY <2>2, NullRowAssumption
<1>8. /\ spent \in Link /\ spent # Null /\ spent.consumed /\ spent.userId = u
  <2>1. spent \in Link /\ spent.consumed /\ spent.userId = u
    BY <1>1, <1>4 DEF Link
  <2> QED
    BY <2>1, NullRowAssumption
<1>9. revoked[k] = links[k]
  BY <1>1, <1>6
<1> HIDE DEF account, revoked, spent
<1>10. links' = [revoked EXCEPT ![k] = spent]
  BY <1>1, <1>3, <1>6, <1>9 DEF spent
<1>11. /\ users'[u] = account /\ links'[k] = spent
       /\ \A v \in Users \ {u} : users'[v] = users[v]
       /\ \A l \in Links \ {k} : links'[l] = revoked[l]
  BY <1>1, <1>3, <1>4, <1>6, <1>10
<1>12. ActTypeOK'
  <2>1. users' \in [Users -> Account \cup {Null}] /\ links' \in [Links -> Link \cup {Null}]
    BY <1>1, <1>3, <1>4, <1>6, <1>7, <1>8, <1>10
  <2>2. outbox' \in [Users -> [requested : Nat, activated : Nat]]
    BY <1>1, <1>3, <1>4
  <2> QED
    BY <1>3, <1>5, <2>1, <2>2 DEF ActivationInv, ActTypeOK
\* Stored links keep their owners, and none of u is left outstanding.
<1>13. \A l \in Links \ {k} :
         /\ (links'[l] = Null) <=> (links[l] = Null)
         /\ links[l] # Null => /\ links'[l].userId = links[l].userId
                               /\ links'[l].consumed = links[l].consumed
         /\ Outstanding(l)' => Outstanding(l) /\ links[l].userId # u
  <2> SUFFICES ASSUME NEW l \in Links \ {k}
               PROVE  /\ (links'[l] = Null) <=> (links[l] = Null)
                      /\ links[l] # Null => /\ links'[l].userId = links[l].userId
                                            /\ links'[l].consumed = links[l].consumed
                      /\ Outstanding(l)' => Outstanding(l) /\ links[l].userId # u
    OBVIOUS
  <2>1. CASE l \in chosen
    <3>1. links[l] \in Link /\ links'[l] = [links[l] EXCEPT !.revoked = TRUE]
      <4>1. links[l] # Null
        BY <2>1, OutstandingStored
      <4>2. links'[l] = revoked[l] /\ revoked[l] = [links[l] EXCEPT !.revoked = TRUE]
        BY <1>6, <1>11, <2>1
      <4> QED
        BY <1>4, <4>1, <4>2
    <3>2. /\ links'[l] \in Link /\ links'[l].revoked
          /\ links'[l].userId = links[l].userId /\ links'[l].consumed = links[l].consumed
      BY <3>1 DEF Link
    <3> QED
      BY <3>1, <3>2, NullRowAssumption DEF Outstanding
  <2>2. CASE l \notin chosen
    <3>1. links'[l] = links[l]
      BY <1>6, <1>11, <2>2
    <3>2. l \notin OutstandingOf(u)
      BY <2>2
    <3> QED
      BY <3>1, <3>2 DEF OutstandingOf, Outstanding
  <2> QED
    BY <2>1, <2>2
<1>14. \A l \in Links : Outstanding(l)' =>
         /\ l # k
         /\ Outstanding(l)
         /\ links[l].userId # u
         /\ links'[l].userId = links[l].userId
  BY <1>8, <1>11, <1>13 DEF Outstanding
<1>15. LinksHaveAccounts'
  <2> SUFFICES ASSUME NEW l \in Links, links'[l] # Null
               PROVE  users'[links'[l].userId] # Null
    BY DEF LinksHaveAccounts
  <2>1. links[l] # Null /\ links'[l].userId = links[l].userId /\ links[l].userId \in Users
    BY <1>1, <1>4, <1>8, <1>11, <1>13 DEF Link
  <2> QED
    BY <2>1, <1>7, <1>11 DEF ActivationInv, LinksHaveAccounts
<1>16. OneOutstandingLink'
  <2> SUFFICES ASSUME NEW l \in Links, NEW m \in Links, Outstanding(l)', Outstanding(m)',
                      links'[l].userId = links'[m].userId
               PROVE  l = m
    BY DEF OneOutstandingLink, Outstanding
  <2> QED
    BY <1>14 DEF ActivationInv, OneOutstandingLink
<1>17. ActiveHasNoLink'
  <2> SUFFICES ASSUME NEW l \in Links, Outstanding(l)'
               PROVE  users'[links'[l].userId].accountStatus # "active"
    BY DEF ActiveHasNoLink, Outstanding
  <2>1. /\ Outstanding(l) /\ links[l].userId # u /\ links[l].userId \in Users
        /\ links'[l].userId = links[l].userId
    BY <1>4, <1>14 DEF Outstanding, Link
  <2>2. users'[links[l].userId] = users[links[l].userId]
    BY <1>11, <2>1
  <2> QED
    BY <2>1, <2>2 DEF ActivationInv, ActiveHasNoLink
<1>18. CallLinks'
  <2> SUFFICES ASSUME NEW d \in Calls, calls'[d] # Null
               PROVE  IF calls'[d].op = "complete"
                      THEN links'[calls'[d].link] # Null
                           /\ links'[calls'[d].link].userId = calls'[d].userId
                      ELSE /\ links'[calls'[d].link] = Null
                           /\ \A e \in Calls \ {d} : calls'[e] # Null =>
                                calls'[e].link # calls'[d].link
    BY DEF CallLinks
  <2>1. d # c /\ calls[d] # Null /\ calls'[d] = calls[d] /\ calls[d].link \in Links
    BY <1>5 DEF Call
  <2>2. CASE calls[d].op = "complete"
    <3>1. links[calls[d].link] # Null /\ links[calls[d].link].userId = calls[d].userId
      BY <2>1, <2>2 DEF ActivationInv, CallLinks
    <3> QED
      BY <1>1, <1>8, <1>11, <1>13, <2>1, <2>2, <3>1
  <2>3. CASE calls[d].op # "complete"
    <3>1. /\ links[calls[d].link] = Null
          /\ \A e \in Calls \ {d} : calls[e] # Null => calls[e].link # calls[d].link
      BY <2>1, <2>3 DEF ActivationInv, CallLinks
    <3>2. links'[calls[d].link] = Null
      BY <1>1, <1>13, <2>1, <3>1
    <3> QED
      BY <1>5, <2>1, <2>3, <3>1, <3>2
  <2> QED
    BY <2>2, <2>3
\* A re-issue about to write for u would hold the row that c holds.
<1>19. ReplacePending'
  <2> SUFFICES ASSUME NEW d \in Calls, At(d, "issue", "replace")'
               PROVE  (IssueAllowed(calls[d].userId))'
    BY DEF ReplacePending
  <2>1. d # c /\ At(d, "issue", "replace") /\ calls'[d] = calls[d]
        /\ calls[d] # Null /\ calls[d].userId \in Users
    BY <1>5 DEF At, Call
  <2>2. calls[d].userId # u
    <3>1. UserRow(calls[d].userId) \in calls[d].locks
      BY <2>1 DEF ActivationInv, WritersHoldUser
    <3>2. calls[c].locks \cap calls[d].locks = {}
      BY <1>1, <2>1 DEF ActivationInv, LocksExclusive
    <3> QED
      BY <1>1, <3>1, <3>2
  <2>3. IssueAllowed(calls[d].userId)
    BY <2>1 DEF ActivationInv, ReplacePending
  <2> QED
    BY <1>11, <2>1, <2>2, <2>3 DEF IssueAllowed
<1>20. ActivatedOnce'
  <2>1. Spent(u) = {} /\ outbox[u].activated = 0
    BY <1>1, <1>2 DEF ActivationInv, ActivatedOnce, IsActive
  <2> SUFFICES ASSUME NEW v \in Users
               PROVE  /\ outbox'[v].activated = IF IsActive(v)' THEN 1 ELSE 0
                      /\ IF IsActive(v)' THEN \E l \in Links : Spent(v)' = {l}
                                         ELSE Spent(v)' = {}
    BY DEF ActivatedOnce
  <2>2. CASE v = u
    <3>1. IsActive(v)'
      BY <1>7, <1>11, <2>2 DEF IsActive
    <3>2. outbox'[v].activated = 1
      BY <1>1, <1>3, <1>4, <2>1, <2>2
    <3>3. Spent(v)' = {k}
      BY <1>1, <1>8, <1>11, <1>13, <2>1, <2>2 DEF Spent
    <3> QED
      BY <1>1, <3>1, <3>2, <3>3
  <2>3. CASE v # u
    <3>1. outbox'[v].activated = outbox[v].activated
      BY <1>1, <1>3, <1>4, <2>3
    <3>2. IsActive(v)' <=> IsActive(v)
      BY <1>11, <2>3 DEF IsActive
    <3>3. Spent(v)' = Spent(v)
      BY <1>1, <1>8, <1>11, <1>13, <2>3 DEF Spent
    <3> QED
      BY <3>1, <3>2, <3>3 DEF ActivationInv, ActivatedOnce
  <2> QED
    BY <2>2, <2>3
<1> QED
  BY <1>3, <1>12, <1>15, <1>16, <1>17, <1>18, <1>19, <1>20, AnswerLocksInv DEF ActivationInv

----------------------------------------------------------------------------
(* The theorems *)

LEMMA InitInv == Init => ActivationInv
<1> SUFFICES ASSUME Init PROVE ActivationInv
  OBVIOUS
<1> DEFINE invited == [accountStatus |-> "pending_activation", password |-> Null]
<1>1. invited \in Account
  BY DEF Account
<1>2. ActTypeOK
  BY <1>1, ActivationAssumption DEF Init, ActTypeOK
<1>3. ActivatedOnce
  <2>1. \A u \in Users : ~IsActive(u)
    <3>1. \A u \in Users : users[u] \in {Null, invited}
      BY DEF Init
    <3>2. invited.accountStatus # "active"
      OBVIOUS
    <3> HIDE DEF invited
    <3> QED
      BY <3>1, <3>2 DEF IsActive
  <2>2. \A u \in Users : Spent(u) = {}
    BY DEF Init, Spent
  <2> QED
    BY <2>1, <2>2 DEF Init, ActivatedOnce
<1>4. LinksHaveAccounts /\ OneOutstandingLink /\ ActiveHasNoLink
  BY DEF Init, LinksHaveAccounts, OneOutstandingLink, ActiveHasNoLink, Outstanding
<1>5. CallLinks /\ LocksExclusive /\ WritersHoldUser /\ ReplacePending
  BY DEF Init, CallLinks, LocksExclusive, WritersHoldUser, ReplacePending, At
<1> QED
  BY <1>2, <1>3, <1>4, <1>5 DEF ActivationInv

\* Steps that touch no call in flight.
LEMMA IdleInv ==
  ASSUME ActivationInv, Tick \/ UNCHANGED vars
  PROVE  ActivationInv'
<1>1. UNCHANGED <<users, links, outbox, calls>>
  BY DEF Tick, vars
<1>2. now' \in 0 .. MaxTime
  BY ActivationAssumption DEF Tick, vars, ActivationInv, ActTypeOK
<1>3. ActTypeOK'
  BY <1>1, <1>2 DEF ActivationInv, ActTypeOK
<1>4. (LinksHaveAccounts /\ OneOutstandingLink /\ ActiveHasNoLink /\ ActivatedOnce)'
  BY <1>1, SameTables DEF ActivationInv
<1>5. (CallLinks /\ LocksExclusive /\ WritersHoldUser /\ ReplacePending)'
  BY <1>1 DEF ActivationInv, CallLinks, LocksExclusive, WritersHoldUser, ReplacePending,
              At, IssueAllowed
<1> QED
  BY <1>3, <1>4, <1>5 DEF ActivationInv

LEMMA StepInv == ActivationInv /\ [Next]_vars => ActivationInv'
<1> SUFFICES ASSUME ActivationInv, [Next]_vars PROVE ActivationInv'
  OBVIOUS
<1>1. ASSUME NEW c \in Calls, Progress(c) PROVE ActivationInv'
  <2>1. CASE SignupRejected(c) \/ CompleteRejected(c) \/ IssueRejected(c) \/ IssueFails(c)
    BY <2>1, RollBackInv DEF SignupRejected, CompleteRejected, IssueRejected, IssueFails
  <2> QED
    BY <1>1, <2>1, SignupCommitInv, IssueReplaceInv, CompleteCommitInv, LockStepsInv
    DEF Progress
<1>2. ASSUME NEW c \in Calls, Abort(c) \/ DeadlockVictim(c) PROVE ActivationInv'
  BY <1>2, RollBackInv DEF Abort, DeadlockVictim
<1> QED
  BY <1>1, <1>2, BeginInv, IdleInv DEF Next

LEMMA AlwaysInv == Spec => []ActivationInv
BY InitInv, StepInv, PTL DEF Spec

\* The tables and the calls in flight of signup, completion and re-issue stay
\* well typed for any number of addresses, links and calls.
THEOREM ActivationTypeCorrect == Spec => []ActTypeOK
<1>1. ActivationInv => ActTypeOK
  BY DEF ActivationInv
<1> QED
  BY <1>1, AlwaysInv, PTL

\* createToken never leaves an account with two usable links, however signups,
\* re-issues and completions overlap.
THEOREM LinksAreUnique == Spec => []OneOutstandingLink
<1>1. ActivationInv => OneOutstandingLink
  BY DEF ActivationInv
<1> QED
  BY <1>1, AlwaysInv, PTL

\* An active account has no usable link: issueActivationToken and
\* completeActivation exclude each other through the user's row.
THEOREM ActiveAccountsHaveNoLink == Spec => []ActiveHasNoLink
<1>1. ActivationInv => ActiveHasNoLink
  BY DEF ActivationInv
<1> QED
  BY <1>1, AlwaysInv, PTL

\* completeActivation activates an account once, by one link, and queues one
\* account.activated event for it.
THEOREM AccountsAreActivatedOnce == Spec => []ActivatedOnce
<1>1. ActivationInv => ActivatedOnce
  BY DEF ActivationInv
<1> QED
  BY <1>1, AlwaysInv, PTL

----------------------------------------------------------------------------
(* Action properties *)

\* Only three steps write the tables.
LEMMA Writers ==
  ASSUME [Next]_vars
  PROVE  \/ UNCHANGED <<users, links, outbox>>
         \/ \E c \in Calls : SignupCommit(c) \/ IssueReplace(c) \/ CompleteCommit(c)
<1>1. ASSUME NEW c \in Calls, RollBack(c) PROVE UNCHANGED <<users, links, outbox>>
  BY <1>1 DEF RollBack
<1>2. ASSUME NEW c \in Calls, Begin(c) PROVE UNCHANGED <<users, links, outbox>>
  BY <1>2 DEF Begin, SignupBegin, CompleteBegin, IssueBegin, Open
<1>3. ASSUME NEW c \in Calls, Progress(c)
      PROVE  \/ UNCHANGED <<users, links, outbox>>
             \/ SignupCommit(c) \/ IssueReplace(c) \/ CompleteCommit(c)
  <2>1. CASE CompleteLockToken(c) \/ CompleteLockUser(c) \/ IssueLockUser(c)
    BY <2>1 DEF CompleteLockToken, CompleteLockUser, IssueLockUser
  <2>2. CASE SignupRejected(c) \/ CompleteRejected(c) \/ IssueRejected(c) \/ IssueFails(c)
    BY <2>2, <1>1 DEF SignupRejected, CompleteRejected, IssueRejected, IssueFails
  <2> QED
    BY <1>3, <2>1, <2>2 DEF Progress
<1>4. ASSUME NEW c \in Calls, Abort(c) \/ DeadlockVictim(c) PROVE UNCHANGED <<users, links, outbox>>
  BY <1>4, <1>1 DEF Abort, DeadlockVictim
<1>5. CASE Tick \/ UNCHANGED vars
  BY <1>5 DEF Tick, vars
<1> QED
  BY <1>2, <1>3, <1>4, <1>5 DEF Next

\* What a completion does to the tables.
LEMMA CompletionEffect ==
  ASSUME ActivationInv, NEW c \in Calls, CompleteCommit(c)
  PROVE  /\ calls[c].link \in Links /\ links[calls[c].link].userId = calls[c].userId
         /\ AssertActivatable(calls[c].link)
         /\ users[calls[c].userId].accountStatus = "pending_activation"
         /\ users'[calls[c].userId].accountStatus = "active"
         /\ \A v \in Users : v # calls[c].userId => users'[v] = users[v]
         /\ \A l \in Links : l # calls[c].link /\ links[l] # Null =>
              links'[l].consumed = links[l].consumed
<1> DEFINE u == calls[c].userId
           k == calls[c].link
           chosen == OutstandingOf(u) \ {k}
<1>1. /\ users \in [Users -> Account \cup {Null}]
      /\ links \in [Links -> Link \cup {Null}]
      /\ calls[c] \in Call /\ u \in Users /\ k \in Links
      /\ links[k] # Null /\ links[k].userId = u
  BY DEF ActivationInv, ActTypeOK, CompleteCommit, At, CallLinks, Call
<1>2. AssertActivatable(k) /\ users[u].accountStatus = "pending_activation"
  BY <1>1 DEF CompleteCommit, CompleteAllowed, AssertActivatable
<1>3. users[u] \in Account
  BY <1>1 DEF ActivationInv, LinksHaveAccounts
<1>4. ActivateUser(users[u], calls[c].password).accountStatus = "active"
  BY <1>3 DEF ActivateUser, Account
<1>5. users' = [users EXCEPT ![u] = ActivateUser(users[u], calls[c].password)]
  BY DEF CompleteCommit
<1>6. /\ Revoked(chosen) \in [Links -> Link \cup {Null}]
      /\ \A l \in Links : l \in chosen => Revoked(chosen)[l] = [links[l] EXCEPT !.revoked = TRUE]
      /\ \A l \in Links : l \notin chosen => Revoked(chosen)[l] = links[l]
  BY <1>1, RevokedType, OutstandingStored
<1>7. \A l \in Links : l # k => links'[l] = Revoked(chosen)[l]
  BY <1>6 DEF CompleteCommit, ConsumeTokenAndRevokeOthers
<1>8. \A l \in Links : links[l] # Null =>
        [links[l] EXCEPT !.revoked = TRUE].consumed = links[l].consumed
  BY <1>1 DEF Link
<1>9. \A l \in Links : l # k /\ links[l] # Null => links'[l].consumed = links[l].consumed
  BY <1>6, <1>7, <1>8
<1>10. /\ users'[u] = ActivateUser(users[u], calls[c].password)
       /\ \A v \in Users : v # u => users'[v] = users[v]
  BY <1>1, <1>5
<1> QED
  BY <1>1, <1>2, <1>4, <1>9, <1>10

LEMMA FirstCompletionWinsStep ==
  ASSUME ActivationInv, [Next]_vars, NEW u \in Users, IsActive(u)
  PROVE  users'[u] = users[u]
<1>1. ASSUME NEW c \in Calls, SignupCommit(c) PROVE users'[u] = users[u]
  <2>1. users[calls[c].userId] = Null /\ users[u] # Null
    BY <1>1 DEF SignupCommit, IsActive
  <2>2. users \in [Users -> Account \cup {Null}]
    BY DEF ActivationInv, ActTypeOK
  <2> QED
    BY <1>1, <2>1, <2>2 DEF SignupCommit
<1>2. ASSUME NEW c \in Calls, CompleteCommit(c) PROVE users'[u] = users[u]
  BY <1>2, CompletionEffect DEF IsActive
<1> QED
  BY <1>1, <1>2, Writers DEF IssueReplace

LEMMA LinksActivateInTimeStep ==
  ASSUME ActivationInv, [Next]_vars, NEW l \in Links,
         links[l] # Null, ~links[l].consumed, links'[l].consumed
  PROVE  /\ Outstanding(l)
         /\ now < links[l].expiresAt
         /\ users[links[l].userId].accountStatus = "pending_activation"
         /\ users'[links[l].userId].accountStatus = "active"
<1>0. links \in [Links -> Link \cup {Null}] /\ now \in Nat /\ links[l].expiresAt \in Nat
  BY DEF ActivationInv, ActTypeOK, Link
<1>1. ASSUME NEW c \in Calls, SignupCommit(c) PROVE FALSE
  <2>1. links[calls[c].link] = Null
    BY <1>1 DEF SignupCommit, At, ActivationInv, CallLinks
  <2> QED
    BY <1>0, <1>1, <2>1 DEF SignupCommit
<1>2. ASSUME NEW c \in Calls, IssueReplace(c) PROVE FALSE
  <2> DEFINE chosen == OutstandingOf(calls[c].userId)
  <2>1. links[calls[c].link] = Null
    BY <1>2 DEF IssueReplace, At, ActivationInv, CallLinks
  <2>2. /\ Revoked(chosen) \in [Links -> Link \cup {Null}]
        /\ l \in chosen => Revoked(chosen)[l] = [links[l] EXCEPT !.revoked = TRUE]
        /\ l \notin chosen => Revoked(chosen)[l] = links[l]
    BY <1>0, RevokedType, OutstandingStored
  <2>3. links'[l] = Revoked(chosen)[l]
    BY <1>2, <2>1, <2>2 DEF IssueReplace
  <2>4. [links[l] EXCEPT !.revoked = TRUE].consumed = links[l].consumed
    BY <1>0 DEF Link
  <2> QED
    BY <2>2, <2>3, <2>4
<1>3. ASSUME NEW c \in Calls, CompleteCommit(c)
      PROVE  /\ Outstanding(l)
             /\ now < links[l].expiresAt
             /\ users[links[l].userId].accountStatus = "pending_activation"
             /\ users'[links[l].userId].accountStatus = "active"
  <2>1. l = calls[c].link
    BY <1>3, CompletionEffect
  <2>2. Outstanding(l) /\ links[l].expiresAt > now
    BY <1>3, <2>1, CompletionEffect DEF AssertActivatable
  <2> QED
    BY <1>0, <1>3, <2>1, <2>2, CompletionEffect
<1> QED
  BY <1>1, <1>2, <1>3, Writers

\* A completion that comes second, with whatever password, leaves the account
\* as the first one settled it.
THEOREM FirstCompletionAlwaysWins == Spec => FirstCompletionWins
<1>1. ActivationInv /\ [Next]_vars =>
        [\A u \in Users :
           users[u] # Null /\ users[u].accountStatus = "active" => users'[u] = users[u]]_vars
  BY FirstCompletionWinsStep DEF IsActive
<1> QED
  BY <1>1, AlwaysInv, PTL DEF Spec, FirstCompletionWins

\* A link activates its account only while it is outstanding and unexpired at
\* the check under the row locks.
THEOREM LinksAlwaysActivateInTime == Spec => LinksActivateInTime
<1>1. ActivationInv /\ [Next]_vars =>
        [\A l \in Links :
           links[l] # Null /\ ~links[l].consumed /\ links'[l].consumed =>
             /\ Outstanding(l)
             /\ now < links[l].expiresAt
             /\ users[links[l].userId].accountStatus = "pending_activation"
             /\ users'[links[l].userId].accountStatus = "active"]_vars
  BY LinksActivateInTimeStep
<1> QED
  BY <1>1, AlwaysInv, PTL DEF Spec, LinksActivateInTime

----------------------------------------------------------------------------
(* A pending account keeps a link *)

LEMMA FreshOutstanding ==
  ASSUME NEW k \in Links, NEW call \in Call, links'[k] = NewLink(call)
  PROVE  k \in OutstandingOf(call.userId)'
<1>1. /\ NewLink(call).userId = call.userId /\ NewLink(call) \in Link
      /\ ~NewLink(call).consumed /\ ~NewLink(call).revoked
  BY NewLinkType DEF NewLink
<1> QED
  BY <1>1, NullRowAssumption DEF OutstandingOf, Outstanding

LEMMA OthersOutstanding ==
  ASSUME NEW v, NEW set \in SUBSET Links,
         \A l \in OutstandingOf(v) : l \notin set,
         \A l \in Links \ set : links'[l] = links[l],
         OutstandingOf(v) # {}
  PROVE  OutstandingOf(v)' # {}
BY DEF OutstandingOf, Outstanding

LEMMA PendingHasLinkStep ==
  ASSUME ActivationInv, PendingHasLink, [Next]_vars
  PROVE  PendingHasLink'
<1>1. /\ users \in [Users -> Account \cup {Null}]
      /\ links \in [Links -> Link \cup {Null}]
      /\ outbox \in [Users -> [requested : Nat, activated : Nat]]
  BY DEF ActivationInv, ActTypeOK
<1>2. ASSUME NEW c \in Calls, NEW u, u = calls[c].userId, SignupCommit(c) PROVE PendingHasLink'
  <2> DEFINE k == calls[c].link
  <2>1. /\ calls[c] \in Call /\ u \in Users /\ k \in Links /\ links[k] = Null
    BY <1>1, <1>2 DEF ActivationInv, ActTypeOK, SignupCommit, At, CallLinks, Call
  <2>2. /\ links'[k] = NewLink(calls[c]) /\ \A l \in Links \ {k} : links'[l] = links[l]
        /\ \A v \in Users \ {u} : users'[v] = users[v] /\ outbox'[v] = outbox[v]
    BY <1>1, <1>2, <2>1 DEF SignupCommit
  <2>3. k \in OutstandingOf(u)'
    <3>1. \A call \in Call : links'[k] = NewLink(call) => k \in OutstandingOf(call.userId)'
      BY <2>1, FreshOutstanding
    <3> QED
      BY <1>2, <2>1, <2>2, <3>1
  <2>4. \A v : \A l \in OutstandingOf(v) : l \notin {k}
    BY <2>1, OutstandingStored
  <2>5. \A v : OutstandingOf(v) # {} => OutstandingOf(v)' # {}
    BY <2>1, <2>2, <2>4, OthersOutstanding
  <2> QED
    BY <2>2, <2>3, <2>5 DEF PendingHasLink
<1>3. ASSUME NEW c \in Calls, NEW u, u = calls[c].userId, IssueReplace(c) PROVE PendingHasLink'
  <2> DEFINE k == calls[c].link
             chosen == OutstandingOf(u)
  <2>1. /\ calls[c] \in Call /\ u \in Users /\ k \in Links /\ links[k] = Null
    BY <1>3 DEF ActivationInv, ActTypeOK, IssueReplace, At, CallLinks, Call
  <2>2. /\ Revoked(chosen) \in [Links -> Link \cup {Null}]
        /\ \A l \in Links : l \notin chosen => Revoked(chosen)[l] = links[l]
    BY <1>1, RevokedType, OutstandingStored
  <2>3. links' = [Revoked(chosen) EXCEPT ![k] = NewLink(calls[c])] /\ UNCHANGED <<users, outbox>>
    BY <1>3 DEF IssueReplace
  <2>4. /\ links'[k] = NewLink(calls[c])
        /\ \A l \in Links \ (chosen \cup {k}) : links'[l] = links[l]
    BY <2>1, <2>2, <2>3
  <2>5. k \in OutstandingOf(u)'
    <3>1. \A call \in Call : links'[k] = NewLink(call) => k \in OutstandingOf(call.userId)'
      BY <2>1, FreshOutstanding
    <3> QED
      BY <1>3, <2>1, <2>4, <3>1
  <2>6. \A v : v # u => \A l \in OutstandingOf(v) : l \notin chosen \cup {k}
    BY <2>1, OutstandingStored
  <2>7. chosen \cup {k} \in SUBSET Links
    BY <2>1, OutstandingStored
  <2>8. \A v : v # u /\ OutstandingOf(v) # {} => OutstandingOf(v)' # {}
    BY <2>4, <2>6, <2>7, OthersOutstanding
  <2> QED
    BY <2>3, <2>5, <2>8 DEF PendingHasLink
<1>4. ASSUME NEW c \in Calls, CompleteCommit(c) PROVE PendingHasLink'
  <2> DEFINE u == calls[c].userId
             k == calls[c].link
             chosen == OutstandingOf(u) \ {k}
  <2>1. /\ u \in Users /\ k \in Links /\ links[k].userId = u
        /\ users'[u].accountStatus = "active"
        /\ \A v \in Users : v # u => users'[v] = users[v]
    BY <1>1, <1>4, CompletionEffect
    DEF ActivationInv, ActTypeOK, CompleteCommit, At, Call
  <2>2. /\ Revoked(chosen) \in [Links -> Link \cup {Null}]
        /\ \A l \in Links : l \notin chosen => Revoked(chosen)[l] = links[l]
    BY <1>1, RevokedType, OutstandingStored
  <2>3. \A l \in Links \ (chosen \cup {k}) : links'[l] = links[l]
    BY <1>4, <2>1, <2>2 DEF CompleteCommit, ConsumeTokenAndRevokeOthers
  <2>4. \A v \in Users \ {u} : outbox'[v] = outbox[v]
    BY <1>1, <1>4, <2>1 DEF CompleteCommit
  <2>5. \A v : v # u => \A l \in OutstandingOf(v) : l \notin chosen \cup {k}
    BY <2>1, OutstandingStored
  <2>6. chosen \cup {k} \in SUBSET Links
    BY <2>1, OutstandingStored
  <2>7. \A v : v # u /\ OutstandingOf(v) # {} => OutstandingOf(v)' # {}
    BY <2>3, <2>5, <2>6, OthersOutstanding
  <2> QED
    BY <2>1, <2>4, <2>7 DEF PendingHasLink
<1>5. CASE UNCHANGED <<users, links, outbox>>
  BY <1>5 DEF PendingHasLink, OutstandingOf, Outstanding
<1> QED
  BY <1>2, <1>3, <1>4, <1>5, Writers

\* An account that signed up is never left pending without a link:
\* issueActivationToken takes the old link away only in the transaction that
\* inserts the new one, and only a completion uses the last link up.
THEOREM PendingAccountsKeepALink == Spec => []PendingHasLink
<1>1. Init => PendingHasLink
  BY DEF Init, PendingHasLink
<1>2. ActivationInv /\ PendingHasLink /\ [Next]_vars => PendingHasLink'
  BY PendingHasLinkStep
<1> QED
  BY <1>1, <1>2, AlwaysInv, PTL DEF Spec

----------------------------------------------------------------------------
(* Who waits for whom *)

Places ==
  {<<"signup", "insert">>, <<"complete", "lock_token">>, <<"complete", "lock_user">>,
   <<"complete", "commit">>, <<"issue", "lock_user">>, <<"issue", "replace">>}

\* The rows a transaction has locked by the time it comes to its statement.
Held(call) ==
  CASE call.op = "complete" /\ call.at = "lock_user" -> {TokenRow(call.link)}
    [] call.at = "commit"  -> {TokenRow(call.link), UserRow(call.userId)}
    [] call.at = "replace" -> {UserRow(call.userId)}
    [] OTHER               -> {}

LocksFollow ==
  \A c \in Calls : calls[c] # Null =>
    <<calls[c].op, calls[c].at>> \in Places /\ calls[c].locks = Held(calls[c])

\* What a step does to a call: it brings it nearer to its end.
Forward(c) ==
  \/ calls'[c] = Null
  \/ /\ calls[c].op = "complete" /\ calls[c].at = "lock_token"
     /\ calls'[c] = [calls[c] EXCEPT !.at = "lock_user", !.locks = {TokenRow(calls[c].link)}]
  \/ /\ calls[c].op = "complete" /\ calls[c].at = "lock_user"
     /\ calls'[c] = [calls[c] EXCEPT
          !.at = "commit", !.locks = {TokenRow(calls[c].link), UserRow(calls[c].userId)}]
  \/ /\ calls[c].op = "issue" /\ calls[c].at = "lock_user"
     /\ calls'[c] = [calls[c] EXCEPT !.at = "replace", !.locks = {UserRow(calls[c].userId)}]

\* A call that has just begun.
Begun(call) ==
  /\ call \in Call
  /\ call.locks = {} /\ call.began = now
  /\ <<call.op, call.at>> \in
       {<<"signup", "insert">>, <<"complete", "lock_token">>, <<"issue", "lock_user">>}

LEMMA BeginsAreBegun ==
  ASSUME ActivationInv, NEW c \in Calls, Begin(c)
  PROVE  \E call : Begun(call) /\ Open(c, call)
<1> USE ActivationAssumption
<1>1. now \in Nat /\ links \in [Links -> Link \cup {Null}]
  BY DEF ActivationInv, ActTypeOK
<1>2. PICK l \in Links :
        \/ \E u \in Users, p \in Passwords : SignupBegin(c, u, p, l)
        \/ \E p \in Passwords \cup {Null} : CompleteBegin(c, l, p)
        \/ \E u \in Users : IssueBegin(c, u, l)
  BY DEF Begin
<1>3. ASSUME NEW u \in Users, NEW p \in Passwords, SignupBegin(c, u, p, l)
      PROVE  \E call : Begun(call) /\ Open(c, call)
  <2> DEFINE call == [op |-> "signup", at |-> "insert", userId |-> u, link |-> l,
                      password |-> p, began |-> now, expiresAt |-> now + Validity,
                      locks |-> {}]
  <2>1. Begun(call)
    BY <1>1 DEF Begun, Call
  <2>2. Open(c, call)
    BY <1>3 DEF SignupBegin
  <2> QED
    BY <2>1, <2>2
<1>4. ASSUME NEW p \in Passwords \cup {Null}, CompleteBegin(c, l, p)
      PROVE  \E call : Begun(call) /\ Open(c, call)
  <2> DEFINE call == [op |-> "complete", at |-> "lock_token", userId |-> links[l].userId,
                      link |-> l, password |-> p, began |-> now, expiresAt |-> 0,
                      locks |-> {}]
  <2>1. links[l].userId \in Users
    BY <1>1, <1>4 DEF CompleteBegin, AssertActivatable, Outstanding, Link
  <2>2. Begun(call)
    BY <1>1, <2>1 DEF Begun, Call
  <2>3. Open(c, call)
    BY <1>4 DEF CompleteBegin
  <2> QED
    BY <2>2, <2>3
<1>5. ASSUME NEW u \in Users, IssueBegin(c, u, l)
      PROVE  \E call : Begun(call) /\ Open(c, call)
  <2> DEFINE call == [op |-> "issue", at |-> "lock_user", userId |-> u, link |-> l,
                      password |-> Null, began |-> now, expiresAt |-> now + Validity,
                      locks |-> {}]
  <2>1. Begun(call)
    BY <1>1 DEF Begun, Call
  <2>2. Open(c, call)
    BY <1>5 DEF IssueBegin
  <2> QED
    BY <2>1, <2>2
<1> QED
  BY <1>2, <1>3, <1>4, <1>5

LEMMA LockMovesForward ==
  ASSUME ActivationInv, LocksFollow, NEW c \in Calls,
         CompleteLockToken(c) \/ CompleteLockUser(c) \/ IssueLockUser(c)
  PROVE  /\ calls[c] # Null /\ Forward(c)
         /\ <<calls'[c].op, calls'[c].at>> \in Places
         /\ calls'[c].locks = Held(calls'[c])
         /\ \A d \in Calls \ {c} : calls'[d] = calls[d]
<1>1. /\ calls \in [Calls -> Call \cup {Null}]
      /\ calls[c] # Null /\ calls[c] \in Call
      /\ calls[c].locks = Held(calls[c])
  BY DEF ActivationInv, ActTypeOK, LocksFollow, CompleteLockToken, CompleteLockUser,
         IssueLockUser, At
<1>2. CASE CompleteLockToken(c)
  <2>1. calls[c].op = "complete" /\ calls[c].at = "lock_token" /\ Held(calls[c]) = {}
    BY <1>2 DEF CompleteLockToken, At, Held
  <2>2. /\ calls'[c] = [calls[c] EXCEPT !.at = "lock_user", !.locks = {TokenRow(calls[c].link)}]
        /\ \A d \in Calls \ {c} : calls'[d] = calls[d]
    BY <1>1, <1>2, <2>1 DEF CompleteLockToken, Locks, Call
  <2>3. /\ calls'[c].op = "complete" /\ calls'[c].at = "lock_user"
        /\ calls'[c].link = calls[c].link /\ calls'[c].locks = {TokenRow(calls[c].link)}
    BY <1>1, <2>1, <2>2 DEF Call
  <2>4. Forward(c)
    BY <2>1, <2>2 DEF Forward
  <2>5. calls'[c].locks = Held(calls'[c])
    BY <2>3 DEF Held
  <2> QED
    BY <1>1, <2>2, <2>3, <2>4, <2>5 DEF Places
<1>3. CASE CompleteLockUser(c)
  <2>1. /\ calls[c].op = "complete" /\ calls[c].at = "lock_user"
        /\ Held(calls[c]) = {TokenRow(calls[c].link)}
    BY <1>3 DEF CompleteLockUser, At, Held
  <2>2. /\ calls'[c] = [calls[c] EXCEPT
             !.at = "commit", !.locks = {TokenRow(calls[c].link), UserRow(calls[c].userId)}]
        /\ \A d \in Calls \ {c} : calls'[d] = calls[d]
    BY <1>1, <1>3, <2>1 DEF CompleteLockUser, Locks, Call
  <2>3. /\ calls'[c].op = "complete" /\ calls'[c].at = "commit"
        /\ calls'[c].link = calls[c].link /\ calls'[c].userId = calls[c].userId
        /\ calls'[c].locks = {TokenRow(calls[c].link), UserRow(calls[c].userId)}
    BY <1>1, <2>1, <2>2 DEF Call
  <2>4. Forward(c)
    BY <2>1, <2>2 DEF Forward
  <2>5. calls'[c].locks = Held(calls'[c])
    BY <2>3 DEF Held
  <2> QED
    BY <1>1, <2>2, <2>3, <2>4, <2>5 DEF Places
<1>4. CASE IssueLockUser(c)
  <2>1. calls[c].op = "issue" /\ calls[c].at = "lock_user" /\ Held(calls[c]) = {}
    BY <1>4 DEF IssueLockUser, At, Held
  <2>2. /\ calls'[c] = [calls[c] EXCEPT !.at = "replace", !.locks = {UserRow(calls[c].userId)}]
        /\ \A d \in Calls \ {c} : calls'[d] = calls[d]
    BY <1>1, <1>4, <2>1 DEF IssueLockUser, Locks, Call
  <2>3. /\ calls'[c].op = "issue" /\ calls'[c].at = "replace"
        /\ calls'[c].userId = calls[c].userId
        /\ calls'[c].locks = {UserRow(calls[c].userId)}
    BY <1>1, <2>1, <2>2 DEF Call
  <2>4. Forward(c)
    BY <2>1, <2>2 DEF Forward
  <2>5. calls'[c].locks = Held(calls'[c])
    BY <2>3 DEF Held
  <2> QED
    BY <1>1, <2>2, <2>3, <2>4, <2>5 DEF Places
<1> QED
  BY <1>2, <1>3, <1>4

\* The steps of one call.
Acts(c) == Begin(c) \/ Progress(c) \/ Abort(c) \/ DeadlockVictim(c)

LEMMA CallsStep ==
  ASSUME ActivationInv, LocksFollow, NEW c \in Calls, Acts(c)
  PROVE  /\ \A d \in Calls \ {c} : calls'[d] = calls[d]
         /\ calls[c] # Null => Forward(c)
         /\ calls'[c] # Null => /\ <<calls'[c].op, calls'[c].at>> \in Places
                                /\ calls'[c].locks = Held(calls'[c])
<1>1. calls \in [Calls -> Call \cup {Null}]
  BY DEF ActivationInv, ActTypeOK
<1>2. CASE Begin(c)
  <2>1. PICK call : Begun(call) /\ Open(c, call)
    BY <1>2, BeginsAreBegun
  <2>2. calls[c] = Null /\ calls'[c] = call /\ \A d \in Calls \ {c} : calls'[d] = calls[d]
    BY <1>1, <2>1 DEF Open
  <2>3. <<call.op, call.at>> \in Places /\ call.locks = Held(call)
    BY <2>1 DEF Begun, Places, Held
  <2> QED
    BY <2>2, <2>3
<1>3. CASE CompleteLockToken(c) \/ CompleteLockUser(c) \/ IssueLockUser(c)
  BY <1>3, LockMovesForward
<1>4. ASSUME Answer(c)
      PROVE  calls'[c] = Null /\ \A d \in Calls \ {c} : calls'[d] = calls[d]
  BY <1>1, <1>4 DEF Answer
<1>5. CASE \/ SignupCommit(c) \/ SignupRejected(c) \/ CompleteCommit(c) \/ CompleteRejected(c)
           \/ IssueRejected(c) \/ IssueReplace(c) \/ IssueFails(c)
           \/ Abort(c) \/ DeadlockVictim(c)
  <2>1. Answer(c)
    BY <1>5 DEF SignupCommit, SignupRejected, CompleteCommit, CompleteRejected, IssueRejected,
                IssueReplace, IssueFails, Abort, DeadlockVictim, RollBack
  <2> QED
    BY <2>1, <1>4 DEF Forward
<1> QED
  BY <1>2, <1>3, <1>5 DEF Acts, Progress

LEMMA StepLocksFollow ==
  ASSUME ActivationInv, LocksFollow, [Next]_vars
  PROVE  LocksFollow'
<1>1. ASSUME NEW c \in Calls, Acts(c)
      PROVE  LocksFollow'
  <2> SUFFICES ASSUME NEW d \in Calls, calls'[d] # Null
               PROVE  <<calls'[d].op, calls'[d].at>> \in Places
                      /\ calls'[d].locks = Held(calls'[d])
    BY DEF LocksFollow, Held, UserRow, TokenRow
  <2>1. CASE d = c
    BY <2>1, <1>1, CallsStep
  <2>2. CASE d # c
    BY <2>2, <1>1, CallsStep DEF LocksFollow
  <2> QED
    BY <2>1, <2>2
<1>2. CASE UNCHANGED calls
  BY <1>2 DEF LocksFollow, Held, UserRow, TokenRow
<1> QED
  BY <1>1, <1>2 DEF Next, Acts, Tick, vars

LEMMA AlwaysFollow == Spec => [](ActivationInv /\ LocksFollow)
<1>1. Init => LocksFollow
  BY DEF Init, LocksFollow
<1>2. ActivationInv /\ LocksFollow /\ [Next]_vars => LocksFollow'
  BY StepLocksFollow
<1> QED
  BY <1>1, <1>2, AlwaysInv, PTL DEF Spec

\* Every step of a call locks its next row or ends it.
OnlyForward == [][\A c \in Calls : calls[c] # Null /\ calls'[c] # calls[c] => Forward(c)]_vars

\* A call of signup, completion or re-issue takes at most three statements and
\* never goes back, whatever the others do: a step of a call locks the next row
\* in the order its statements name them, or ends the call.
THEOREM ActivationMovesForward == Spec => OnlyForward
<1>1. ActivationInv /\ LocksFollow /\ [Next]_vars =>
        [\A c \in Calls : calls[c] # Null /\ calls'[c] # calls[c] => Forward(c)]_vars
  <2> SUFFICES ASSUME ActivationInv, LocksFollow, Next,
                      NEW c \in Calls, calls[c] # Null, calls'[c] # calls[c]
               PROVE  Forward(c)
    BY DEF vars
  <2>1. PICK d \in Calls : Acts(d)
    BY DEF Next, Acts, Tick
  <2> QED
    BY <2>1, CallsStep
<1> QED
  BY <1>1, AlwaysFollow, PTL DEF Spec, OnlyForward

\* c re-issues a link and holds the user's row; d completes the link that c is
\* about to revoke and holds its row; each waits for the other's.
Exchange(c, d) ==
  /\ At(c, "issue", "replace") /\ At(d, "complete", "lock_user")
  /\ calls[c].userId = calls[d].userId
  /\ OutstandingOf(calls[c].userId) = {calls[d].link}
  /\ WaitsFor(c, d) /\ WaitsFor(d, c)

\* Calls each of which waits for another of them are held up by one exchange.
DeadlocksAreExchanges ==
  \A D \in SUBSET Calls : D # {} /\ (\A c \in D : \E d \in D : WaitsFor(c, d)) =>
    \E c, d \in D : Exchange(c, d)

\* No other transaction holds the row c wants, or PostgreSQL ends c or the one
\* that holds it.
Moves(c) == CanLock(c) \/ \E d \in Calls : Exchange(c, d) \/ Exchange(d, c)

\* Each call in flight moves, or is one or two waits away from one that does.
WaitsEnd ==
  \A c \in Calls : calls[c] # Null =>
    \/ Moves(c)
    \/ \E d \in Calls : WaitsFor(c, d) /\ Moves(d)
    \/ \E d, e \in Calls : WaitsFor(c, d) /\ WaitsFor(d, e) /\ Moves(e)

LEMMA DifferentRows ==
  \A u, l : /\ UserRow(u) # TokenRow(l)
            /\ \A v : UserRow(u) = UserRow(v) => u = v
            /\ \A m : TokenRow(l) = TokenRow(m) => l = m
BY DEF UserRow, TokenRow

\* Who holds the row that c wants.
LEMMA Holders ==
  ASSUME LocksFollow, NEW c \in Calls, NEW d \in Calls, WaitsFor(c, d)
  PROVE  /\ calls[d] # Null
         /\ At(c, "complete", "lock_token") =>
              /\ At(d, "complete", "lock_user") \/ At(d, "complete", "commit")
              /\ calls[d].link = calls[c].link
         /\ At(c, "complete", "lock_user") \/ At(c, "issue", "lock_user") =>
              /\ At(d, "complete", "commit") \/ At(d, "issue", "replace")
              /\ calls[d].userId = calls[c].userId
         /\ At(c, "issue", "replace") =>
              /\ At(d, "complete", "lock_user") \/ At(d, "complete", "commit")
              /\ calls[d].link \in OutstandingOf(calls[c].userId)
         /\ \/ At(c, "complete", "lock_token") \/ At(c, "complete", "lock_user")
            \/ At(c, "issue", "lock_user") \/ At(c, "issue", "replace")
<1>1. calls[d] # Null /\ <<calls[d].op, calls[d].at>> \in Places
      /\ calls[d].locks = Held(calls[d]) /\ Wanted(c) \cap Held(calls[d]) # {}
  BY DEF WaitsFor, LocksFollow
<1>2. PICK row : row \in Wanted(c) /\ row \in Held(calls[d])
  BY <1>1
<1>3. \/ At(d, "complete", "lock_user") /\ row = TokenRow(calls[d].link)
      \/ At(d, "complete", "commit") /\ row = TokenRow(calls[d].link)
      \/ At(d, "complete", "commit") /\ row = UserRow(calls[d].userId)
      \/ At(d, "issue", "replace") /\ row = UserRow(calls[d].userId)
  BY <1>1, <1>2 DEF Held, Places, At
<1>4. \/ At(c, "complete", "lock_token") /\ row = TokenRow(calls[c].link)
      \/ At(c, "complete", "lock_user") /\ row = UserRow(calls[c].userId)
      \/ At(c, "issue", "lock_user") /\ row = UserRow(calls[c].userId)
      \/ /\ At(c, "issue", "replace")
         /\ \E l \in OutstandingOf(calls[c].userId) : row = TokenRow(l)
  BY <1>2 DEF Wanted
<1> QED
  BY <1>1, <1>3, <1>4, DifferentRows DEF At

\* A re-issue that waits at its second lock waits for a completion that waits
\* for it.
LEMMA ExchangeWhenHeld ==
  ASSUME ActivationInv, LocksFollow, NEW c \in Calls, NEW d \in Calls,
         At(c, "issue", "replace"), WaitsFor(c, d)
  PROVE  Exchange(c, d)
<1>1. /\ calls[d] # Null /\ c # d
      /\ At(d, "complete", "lock_user") \/ At(d, "complete", "commit")
      /\ calls[d].link \in OutstandingOf(calls[c].userId)
  BY Holders DEF WaitsFor
<1>2. calls[d].userId = calls[c].userId
  BY <1>1, OutstandingStored DEF ActivationInv, CallLinks, At, OutstandingOf
<1>3. UserRow(calls[c].userId) \in calls[c].locks
  BY DEF ActivationInv, WritersHoldUser
<1>4. ~At(d, "complete", "commit")
  <2>1. At(d, "complete", "commit") => UserRow(calls[d].userId) \in calls[d].locks
    BY DEF ActivationInv, WritersHoldUser
  <2> QED
    BY <1>1, <1>2, <1>3, <2>1 DEF ActivationInv, LocksExclusive, At
<1>5. WaitsFor(d, c)
  BY <1>1, <1>2, <1>3, <1>4 DEF WaitsFor, Wanted, At
<1>6. OutstandingOf(calls[c].userId) = {calls[d].link}
  BY <1>1 DEF ActivationInv, OneOutstandingLink, OutstandingOf
<1> QED
  BY <1>1, <1>2, <1>4, <1>5, <1>6 DEF Exchange

\* Where the waits of a call that waits for a waiting one lead.
LEMMA WaitsLeadTo ==
  ASSUME LocksFollow, NEW c \in Calls, NEW d \in Calls, NEW e \in Calls,
         WaitsFor(c, d), WaitsFor(d, e)
  PROVE  \/ At(c, "issue", "replace")
         \/ At(d, "issue", "replace")
         \/ At(c, "complete", "lock_token") /\ At(d, "complete", "lock_user")
<1>1. ~At(d, "complete", "commit")
  BY Holders DEF At
<1> QED
  BY <1>1, Holders

\* The only deadlock that signups, completions and re-issues can run into is
\* issueActivationToken against completeActivation of the link it is about to
\* revoke, over the user's row and the token's; it is between two transactions,
\* however many wait behind them.
THEOREM ActivationDeadlocks == Spec => []DeadlocksAreExchanges
<1>1. ActivationInv /\ LocksFollow => DeadlocksAreExchanges
  <2> SUFFICES ASSUME ActivationInv, LocksFollow, NEW D \in SUBSET Calls, D # {},
                      \A c \in D : \E d \in D : WaitsFor(c, d)
               PROVE  \E c, d \in D : Exchange(c, d)
    BY DEF DeadlocksAreExchanges
  <2>1. \E r \in D : At(r, "issue", "replace")
    <3>1. PICK c \in D, d \in D, e \in D, f \in D :
            WaitsFor(c, d) /\ WaitsFor(d, e) /\ WaitsFor(e, f)
      OBVIOUS
    <3>2. CASE At(c, "complete", "lock_token") /\ At(d, "complete", "lock_user")
      BY <3>1, <3>2, WaitsLeadTo DEF At
    <3> QED
      BY <3>1, <3>2, WaitsLeadTo
  <2>2. PICK r \in D : At(r, "issue", "replace")
    BY <2>1
  <2> QED
    BY <2>2, ExchangeWhenHeld
<1> QED
  BY <1>1, AlwaysFollow, PTL

\* What EveryCallEnds rests on: in every state each call in flight can execute
\* its next statement, is in an exchange that the deadlock detector ends, or
\* waits, at most through one other, for one that does.  With
\* ActivationMovesForward only the fairness of the scheduling is left to TLC.
THEOREM ActivationWaitsEnd == Spec => []WaitsEnd
<1>1. ActivationInv /\ LocksFollow => WaitsEnd
  <2> SUFFICES ASSUME ActivationInv, LocksFollow, NEW c \in Calls, calls[c] # Null
               PROVE  \/ Moves(c)
                      \/ \E d \in Calls : WaitsFor(c, d) /\ Moves(d)
                      \/ \E d, e \in Calls : WaitsFor(c, d) /\ WaitsFor(d, e) /\ Moves(e)
    BY DEF WaitsEnd
  <2>1. ASSUME NEW r \in Calls, At(r, "issue", "replace")
        PROVE  Moves(r)
    BY <2>1, ExchangeWhenHeld DEF Moves, CanLock
  <2>2. CASE ~\E d, e \in Calls : WaitsFor(c, d) /\ WaitsFor(d, e)
    BY <2>2 DEF Moves, CanLock
  <2>3. CASE \E d, e \in Calls : WaitsFor(c, d) /\ WaitsFor(d, e)
    <3>1. PICK d \in Calls, e \in Calls : WaitsFor(c, d) /\ WaitsFor(d, e)
      BY <2>3
    <3>2. CASE At(c, "issue", "replace")
      BY <3>2, <2>1
    <3>3. CASE At(d, "issue", "replace")
      BY <3>1, <3>3, <2>1
    <3>4. CASE At(c, "complete", "lock_token") /\ At(d, "complete", "lock_user")
      <4>1. CASE CanLock(e)
        BY <3>1, <4>1 DEF Moves
      <4>2. CASE ~CanLock(e)
        <5>1. PICK f \in Calls : WaitsFor(e, f)
          BY <4>2 DEF CanLock
        <5>2. At(e, "issue", "replace")
          BY <3>1, <3>4, <5>1, WaitsLeadTo DEF At
        <5> QED
          BY <3>1, <5>1, <5>2, ExchangeWhenHeld DEF Moves
      <4> QED
        BY <4>1, <4>2
    <3> QED
      BY <3>1, <3>2, <3>3, <3>4, WaitsLeadTo
  <2> QED
    BY <2>2, <2>3
<1> QED
  BY <1>1, AlwaysFollow, PTL

----------------------------------------------------------------------------
(* Which re-issues meet the CHECK *)

\* No re-issue is in flight while another re-issue or a signup of the same
\* account is.
IssuesAlone ==
  \A c, d \in Calls :
    /\ c # d /\ calls[c] # Null /\ calls[d] # Null
    /\ calls[c].op = "issue" /\ calls[d].op \in {"issue", "signup"}
    => calls[c].userId # calls[d].userId

\* A re-issue in flight began after the link it is going to revoke.
LinksOlder ==
  /\ \A l \in Links : Outstanding(l) => links[l].createdAt <= now
  /\ \A c \in Calls : calls[c] # Null =>
       /\ calls[c].began <= now
       /\ calls[c].op = "issue" =>
            CheckAllowsRevoking(OutstandingOf(calls[c].userId), calls[c].began)

LEMMA RevokedLinks ==
  ASSUME links \in [Links -> Link \cup {Null}], NEW u, NEW chosen \in SUBSET OutstandingOf(u),
         NEW l \in Links
  PROVE  l \in chosen => Revoked(chosen)[l] # Null /\ Revoked(chosen)[l].revoked
<1> SUFFICES ASSUME l \in chosen
             PROVE  Revoked(chosen)[l] # Null /\ Revoked(chosen)[l].revoked
  OBVIOUS
<1>1. links[l] \in Link
  BY OutstandingStored
<1>2. Revoked(chosen)[l] = [links[l] EXCEPT !.revoked = TRUE]
  BY DEF Revoked
<1>3. [links[l] EXCEPT !.revoked = TRUE] \in Link /\ [links[l] EXCEPT !.revoked = TRUE].revoked
  BY <1>1 DEF Link
<1> QED
  BY <1>2, <1>3, NullRowAssumption

\* A link is outstanding after a step because it was, or because it was issued.
LEMMA OldOrIssued ==
  ASSUME ActivationInv, [Next]_vars, NEW l \in Links, Outstanding(l)'
  PROVE  \/ Outstanding(l) /\ links'[l] = links[l]
         \/ \E c \in Calls : /\ calls[c] # Null /\ Answer(c) /\ UNCHANGED now
                             /\ calls[c].op \in {"issue", "signup"}
                             /\ links'[l] = NewLink(calls[c])
<1>1. links \in [Links -> Link \cup {Null}]
  BY DEF ActivationInv, ActTypeOK
<1>2. \A u : \A chosen \in SUBSET OutstandingOf(u) :
        /\ Revoked(chosen) \in [Links -> Link \cup {Null}]
        /\ l \notin chosen => Revoked(chosen)[l] = links[l]
        /\ l \in chosen => Revoked(chosen)[l].revoked
  BY <1>1, RevokedType, RevokedLinks, OutstandingStored
<1>3. CASE UNCHANGED <<users, links, outbox>>
  BY <1>3 DEF Outstanding
<1>4. ASSUME NEW c \in Calls, SignupCommit(c)
      PROVE  \/ Outstanding(l) /\ links'[l] = links[l]
             \/ links'[l] = NewLink(calls[c])
  BY <1>1, <1>4 DEF SignupCommit, Outstanding
<1>5. ASSUME NEW c \in Calls, IssueReplace(c)
      PROVE  \/ Outstanding(l) /\ links'[l] = links[l]
             \/ links'[l] = NewLink(calls[c])
  <2> DEFINE chosen == OutstandingOf(calls[c].userId)
  <2>1. links' = [Revoked(chosen) EXCEPT ![calls[c].link] = NewLink(calls[c])]
    BY <1>5 DEF IssueReplace
  <2>2. /\ Revoked(chosen) \in [Links -> Link \cup {Null}]
        /\ l \notin chosen => Revoked(chosen)[l] = links[l]
        /\ l \in chosen => Revoked(chosen)[l].revoked
    BY <1>2
  <2> HIDE DEF chosen
  <2>3. CASE l = calls[c].link
    BY <2>1, <2>2, <2>3
  <2>4. CASE l # calls[c].link
    <3>1. links'[l] = Revoked(chosen)[l]
      BY <2>1, <2>2, <2>4
    <3> QED
      BY <2>2, <3>1 DEF Outstanding
  <2> QED
    BY <2>3, <2>4
<1>6. ASSUME NEW c \in Calls, CompleteCommit(c)
      PROVE  Outstanding(l) /\ links'[l] = links[l]
  <2> DEFINE chosen == OutstandingOf(calls[c].userId) \ {calls[c].link}
             revoked == Revoked(chosen)
  <2>1. links' = [revoked EXCEPT ![calls[c].link].consumed = TRUE]
    BY <1>6 DEF CompleteCommit, ConsumeTokenAndRevokeOthers
  <2>2. /\ revoked \in [Links -> Link \cup {Null}]
        /\ l \notin chosen => revoked[l] = links[l]
        /\ l \in chosen => revoked[l].revoked
    BY <1>2
  <2>3. calls[c].link \notin chosen
    OBVIOUS
  <2>4. links[calls[c].link] \in Link /\ calls[c].link \in Links
    BY <1>1, <1>6, CompletionEffect DEF AssertActivatable, Outstanding
  <2> HIDE DEF chosen, revoked
  <2>5. l # calls[c].link
    <3>1. CASE l = calls[c].link
      <4>1. revoked[l] \in Link /\ links'[l] = [revoked[l] EXCEPT !.consumed = TRUE]
        BY <2>1, <2>2, <2>3, <2>4, <3>1
      <4>2. links'[l].consumed
        BY <4>1 DEF Link
      <4> QED
        BY <4>2 DEF Outstanding
    <3> QED
      BY <3>1
  <2>6. links'[l] = revoked[l]
    BY <2>1, <2>2, <2>5
  <2> QED
    BY <2>2, <2>6 DEF Outstanding
<1>7. ASSUME NEW c \in Calls, SignupCommit(c) \/ IssueReplace(c)
      PROVE  /\ calls[c] # Null /\ Answer(c) /\ UNCHANGED now
             /\ calls[c].op \in {"issue", "signup"}
  BY <1>7 DEF SignupCommit, IssueReplace, At
<1> QED
  BY <1>3, <1>4, <1>5, <1>6, <1>7, Writers

\* Calls keep what they began with.
LEMMA CallsKeep ==
  ASSUME ActivationInv, LocksFollow, [Next]_vars, NEW c \in Calls, calls'[c] # Null
  PROVE  \/ calls[c] = Null /\ calls'[c].began = now /\ UNCHANGED <<now, links>>
         \/ /\ calls[c] # Null /\ calls'[c].op = calls[c].op
            /\ calls'[c].userId = calls[c].userId /\ calls'[c].began = calls[c].began
<1>1. calls \in [Calls -> Call \cup {Null}]
  BY DEF ActivationInv, ActTypeOK
<1>2. CASE calls'[c] = calls[c]
  BY <1>2
<1>3. CASE calls'[c] # calls[c]
  <2>1. PICK d \in Calls : Acts(d)
    BY <1>3 DEF Next, Acts, Tick, vars
  <2>2. d = c
    BY <1>3, <2>1, CallsStep
  <2>3. CASE calls[c] # Null
    <3>1. Forward(c) /\ calls[c] \in Call
      BY <1>1, <2>1, <2>2, <2>3, CallsStep
    <3> QED
      BY <2>3, <3>1 DEF Forward, Call
  <2>4. CASE calls[c] = Null
    <3>1. Begin(c)
      BY <2>1, <2>2, <2>4 DEF Acts, Progress, At, SignupCommit, SignupRejected,
           CompleteLockToken, CompleteLockUser, CompleteCommit, CompleteRejected, IssueLockUser,
           IssueRejected, IssueReplace, IssueFails, Abort, DeadlockVictim, WaitsFor
    <3>2. PICK call : Begun(call) /\ Open(c, call)
      BY <3>1, BeginsAreBegun
    <3> QED
      BY <1>1, <2>4, <3>2 DEF Begun, Open
  <2> QED
    BY <2>3, <2>4
<1> QED
  BY <1>2, <1>3

LEMMA StepLinksOlder ==
  ASSUME ActivationInv, LocksFollow, IssuesAlone, LinksOlder, [Next]_vars
  PROVE  LinksOlder'
<1>1. /\ now \in Nat /\ now' \in Nat /\ now <= now'
      /\ calls \in [Calls -> Call \cup {Null}] /\ links \in [Links -> Link \cup {Null}]
  <2>1. now' = now \/ now' = now + 1
    BY Writers DEF Next, Begin, SignupBegin, CompleteBegin, IssueBegin, Open, Progress, Abort,
         DeadlockVictim, RollBack, SignupCommit, SignupRejected, CompleteLockToken,
         CompleteLockUser, CompleteCommit, CompleteRejected, IssueLockUser, IssueRejected,
         IssueReplace, IssueFails, Tick, vars
  <2>2. now \in Nat
    BY ActivationAssumption DEF ActivationInv, ActTypeOK
  <2> QED
    BY <2>1, <2>2 DEF ActivationInv, ActTypeOK
<1>2. \A call \in Call : NewLink(call).createdAt = call.began /\ NewLink(call).userId = call.userId
  BY DEF NewLink
<1>3. ASSUME NEW l \in Links, Outstanding(l)'
      PROVE  /\ links'[l].createdAt <= now'
             /\ \A c \in Calls :
                  calls'[c] # Null /\ calls'[c].op = "issue" /\ links'[l].userId = calls'[c].userId
                    => links'[l].createdAt <= calls'[c].began
  <2>1. CASE Outstanding(l) /\ links'[l] = links[l]
    <3>1. links[l].createdAt \in Nat /\ links[l].createdAt <= now
      BY <1>1, <2>1 DEF LinksOlder, Outstanding, Link
    <3>2. ASSUME NEW c \in Calls, calls'[c] # Null, calls'[c].op = "issue",
                 links'[l].userId = calls'[c].userId
          PROVE  links'[l].createdAt <= calls'[c].began
      <4>1. CASE calls[c] = Null
        BY <2>1, <3>1, <3>2, <4>1, CallsKeep
      <4>2. CASE calls[c] # Null
        <5>1. /\ calls[c].op = "issue" /\ calls[c].userId = links[l].userId
              /\ calls'[c].began = calls[c].began
          BY <2>1, <3>2, <4>2, CallsKeep
        <5>2. l \in OutstandingOf(calls[c].userId)
          BY <2>1, <5>1 DEF OutstandingOf
        <5> QED
          BY <2>1, <4>2, <5>1, <5>2 DEF LinksOlder, CheckAllowsRevoking
      <4> QED
        BY <4>1, <4>2
    <3> QED
      BY <1>1, <2>1, <3>1, <3>2
  <2>2. ASSUME NEW d \in Calls, calls[d] # Null, Answer(d), UNCHANGED now,
               calls[d].op \in {"issue", "signup"}, links'[l] = NewLink(calls[d])
        PROVE  /\ links'[l].createdAt <= now'
               /\ \A c \in Calls :
                    calls'[c] # Null /\ calls'[c].op = "issue"
                    /\ links'[l].userId = calls'[c].userId
                      => links'[l].createdAt <= calls'[c].began
    <3>1. /\ links'[l].createdAt = calls[d].began /\ links'[l].userId = calls[d].userId
          /\ calls[d].began <= now
      BY <1>1, <1>2, <2>2 DEF LinksOlder
    <3>2. ASSUME NEW c \in Calls, calls'[c] # Null, calls'[c].op = "issue"
          PROVE  calls'[c].userId # calls[d].userId
      <4>1. c # d /\ calls[c] # Null /\ calls'[c] = calls[c]
        BY <2>2, <3>2, AnsweredCalls DEF ActivationInv
      <4> QED
        BY <2>2, <3>2, <4>1 DEF IssuesAlone
    <3> QED
      BY <2>2, <3>1, <3>2
  <2> QED
    BY <1>3, <2>1, <2>2, OldOrIssued
<1>4. ASSUME NEW c \in Calls, calls'[c] # Null
      PROVE  calls'[c].began <= now'
  <2>1. CASE calls[c] = Null
    BY <1>1, <1>4, <2>1, CallsKeep
  <2>2. CASE calls[c] # Null
    <3>1. calls[c].began \in Nat /\ calls[c].began <= now /\ calls'[c].began = calls[c].began
      BY <1>1, <1>4, <2>2, CallsKeep DEF LinksOlder, Call
    <3> QED
      BY <1>1, <3>1
  <2> QED
    BY <2>1, <2>2
<1> QED
  BY <1>3, <1>4 DEF LinksOlder, CheckAllowsRevoking, OutstandingOf

\* Which overlap makes CHECK (revoked_at >= created_at) reject a re-issue: one
\* with another re-issue or the signup of the same account.  While there is none,
\* no re-issue ends in an internal error of that kind, whatever completions do.
THEOREM OnlyOverlappingIssuesFail ==
  Spec /\ []IssuesAlone => [][\A c \in Calls : ~IssueFails(c)]_vars
<1>1. Init => LinksOlder
  BY DEF Init, LinksOlder, Outstanding
<1>2. ActivationInv /\ LocksFollow /\ IssuesAlone /\ LinksOlder /\ [Next]_vars => LinksOlder'
  BY StepLinksOlder
<1>3. LinksOlder => [\A c \in Calls : ~IssueFails(c)]_vars
  BY DEF LinksOlder, IssueFails, At
<1> QED
  BY <1>1, <1>2, <1>3, AlwaysFollow, PTL DEF Spec
=============================================================================
