--------------------------- MODULE RowLocks_proofs ---------------------------
(***************************************************************************)
(* Proofs about RowLocks, for any number of calls, sessions and links and  *)
(* any size of the pool.  Every transaction that writes holds the row of   *)
(* the account: what another one found under that row stays as it was      *)
(* found.                                                                  *)
(***************************************************************************)
EXTENDS RowLocks, FiniteSetTheorems, TLAPS

Statement == {"user", "session and user", "link and user", "links", "sessions"}

Call == [at : {"new", "queued", "running", "done", "failed"}, read : Nat,
         rest : Seq(Statement), found : SUBSET Row, wants : Row \cup {Null},
         held : SUBSET Row]

----------------------------------------------------------------------------
(* Rows and statements *)

LEMMA RowsDiffer ==
  /\ \A i : User # SessionRow(i) /\ User # LinkRow(i)
  /\ \A i, j : SessionRow(i) # LinkRow(j)
  /\ \A i, j : SessionRow(i) = SessionRow(j) => i = j
  /\ \A i, j : LinkRow(i) = LinkRow(j) => i = j
BY DEF User, SessionRow, LinkRow

LEMMA RowsAreRows ==
  /\ User \in Row /\ Null \notin Row
  /\ \A i \in Ids : SessionRow(i) \in Row /\ LinkRow(i) \in Row
BY RowNullAssumption DEF Row

\* What is left of a transaction once it asks for the account's row, and once
\* it has asked for the links.
AfterUser(kind) ==
  CASE kind \in {"login", "refresh", "logout"} -> <<>>
    [] kind = "request"                        -> <<"links">>
    [] kind \in {"reset", "change"}            -> <<"links", "sessions">>

AfterLinks(kind) == IF kind = "request" THEN <<>> ELSE <<"sessions">>

Kinds == {"login", "refresh", "logout", "request", "reset", "change"}

\* The lists of statements, taken apart.
LEMMA Literals ==
  /\ <<>> \in Seq(Statement)
  /\ <<"user">> \in Seq(Statement) /\ <<"user">> # <<>>
  /\ Head(<<"user">>) = "user" /\ Tail(<<"user">>) = <<>>
  /\ <<"session and user">> \in Seq(Statement) /\ <<"session and user">> # <<>>
  /\ Head(<<"session and user">>) = "session and user" /\ Tail(<<"session and user">>) = <<>>
  /\ <<"links">> \in Seq(Statement) /\ <<"links">> # <<>>
  /\ Head(<<"links">>) = "links" /\ Tail(<<"links">>) = <<>>
  /\ <<"sessions">> \in Seq(Statement) /\ <<"sessions">> # <<>>
  /\ Head(<<"sessions">>) = "sessions" /\ Tail(<<"sessions">>) = <<>>
  /\ <<"user", "links">> \in Seq(Statement) /\ <<"user", "links">> # <<>>
  /\ Head(<<"user", "links">>) = "user" /\ Tail(<<"user", "links">>) = <<"links">>
  /\ <<"links", "sessions">> \in Seq(Statement) /\ <<"links", "sessions">> # <<>>
  /\ Head(<<"links", "sessions">>) = "links" /\ Tail(<<"links", "sessions">>) = <<"sessions">>
  /\ <<"user", "links", "sessions">> \in Seq(Statement) /\ <<"user", "links", "sessions">> # <<>>
  /\ Head(<<"user", "links", "sessions">>) = "user" /\ Tail(<<"user", "links", "sessions">>) = <<"links", "sessions">>
  /\ <<"link and user", "links", "sessions">> \in Seq(Statement) /\ <<"link and user", "links", "sessions">> # <<>>
  /\ Head(<<"link and user", "links", "sessions">>) = "link and user" /\ Tail(<<"link and user", "links", "sessions">>) = <<"links", "sessions">>
BY DEF Statement

LEMMA StatementOrder ==
  ASSUME NEW kind \in Kinds
  PROVE  /\ Statements(kind) \in Seq(Statement) /\ Statements(kind) # <<>>
         /\ Tail(Statements(kind)) = AfterUser(kind)
         /\ AfterUser(kind) \in Seq(Statement)
         /\ kind \in {"login", "request", "change"} => Head(Statements(kind)) = "user"
         /\ kind \in {"refresh", "logout"} => Head(Statements(kind)) = "session and user"
         /\ kind = "reset" => Head(Statements(kind)) = "link and user"
         /\ kind \in {"login", "refresh", "logout"} => AfterUser(kind) = <<>>
<1>1. CASE kind = "login"
  <2>1. Statements(kind) = <<"user">> /\ AfterUser(kind) = <<>>
    BY <1>1 DEF Statements, AfterUser
  <2> QED
    BY <1>1, <2>1, Literals, Zenon
<1>2. CASE kind = "refresh"
  <2>1. Statements(kind) = <<"session and user">> /\ AfterUser(kind) = <<>>
    BY <1>2, Zenon DEF Statements, AfterUser
  <2> QED
    BY <1>2, <2>1, Literals, Zenon
<1>6. CASE kind = "logout"
  <2>1. Statements(kind) = <<"session and user">> /\ AfterUser(kind) = <<>>
    BY <1>6, Zenon DEF Statements, AfterUser
  <2> QED
    BY <1>6, <2>1, Literals, Zenon
<1>3. CASE kind = "request"
  <2>1. Statements(kind) = <<"user", "links">> /\ AfterUser(kind) = <<"links">>
    BY <1>3 DEF Statements, RequestLocks, AfterUser
  <2> QED
    BY <1>3, <2>1, Literals, Zenon
<1>4. CASE kind = "reset"
  <2>1. /\ Statements(kind) = <<"link and user", "links", "sessions">>
        /\ AfterUser(kind) = <<"links", "sessions">>
    BY <1>4, Zenon DEF Statements, ResetLocks, AfterUser
  <2> QED
    BY <1>4, <2>1, Literals, Zenon
<1>5. CASE kind = "change"
  <2>1. /\ Statements(kind) = <<"user", "links", "sessions">>
        /\ AfterUser(kind) = <<"links", "sessions">>
    BY <1>5 DEF Statements, ChangeLocks, AfterUser
  <2> QED
    BY <1>5, <2>1, Literals, Zenon
<1> QED
  BY <1>1, <1>2, <1>3, <1>4, <1>5, <1>6, Zenon DEF Kinds

LEMMA UpdateOrder ==
  ASSUME NEW kind \in {"request", "reset", "change"}
  PROVE  /\ AfterUser(kind) # <<>> /\ Head(AfterUser(kind)) = "links"
         /\ Tail(AfterUser(kind)) = AfterLinks(kind)
         /\ AfterLinks(kind) \in Seq(Statement)
         /\ kind = "request" <=> AfterLinks(kind) = <<>>
         /\ kind # "request" => /\ Head(AfterLinks(kind)) = "sessions"
                                /\ Tail(AfterLinks(kind)) = <<>>
<1>1. CASE kind = "request"
  <2>1. AfterUser(kind) = <<"links">> /\ AfterLinks(kind) = <<>>
    BY <1>1 DEF AfterUser, AfterLinks
  <2> QED
    BY <1>1, <2>1, Literals, Zenon
<1>2. CASE kind = "reset" \/ kind = "change"
  <2>1. AfterUser(kind) = <<"links", "sessions">> /\ AfterLinks(kind) = <<"sessions">>
    BY <1>2 DEF AfterUser, AfterLinks
  <2> QED
    BY <1>2, <2>1, Literals, Zenon
<1> QED
  BY <1>1, <1>2

----------------------------------------------------------------------------
(* Where a transaction is *)

TwoRows(c) == Kind(c) \in {"refresh", "logout", "reset"}

\* The row a transaction locks before the account's.
First(c) == IF Kind(c) = "reset" THEN LinkRow(Named(c)) ELSE SessionRow(Named(c))

Before(c) == IF TwoRows(c) THEN {First(c)} ELSE {}

OpenRows == {LinkRow(l) : l \in Data!OpenLinks}
DoomedRows(c) == {SessionRow(s) : s \in SessionsToRevoke(c)}

Idle(c) ==
  /\ calls[c].rest = <<>> /\ calls[c].found = {}
  /\ calls[c].wants = Null /\ calls[c].held = {}

Fresh(c) ==
  /\ calls[c].rest = Statements(Kind(c)) /\ calls[c].found = {}
  /\ calls[c].wants = Null /\ calls[c].held = {}

\* The session named does not exist.
Missed(c) == Kind(c) \in {"refresh", "logout"} /\ Idle(c)

AtFirst(c) ==
  /\ TwoRows(c)
  /\ calls[c].rest = AfterUser(Kind(c)) /\ calls[c].found = {First(c), User}
  /\ calls[c].wants = First(c) /\ calls[c].held = {}

AtUser(c) ==
  /\ calls[c].rest = AfterUser(Kind(c)) /\ calls[c].found = {User}
  /\ calls[c].wants = User /\ calls[c].held = Before(c)

\* With the account's row: before, in and after the UPDATE of the links.
HasUser(c) ==
  /\ calls[c].rest = AfterUser(Kind(c)) /\ calls[c].found = {}
  /\ calls[c].held = Before(c) \cup {User}

Linking(c) ==
  /\ Kind(c) \in {"request", "reset", "change"}
  /\ calls[c].rest = AfterLinks(Kind(c))
  /\ calls[c].found \subseteq OpenRows
  /\ Before(c) \cup {User} \subseteq calls[c].held
  /\ calls[c].held \subseteq Before(c) \cup {User} \cup OpenRows
  /\ OpenRows \subseteq calls[c].held \cup calls[c].found

Revoking(c) ==
  /\ Kind(c) \in {"reset", "change"}
  /\ calls[c].rest = <<>>
  /\ calls[c].found \subseteq DoomedRows(c)
  /\ Before(c) \cup {User} \subseteq calls[c].held
  /\ calls[c].held \subseteq Before(c) \cup {User} \cup OpenRows \cup DoomedRows(c)
  /\ OpenRows \subseteq calls[c].held
  /\ DoomedRows(c) \subseteq calls[c].held \cup calls[c].found

Phase(c) ==
  \/ Fresh(c) \/ Missed(c) \/ AtFirst(c) \/ AtUser(c)
  \/ HasUser(c) \/ Linking(c) \/ Revoking(c)

Placed(c) == /\ Meets(calls[c].found, calls[c].wants)
             /\ IF Running(c) THEN Phase(c) ELSE Idle(c)

\* A call that creates has not done so, and one that names a session that it
\* found names one that exists.
Prepared(c) ==
  /\ Kind(c) = "login" /\ ~Ended(c) => sessions[c] = Null
  /\ Kind(c) = "request" /\ ~Ended(c) => links[c] = "none"
  /\ Kind(c) = "change" /\ (calls[c].at = "queued" \/ Running(c)) => sessions[Named(c)] # Null
  /\ Kind(c) \in {"refresh", "logout"} /\ Running(c) /\ (AtFirst(c) \/ AtUser(c) \/ HasUser(c))
       => sessions[Named(c)] # Null

Exclusive == \A c, d \in Calls : c # d => calls[c].held \cap calls[d].held = {}

LocksInv ==
  /\ LocksTypeOK
  /\ Exclusive
  /\ \A c \in Calls : Placed(c) /\ Prepared(c)

\* Only c moves.
Only(c) == \A d \in Calls \ {c} : calls'[d] = calls[d]

LEMMA CallFacts ==
  ASSUME LocksTypeOK, NEW c \in Calls
  PROVE  /\ jobs[c] \in Job /\ Kind(c) \in Kinds /\ Named(c) \in Ids /\ c \in Ids
         /\ calls[c] \in Call
         /\ First(c) \in Row /\ First(c) # User /\ First(c) # Null /\ User # Null
         /\ Before(c) \subseteq Row
<1>1. jobs[c] \in Job /\ Kind(c) \in Kinds /\ Named(c) \in Ids /\ c \in Ids
  BY DEF LocksTypeOK, Job, Kind, Named, Kinds, Ids
<1>2. calls[c] \in Call
  BY DEF LocksTypeOK, Call, Statement
<1>3. First(c) \in Row /\ First(c) # User /\ First(c) # Null /\ User # Null
  BY <1>1, RowsAreRows, RowsDiffer DEF First
<1> QED
  BY <1>1, <1>2, <1>3 DEF Before

LEMMA LeaveFacts ==
  ASSUME LocksTypeOK, NEW c \in Calls, NEW answer \in {"done", "failed"}, Leave(c, answer)
  PROVE  /\ calls' \in [Calls -> Call] /\ Only(c)
         /\ calls'[c].at = answer
         /\ calls'[c].rest = <<>> /\ calls'[c].found = {}
         /\ calls'[c].wants = Null /\ calls'[c].held = {}
<1> DEFINE q == [at |-> answer, read |-> 0, rest |-> <<>>, found |-> {}, wants |-> Null,
                 held |-> {}]
<1>1. q \in Call
  BY Literals DEF Call
<1>2. q.at = answer /\ q.rest = <<>> /\ q.found = {} /\ q.wants = Null /\ q.held = {}
  OBVIOUS
<1>3. calls \in [Calls -> Call] /\ calls' = [calls EXCEPT ![c] = q]
  BY DEF Leave, LocksTypeOK, Call, Statement
<1> HIDE DEF q
<1> QED
  BY <1>1, <1>2, <1>3 DEF Only

\* What another call found stays as it was, as long as the tables do.
LEMMA OthersStay ==
  ASSUME NEW d \in Calls, calls'[d] = calls[d], UNCHANGED <<password, sessions, links, jobs>>,
         Placed(d), Prepared(d)
  PROVE  Placed(d)' /\ Prepared(d)'
BY DEF Placed, Prepared, Phase, Fresh, Missed, Idle, AtFirst, AtUser, HasUser, Linking,
       Revoking, Before, First, TwoRows, OpenRows, DoomedRows, SessionsToRevoke, Data!OpenLinks,
       Data!LiveSessions, Running, Ended, Kind, Named

----------------------------------------------------------------------------
(* Steps that leave the tables *)

LEMMA TypesOfCalls ==
  LocksTypeOK <=> /\ password \in Nat
                  /\ sessions \in [Ids -> Data!Session \cup {Null}]
                  /\ links \in [Ids -> {"none", "open", "used", "revoked"}]
                  /\ jobs \in [Calls -> Job]
                  /\ calls \in [Calls -> Call]
BY Zenon DEF LocksTypeOK, Call, Statement

LEMMA TablesStay ==
  ASSUME LocksInv, NEW c \in Calls, Only(c), calls' \in [Calls -> Call],
         UNCHANGED <<password, sessions, links, jobs>>,
         \A d \in Calls \ {c} : calls'[c].held \cap calls[d].held = {},
         Placed(c)', Prepared(c)'
  PROVE  LocksInv'
<1>1. LocksTypeOK'
  <2>1. LocksTypeOK
    BY DEF LocksInv
  <2> QED
    BY <2>1, TypesOfCalls DEF LocksTypeOK, Call, Statement
<1>2. \A d \in Calls \ {c} : Placed(d)' /\ Prepared(d)'
  BY OthersStay DEF Only, LocksInv
<1>3. Exclusive'
  BY DEF Exclusive, Only, LocksInv
<1> QED
  BY <1>1, <1>2, <1>3 DEF LocksInv

LEMMA LeavingKeepsInv ==
  ASSUME LocksInv, NEW c \in Calls, NEW answer \in {"done", "failed"}, Leave(c, answer),
         UNCHANGED <<password, sessions, links, jobs>>
  PROVE  LocksInv'
<1>1. /\ calls' \in [Calls -> Call] /\ Only(c)
      /\ calls'[c].at = answer
      /\ calls'[c].rest = <<>> /\ calls'[c].found = {}
      /\ calls'[c].wants = Null /\ calls'[c].held = {}
  BY LeaveFacts DEF LocksInv
<1>2. Placed(c)'
  BY <1>1 DEF Placed, Meets, Running, Idle
<1>3. Prepared(c)'
  BY <1>1 DEF Prepared, Running, Ended
<1> QED
  BY <1>1, <1>2, <1>3, TablesStay

LEMMA BeginKeepsInv ==
  ASSUME LocksInv, NEW c \in Calls, Begin(c)
  PROVE  LocksInv'
<1> DEFINE q == [calls[c] EXCEPT !.at = "queued", !.read = password]
<1>1. calls \in [Calls -> Call] /\ calls[c] \in Call /\ password \in Nat
  BY TypesOfCalls DEF LocksInv
<1>2. q \in Call
  BY <1>1 DEF Call
<1>3. /\ q.at = "queued" /\ q.rest = calls[c].rest /\ q.found = calls[c].found
      /\ q.wants = calls[c].wants /\ q.held = calls[c].held
  BY <1>1 DEF Call
<1>4. calls' = [calls EXCEPT ![c] = q]
  BY DEF Begin
<1>5. UNCHANGED <<password, sessions, links, jobs>> /\ calls[c].at = "new"
  BY DEF Begin
<1> HIDE DEF q
<1>6. calls' \in [Calls -> Call] /\ Only(c) /\ calls'[c] = q
  BY <1>1, <1>2, <1>4 DEF Only
<1>7. Idle(c) /\ Meets(calls[c].found, calls[c].wants)
  BY <1>5 DEF LocksInv, Placed, Running
<1>8. Placed(c)'
  BY <1>3, <1>6, <1>7 DEF Placed, Idle, Running, Meets
<1>9. Prepared(c)'
  <2>1. Kind(c) = "change" => sessions[Named(c)] # Null
    BY DEF Begin, Data!LiveSessions
  <2>2. Prepared(c) /\ ~Ended(c)
    BY <1>5 DEF LocksInv, Ended
  <2> QED
    BY <1>3, <1>5, <1>6, <2>1, <2>2 DEF Prepared, Running, Ended, Kind, Named
<1> QED
  BY <1>3, <1>5, <1>6, <1>7, <1>8, <1>9, TablesStay DEF Idle

LEMMA ConnectKeepsInv ==
  ASSUME LocksInv, NEW c \in Calls, Connect(c)
  PROVE  LocksInv'
<1> DEFINE q == [calls[c] EXCEPT !.at = "running", !.rest = Statements(Kind(c))]
<1>1. calls \in [Calls -> Call] /\ calls[c] \in Call /\ Statements(Kind(c)) \in Seq(Statement)
  BY TypesOfCalls, CallFacts, StatementOrder DEF LocksInv
<1>2. q \in Call
  BY <1>1 DEF Call
<1>3. /\ q.at = "running" /\ q.rest = Statements(Kind(c)) /\ q.found = calls[c].found
      /\ q.wants = calls[c].wants /\ q.held = calls[c].held
  BY <1>1 DEF Call
<1>4. calls' = [calls EXCEPT ![c] = q]
  BY DEF Connect
<1>5. UNCHANGED <<password, sessions, links, jobs>> /\ calls[c].at = "queued"
  BY DEF Connect
<1> HIDE DEF q
<1>6. calls' \in [Calls -> Call] /\ Only(c) /\ calls'[c] = q
  BY <1>1, <1>2, <1>4 DEF Only
<1>7. Idle(c) /\ Meets(calls[c].found, calls[c].wants)
  BY <1>5 DEF LocksInv, Placed, Running
<1>8. Placed(c)'
  BY <1>3, <1>5, <1>6, <1>7 DEF Placed, Idle, Running, Meets, Phase, Fresh, Kind
<1>9. Prepared(c)'
  <2>1. Prepared(c) /\ ~Ended(c) /\ User # Null /\ First(c)' # Null
    BY <1>5, CallFacts DEF LocksInv, Ended, First, Kind, Named
  <2>2. ~AtFirst(c)' /\ ~AtUser(c)' /\ ~HasUser(c)'
    BY <1>3, <1>6, <1>7, <2>1 DEF Idle, AtFirst, AtUser, HasUser
  <2> QED
    BY <1>3, <1>5, <1>6, <2>1, <2>2 DEF Prepared, Running, Ended, Kind, Named
<1> QED
  BY <1>3, <1>5, <1>6, <1>7, <1>8, <1>9, TablesStay DEF Idle

\* A statement finds its rows, and the transaction wants the first of them.
LEMMA ExecuteFacts ==
  ASSUME LocksInv, NEW c \in Calls, Execute(c)
  PROVE  /\ Running(c) /\ calls[c].wants = Null /\ calls[c].found = {} /\ calls[c].rest # <<>>
         /\ UNCHANGED <<password, sessions, links, jobs>>
         /\ calls' \in [Calls -> Call] /\ Only(c) /\ Running(c)'
         /\ calls'[c].rest = Tail(calls[c].rest)
         /\ calls'[c].found = Finds(c, Head(calls[c].rest))
         /\ calls'[c].held = calls[c].held
         /\ Meets(calls'[c].found, calls'[c].wants)
<1> DEFINE found == Finds(c, Head(calls[c].rest))
<1>1. PICK wants \in Row \cup {Null} :
        /\ Meets(found, wants)
        /\ calls' = [calls EXCEPT ![c].rest = Tail(@), ![c].found = found, ![c].wants = wants]
  BY DEF Execute
<1> DEFINE q == [calls[c] EXCEPT !.rest = Tail(@), !.found = found, !.wants = wants]
<1>2. calls \in [Calls -> Call] /\ calls[c] \in Call
  BY TypesOfCalls DEF LocksInv
<1>3. /\ Running(c) /\ calls[c].wants = Null /\ calls[c].rest # <<>>
      /\ UNCHANGED <<password, sessions, links, jobs>>
  BY DEF Execute
<1>4. Tail(calls[c].rest) \in Seq(Statement) /\ Head(calls[c].rest) \in Statement
  BY <1>2, <1>3 DEF Call
<1>5. found \subseteq Row
  <2>1. Named(c) \in Ids
    BY CallFacts DEF LocksInv
  <2>2. \A l \in Data!OpenLinks : LinkRow(l) \in Row
    BY RowsAreRows DEF Data!OpenLinks
  <2>3. \A i \in SessionsToRevoke(c) : SessionRow(i) \in Row
    BY RowsAreRows DEF SessionsToRevoke, Data!LiveSessions
  <2> QED
    BY <1>4, <2>1, <2>2, <2>3, RowsAreRows DEF Finds, Statement
<1> HIDE DEF found
<1>6. q \in Call
  BY <1>2, <1>4, <1>5 DEF Call
<1>7. q.at = calls[c].at /\ q.rest = Tail(calls[c].rest) /\ q.found = found
      /\ q.wants = wants /\ q.held = calls[c].held
  BY <1>2 DEF Call
<1>8. calls' = [calls EXCEPT ![c] = q]
  BY <1>1
<1> HIDE DEF q
<1>9. calls' \in [Calls -> Call] /\ Only(c) /\ calls'[c] = q
  BY <1>2, <1>6, <1>8 DEF Only
<1>10. calls[c].found = {}
  <2>1. Meets(calls[c].found, Null)
    BY <1>3 DEF LocksInv, Placed
  <2> QED
    BY <1>2, <2>1, RowsAreRows DEF Meets, Call
<1> QED
  BY <1>1, <1>3, <1>7, <1>9, <1>10 DEF found, Running

\* Who executes a statement while holding no row has just begun.
LEMMA FirstStatement ==
  ASSUME LocksInv, NEW c \in Calls, Execute(c), Fresh(c)
  PROVE  Placed(c)' /\ Prepared(c)'
<1> DEFINE k == Kind(c)
<1>1. /\ Running(c) /\ UNCHANGED <<password, sessions, links, jobs>>
      /\ calls'[c].rest = Tail(calls[c].rest)
      /\ calls'[c].found = Finds(c, Head(calls[c].rest))
      /\ calls'[c].held = calls[c].held /\ Running(c)'
      /\ Meets(calls'[c].found, calls'[c].wants)
  BY ExecuteFacts
<1>2. /\ k \in Kinds /\ Named(c) \in Ids /\ c \in Ids
      /\ First(c) # User /\ First(c) # Null /\ User # Null
  BY CallFacts DEF LocksInv
<1>3. /\ calls'[c].rest = AfterUser(k) /\ calls'[c].held = {}
      /\ calls'[c].found = Finds(c, Head(Statements(k)))
  BY <1>1, <1>2, StatementOrder DEF Fresh
<1>4. Kind(c)' = k /\ Named(c)' = Named(c) /\ First(c)' = First(c) /\ Before(c)' = Before(c)
      /\ (TwoRows(c)' <=> TwoRows(c)) /\ User' = User
  BY <1>1 DEF Kind, Named, First, Before, TwoRows
<1>5. CASE k \in {"login", "request", "change"}
  <2>1. calls'[c].found = {User}
    BY <1>2, <1>3, <1>5, StatementOrder DEF Finds
  <2>2. calls'[c].wants = User
    BY <1>1, <2>1 DEF Meets
  <2>3. AtUser(c)'
    BY <1>3, <1>4, <1>5, <2>1, <2>2 DEF AtUser, Before, TwoRows
  <2>4. Prepared(c)'
    BY <1>1, <1>4, <1>5 DEF Prepared, LocksInv, Running, Ended
  <2> QED
    BY <1>1, <2>3, <2>4 DEF Placed, Phase
<1>6. CASE k \in {"refresh", "logout"} /\ sessions[Named(c)] = Null
  <2>1. calls'[c].found = {}
    BY <1>2, <1>3, <1>6, StatementOrder DEF Finds
  <2>2. calls'[c].wants = Null
    BY <1>1, <2>1 DEF Meets
  <2>3. Missed(c)'
    BY <1>2, <1>3, <1>4, <1>6, <2>1, <2>2, StatementOrder DEF Missed, Idle
  <2>4. ~AtFirst(c)' /\ ~AtUser(c)' /\ ~HasUser(c)'
    BY <1>2, <1>3, <1>4, <2>2 DEF AtFirst, AtUser, HasUser
  <2>5. Prepared(c)'
    BY <1>1, <1>4, <1>6, <2>4 DEF Prepared, LocksInv, Running, Ended
  <2> QED
    BY <1>1, <2>3, <2>5 DEF Placed, Phase
<1>7. CASE k = "reset" \/ (k \in {"refresh", "logout"} /\ sessions[Named(c)] # Null)
  <2>1. calls'[c].found = {First(c), User}
    BY <1>2, <1>3, <1>7, StatementOrder DEF Finds, First
  <2>2. calls'[c].wants = First(c)
    BY <1>1, <1>2, <2>1 DEF Meets
  <2>3. AtFirst(c)'
    BY <1>3, <1>4, <1>7, <2>1, <2>2 DEF AtFirst, TwoRows
  <2>4. Prepared(c)'
    BY <1>1, <1>4, <1>7 DEF Prepared, LocksInv, Running, Ended
  <2> QED
    BY <1>1, <2>3, <2>4 DEF Placed, Phase
<1> QED
  BY <1>2, <1>5, <1>6, <1>7 DEF Kinds

\* With the account's row the UPDATEs follow.
LEMMA LaterStatement ==
  ASSUME LocksInv, NEW c \in Calls, Execute(c), HasUser(c) \/ Linking(c)
  PROVE  Placed(c)' /\ Prepared(c)'
<1> DEFINE k == Kind(c)
<1>1. /\ Running(c) /\ UNCHANGED <<password, sessions, links, jobs>>
      /\ calls[c].found = {} /\ calls[c].rest # <<>>
      /\ calls'[c].rest = Tail(calls[c].rest)
      /\ calls'[c].found = Finds(c, Head(calls[c].rest))
      /\ calls'[c].held = calls[c].held /\ Running(c)'
      /\ Meets(calls'[c].found, calls'[c].wants)
  BY ExecuteFacts
<1>2. k \in Kinds
  BY CallFacts DEF LocksInv
<1>3. Kind(c)' = k /\ Named(c)' = Named(c) /\ First(c)' = First(c) /\ Before(c)' = Before(c)
      /\ OpenRows' = OpenRows /\ DoomedRows(c)' = DoomedRows(c) /\ User' = User
  BY <1>1 DEF Kind, Named, First, Before, TwoRows, OpenRows, DoomedRows, Data!OpenLinks,
              SessionsToRevoke, Data!LiveSessions
<1>4. k \in {"request", "reset", "change"}
  BY <1>1, <1>2, StatementOrder DEF Kinds, HasUser, Linking
<1>5. Prepared(c)'
  BY <1>1, <1>3, <1>4 DEF Prepared, LocksInv, Running, Ended
<1>6. CASE HasUser(c)
  <2>1. calls'[c].rest = AfterLinks(k) /\ calls'[c].found = OpenRows \ calls[c].held
    BY <1>1, <1>4, <1>6, UpdateOrder DEF HasUser, Finds, OpenRows
  <2>2. Linking(c)'
    BY <1>1, <1>3, <1>4, <1>6, <2>1 DEF Linking, HasUser
  <2> QED
    BY <1>1, <1>5, <2>2 DEF Placed, Phase
<1>7. CASE Linking(c)
  <2>1. /\ k \in {"reset", "change"}
        /\ calls'[c].rest = <<>> /\ calls'[c].found = DoomedRows(c)
    BY <1>1, <1>4, <1>7, UpdateOrder DEF Linking, Finds, DoomedRows
  <2>2. Revoking(c)'
    BY <1>1, <1>3, <1>7, <2>1 DEF Revoking, Linking
  <2> QED
    BY <1>1, <1>5, <2>2 DEF Placed, Phase
<1> QED
  BY <1>6, <1>7

LEMMA ExecuteKeepsInv ==
  ASSUME LocksInv, NEW c \in Calls, Execute(c)
  PROVE  LocksInv'
<1>1. /\ Running(c) /\ calls[c].wants = Null /\ calls[c].rest # <<>>
      /\ UNCHANGED <<password, sessions, links, jobs>>
      /\ calls' \in [Calls -> Call] /\ Only(c) /\ calls'[c].held = calls[c].held
  BY ExecuteFacts
<1>2. Fresh(c) \/ HasUser(c) \/ Linking(c)
  <2>1. Phase(c)
    BY <1>1 DEF LocksInv, Placed
  <2>2. User # Null /\ First(c) # Null
    BY CallFacts DEF LocksInv
  <2> QED
    BY <1>1, <2>1, <2>2 DEF Phase, Missed, Idle, AtFirst, AtUser, Revoking
<1>3. Placed(c)' /\ Prepared(c)'
  BY <1>2, FirstStatement, LaterStatement
<1>4. \A d \in Calls \ {c} : calls'[c].held \cap calls[d].held = {}
  BY <1>1 DEF LocksInv, Exclusive
<1> QED
  BY <1>1, <1>3, <1>4, TablesStay

\* A row is locked, or met when it no longer matches.
LEMMA LockFacts ==
  ASSUME LocksInv, NEW c \in Calls, Lock(c)
  PROVE  /\ Running(c) /\ calls[c].wants # Null /\ calls[c].wants \in calls[c].found
         /\ calls[c].wants = User => calls[c].found = {User}
         /\ \A d \in Calls \ {c} : calls[c].wants \notin calls[d].held
         /\ UNCHANGED <<password, sessions, links, jobs>>
         /\ calls' \in [Calls -> Call] /\ Only(c) /\ Running(c)'
         /\ calls'[c].rest = calls[c].rest
         /\ calls'[c].found = calls[c].found \ {calls[c].wants}
         /\ calls'[c].held = IF StillMatches(c, calls[c].wants)
                             THEN calls[c].held \cup {calls[c].wants} ELSE calls[c].held
         /\ Meets(calls'[c].found, calls'[c].wants)
<1> DEFINE row == calls[c].wants
           found == calls[c].found \ {row}
           held == IF StillMatches(c, row) THEN calls[c].held \cup {row} ELSE calls[c].held
<1>1. PICK wants \in Row \cup {Null} :
        /\ Meets(found, wants)
        /\ calls' = [calls EXCEPT ![c].found = found, ![c].wants = wants,
                                  ![c].held = IF StillMatches(c, row) THEN @ \cup {row} ELSE @]
  BY DEF Lock
<1> DEFINE q == [calls[c] EXCEPT !.found = found, !.wants = wants, !.held = held]
<1>2. calls \in [Calls -> Call] /\ calls[c] \in Call
  BY TypesOfCalls DEF LocksInv
<1>3. /\ Running(c) /\ row # Null
      /\ UNCHANGED <<password, sessions, links, jobs>>
      /\ \A d \in Calls : ~WaitsFor(c, d)
  BY DEF Lock
<1>4. row \in calls[c].found /\ (row = User => calls[c].found = {User})
  BY <1>3 DEF LocksInv, Placed, Meets
<1>5. found \subseteq Row /\ held \subseteq Row
  BY <1>2, <1>4 DEF Call
<1>6. calls' = [calls EXCEPT ![c] = q]
  BY <1>1
<1> HIDE DEF found, held
<1>7. q \in Call
  BY <1>2, <1>5 DEF Call
<1>8. q.at = calls[c].at /\ q.rest = calls[c].rest /\ q.found = found
      /\ q.wants = wants /\ q.held = held
  BY <1>2 DEF Call
<1> HIDE DEF q
<1>9. calls' \in [Calls -> Call] /\ Only(c) /\ calls'[c] = q
  BY <1>2, <1>6, <1>7 DEF Only
<1>10. \A d \in Calls \ {c} : row \notin calls[d].held
  BY <1>3 DEF WaitsFor
<1> QED
  BY <1>1, <1>3, <1>4, <1>8, <1>9, <1>10 DEF found, held, Running

LEMMA LockKeepsInv ==
  ASSUME LocksInv, NEW c \in Calls, Lock(c)
  PROVE  LocksInv'
<1> DEFINE k == Kind(c)
           row == calls[c].wants
<1>1. /\ Running(c) /\ row # Null /\ row \in calls[c].found
      /\ row = User => calls[c].found = {User}
      /\ \A d \in Calls \ {c} : row \notin calls[d].held
      /\ UNCHANGED <<password, sessions, links, jobs>>
      /\ calls' \in [Calls -> Call] /\ Only(c) /\ Running(c)'
      /\ calls'[c].rest = calls[c].rest
      /\ calls'[c].found = calls[c].found \ {row}
      /\ calls'[c].held = IF StillMatches(c, row) THEN calls[c].held \cup {row}
                                                  ELSE calls[c].held
      /\ Meets(calls'[c].found, calls'[c].wants)
  BY LockFacts
<1>2. /\ k \in Kinds /\ Named(c) \in Ids /\ c \in Ids
      /\ First(c) # User /\ First(c) # Null /\ User # Null
  BY CallFacts DEF LocksInv
<1>3. Kind(c)' = k /\ Named(c)' = Named(c) /\ First(c)' = First(c) /\ Before(c)' = Before(c)
      /\ (TwoRows(c)' <=> TwoRows(c))
      /\ OpenRows' = OpenRows /\ DoomedRows(c)' = DoomedRows(c) /\ User' = User
  BY <1>1 DEF Kind, Named, First, Before, TwoRows, OpenRows, DoomedRows, Data!OpenLinks,
              SessionsToRevoke, Data!LiveSessions
<1>4. /\ StillMatches(c, User) /\ StillMatches(c, First(c))
      /\ \A r \in OpenRows : StillMatches(c, r)
      /\ \A r \in DoomedRows(c) : StillMatches(c, r)
  BY DEF StillMatches, First, OpenRows, DoomedRows, SessionsToRevoke
<1>5. Phase(c) /\ Prepared(c)
  BY <1>1 DEF LocksInv, Placed
<1>6. ASSUME Kind(c) \in {"refresh", "logout"} => sessions[Named(c)] # Null
      PROVE  Prepared(c)'
  BY <1>1, <1>3, <1>5, <1>6 DEF Prepared, Running, Ended
<1> SUFFICES Placed(c)' /\ Prepared(c)'
  <2>1. \A d \in Calls \ {c} : calls'[c].held \cap calls[d].held = {}
    BY <1>1 DEF LocksInv, Exclusive
  <2> QED
    BY <1>1, <2>1, TablesStay
<1>7. CASE AtFirst(c)
  <2>1. calls'[c].found = {User} /\ calls'[c].held = {First(c)}
    BY <1>1, <1>2, <1>4, <1>7 DEF AtFirst
  <2>2. calls'[c].wants = User
    BY <1>1, <2>1 DEF Meets
  <2>3. AtUser(c)'
    BY <1>1, <1>3, <1>7, <2>1, <2>2 DEF AtFirst, AtUser, Before
  <2>4. Prepared(c)'
    BY <1>1, <1>5, <1>6, <1>7 DEF Prepared
  <2> QED
    BY <1>1, <2>3, <2>4 DEF Placed, Phase
<1>8. CASE AtUser(c)
  <2>1. calls'[c].found = {} /\ calls'[c].held = Before(c) \cup {User}
    BY <1>1, <1>2, <1>4, <1>8 DEF AtUser
  <2>2. HasUser(c)'
    BY <1>1, <1>3, <1>8, <2>1 DEF AtUser, HasUser
  <2>3. Prepared(c)'
    BY <1>1, <1>5, <1>6, <1>8 DEF Prepared
  <2> QED
    BY <1>1, <2>2, <2>3 DEF Placed, Phase
<1>9. CASE Linking(c)
  <2>1. calls'[c].held = calls[c].held \cup {row}
    BY <1>1, <1>4, <1>9 DEF Linking
  <2>2. Linking(c)'
    BY <1>1, <1>3, <1>9, <2>1 DEF Linking
  <2>3. Prepared(c)'
    BY <1>6, <1>9 DEF Linking
  <2> QED
    BY <1>1, <2>2, <2>3 DEF Placed, Phase
<1>10. CASE Revoking(c)
  <2>1. calls'[c].held = calls[c].held \cup {row}
    BY <1>1, <1>4, <1>10 DEF Revoking
  <2>2. Revoking(c)'
    BY <1>1, <1>3, <1>10, <2>1 DEF Revoking
  <2>3. Prepared(c)'
    BY <1>6, <1>10 DEF Revoking
  <2> QED
    BY <1>1, <2>2, <2>3 DEF Placed, Phase
<1> QED
  BY <1>1, <1>5, <1>7, <1>8, <1>9, <1>10 DEF Phase, Fresh, Missed, Idle, HasUser

----------------------------------------------------------------------------
(* What a transaction has locked when it commits *)

LEMMA ReadyPlace ==
  ASSUME LocksInv, NEW c \in Calls, Ready(c)
  PROVE  /\ calls[c].found = {}
         /\ Kind(c) = "login" => HasUser(c)
         /\ Kind(c) \in {"refresh", "logout"} => HasUser(c) \/ Missed(c)
         /\ Kind(c) = "request" => Linking(c)
         /\ Kind(c) \in {"reset", "change"} => Revoking(c)
<1>1. Running(c) /\ calls[c].wants = Null /\ calls[c].rest = <<>>
  BY DEF Ready
<1>2. calls[c].found = {}
  <2>1. Meets(calls[c].found, Null) /\ calls[c] \in Call
    BY <1>1, TypesOfCalls DEF LocksInv, Placed
  <2> QED
    BY <2>1, RowsAreRows DEF Meets, Call
<1>3. Phase(c) /\ Kind(c) \in Kinds /\ User # Null /\ First(c) # Null
  BY <1>1, CallFacts DEF LocksInv, Placed
<1>4. HasUser(c) \/ Linking(c) \/ Revoking(c) \/ Missed(c)
  BY <1>1, <1>3, StatementOrder DEF Phase, Fresh, AtFirst, AtUser
<1>5. Kind(c) \in {"request", "reset", "change"} => ~HasUser(c)
  BY <1>1, UpdateOrder DEF HasUser
<1>6. Kind(c) \in {"reset", "change"} => ~Linking(c)
  BY <1>1, UpdateOrder DEF Linking
<1> QED
  BY <1>2, <1>3, <1>4, <1>5, <1>6 DEF Kinds, Linking, Revoking, Missed

LEMMA HeldRows ==
  ASSUME LocksInv, NEW c \in Calls, Ready(c)
  PROVE  /\ Kind(c) \in {"refresh", "logout"} =>
              \/ HeldSessions(c) = {Named(c)} /\ User \in calls[c].held
              \/ HeldSessions(c) = {}
         /\ Kind(c) = "login" => User \in calls[c].held
         /\ Kind(c) \in {"request", "reset", "change"} =>
              HeldLinks(c) = Data!OpenLinks /\ User \in calls[c].held
         /\ Kind(c) \in {"reset", "change"} => HeldSessions(c) = SessionsToRevoke(c)
<1>1. Named(c) \in Ids /\ calls[c].found = {}
  BY CallFacts, ReadyPlace DEF LocksInv
<1>2. CASE Kind(c) \in {"refresh", "logout"} /\ HasUser(c)
  BY <1>1, <1>2, RowsDiffer DEF HasUser, Before, TwoRows, First, HeldSessions
<1>3. CASE Missed(c)
  BY <1>3 DEF Missed, Idle, HeldSessions
<1>4. CASE Kind(c) = "login"
  BY <1>4, ReadyPlace DEF HasUser
<1>5. CASE Kind(c) = "request"
  <2>1. Linking(c)
    BY <1>5, ReadyPlace
  <2>2. calls[c].held = {User} \cup OpenRows
    BY <1>1, <1>5, <2>1 DEF Linking, Before, TwoRows
  <2>3. HeldLinks(c) = Data!OpenLinks
    BY <2>2, RowsDiffer DEF HeldLinks, OpenRows, Data!OpenLinks
  <2> QED
    BY <1>5, <2>2, <2>3
<1>6. CASE Kind(c) \in {"reset", "change"}
  <2>1. Revoking(c) /\ Kind(c) # "request"
    BY <1>6, ReadyPlace
  <2>2. calls[c].held = Before(c) \cup {User} \cup OpenRows \cup DoomedRows(c)
    BY <1>1, <2>1 DEF Revoking
  <2>3. Before(c) \subseteq OpenRows
    <3>1. Kind(c) = "reset" => Named(c) \in Data!OpenLinks
      BY <1>1 DEF Ready, Allowed, Data!OpenLinks
    <3> QED
      BY <1>6, <3>1 DEF Before, TwoRows, First, OpenRows
  <2>4. calls[c].held = {User} \cup OpenRows \cup DoomedRows(c)
    BY <2>2, <2>3
  <2>5. HeldLinks(c) = Data!OpenLinks
    BY <2>4, RowsDiffer DEF HeldLinks, OpenRows, DoomedRows, Data!OpenLinks
  <2>6. HeldSessions(c) = SessionsToRevoke(c)
    BY <2>4, RowsDiffer DEF HeldSessions, OpenRows, DoomedRows, SessionsToRevoke, Data!LiveSessions
  <2> QED
    BY <1>6, <2>4, <2>5, <2>6
<1>7. Kind(c) \in Kinds
  BY CallFacts DEF LocksInv
<1> QED
  BY <1>2, <1>3, <1>4, <1>5, <1>6, <1>7, ReadyPlace DEF Kinds

\* A COMMIT is a step of CredentialRows, of the call's kind, or writes nothing.
Effect(c) ==
  \/ UNCHANGED <<password, sessions, links>>
  \/ /\ User \in calls[c].held
     /\ \/ Kind(c) = "login" /\ Data!LogIn(c)
        \/ Kind(c) \in {"refresh", "logout"} /\ Data!LogOut(Named(c))
        \/ Kind(c) = "request" /\ Data!IssueLink(c)
        \/ Kind(c) = "reset" /\ Data!Reset(Named(c))
        \/ Kind(c) = "change" /\ Data!Change(Named(c))

LEMMA CommitEffect ==
  ASSUME LocksInv, NEW c \in Calls, Commit(c)
  PROVE  /\ Effect(c) /\ UNCHANGED jobs
         /\ \E answer \in {"done", "failed"} : Leave(c, answer)
<1>1. /\ Named(c) \in Ids /\ Placed(c) /\ Prepared(c)
      /\ sessions \in [Ids -> Data!Session \cup {Null}]
  BY CallFacts, TypesOfCalls DEF LocksInv
<1>2. Ready(c)
  BY DEF Commit, CommitLogin, CommitRefresh, CommitLogout, CommitRequest, CommitReset, CommitChange
<1>3. Data!RevokeSessions({}) = sessions
  BY <1>1 DEF Data!RevokeSessions
<1>4. Running(c) /\ Allowed(c) /\ ~Ended(c)
  BY <1>2 DEF Ready, Running, Ended
<1>5. ASSUME Kind(c) \in {"refresh", "logout"},
             \/ sessions' = sessions
             \/ sessions' = Data!RevokeSessions(HeldSessions(c)),
             UNCHANGED <<password, links>>
      PROVE  Effect(c)
  <2>1. CASE HeldSessions(c) = {Named(c)} /\ User \in calls[c].held
    <3>1. HasUser(c) \/ Missed(c)
      BY <1>2, <1>5, ReadyPlace
    <3>2. sessions[Named(c)] # Null
      BY <1>1, <1>4, <1>5, <2>1, <3>1 DEF Prepared, Missed, Idle
    <3> QED
      BY <1>5, <2>1, <3>2 DEF Effect, Data!LogOut
  <2>2. CASE HeldSessions(c) = {}
    BY <1>3, <1>5, <2>2 DEF Effect
  <2> QED
    BY <1>2, <1>5, <2>1, <2>2, HeldRows
<1>6. CASE CommitLogin(c)
  <2>1. User \in calls[c].held /\ sessions[c] = Null /\ calls[c].read = password
    BY <1>1, <1>2, <1>4, <1>6, HeldRows DEF CommitLogin, Prepared, Allowed
  <2> QED
    BY <1>6, <2>1 DEF CommitLogin, Effect, Data!LogIn
<1>7. CASE CommitRefresh(c)
  BY <1>5, <1>7 DEF CommitRefresh
<1>8. CASE CommitLogout(c)
  BY <1>5, <1>8 DEF CommitLogout
<1>9. CASE CommitRequest(c)
  <2>1. User \in calls[c].held /\ links[c] = "none" /\ HeldLinks(c) = Data!OpenLinks
    BY <1>1, <1>2, <1>4, <1>9, HeldRows DEF CommitRequest, Prepared
  <2> QED
    BY <1>9, <2>1 DEF CommitRequest, Effect, Data!IssueLink
<1>10. CASE CommitReset(c)
  <2>1. /\ User \in calls[c].held /\ links[Named(c)] = "open"
        /\ HeldLinks(c) = Data!OpenLinks /\ HeldSessions(c) = Data!LiveSessions
    BY <1>2, <1>4, <1>10, HeldRows DEF CommitReset, Allowed, SessionsToRevoke
  <2> QED
    BY <1>10, <2>1 DEF CommitReset, Effect, Data!Reset
<1>11. CASE CommitChange(c)
  <2>1. /\ User \in calls[c].held /\ sessions[Named(c)] # Null
        /\ HeldLinks(c) = Data!OpenLinks
        /\ HeldSessions(c) = Data!LiveSessions \ {Named(c)}
    BY <1>1, <1>2, <1>4, <1>11, HeldRows DEF CommitChange, Prepared, SessionsToRevoke
  <2> QED
    BY <1>11, <2>1 DEF CommitChange, Effect, Data!Change
<1> QED
  BY <1>6, <1>7, <1>8, <1>9, <1>10, <1>11 DEF Commit

\* What a COMMIT can do to the tables: nothing that is there goes, and only a
\* login and a request create, what is theirs.
LEMMA EffectTypes ==
  ASSUME LocksInv, NEW c \in Calls, Effect(c)
  PROVE  /\ password' \in Nat
         /\ sessions' \in [Ids -> Data!Session \cup {Null}]
         /\ links' \in [Ids -> {"none", "open", "used", "revoked"}]
         /\ \A i \in Ids : sessions[i] # Null => sessions'[i] # Null
         /\ \A i \in Ids : sessions[i] = Null /\ ~(i = c /\ Kind(c) = "login")
                             => sessions'[i] = Null
         /\ \A i \in Ids : links[i] = "none" /\ ~(i = c /\ Kind(c) = "request")
                             => links'[i] = "none"
<1>1. /\ password \in Nat
      /\ sessions \in [Ids -> Data!Session \cup {Null}]
      /\ links \in [Ids -> {"none", "open", "used", "revoked"}]
      /\ Named(c) \in Ids /\ c \in Ids
  BY CallFacts, TypesOfCalls DEF LocksInv
<1>2. ASSUME NEW chosen, \A i \in Ids : i \in chosen => sessions[i] # Null
      PROVE  /\ Data!RevokeSessions(chosen) \in [Ids -> Data!Session \cup {Null}]
             /\ \A i \in Ids : sessions[i] = Null <=> Data!RevokeSessions(chosen)[i] = Null
  BY <1>1, <1>2, RowNoSessionAssumption DEF Data!RevokeSessions, Data!Session
<1>3. /\ Data!RevokeLinks(Data!OpenLinks) \in [Ids -> {"none", "open", "used", "revoked"}]
      /\ \A i \in Ids : links[i] = "none" => Data!RevokeLinks(Data!OpenLinks)[i] = "none"
  BY <1>1 DEF Data!RevokeLinks, Data!OpenLinks
<1>4. CASE UNCHANGED <<password, sessions, links>>
  BY <1>1, <1>4
<1>5. CASE Kind(c) = "login" /\ Data!LogIn(c)
  BY <1>1, <1>5, RowNoSessionAssumption DEF Data!LogIn, Data!Session
<1>6. CASE Data!LogOut(Named(c))
  BY <1>1, <1>2, <1>6 DEF Data!LogOut
<1>7. CASE Kind(c) = "request" /\ Data!IssueLink(c)
  BY <1>1, <1>3, <1>7 DEF Data!IssueLink
<1>8. CASE Data!Reset(Named(c))
  <2>1. \A i \in Data!LiveSessions : sessions[i] # Null
    BY DEF Data!LiveSessions
  <2> QED
    BY <1>1, <1>2, <1>3, <1>8, <2>1 DEF Data!Reset
<1>9. CASE Data!Change(Named(c))
  <2> DEFINE revoked == Data!RevokeSessions(Data!LiveSessions \ {Named(c)})
  <2>1. \A i \in Data!LiveSessions : sessions[i] # Null
    BY DEF Data!LiveSessions
  <2>2. /\ revoked \in [Ids -> Data!Session \cup {Null}]
        /\ \A i \in Ids : sessions[i] = Null <=> revoked[i] = Null
    BY <1>2, <2>1
  <2>3. /\ sessions[Named(c)] # Null /\ password' = password + 1
        /\ links' = Data!RevokeLinks(Data!OpenLinks)
        /\ sessions' = [revoked EXCEPT ![Named(c)].proves = password + 1]
    BY <1>9 DEF Data!Change
  <2> HIDE DEF revoked
  <2>4. revoked[Named(c)] \in Data!Session
    BY <1>1, <2>2, <2>3
  <2>5. [revoked[Named(c)] EXCEPT !.proves = password + 1] \in Data!Session
    BY <1>1, <2>4 DEF Data!Session
  <2>6. sessions' = [revoked EXCEPT ![Named(c)] =
                       [revoked[Named(c)] EXCEPT !.proves = password + 1]]
    BY <2>3
  <2> QED
    BY <1>1, <1>3, <2>2, <2>3, <2>5, <2>6, RowNoSessionAssumption
<1> QED
  BY <1>4, <1>5, <1>6, <1>7, <1>8, <1>9 DEF Effect

LEMMA CommitKeepsInv ==
  ASSUME LocksInv, NEW c \in Calls, Commit(c)
  PROVE  LocksInv'
<1>1. PICK answer \in {"done", "failed"} : Leave(c, answer)
  BY CommitEffect
<1>2. Effect(c) /\ UNCHANGED jobs
  BY CommitEffect
<1>3. /\ calls' \in [Calls -> Call] /\ Only(c)
      /\ calls'[c].at = answer
      /\ calls'[c].rest = <<>> /\ calls'[c].found = {}
      /\ calls'[c].wants = Null /\ calls'[c].held = {}
  BY <1>1, LeaveFacts DEF LocksInv
<1>4. /\ password' \in Nat
      /\ sessions' \in [Ids -> Data!Session \cup {Null}]
      /\ links' \in [Ids -> {"none", "open", "used", "revoked"}]
      /\ \A i \in Ids : sessions[i] # Null => sessions'[i] # Null
      /\ \A i \in Ids : sessions[i] = Null /\ ~(i = c /\ Kind(c) = "login") => sessions'[i] = Null
      /\ \A i \in Ids : links[i] = "none" /\ ~(i = c /\ Kind(c) = "request") => links'[i] = "none"
  BY <1>2, EffectTypes
<1>5. LocksTypeOK'
  <2>1. jobs' \in [Calls -> Job]
    BY <1>2, TypesOfCalls DEF LocksInv
  <2> QED
    BY <1>3, <1>4, <2>1 DEF LocksTypeOK, Call, Statement
<1>6. Exclusive'
  BY <1>3 DEF Exclusive, Only, LocksInv
<1>7. Placed(c)' /\ Prepared(c)'
  BY <1>3 DEF Placed, Meets, Idle, Prepared, Running, Ended
<1>8. ASSUME NEW d \in Calls \ {c}
      PROVE  Placed(d)' /\ Prepared(d)'
  <2>1. calls'[d] = calls[d] /\ Placed(d) /\ Prepared(d)
    BY <1>3 DEF Only, LocksInv
  <2>2. CASE UNCHANGED <<password, sessions, links>>
    BY <1>2, <2>1, <2>2, OthersStay
  <2>3. CASE User \in calls[c].held
    <3>1. /\ Kind(d)' = Kind(d) /\ Named(d)' = Named(d) /\ First(d)' = First(d)
          /\ Before(d)' = Before(d) /\ (TwoRows(d)' <=> TwoRows(d))
          /\ (Running(d)' <=> Running(d)) /\ (Ended(d)' <=> Ended(d))
      BY <1>2, <2>1 DEF Kind, Named, First, Before, TwoRows, Running, Ended
    <3>2. User \notin calls[d].held
      BY <2>3 DEF LocksInv, Exclusive
    <3>3. ~HasUser(d) /\ ~Linking(d) /\ ~Revoking(d)
      BY <3>2 DEF HasUser, Linking, Revoking
    <3>4. /\ Idle(d)' <=> Idle(d)
          /\ Fresh(d)' <=> Fresh(d)
          /\ Missed(d)' <=> Missed(d)
          /\ AtFirst(d)' <=> AtFirst(d)
          /\ AtUser(d)' <=> AtUser(d)
          /\ HasUser(d)' <=> HasUser(d)
      BY <2>1, <3>1 DEF Idle, Fresh, Missed, AtFirst, AtUser, HasUser
    <3>5. Placed(d)'
      BY <2>1, <3>1, <3>3, <3>4 DEF Placed, Phase, Meets
    <3>6. Named(d) \in Ids /\ d \in Ids
      BY CallFacts DEF LocksInv
    <3>7. Prepared(d)'
      BY <1>4, <2>1, <3>1, <3>3, <3>4, <3>6 DEF Prepared
    <3> QED
      BY <3>5, <3>7
  <2> QED
    BY <1>2, <2>2, <2>3 DEF Effect
<1> QED
  BY <1>5, <1>6, <1>7, <1>8 DEF LocksInv

----------------------------------------------------------------------------
(* The invariant *)

LEMMA InitKeepsInv ==
  ASSUME LocksInit
  PROVE  LocksInv
<1> DEFINE row == [proves |-> 0, revoked |-> FALSE]
           q == [at |-> "new", read |-> 0, rest |-> <<>>, found |-> {}, wants |-> Null,
                 held |-> {}]
<1>1. /\ q \in Call /\ q.at = "new" /\ q.rest = <<>> /\ q.found = {} /\ q.wants = Null
      /\ q.held = {}
  BY Literals DEF Call
<1>2. row \in Data!Session
  BY DEF Data!Session
<1>3. password = 0 /\ jobs \in [Calls -> Job] /\ calls = [c \in Calls |-> q]
  BY DEF LocksInit
<1>4. sessions = [i \in Ids |-> IF i \in OldSessions THEN row ELSE Null]
  BY DEF LocksInit
<1>5. /\ links \in [Ids -> {"none", "open", "used", "revoked"}]
      /\ \A i \in Ids \ OldLinks : links[i] = "none"
  BY DEF LocksInit
<1> HIDE DEF row, q
<1>6. calls \in [Calls -> Call] /\ \A c \in Calls : calls[c] = q
  BY <1>1, <1>3
<1>7. LocksTypeOK
  BY <1>2, <1>3, <1>4, <1>5, <1>6, TypesOfCalls
<1>8. \A c \in Calls : Placed(c)
  BY <1>1, <1>6 DEF Placed, Meets, Idle, Running
<1>9. \A c \in Calls : sessions[c] = Null /\ links[c] = "none"
  BY <1>4, <1>5, RowLocksAssumption DEF Ids
<1>10. \A c \in Calls : Prepared(c)
  BY <1>1, <1>6, <1>9 DEF Prepared, Running
<1>11. Exclusive
  BY <1>1, <1>6 DEF Exclusive
<1> QED
  BY <1>7, <1>8, <1>10, <1>11 DEF LocksInv

\* Every step of a call leaves the tables, or commits.
LEMMA StepKeepsInv ==
  ASSUME LocksInv, [LocksNext]_lockVars
  PROVE  LocksInv'
<1>1. CASE LocksNext
  <2>1. PICK c \in Calls : Begin(c) \/ Goes(c) \/ DeadlockVictim(c) \/ Outage(c)
    BY <1>1 DEF LocksNext
  <2>2. CASE Reject(c) \/ DeadlockVictim(c) \/ Outage(c)
    BY <2>2, LeavingKeepsInv DEF Reject, DeadlockVictim, Outage
  <2> QED
    BY <2>1, <2>2, BeginKeepsInv, ConnectKeepsInv, ExecuteKeepsInv, LockKeepsInv, CommitKeepsInv
       DEF Goes
<1>2. CASE UNCHANGED lockVars
  <2>1. UNCHANGED <<password, sessions, links, jobs, calls>>
    BY <1>2 DEF lockVars
  <2>2. LocksTypeOK' /\ Exclusive'
    BY <2>1, TypesOfCalls DEF LocksInv, LocksTypeOK, Exclusive
  <2>3. \A c \in Calls : Placed(c)' /\ Prepared(c)'
    BY <2>1, OthersStay DEF LocksInv
  <2> QED
    BY <2>2, <2>3 DEF LocksInv
<1> QED
  BY <1>1, <1>2

LEMMA LocksInvHolds == LocksSpec => []LocksInv
<1>1. LocksInv /\ [LocksNext]_lockVars => LocksInv'
  BY StepKeepsInv
<1> QED
  BY InitKeepsInv, <1>1, PTL DEF LocksSpec

\* Every variable keeps its type, whatever the calls are and do.
THEOREM LocksTypes == LocksSpec => []LocksTypeOK
<1>1. LocksInv => LocksTypeOK
  BY DEF LocksInv
<1> QED
  BY <1>1, LocksInvHolds, PTL

----------------------------------------------------------------------------
(* The transactions look like single steps *)

LEMMA InitRows ==
  ASSUME LocksInit
  PROVE  Data!RowsInit
<1>1. PICK outstanding \in SUBSET OldLinks :
        /\ \A k, l \in outstanding : k = l
        /\ links = [i \in Ids |-> IF i \in outstanding THEN "open" ELSE "none"]
  BY DEF LocksInit
<1>2. \A k, l \in Data!OpenLinks : k = l
  BY <1>1 DEF Data!OpenLinks
<1>3. links \in [Ids -> {"none", "open"}]
  BY <1>1
<1>4. password = 0 /\ sessions \in [Ids -> {Null, [proves |-> 0, revoked |-> FALSE]}]
  BY DEF LocksInit
<1> QED
  BY <1>2, <1>3, <1>4 DEF Data!RowsInit

LEMMA StepRows ==
  ASSUME LocksInv, [LocksNext]_lockVars
  PROVE  [Data!RowsNext]_(Data!rows)
<1>1. CASE \E c \in Calls : Commit(c)
  <2>1. PICK c \in Calls : Commit(c)
    BY <1>1
  <2>2. c \in Ids /\ Named(c) \in Ids
    BY CallFacts DEF LocksInv
  <2> QED
    BY <2>1, <2>2, CommitEffect DEF Effect, Data!RowsNext, Data!rows
<1>2. CASE ~\E c \in Calls : Commit(c)
  <2>1. UNCHANGED <<password, sessions, links>>
    BY <1>2 DEF LocksNext, lockVars, Goes, Begin, Connect, Execute, Lock, Reject, DeadlockVictim,
                Outage
  <2> QED
    BY <2>1 DEF Data!rows
<1> QED
  BY <1>1, <1>2

\* However statements, waits, deadlocks and lost connections interleave, the
\* transactions on an account have the effect of single steps one after
\* another: what AuthSessions and PasswordManagement take for granted.
THEOREM TransactionsLookAtomic == LocksSpec => LooksAtomic
<1>1. LocksInit => Data!RowsInit
  BY InitRows
<1>2. LocksInv /\ [LocksNext]_lockVars => [Data!RowsNext]_(Data!rows)
  BY StepRows
<1> QED
  BY <1>1, <1>2, LocksInvHolds, PTL DEF LocksSpec, LooksAtomic, Data!RowsSpec

\* What single steps keep, with the types they need.
RowsInv ==
  /\ password \in Nat
  /\ sessions \in [Ids -> Data!Session \cup {Null}]
  /\ Data!CurrentOnly

LEMMA StepCurrent ==
  ASSUME RowsInv, LocksInv, [LocksNext]_lockVars
  PROVE  RowsInv'
<1>1. password' \in Nat /\ sessions' \in [Ids -> Data!Session \cup {Null}]
  BY StepKeepsInv, TypesOfCalls DEF LocksInv, LocksTypeOK
<1>2. [Data!RowsNext]_(Data!rows)
  BY StepRows
<1>3. CASE UNCHANGED Data!rows
  BY <1>1, <1>3 DEF Data!rows, RowsInv, Data!CurrentOnly, Data!LiveSessions, Data!OpenLinks
<1>4. ASSUME NEW id \in Ids, Data!LogIn(id)
      PROVE  Data!CurrentOnly'
  BY <1>4 DEF RowsInv, Data!LogIn, Data!CurrentOnly, Data!LiveSessions, Data!OpenLinks
<1>5. ASSUME NEW id \in Ids, Data!LogOut(id)
      PROVE  Data!CurrentOnly'
  <2>1. \A s \in Data!LiveSessions' : s \in Data!LiveSessions /\ sessions'[s] = sessions[s]
    BY <1>5 DEF RowsInv, Data!LogOut, Data!RevokeSessions, Data!LiveSessions, Data!Session
  <2> QED
    BY <1>5, <2>1 DEF RowsInv, Data!LogOut, Data!CurrentOnly, Data!OpenLinks
<1>6. ASSUME NEW id \in Ids, Data!IssueLink(id)
      PROVE  Data!CurrentOnly'
  <2>1. \A l \in Data!OpenLinks' : l = id
    BY <1>6 DEF Data!IssueLink, Data!RevokeLinks, Data!OpenLinks
  <2> QED
    BY <1>6, <2>1 DEF RowsInv, Data!IssueLink, Data!CurrentOnly, Data!LiveSessions
<1>7. ASSUME NEW id \in Ids, Data!Reset(id)
      PROVE  Data!CurrentOnly'
  <2>1. Data!OpenLinks' = {}
    BY <1>7 DEF Data!Reset, Data!RevokeLinks, Data!OpenLinks
  <2>2. Data!LiveSessions' = {}
    BY <1>7 DEF RowsInv, Data!Reset, Data!RevokeSessions, Data!LiveSessions, Data!Session
  <2> QED
    BY <2>1, <2>2 DEF Data!CurrentOnly
<1>8. ASSUME NEW id \in Ids, Data!Change(id)
      PROVE  Data!CurrentOnly'
  <2> DEFINE revoked == Data!RevokeSessions(Data!LiveSessions \ {id})
  <2>1. Data!OpenLinks' = {}
    BY <1>8 DEF Data!Change, Data!RevokeLinks, Data!OpenLinks
  <2>2. /\ sessions[id] # Null /\ password' = password + 1
        /\ sessions' = [revoked EXCEPT ![id].proves = password + 1]
    BY <1>8 DEF Data!Change
  <2>3. revoked[id] = sessions[id] /\ revoked = [s \in Ids |-> revoked[s]]
    BY DEF Data!RevokeSessions
  <2>4. \A s \in Ids \ {id} : revoked[s] # Null => revoked[s].revoked
    BY RowNoSessionAssumption DEF RowsInv, Data!RevokeSessions, Data!LiveSessions, Data!Session
  <2>5. sessions[id] \in Data!Session
    BY <2>2 DEF RowsInv
  <2> HIDE DEF revoked
  <2>6. sessions'[id] = [sessions[id] EXCEPT !.proves = password + 1]
    BY <2>2, <2>3
  <2>7. sessions'[id].proves = password'
    BY <2>2, <2>5, <2>6 DEF Data!Session
  <2>8. \A s \in Ids \ {id} : sessions'[s] = revoked[s]
    BY <2>2, <2>3
  <2>9. \A s \in Data!LiveSessions' : s = id
    BY <2>4, <2>8 DEF Data!LiveSessions
  <2> QED
    BY <2>1, <2>7, <2>9 DEF Data!CurrentOnly
<1>9. ASSUME Data!Activate
      PROVE  Data!CurrentOnly'
  BY <1>9 DEF Data!Activate, Data!CurrentOnly, Data!LiveSessions, Data!OpenLinks
<1>10. ASSUME Data!CurrentOnly'
       PROVE  RowsInv'
  BY <1>1, <1>10 DEF RowsInv
<1> QED
  BY <1>2, <1>3, <1>4, <1>5, <1>6, <1>7, <1>8, <1>9, <1>10 DEF Data!RowsNext

\* No live session has proven another password than the one of now, and no
\* reset link outlives its successor, at any moment between any two locks.
THEOREM CredentialsStayCurrent == LocksSpec => []Data!CurrentOnly
<1>1. LocksInit => RowsInv
  <2> SUFFICES ASSUME LocksInit PROVE RowsInv
    OBVIOUS
  <2>1. Data!RowsInit /\ LocksTypeOK
    BY InitRows, InitKeepsInv DEF LocksInv
  <2> QED
    BY <2>1, RowNoSessionAssumption, TypesOfCalls
       DEF RowsInv, Data!RowsInit, Data!CurrentOnly, Data!LiveSessions
<1>2. RowsInv /\ LocksInv /\ [LocksNext]_lockVars => RowsInv'
  BY StepCurrent
<1>3. RowsInv => Data!CurrentOnly
  BY DEF RowsInv
<1> QED
  BY <1>1, <1>2, <1>3, LocksInvHolds, PTL DEF LocksSpec

----------------------------------------------------------------------------
(* Deadlocks *)

\* Who waits with rows of its own and without the account's waits for that
\* row, and has what it locked before.
LEMMA WaitingPlace ==
  ASSUME LocksInv, NEW c \in Calls, calls[c].wants # Null, calls[c].held # {}
  PROVE  IF User \in calls[c].held
         THEN Kind(c) \in {"request", "reset", "change"}
         ELSE calls[c].wants = User /\ Kind(c) \in {"refresh", "logout", "reset"}
<1>1. Placed(c) /\ First(c) # User /\ Kind(c) \in Kinds
  BY CallFacts DEF LocksInv
<1>2. Phase(c)
  BY <1>1 DEF Placed, Idle
<1>3. ~HasUser(c)
  BY <1>1 DEF Placed, Meets, HasUser
<1>4. CASE AtUser(c)
  BY <1>1, <1>4 DEF AtUser, Before, TwoRows
<1>5. CASE Linking(c) \/ Revoking(c)
  BY <1>5 DEF Linking, Revoking
<1> QED
  BY <1>2, <1>3, <1>4, <1>5 DEF Phase, Fresh, Missed, Idle, AtFirst

\* What is left of a step, seen from another call.
LEMMA OthersAreStill ==
  ASSUME LocksInv, NEW c \in Calls, Begin(c) \/ Goes(c) \/ DeadlockVictim(c) \/ Outage(c)
  PROVE  Only(c) /\ UNCHANGED jobs
<1>1. CASE Begin(c) \/ Connect(c)
  BY <1>1, TypesOfCalls DEF Begin, Connect, LocksInv, Only
<1>2. CASE Execute(c) \/ Lock(c)
  BY <1>2, ExecuteFacts, LockFacts
<1>3. CASE Commit(c) \/ Reject(c) \/ DeadlockVictim(c) \/ Outage(c)
  <2>1. PICK answer \in {"done", "failed"} : Leave(c, answer)
    BY <1>3, CommitEffect DEF Reject, DeadlockVictim, Outage
  <2>2. UNCHANGED jobs
    BY <1>3, CommitEffect DEF Reject, DeadlockVictim, Outage
  <2> QED
    BY <2>1, <2>2, LeaveFacts DEF LocksInv
<1> QED
  BY <1>1, <1>2, <1>3 DEF Goes

\* Who waits for the account's row has at most its own, and asks for it as
\* the last row of its first statement.
LEMMA WantsUser ==
  ASSUME LocksInv, NEW c \in Calls, calls[c].wants = User
  PROVE  AtUser(c)
<1>1. Placed(c) /\ First(c) # User /\ User # Null
  BY CallFacts DEF LocksInv
<1>2. Phase(c)
  BY <1>1 DEF Placed, Idle
<1>3. calls[c].found = {User}
  BY <1>1 DEF Placed, Meets
<1>4. \A row \in OpenRows : row # User
  BY RowsDiffer DEF OpenRows
<1>5. \A row \in DoomedRows(c) : row # User
  BY RowsDiffer DEF DoomedRows
<1> QED
  BY <1>1, <1>2, <1>3, <1>4, <1>5 DEF Phase, Fresh, Missed, Idle, AtFirst, HasUser, Linking,
     Revoking

\* A reset that has executed a statement under the account's row has found its
\* link open, and nobody changes that before it ends.
Asked(c) ==
  Kind(c) = "reset" /\ Running(c) /\ User \in calls[c].held /\ calls[c].rest # AfterUser(Kind(c))

ResetsChecked == \A c \in Calls : Asked(c) => links[Named(c)] = "open"

LEMMA StepResetsChecked ==
  ASSUME LocksInv, ResetsChecked, [LocksNext]_lockVars
  PROVE  ResetsChecked'
<1> SUFFICES ASSUME NEW d \in Calls, Asked(d)'
             PROVE  links'[Named(d)'] = "open"
  BY DEF ResetsChecked
<1>1. CASE UNCHANGED lockVars
  BY <1>1 DEF lockVars, ResetsChecked, Asked, Kind, Named, Running
<1>2. CASE LocksNext
  <2>1. PICK c \in Calls : Begin(c) \/ Goes(c) \/ DeadlockVictim(c) \/ Outage(c)
    BY <1>2 DEF LocksNext
  <2>2. UNCHANGED jobs
    BY <2>1, OthersAreStill
  <2>3. CASE d # c
    <3>1. calls'[d] = calls[d]
      BY <2>1, <2>3, OthersAreStill DEF Only
    <3>2. Asked(d)
      BY <2>2, <3>1 DEF Asked, Kind, Running
    <3>3. ~(User \in calls[c].held)
      BY <2>3, <3>2 DEF Asked, LocksInv, Exclusive
    <3>4. links' = links
      BY <2>1, <3>3, CommitEffect
         DEF Begin, Goes, Connect, Execute, Lock, Reject, DeadlockVictim, Outage, Effect
    <3> QED
      BY <2>2, <3>2, <3>4 DEF ResetsChecked, Named
  <2>4. CASE d = c /\ Execute(c)
    <3>1. calls'[c].held = calls[c].held /\ UNCHANGED <<links, jobs>>
      BY <2>4, ExecuteFacts
    <3>2. Kind(c) = "reset" /\ User \in calls[c].held
      BY <2>4, <3>1 DEF Asked, Kind
    <3>3. Allowed(c)
      BY <2>4, <3>2 DEF Execute
    <3> QED
      BY <2>4, <3>1, <3>2, <3>3 DEF Allowed, Named
  <2>5. CASE d = c /\ Lock(c)
    <3>1. /\ calls'[c].rest = calls[c].rest /\ UNCHANGED <<links, jobs>> /\ Running(c)
          /\ calls'[c].held \subseteq calls[c].held \cup {calls[c].wants}
      BY <2>5, LockFacts
    <3>2. Asked(c)
      BY <2>5, <3>1, WantsUser DEF Asked, Kind, AtUser
    <3> QED
      BY <2>5, <3>1, <3>2 DEF ResetsChecked, Named
  <2>6. CASE d = c /\ (Begin(c) \/ Connect(c))
    <3>1. calls \in [Calls -> Call] /\ Idle(c)
      BY <2>6, TypesOfCalls DEF LocksInv, Placed, Running, Begin, Connect
    <3>2. calls'[c].held = {}
      BY <2>6, <3>1 DEF Begin, Connect, Idle, Call
    <3> QED
      BY <2>6, <3>2 DEF Asked
  <2>7. CASE d = c /\ (Commit(c) \/ Reject(c) \/ DeadlockVictim(c) \/ Outage(c))
    <3>1. PICK answer \in {"done", "failed"} : Leave(c, answer)
      BY <2>7, CommitEffect DEF Reject, DeadlockVictim, Outage
    <3> QED
      BY <2>7, <3>1, LeaveFacts DEF Asked, Running, LocksInv
  <2> QED
    BY <2>1, <2>3, <2>4, <2>5, <2>6, <2>7 DEF Goes
<1> QED
  BY <1>1, <1>2

LEMMA ResetsCheckedHolds == LocksSpec => []ResetsChecked
<1>1. LocksInit => ResetsChecked
  BY InitKeepsInv DEF LocksInv, Placed, Idle, LocksInit, ResetsChecked, Asked, Running
<1>2. LocksInv /\ ResetsChecked /\ [LocksNext]_lockVars => ResetsChecked'
  BY StepResetsChecked
<1> QED
  BY <1>1, <1>2, LocksInvHolds, PTL DEF LocksSpec

\* What two calls that wait for each other exchange.
LEMMA ExchangeRows ==
  ASSUME LocksInv, ResetsChecked, Data!CurrentOnly,
         NEW c \in Calls, NEW d \in Calls, WaitsFor(c, d), WaitsFor(d, c),
         User \notin calls[c].held
  PROVE  /\ calls[c].wants = User
         /\ \/ /\ Kind(c) \in {"refresh", "logout"} /\ Kind(d) \in {"reset", "change"}
               /\ calls[d].wants = SessionRow(Named(c))
            \/ /\ Kind(c) = "reset" /\ Kind(d) \in {"request", "change"}
               /\ calls[d].wants = LinkRow(Named(c))
<1>1. /\ c # d /\ calls[c].wants = User /\ User \in calls[d].held
      /\ calls[d].wants # Null /\ calls[d].wants \in calls[c].held
  BY WaitingPlace DEF WaitsFor
<1>2. AtUser(c) /\ TwoRows(c) /\ calls[d].wants = First(c)
  <2>1. AtUser(c)
    BY <1>1, WantsUser
  <2> QED
    BY <1>1, <2>1 DEF AtUser, Before
<1>3. Linking(d) \/ Revoking(d)
  <2>1. Placed(d) /\ First(d) # User /\ ~HasUser(d)
    BY <1>1, CallFacts DEF LocksInv, Placed, Meets, HasUser
  <2>2. Phase(d)
    BY <1>1, <2>1 DEF Placed, Idle
  <2>3. ~AtUser(d)
    BY <1>1, <2>1 DEF AtUser, Before
  <2> QED
    BY <1>1, <2>1, <2>2, <2>3 DEF Phase, Fresh, Missed, Idle, AtFirst
<1>4. calls[d].wants \in calls[d].found
  BY <1>1 DEF LocksInv, Placed, Meets
<1>5. CASE Linking(d)
  <2>1. PICK l \in Data!OpenLinks : calls[d].wants = LinkRow(l)
    BY <1>4, <1>5 DEF Linking, OpenRows
  <2>2. Kind(c) = "reset" /\ l = Named(c)
    BY <1>2, <2>1, RowsDiffer DEF First, TwoRows
  <2>3. Kind(d) # "reset"
    <3> SUFFICES ASSUME Kind(d) = "reset"
                 PROVE  FALSE
      OBVIOUS
    <3>1. Asked(d)
      <4>1. Running(d)
        BY <1>1 DEF LocksInv, Placed, Idle
      <4>2. calls[d].rest = <<"sessions">> /\ AfterUser(Kind(d)) = <<"links", "sessions">>
        BY <1>5 DEF Linking, AfterLinks, AfterUser
      <4> QED
        BY <1>1, <4>1, <4>2, Literals DEF Asked
    <3>2. Named(d) \in Data!OpenLinks
      BY <3>1, CallFacts DEF ResetsChecked, Data!OpenLinks, LocksInv
    <3>3. l = Named(d)
      BY <2>1, <3>2 DEF Data!CurrentOnly
    <3>4. LinkRow(l) \in calls[d].held
      BY <1>5, <3>3 DEF Linking, Before, TwoRows, First
    <3> QED
      BY <1>1, <2>1, <3>4 DEF LocksInv, Exclusive
  <2> QED
    BY <1>1, <1>5, <2>1, <2>2, <2>3 DEF Linking
<1>6. CASE Revoking(d)
  <2>1. PICK s : calls[d].wants = SessionRow(s)
    BY <1>4, <1>6 DEF Revoking, DoomedRows
  <2>2. Kind(c) \in {"refresh", "logout"} /\ calls[d].wants = SessionRow(Named(c))
    BY <1>2, <2>1, RowsDiffer DEF First, TwoRows
  <2> QED
    BY <1>1, <1>6, <2>2 DEF Revoking
<1> QED
  BY <1>3, <1>5, <1>6

\* Who waits for the holder of the account's row and is waited for has one
\* row, and the holder wants one: a cycle has room for nobody else.
LEMMA CyclesAreSmall ==
  ASSUME LocksInv, NEW D \in SUBSET Calls, Cycle(D)
  PROVE  \E c, d \in D : /\ D = {c, d} /\ WaitsFor(c, d) /\ WaitsFor(d, c)
                         /\ User \notin calls[c].held
<1>1. \A c \in D : /\ c \in Calls /\ calls[c].wants # Null /\ calls[c].held # {}
                   /\ \E d \in D : WaitsFor(c, d)
                   /\ \E d \in D : WaitsFor(d, c)
  BY DEF Cycle, WaitsFor
<1>2. PICK d \in D : User \in calls[d].held
  <2>1. PICK c \in D : TRUE
    BY DEF Cycle
  <2>2. PICK d \in D : WaitsFor(c, d)
    BY <1>1
  <2>3. c \in Calls /\ calls[c].wants # Null /\ calls[c].held # {}
    BY <1>1
  <2>4. User \in calls[c].held \/ calls[c].wants = User
    BY <2>3, WaitingPlace
  <2> QED
    BY <2>2, <2>4 DEF WaitsFor
<1>3. \A e \in D : e # d => /\ User \notin calls[e].held
                            /\ calls[e].wants = User /\ WaitsFor(e, d)
  <2> SUFFICES ASSUME NEW e \in D, e # d
               PROVE  /\ User \notin calls[e].held
                      /\ calls[e].wants = User /\ WaitsFor(e, d)
    OBVIOUS
  <2>1. User \notin calls[e].held
    BY <1>1, <1>2 DEF LocksInv, Exclusive
  <2>2. calls[e].wants = User
    BY <1>1, <2>1, WaitingPlace
  <2> QED
    BY <1>1, <1>2, <2>1, <2>2 DEF WaitsFor
<1>4. \A e \in D : e # d => WaitsFor(d, e)
  <2> SUFFICES ASSUME NEW e \in D, e # d
               PROVE  WaitsFor(d, e)
    OBVIOUS
  <2>1. PICK f \in D : WaitsFor(f, e)
    BY <1>1
  <2>2. f = d
    BY <1>3, <2>1 DEF WaitsFor
  <2> QED
    BY <2>1, <2>2
<1>5. PICK c \in D : WaitsFor(d, c)
  BY <1>1
<1>6. \A e \in D : e # d => e = c
  <2> SUFFICES ASSUME NEW e \in D, e # d
               PROVE  e = c
    OBVIOUS
  <2>1. calls[d].wants \in calls[e].held \cap calls[c].held
    BY <1>4, <1>5 DEF WaitsFor
  <2> QED
    BY <2>1 DEF LocksInv, Exclusive
<1>7. c # d
  BY <1>5 DEF WaitsFor
<1>8. D = {c, d}
  BY <1>6
<1> QED
  BY <1>3, <1>5, <1>7, <1>8

\* All deadlocks of the account's transactions are an exchange of two, of its
\* row for a session's or a link's, for any number of calls; so logins never
\* deadlock, nor do two transactions that begin with the account's row.
THEOREM DeadlocksNeedAnExchange == LocksSpec => []DeadlocksAreExchanges
<1>1. LocksInv /\ ResetsChecked /\ Data!CurrentOnly => DeadlocksAreExchanges
  <2> SUFFICES ASSUME LocksInv, ResetsChecked, Data!CurrentOnly,
                      NEW D \in SUBSET Calls, Cycle(D)
               PROVE  \E c, d \in D :
                        /\ D = {c, d} /\ WaitsFor(c, d) /\ WaitsFor(d, c)
                        /\ calls[c].wants = User
                        /\ \/ /\ Kind(c) \in {"refresh", "logout"}
                              /\ Kind(d) \in {"reset", "change"}
                              /\ calls[d].wants = SessionRow(Named(c))
                           \/ /\ Kind(c) = "reset" /\ Kind(d) \in {"request", "change"}
                              /\ calls[d].wants = LinkRow(Named(c))
    BY DEF DeadlocksAreExchanges
  <2>1. PICK c, d \in D : /\ D = {c, d} /\ WaitsFor(c, d) /\ WaitsFor(d, c)
                          /\ User \notin calls[c].held
    BY CyclesAreSmall
  <2> QED
    BY <2>1, ExchangeRows
<1> QED
  BY <1>1, LocksInvHolds, ResetsCheckedHolds, CredentialsStayCurrent, PTL

----------------------------------------------------------------------------
(* What a call fails of *)

MayExchange(kind, other) ==
  \/ kind \in {"refresh", "logout"} /\ other \in {"reset", "change"}
  \/ kind = "reset" /\ other \in {"request", "change"}

InExchange(c) ==
  \E d \in Calls : /\ WaitsFor(c, d) /\ WaitsFor(d, c)
                   /\ MayExchange(Kind(c), Kind(d)) \/ MayExchange(Kind(d), Kind(c))

\* A call fails because its connection is lost or late, because a refresh is
\* refused, because what it read no longer holds, or in an exchange.
FailuresHaveCauses ==
  [][\A c \in Calls : calls[c].at # "failed" /\ calls'[c].at = "failed" =>
       \/ Outage(c)
       \/ CommitRefresh(c)
       \/ Kind(c) \in {"login", "change"} /\ calls[c].read # password
       \/ Kind(c) = "reset" /\ links[Named(c)] # "open"
       \/ InExchange(c)]_lockVars

LEMMA VictimsExchange ==
  ASSUME DeadlocksAreExchanges, NEW c \in Calls, DeadlockVictim(c)
  PROVE  InExchange(c)
<1>1. PICK D \in SUBSET Calls : c \in D /\ Cycle(D)
  BY DEF DeadlockVictim
<1>2. PICK d, e \in D : /\ D = {d, e} /\ WaitsFor(d, e) /\ WaitsFor(e, d)
                        /\ MayExchange(Kind(d), Kind(e))
  BY <1>1 DEF DeadlocksAreExchanges, MayExchange
<1>3. d \in Calls /\ e \in Calls /\ (c = d \/ c = e)
  BY <1>1, <1>2
<1> QED
  BY <1>2, <1>3 DEF InExchange

LEMMA WhyACallFails ==
  ASSUME LocksInv, DeadlocksAreExchanges, [LocksNext]_lockVars,
         NEW c \in Calls, calls[c].at # "failed", calls'[c].at = "failed"
  PROVE  \/ Outage(c)
         \/ CommitRefresh(c)
         \/ Kind(c) \in {"login", "change"} /\ calls[c].read # password
         \/ Kind(c) = "reset" /\ links[Named(c)] # "open"
         \/ InExchange(c)
<1>1. LocksNext
  BY DEF lockVars
<1>2. PICK d \in Calls : Begin(d) \/ Goes(d) \/ DeadlockVictim(d) \/ Outage(d)
  BY <1>1 DEF LocksNext
<1>3. d = c
  BY <1>2, OthersAreStill DEF Only
<1>4. ~(Begin(c) \/ Connect(c))
  <2>1. calls \in [Calls -> Call]
    BY TypesOfCalls DEF LocksInv
  <2> QED
    BY <2>1 DEF Begin, Connect, Call
<1>5. ~(Execute(c) \/ Lock(c))
  BY ExecuteFacts, LockFacts DEF Running
<1>6. Commit(c) => CommitRefresh(c)
  <2>1. Leave(c, "done") => calls'[c].at = "done"
    BY LeaveFacts DEF LocksInv
  <2> QED
    BY <2>1 DEF Commit, CommitLogin, CommitLogout, CommitRequest, CommitReset, CommitChange
<1>7. Reject(c) => \/ Kind(c) \in {"login", "change"} /\ calls[c].read # password
                   \/ Kind(c) = "reset" /\ links[Named(c)] # "open"
  BY DEF Reject, Allowed
<1> QED
  BY <1>2, <1>3, <1>4, <1>5, <1>6, <1>7, VictimsExchange DEF Goes

\* No call of any number fails of the others, but for what it read before and
\* in an exchange: a login only of a replaced password, a request never but of
\* a reset that has the link it must revoke.
THEOREM FailuresAreExplained == LocksSpec => FailuresHaveCauses
<1>1. LocksInv /\ DeadlocksAreExchanges /\ [LocksNext]_lockVars =>
        [\A c \in Calls : calls[c].at # "failed" /\ calls'[c].at = "failed" =>
           \/ Outage(c)
           \/ CommitRefresh(c)
           \/ Kind(c) \in {"login", "change"} /\ calls[c].read # password
           \/ Kind(c) = "reset" /\ links[Named(c)] # "open"
           \/ InExchange(c)]_lockVars
  BY WhyACallFails
<1> QED
  BY <1>1, LocksInvHolds, DeadlocksNeedAnExchange, PTL DEF LocksSpec, FailuresHaveCauses

NoReplacements == \A c \in Calls : Kind(c) \notin {"reset", "change"}

\* AuthService.ts:378, where it is true: while no password is reset or changed
\* and no connection is lost, every logout succeeds.
THEOREM LogoutsSucceedOtherwise ==
  ASSUME ~Outages
  PROVE  LocksSpec /\ NoReplacements => []LogoutSucceeds
<1> DEFINE Inv == NoReplacements /\ LogoutSucceeds
<1>1. LocksInit /\ NoReplacements => Inv
  BY DEF LocksInit, LogoutSucceeds
<1>2. LocksInv /\ DeadlocksAreExchanges /\ Inv /\ [LocksNext]_lockVars => Inv'
  <2> SUFFICES ASSUME LocksInv, DeadlocksAreExchanges, Inv, [LocksNext]_lockVars
               PROVE  Inv'
    OBVIOUS
  <2>1. UNCHANGED jobs
    BY OthersAreStill DEF LocksNext, lockVars
  <2>2. NoReplacements' /\ \A c \in Calls : Kind(c)' = Kind(c)
    BY <2>1 DEF NoReplacements, Kind
  <2>3. ASSUME NEW c \in Calls, Kind(c) = "logout", calls'[c].at = "failed"
        PROVE  FALSE
    <3>1. calls[c].at # "failed"
      BY <2>3 DEF LogoutSucceeds
    <3>2. ~Outage(c) /\ ~CommitRefresh(c)
      BY <2>3 DEF Outage, CommitRefresh
    <3>3. ~InExchange(c)
      BY <2>3 DEF InExchange, MayExchange, NoReplacements
    <3> QED
      BY <2>3, <3>1, <3>2, <3>3, WhyACallFails
  <2> QED
    BY <2>2, <2>3 DEF LogoutSucceeds
<1>3. Inv => LogoutSucceeds
  OBVIOUS
<1> HIDE DEF Inv
<1> QED
  BY <1>1, <1>2, <1>3, LocksInvHolds, DeadlocksNeedAnExchange, PTL DEF LocksSpec

----------------------------------------------------------------------------
(* Nobody is stuck *)

CanMeet(found) == \E wants \in Row \cup {Null} : Meets(found, wants)

\* What Goes(c) asks of the state: the guards of its actions, one by one.
CanGo(c) ==
  \/ calls[c].at = "queued" /\ ~PoolIsFull
  \/ /\ Running(c) /\ calls[c].wants = Null /\ calls[c].rest # <<>>
     /\ User \in calls[c].held => Allowed(c)
     /\ CanMeet(Finds(c, Head(calls[c].rest)))
  \/ /\ Running(c) /\ calls[c].wants # Null
     /\ \A d \in Calls : ~WaitsFor(c, d)
     /\ CanMeet(calls[c].found \ {calls[c].wants})
  \/ Ready(c)
  \/ Running(c) /\ calls[c].wants = Null /\ User \in calls[c].held /\ ~Allowed(c)

\* Whom c waits for, directly or through one or two others.
WaitsOn(c, d) ==
  \/ WaitsFor(c, d)
  \/ \E e \in Calls : WaitsFor(c, e) /\ WaitsFor(e, d)
  \/ \E e, f \in Calls : WaitsFor(c, e) /\ WaitsFor(e, f) /\ WaitsFor(f, d)

\* In every state with a call to answer, a call can go on, or PostgreSQL ends
\* a deadlock; and a chain of waits is never longer than three.
NobodyIsStuck ==
  \/ \E D \in SUBSET Calls : Cycle(D)
  \/ /\ (\E c \in Calls : calls[c].at = "queued" \/ Running(c)) => \E c \in Calls : CanGo(c)
     /\ \A c \in Calls : Running(c) =>
          CanGo(c) \/ \E d \in Calls : Running(d) /\ CanGo(d) /\ WaitsOn(c, d)

LEMMA RowsCanBeMet ==
  ASSUME NEW found \in SUBSET Row
  PROVE  CanMeet(found)
<1>1. CASE found = {} \/ found = {User}
  BY <1>1, RowsAreRows DEF CanMeet, Meets
<1>2. CASE ~(found = {} \/ found = {User})
  <2>1. PICK row \in found : row # User
    BY <1>2
  <2> QED
    BY <1>2, <2>1 DEF CanMeet, Meets
<1> QED
  BY <1>1, <1>2

LEMMA FindsRows ==
  ASSUME LocksInv, NEW c \in Calls, calls[c].rest # <<>>
  PROVE  Finds(c, Head(calls[c].rest)) \subseteq Row
<1>1. Named(c) \in Ids /\ Head(calls[c].rest) \in Statement
  BY CallFacts DEF LocksInv, Call
<1>2. \A l \in Data!OpenLinks : LinkRow(l) \in Row
  BY RowsAreRows DEF Data!OpenLinks
<1>3. \A i \in SessionsToRevoke(c) : SessionRow(i) \in Row
  BY RowsAreRows DEF SessionsToRevoke, Data!LiveSessions
<1> QED
  BY <1>1, <1>2, <1>3, RowsAreRows DEF Finds, Statement

\* A running call goes on, unless another one holds the row it wants.
LEMMA OnlyLocksStop ==
  ASSUME LocksInv, NEW c \in Calls, Running(c), \A d \in Calls : ~WaitsFor(c, d)
  PROVE  CanGo(c)
<1>1. calls[c] \in Call
  BY CallFacts DEF LocksInv
<1>2. CASE calls[c].wants # Null
  <2>1. CanMeet(calls[c].found \ {calls[c].wants})
    BY <1>1, RowsCanBeMet DEF Call
  <2> QED
    BY <1>2, <2>1 DEF CanGo
<1>3. CASE calls[c].wants = Null /\ calls[c].rest # <<>>
  <2>1. CanMeet(Finds(c, Head(calls[c].rest)))
    BY <1>3, FindsRows, RowsCanBeMet
  <2> QED
    BY <1>3, <2>1 DEF CanGo
<1>4. CASE calls[c].wants = Null /\ calls[c].rest = <<>>
  <2>1. Phase(c) /\ User # Null /\ First(c) # Null /\ Kind(c) \in Kinds
    BY CallFacts DEF LocksInv, Placed
  <2>2. CASE User \in calls[c].held
    BY <1>4, <2>2 DEF CanGo, Ready
  <2>3. CASE User \notin calls[c].held
    <3>1. Kind(c) \in {"refresh", "logout"}
      BY <1>4, <2>1, <2>3, StatementOrder
         DEF Phase, Fresh, Missed, AtFirst, AtUser, HasUser, Linking, Revoking
    <3> QED
      BY <1>4, <3>1 DEF CanGo, Ready, Allowed
  <2> QED
    BY <2>2, <2>3
<1> QED
  BY <1>2, <1>3, <1>4

\* Who holds a row is running.
LEMMA HoldersRun ==
  ASSUME LocksInv, NEW c \in Calls, NEW d \in Calls, WaitsFor(c, d)
  PROVE  Running(d) /\ calls[d].held # {}
BY DEF LocksInv, Placed, Idle, WaitsFor

\* Behind a call that holds rows there is one that can go on, at most two
\* waits away, or an exchange.
LEMMA WaitsEnd ==
  ASSUME LocksInv, NEW d \in Calls, Running(d), calls[d].held # {},
         \A D \in SUBSET Calls : ~Cycle(D)
  PROVE  \/ CanGo(d)
         \/ \E e \in Calls : Running(e) /\ CanGo(e) /\ WaitsFor(d, e)
         \/ \E e, f \in Calls : /\ Running(f) /\ CanGo(f)
                                /\ WaitsFor(d, e) /\ WaitsFor(e, f)
<1>1. ASSUME NEW x \in Calls, NEW y \in Calls, WaitsFor(x, y), WaitsFor(y, x)
      PROVE  FALSE
  <2>1. Cycle({x, y})
    BY <1>1 DEF Cycle
  <2> QED
    BY <2>1
<1>2. ASSUME NEW x \in Calls, NEW y \in Calls, calls[x].held # {}, User \notin calls[x].held,
             WaitsFor(x, y)
      PROVE  User \in calls[y].held /\ Running(y)
  BY <1>2, WaitingPlace, HoldersRun DEF WaitsFor
\* The holder of the account's row waits at most for one that can go on.
<1>3. ASSUME NEW x \in Calls, Running(x), User \in calls[x].held
      PROVE  CanGo(x) \/ \E y \in Calls : Running(y) /\ CanGo(y) /\ WaitsFor(x, y)
  <2>1. CASE \A y \in Calls : ~WaitsFor(x, y)
    BY <1>3, <2>1, OnlyLocksStop
  <2>2. ASSUME NEW y \in Calls, WaitsFor(x, y)
        PROVE  CanGo(y) /\ Running(y)
    <3>1. Running(y) /\ calls[y].held # {} /\ User \notin calls[y].held
      BY <1>3, <2>2, HoldersRun DEF LocksInv, Exclusive, WaitsFor
    <3>2. ASSUME NEW z \in Calls, WaitsFor(y, z)
          PROVE  FALSE
      <4>1. User \in calls[z].held
        BY <1>2, <3>1, <3>2
      <4>2. z = x
        BY <1>3, <4>1 DEF LocksInv, Exclusive
      <4> QED
        BY <1>1, <2>2, <3>2, <4>2
    <3> QED
      BY <3>1, <3>2, OnlyLocksStop
  <2> QED
    BY <2>1, <2>2
<1>4. CASE User \in calls[d].held
  BY <1>3, <1>4
<1>5. CASE User \notin calls[d].held
  <2>1. CASE \A e \in Calls : ~WaitsFor(d, e)
    BY <2>1, OnlyLocksStop
  <2>2. ASSUME NEW e \in Calls, WaitsFor(d, e)
        PROVE  \/ CanGo(e) /\ Running(e)
               \/ \E f \in Calls : Running(f) /\ CanGo(f) /\ WaitsFor(e, f)
    BY <1>2, <1>3, <1>5, <2>2
  <2> QED
    BY <2>1, <2>2
<1> QED
  BY <1>4, <1>5

\* The safety half of EveryRequestEnds, for any number of calls and any size
\* of the pool: no state is stuck.  That calls do not go on for ever is
\* CallsMoveForward.
THEOREM NoStateIsStuck == LocksSpec => []NobodyIsStuck
<1>1. LocksInv => NobodyIsStuck
  <2> SUFFICES ASSUME LocksInv, \A D \in SUBSET Calls : ~Cycle(D)
               PROVE  /\ (\E c \in Calls : calls[c].at = "queued" \/ Running(c))
                           => \E c \in Calls : CanGo(c)
                      /\ \A c \in Calls : Running(c) =>
                           CanGo(c) \/ \E d \in Calls : Running(d) /\ CanGo(d) /\ WaitsOn(c, d)
    BY DEF NobodyIsStuck
  <2>1. ASSUME NEW c \in Calls, Running(c)
        PROVE  CanGo(c) \/ \E d \in Calls : Running(d) /\ CanGo(d) /\ WaitsOn(c, d)
    <3>1. CASE \A d \in Calls : ~WaitsFor(c, d)
      BY <2>1, <3>1, OnlyLocksStop
    <3>2. ASSUME NEW d \in Calls, WaitsFor(c, d)
          PROVE  \E e \in Calls : Running(e) /\ CanGo(e) /\ WaitsOn(c, e)
      <4>1. Running(d) /\ calls[d].held # {}
        BY <3>2, HoldersRun
      <4>2. CASE CanGo(d)
        BY <3>2, <4>1, <4>2 DEF WaitsOn
      <4>3. CASE \E e \in Calls : Running(e) /\ CanGo(e) /\ WaitsFor(d, e)
        BY <3>2, <4>3 DEF WaitsOn
      <4>4. CASE \E e, f \in Calls : /\ Running(f) /\ CanGo(f)
                                     /\ WaitsFor(d, e) /\ WaitsFor(e, f)
        BY <3>2, <4>4 DEF WaitsOn
      <4> QED
        BY <4>1, <4>2, <4>3, <4>4, WaitsEnd
    <3> QED
      BY <3>1, <3>2
  <2>2. ASSUME NEW c \in Calls, calls[c].at = "queued", \A d \in Calls : ~Running(d)
        PROVE  CanGo(c)
    <3>1. {d \in Calls : Running(d)} = {}
      BY <2>2
    <3>2. Cardinality({d \in Calls : Running(d)}) = 0
      BY <3>1, FS_EmptySet, Zenon
    <3>3. ~PoolIsFull
      BY <3>2, RowLocksAssumption DEF PoolIsFull
    <3> QED
      BY <2>2, <3>3 DEF CanGo
  <2> QED
    BY <2>1, <2>2
<1> QED
  BY <1>1, LocksInvHolds, PTL

\* Every step of a call brings it nearer to its end: it starts a transaction,
\* ends it, executes the next statement, or has one row less to lock.
Forward(c) ==
  \/ calls[c].at = "new" /\ calls'[c].at = "queued"
  \/ calls[c].at = "queued" /\ calls'[c].at \in {"running", "failed"}
  \/ Running(c) /\ calls'[c].at \in {"done", "failed"}
  \/ /\ Running(c) /\ Running(c)'
     /\ calls[c].rest # <<>> /\ calls'[c].rest = Tail(calls[c].rest)
  \/ /\ Running(c) /\ Running(c)' /\ calls'[c].rest = calls[c].rest
     /\ \E row \in calls[c].found : calls'[c].found = calls[c].found \ {row}

OnlyForward == [][\A c \in Calls : calls'[c] # calls[c] => Forward(c)]_lockVars

\* No call does anything twice: at most three statements, of each row that a
\* statement finds at most one wait, and no way back.
THEOREM CallsMoveForward == LocksSpec => OnlyForward
<1>1. LocksInv /\ [LocksNext]_lockVars =>
        [\A c \in Calls : calls'[c] # calls[c] => Forward(c)]_lockVars
  <2> SUFFICES ASSUME LocksInv, LocksNext, NEW c \in Calls, calls'[c] # calls[c]
               PROVE  Forward(c)
    BY DEF lockVars
  <2>1. PICK d \in Calls : Begin(d) \/ Goes(d) \/ DeadlockVictim(d) \/ Outage(d)
    BY DEF LocksNext
  <2>2. d = c
    BY <2>1, OthersAreStill DEF Only
  <2>3. CASE Begin(c) \/ Connect(c)
    <3>1. calls \in [Calls -> Call]
      BY TypesOfCalls DEF LocksInv
    <3> QED
      BY <2>3, <3>1 DEF Begin, Connect, Call, Forward
  <2>4. CASE Execute(c)
    BY <2>4, ExecuteFacts DEF Forward
  <2>5. CASE Lock(c)
    BY <2>5, LockFacts DEF Forward
  <2>6. CASE Commit(c) \/ Reject(c) \/ DeadlockVictim(c) \/ Outage(c)
    <3>1. PICK answer \in {"done", "failed"} : Leave(c, answer)
      BY <2>6, CommitEffect DEF Reject, DeadlockVictim, Outage
    <3>2. calls'[c].at = answer
      BY <3>1, LeaveFacts DEF LocksInv
    <3>3. Running(c) \/ (calls[c].at = "queued" /\ answer = "failed")
      <4>1. CASE Commit(c) \/ Reject(c)
        BY <4>1 DEF Commit, CommitLogin, CommitRefresh, CommitLogout, CommitRequest,
                    CommitReset, CommitChange, Ready, Reject
      <4>2. CASE DeadlockVictim(c)
        <5>1. PICK x \in Calls : WaitsFor(x, c)
          BY <4>2 DEF DeadlockVictim, Cycle
        <5> QED
          BY <5>1, HoldersRun
      <4>3. CASE Outage(c)
        <5>1. Leave(c, "failed")
          BY <4>3 DEF Outage
        <5>2. answer = "failed"
          BY <3>2, <5>1, LeaveFacts DEF LocksInv
        <5> QED
          BY <4>3, <5>2 DEF Outage
      <4> QED
        BY <2>6, <4>1, <4>2, <4>3
    <3> QED
      BY <3>2, <3>3 DEF Forward
  <2> QED
    BY <2>1, <2>2, <2>3, <2>4, <2>5, <2>6 DEF Goes
<1> QED
  BY <1>1, LocksInvHolds, PTL DEF LocksSpec, OnlyForward

=============================================================================
