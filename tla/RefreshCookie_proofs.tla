------------------------ MODULE RefreshCookie_proofs ------------------------
(***************************************************************************)
(* Proofs about RefreshCookie, for every value of its constants.           *)
(***************************************************************************)
EXTENDS RefreshCookie, TLAPS

USE CookieAssumption, CookieRequestAssumption

----------------------------------------------------------------------------
(* What the steps do to a request *)

\* The request r is q from now on, and the others are as they were.
Becomes(r, q) == requests' = [requests EXCEPT ![r] = q]

AnsweredWith(r, effect, given, grants, failed) ==
  [kind |-> requests[r].kind, at |-> "answered", token |-> requests[r].token,
   bearer |-> requests[r].bearer, remember |-> requests[r].remember, effect |-> effect,
   given |-> given, grants |-> grants, failed |-> failed, heard |-> requests[r].heard]

LEMMA InFlightType ==
  ASSUME CookieTypeOK, NEW r \in InFlight
  PROVE  /\ r \in Requests /\ requests[r] \in Request
         /\ requests[r].kind \in Kinds
         /\ requests[r].at \in {"sent", "rotated", "admitted", "answered"}
         /\ requests[r].token \in Token \cup {Null}
         /\ requests[r].bearer \in Sessions \cup {Null}
         /\ requests[r].remember \in BOOLEAN
         /\ requests[r].effect \in {"none", "set", "clear"}
         /\ requests[r].given \in Cookie \cup {Null}
         /\ requests[r].grants \in Sessions \cup {Null}
         /\ requests[r].failed \in BOOLEAN
         /\ requests[r].heard \in BOOLEAN
BY DEF CookieTypeOK, InFlight, Request

LEMMA AnswerFields ==
  ASSUME NEW q \in Request, NEW s, NEW given, NEW failed
  PROVE  /\ [q EXCEPT !.at = "answered", !.effect = "set", !.grants = s, !.given = given] =
              [kind |-> q.kind, at |-> "answered", token |-> q.token, bearer |-> q.bearer,
               remember |-> q.remember, effect |-> "set", given |-> given, grants |-> s,
               failed |-> q.failed, heard |-> q.heard]
         /\ [q EXCEPT !.at = "answered", !.effect = "clear", !.failed = failed] =
              [kind |-> q.kind, at |-> "answered", token |-> q.token, bearer |-> q.bearer,
               remember |-> q.remember, effect |-> "clear", given |-> q.given,
               grants |-> q.grants, failed |-> failed, heard |-> q.heard]
<1> DEFINE at == [q EXCEPT !.at = "answered"]
           set == [at EXCEPT !.effect = "set"]
           granted == [set EXCEPT !.grants = s]
           cleared == [at EXCEPT !.effect = "clear"]
<1>1. at = [kind |-> q.kind, at |-> "answered", token |-> q.token, bearer |-> q.bearer,
            remember |-> q.remember, effect |-> q.effect, given |-> q.given,
            grants |-> q.grants, failed |-> q.failed, heard |-> q.heard]
  BY DEF Request
<1> HIDE DEF at
<1>2. set = [kind |-> q.kind, at |-> "answered", token |-> q.token, bearer |-> q.bearer,
             remember |-> q.remember, effect |-> "set", given |-> q.given,
             grants |-> q.grants, failed |-> q.failed, heard |-> q.heard]
  BY <1>1
<1>3. cleared = [kind |-> q.kind, at |-> "answered", token |-> q.token, bearer |-> q.bearer,
                 remember |-> q.remember, effect |-> "clear", given |-> q.given,
                 grants |-> q.grants, failed |-> q.failed, heard |-> q.heard]
  BY <1>1
<1> HIDE DEF set, cleared
<1>4. granted = [kind |-> q.kind, at |-> "answered", token |-> q.token, bearer |-> q.bearer,
                 remember |-> q.remember, effect |-> "set", given |-> q.given,
                 grants |-> s, failed |-> q.failed, heard |-> q.heard]
  BY <1>2
<1> HIDE DEF granted
<1>5. [granted EXCEPT !.given = given] =
        [kind |-> q.kind, at |-> "answered", token |-> q.token, bearer |-> q.bearer,
         remember |-> q.remember, effect |-> "set", given |-> given,
         grants |-> s, failed |-> q.failed, heard |-> q.heard]
  BY <1>4
<1>6. [cleared EXCEPT !.failed = failed] =
        [kind |-> q.kind, at |-> "answered", token |-> q.token, bearer |-> q.bearer,
         remember |-> q.remember, effect |-> "clear", given |-> q.given,
         grants |-> q.grants, failed |-> failed, heard |-> q.heard]
  BY <1>3
<1> QED
  BY <1>5, <1>6 DEF granted, set, cleared, at

LEMMA SetAnswer ==
  ASSUME CookieTypeOK, NEW r \in InFlight, NEW s \in Sessions, NEW g \in Nat,
         NEW persistent \in BOOLEAN, SetRefreshCookie(r, s, g, persistent)
  PROVE  LET given == [session |-> s, generation |-> g, kept |-> persistent]
             q == AnsweredWith(r, "set", given, s, requests[r].failed)
         IN  q \in Request /\ Becomes(r, q)
<1> DEFINE given == [session |-> s, generation |-> g, kept |-> persistent]
           q == AnsweredWith(r, "set", given, s, requests[r].failed)
<1>1. given \in Cookie
  BY DEF Cookie
<1>2. q \in Request
  BY <1>1, InFlightType DEF AnsweredWith, Request
<1>3. q = [requests[r] EXCEPT !.at = "answered", !.effect = "set", !.grants = s, !.given = given]
  <2>1. requests[r] \in Request
    BY InFlightType
  <2> HIDE DEF given
  <2> QED
    BY Zenon, <2>1, AnswerFields DEF AnsweredWith
<1>4. requests' = [requests EXCEPT ![r] =
         [requests[r] EXCEPT !.at = "answered", !.effect = "set", !.grants = s, !.given = given]]
  BY InFlightType DEF SetRefreshCookie, CookieTypeOK
<1> HIDE DEF q
<1> QED
  BY <1>2, <1>3, <1>4 DEF Becomes, q

LEMMA ClearAnswer ==
  ASSUME CookieTypeOK, NEW r \in InFlight, NEW failed \in BOOLEAN, ClearCookie(r, failed)
  PROVE  LET q == AnsweredWith(r, "clear", requests[r].given, requests[r].grants, failed)
         IN  q \in Request /\ Becomes(r, q)
<1> DEFINE q == AnsweredWith(r, "clear", requests[r].given, requests[r].grants, failed)
<1>1. q \in Request
  BY InFlightType DEF AnsweredWith, Request
<1>2. q = [requests[r] EXCEPT !.at = "answered", !.effect = "clear", !.failed = failed]
  <2>1. requests[r] \in Request
    BY InFlightType
  <2> QED
    BY Zenon, <2>1, AnswerFields DEF AnsweredWith
<1>3. requests' = [requests EXCEPT ![r] =
         [requests[r] EXCEPT !.at = "answered", !.effect = "clear", !.failed = failed]]
  BY InFlightType DEF ClearCookie, CookieTypeOK
<1> HIDE DEF q
<1> QED
  BY <1>1, <1>2, <1>3 DEF Becomes, q

\* A step on its way: rotated, admitted, or answered without a header.
LEMMA Moves ==
  ASSUME CookieTypeOK, NEW r \in InFlight,
         NEW at \in {"rotated", "admitted", "answered"},
         requests' = [requests EXCEPT ![r].at = at]
  PROVE  LET q == [requests[r] EXCEPT !.at = at]
         IN  q \in Request /\ Becomes(r, q)
<1>1. [requests[r] EXCEPT !.at = at] \in Request
  BY InFlightType DEF Request
<1> QED
  BY <1>1, InFlightType DEF Becomes, CookieTypeOK

----------------------------------------------------------------------------
(* Type correctness *)

LEMMA FamiliesType ==
  ASSUME CookieTypeOK,
         \/ UNCHANGED families
         \/ \E s \in Sessions : Open(s) \/ Exchange(s)
         \/ \E ended : End(ended)
  PROVE  families' \in [Sessions -> Family]
<1> USE DEF CookieTypeOK
<1>1. ASSUME NEW s \in Sessions, Open(s)
      PROVE  families' \in [Sessions -> Family]
  BY <1>1 DEF Open, Family
<1>2. ASSUME NEW s \in Sessions, Exchange(s)
      PROVE  families' \in [Sessions -> Family]
  <2>1. [families[s] EXCEPT !.generation = @ + 1] \in Family
    BY DEF Family
  <2> QED
    BY <1>2, <2>1 DEF Exchange
<1>3. ASSUME NEW ended, End(ended)
      PROVE  families' \in [Sessions -> Family]
  <2>1. \A s \in Sessions : [families[s] EXCEPT !.state = "ended"] \in Family
    BY DEF Family
  <2> QED
    BY <1>3, <2>1 DEF End
<1> QED
  BY <1>1, <1>2, <1>3

LEMMA CarriedType ==
  ASSUME CookieTypeOK, NEW kind
  PROVE  Carried(kind) \in Token \cup {Null}
BY DEF CookieTypeOK, Carried, Cookie, Token

LEMMA SendType ==
  ASSUME CookieTypeOK, NEW r \in Requests, NEW kind \in Kinds, NEW remember \in BOOLEAN,
         Send(r, kind, remember)
  PROVE  LET q == [kind |-> kind, at |-> "sent", token |-> Carried(kind),
                   bearer |-> IF kind = "change" THEN access ELSE Null, remember |-> remember,
                   effect |-> "none", given |-> Null, grants |-> Null, failed |-> FALSE,
                   heard |-> TRUE]
         IN  q \in Request /\ Becomes(r, q)
<1>1. (IF kind = "change" THEN access ELSE Null) \in Sessions \cup {Null}
  BY DEF CookieTypeOK
<1> QED
  BY <1>1, CarriedType DEF Send, Becomes, Request

LEMMA BecomesType ==
  ASSUME CookieTypeOK, NEW r \in Requests, NEW q \in Request \cup {Null}, Becomes(r, q)
  PROVE  /\ requests' \in [Requests -> Request \cup {Null}]
         /\ requests'[r] = q
         /\ \A i \in Requests : i # r => requests'[i] = requests[i]
BY DEF CookieTypeOK, Becomes

\* A step may end sessions, and does nothing else to the families.
MayEnd == UNCHANGED families \/ \E ended : End(ended)

LEMMA EndsOnly ==
  ASSUME CookieTypeOK, MayEnd
  PROVE  /\ families' \in [Sessions -> Family]
         /\ \A s \in Sessions : /\ families'[s].generation = families[s].generation
                                /\ families'[s].state = "unborn" <=> families[s].state = "unborn"
                                /\ families'[s].state = "live" => families[s].state = "live"
<1>1. families' \in [Sessions -> Family]
  BY FamiliesType DEF MayEnd
<1>2. CASE UNCHANGED families
  BY <1>1, <1>2
<1>3. ASSUME NEW ended, End(ended), NEW s \in Sessions
      PROVE  /\ families'[s].generation = families[s].generation
             /\ families'[s].state = "unborn" <=> families[s].state = "unborn"
             /\ families'[s].state = "live" => families[s].state = "live"
  BY <1>3 DEF End, Live, CookieTypeOK, Family
<1> QED
  BY <1>1, <1>2, <1>3 DEF MayEnd

\* An answer that clears the cookie.
Clears(r) ==
  /\ r \in InFlight
  /\ requests[r].kind \in {"refresh", "logout", "reset"}
  /\ MayEnd
  /\ \E failed \in BOOLEAN :
       /\ ClearCookie(r, failed)
       /\ failed => requests[r].kind = "refresh"
       /\ ~failed => requests[r].at = "sent"
  /\ UNCHANGED <<remembered, cookie, access, acknowledged, mine, careful>>

\* The guard admits, or an answer does nothing to the cookie.
Passes(r) ==
  /\ r \in InFlight
  /\ requests[r].at \in {"sent", "admitted"}
  /\ MayEnd
  /\ \E at \in {"admitted", "answered"} :
       /\ requests' = [requests EXCEPT ![r].at = at]
       /\ at = "admitted" => requests[r].kind = "change"
  /\ UNCHANGED <<remembered, cookie, access, acknowledged, mine, careful>>

CookieStep ==
  \/ \E r \in Requests, kind \in Kinds, remember \in BOOLEAN : Send(r, kind, remember)
  \/ \E r \in InFlight : \/ LoginSucceeds(r) \/ RefreshRotates(r) \/ RefreshSigns(r)
                         \/ Clears(r) \/ Passes(r)
                         \/ Receive(r) \/ Lose(r)
  \/ SessionsEnd
  \/ Restart

LEMMA NextIsCookieStep == ASSUME CookieNext PROVE CookieStep
<1>1. ASSUME NEW r \in Requests,
             \/ RefreshNotSigned(r) \/ RefreshFails(r)
             \/ RefreshReused(r) \/ RefreshInactive(r) \/ RefreshRejected(r)
             \/ LogoutRevokes(r) \/ LogoutIgnored(r) \/ ResetSucceeds(r)
      PROVE  Clears(r)
  <2>1. MayEnd
    BY <1>1 DEF MayEnd, RefreshNotSigned, RefreshFails, RefreshReused, RefreshInactive,
         RefreshRejected, LogoutRevokes, LogoutIgnored, ResetSucceeds
  <2>2. /\ At(r, "refresh", "rotated") \/ At(r, "refresh", "sent") \/ At(r, "logout", "sent")
             \/ At(r, "reset", "sent")
        /\ \/ ClearCookie(r, TRUE) /\ requests[r].kind = "refresh"
           \/ ClearCookie(r, FALSE) /\ requests[r].at = "sent"
        /\ UNCHANGED <<remembered, cookie, access, acknowledged, mine, careful>>
    BY <1>1 DEF At, RefreshNotSigned, RefreshFails, RefreshReused, RefreshInactive,
         RefreshRejected, LogoutRevokes, LogoutIgnored, ResetSucceeds
  <2> QED
    BY <2>1, <2>2 DEF Clears, At
<1>2. ASSUME NEW r \in Requests, GuardAdmits(r) \/ ChangeSucceeds(r) \/ Rejected(r)
      PROVE  Passes(r)
  <2>1. MayEnd
    BY <1>2 DEF MayEnd, GuardAdmits, ChangeSucceeds, Rejected
  <2> QED
    BY <1>2, <2>1 DEF Passes, GuardAdmits, ChangeSucceeds, Rejected, LeaveCookie, At
<1>3. ASSUME NEW r \in Requests,
             LoginSucceeds(r) \/ RefreshRotates(r) \/ RefreshSigns(r) \/ Receive(r) \/ Lose(r)
      PROVE  r \in InFlight
  BY <1>3 DEF LoginSucceeds, RefreshRotates, RefreshSigns, Receive, Lose, At
<1> QED
  BY <1>1, <1>2, <1>3 DEF CookieNext, Answers, CookieStep, Clears, Passes

----------------------------------------------------------------------------
(* What every request on its way satisfies *)

Pending(q) == q.kind = "refresh" /\ (q.at = "rotated" \/ q.effect = "set")

LoggingIn(q) == q.kind = "login" /\ q.effect = "set"

Shape(q) ==
  /\ q.token # Null => q.kind \in {"refresh", "logout"}
  /\ q.kind = "change" => q.bearer # Null
  /\ q.at # "answered" => q.effect = "none"
  /\ q.at = "rotated" => q.kind = "refresh" /\ q.token # Null
  /\ q.effect = "clear" => q.kind \in {"refresh", "logout", "reset"}
  /\ q.failed => q.kind = "refresh" /\ q.effect = "clear"
  /\ q.effect = "set" =>
       /\ q.given \in Cookie /\ q.grants = q.given.session
       /\ \/ q.kind = "login" /\ q.given.generation = 0
          \/ /\ q.kind = "refresh" /\ q.token # Null
             /\ q.given.session = q.token.session
             /\ q.given.generation = q.token.generation + 1

Shapes == \A r \in Requests : requests[r] # Null => Shape(requests[r])

LEMMA ShapedUpdate ==
  ASSUME CookieTypeOK, Shapes, NEW r \in Requests, NEW q \in Request, Shape(q), Becomes(r, q)
  PROVE  Shapes'
BY BecomesType DEF Shapes

\* The types and the shapes, step by step.
LEMMA StepShapes ==
  ASSUME CookieTypeOK, Shapes, CookieStep
  PROVE  CookieTypeOK' /\ Shapes'
<1>1. ASSUME NEW r \in Requests, NEW kind \in Kinds, NEW remember \in BOOLEAN,
             Send(r, kind, remember)
      PROVE  CookieTypeOK' /\ Shapes'
  <2> DEFINE q == [kind |-> kind, at |-> "sent", token |-> Carried(kind),
                   bearer |-> IF kind = "change" THEN access ELSE Null, remember |-> remember,
                   effect |-> "none", given |-> Null, grants |-> Null, failed |-> FALSE,
                   heard |-> TRUE]
  <2>1. q \in Request /\ Becomes(r, q)
    BY <1>1, SendType
  <2>2. Shape(q)
    BY <1>1 DEF Shape, Carried, Send
  <2> HIDE DEF q
  <2>3. requests' \in [Requests -> Request \cup {Null}] /\ Shapes'
    BY <2>1, <2>2, BecomesType, ShapedUpdate
  <2>4. careful' \in BOOLEAN
    BY <1>1 DEF Send
  <2> QED
    BY <1>1, <2>3, <2>4 DEF Send, CookieTypeOK
<1>2. ASSUME NEW r \in InFlight, LoginSucceeds(r)
      PROVE  CookieTypeOK' /\ Shapes'
  <2>1. PICK s \in Sessions :
          /\ Open(s)
          /\ remembered' = IF requests[r].remember THEN remembered \cup {s} ELSE remembered
          /\ SetRefreshCookie(r, s, 0, requests[r].remember)
    BY <1>2 DEF LoginSucceeds
  <2> DEFINE given == [session |-> s, generation |-> 0, kept |-> requests[r].remember]
             q == AnsweredWith(r, "set", given, s, requests[r].failed)
  <2>2. q \in Request /\ Becomes(r, q)
    BY <2>1, InFlightType, SetAnswer
  <2>3. requests[r].kind = "login" /\ Shape(requests[r])
    BY <1>2 DEF LoginSucceeds, At, InFlight, Shapes
  <2>4. given \in Cookie
    BY InFlightType DEF Cookie
  <2>5. Shape(q)
    BY <2>3, <2>4 DEF Shape, AnsweredWith
  <2> HIDE DEF q
  <2>6. requests' \in [Requests -> Request \cup {Null}] /\ Shapes'
    BY <2>2, <2>5, InFlightType, BecomesType, ShapedUpdate
  <2>7. families' \in [Sessions -> Family]
    BY <2>1, FamiliesType
  <2> QED
    BY <1>2, <2>1, <2>6, <2>7 DEF LoginSucceeds, CookieTypeOK
<1>3. ASSUME NEW r \in InFlight, RefreshRotates(r)
      PROVE  CookieTypeOK' /\ Shapes'
  <2> DEFINE q == [requests[r] EXCEPT !.at = "rotated"]
  <2>1. q \in Request /\ Becomes(r, q)
    BY <1>3, Moves DEF RefreshRotates
  <2>2. /\ requests[r].kind = "refresh" /\ requests[r].token # Null
        /\ Shape(requests[r]) /\ requests[r].at = "sent"
    BY <1>3 DEF RefreshRotates, At, InFlight, Shapes, Named
  <2>3. Shape(q)
    BY <2>2, InFlightType DEF Shape, Request
  <2> HIDE DEF q
  <2>4. requests' \in [Requests -> Request \cup {Null}] /\ Shapes'
    BY <2>1, <2>3, InFlightType, BecomesType, ShapedUpdate
  <2>5. Named(r).session \in Sessions
    BY <2>2, InFlightType DEF Named, Token
  <2>6. families' \in [Sessions -> Family]
    BY <1>3, <2>5, FamiliesType DEF RefreshRotates
  <2> QED
    BY <1>3, <2>4, <2>6 DEF RefreshRotates, CookieTypeOK
<1>4. ASSUME NEW r \in InFlight, RefreshSigns(r)
      PROVE  CookieTypeOK' /\ Shapes'
  <2> DEFINE s == requests[r].token.session
             g == requests[r].token.generation + 1
             kept == s \in remembered
             given == [session |-> s, generation |-> g, kept |-> kept]
             q == AnsweredWith(r, "set", given, s, requests[r].failed)
  <2>1. /\ requests[r].kind = "refresh" /\ requests[r].token \in Token
        /\ Shape(requests[r]) /\ requests[r].token # Null
    BY <1>4, InFlightType DEF RefreshSigns, At, InFlight, Shapes, Shape
  <2>2. s \in Sessions /\ g \in Nat
    BY <2>1 DEF Token
  <2>3. SetRefreshCookie(r, s, g, kept) /\ kept \in BOOLEAN
    BY <1>4 DEF RefreshSigns, Named
  <2>4. given \in Cookie
    BY <2>2 DEF Cookie
  <2> HIDE DEF s, g, kept
  <2>5. q \in Request /\ Becomes(r, q)
    BY <2>2, <2>3, SetAnswer
  <2>6. Shape(q)
    <3>1. ~requests[r].failed
      BY <1>4, <2>1 DEF RefreshSigns, At, Shape
    <3> QED
      BY <2>1, <2>4, <3>1 DEF Shape, AnsweredWith, s, g
  <2> HIDE DEF q
  <2>7. requests' \in [Requests -> Request \cup {Null}] /\ Shapes'
    BY <2>5, <2>6, InFlightType, BecomesType, ShapedUpdate
  <2> QED
    BY <1>4, <2>7 DEF RefreshSigns, CookieTypeOK
<1>5. ASSUME NEW r \in InFlight, Clears(r)
      PROVE  CookieTypeOK' /\ Shapes'
  <2>1. PICK failed \in BOOLEAN :
          ClearCookie(r, failed) /\ (failed => requests[r].kind = "refresh")
    BY <1>5 DEF Clears
  <2> DEFINE q == AnsweredWith(r, "clear", requests[r].given, requests[r].grants, failed)
  <2>2. q \in Request /\ Becomes(r, q)
    BY <2>1, ClearAnswer
  <2>3. Shape(requests[r]) /\ requests[r].kind \in {"refresh", "logout", "reset"}
    BY <1>5 DEF Clears, InFlight, Shapes
  <2>4. Shape(q)
    BY <2>1, <2>3 DEF Shape, AnsweredWith
  <2> HIDE DEF q
  <2>5. requests' \in [Requests -> Request \cup {Null}] /\ Shapes'
    BY <2>2, <2>4, InFlightType, BecomesType, ShapedUpdate
  <2>6. families' \in [Sessions -> Family]
    BY <1>5, EndsOnly DEF Clears
  <2> QED
    BY <1>5, <2>5, <2>6 DEF Clears, CookieTypeOK
<1>6. ASSUME NEW r \in InFlight, Passes(r)
      PROVE  CookieTypeOK' /\ Shapes'
  <2>1. PICK at \in {"admitted", "answered"} : requests' = [requests EXCEPT ![r].at = at]
    BY <1>6 DEF Passes
  <2> DEFINE q == [requests[r] EXCEPT !.at = at]
  <2>2. q \in Request /\ Becomes(r, q)
    BY <2>1, Moves
  <2>3. Shape(requests[r]) /\ requests[r].at \in {"sent", "admitted"}
    BY <1>6 DEF Passes, InFlight, Shapes
  <2>4. Shape(q)
    BY <2>3, InFlightType DEF Shape, Request
  <2> HIDE DEF q
  <2>5. requests' \in [Requests -> Request \cup {Null}] /\ Shapes'
    BY <2>2, <2>4, InFlightType, BecomesType, ShapedUpdate
  <2>6. families' \in [Sessions -> Family]
    BY <1>6, EndsOnly DEF Passes
  <2> QED
    BY <1>6, <2>5, <2>6 DEF Passes, CookieTypeOK
<1>7. ASSUME NEW r \in InFlight, Receive(r) \/ Lose(r)
      PROVE  CookieTypeOK' /\ Shapes'
  <2>1. Becomes(r, Null)
    BY <1>7 DEF Receive, Lose, Forget, Becomes
  <2>2. requests' \in [Requests -> Request \cup {Null}] /\ Shapes'
    BY <2>1, InFlightType, BecomesType DEF Shapes
  <2>3. CASE Lose(r)
    BY <2>2, <2>3 DEF Lose, CookieTypeOK
  <2>4. CASE Receive(r)
    <3>1. Shape(requests[r])
      BY DEF InFlight, Shapes
    <3>2. requests[r].effect = "set" => requests[r].given \in Cookie /\ requests[r].grants \in Sessions
      BY <3>1 DEF Shape, Cookie
    <3>3. cookie' \in Cookie \cup {Null} /\ access' \in Sessions \cup {Null}
          /\ mine' \in Sessions \cup {Null}
      BY <2>4, <3>2 DEF Receive, CookieTypeOK
    <3>4. acknowledged' \in [Sessions -> Nat]
      BY <2>4, <3>2 DEF Receive, CookieTypeOK
    <3> QED
      BY <2>2, <2>4, <3>3, <3>4 DEF Receive, CookieTypeOK
  <2> QED
    BY <1>7, <2>3, <2>4
<1>8. CASE SessionsEnd
  <2>1. families' \in [Sessions -> Family]
    BY <1>8, EndsOnly DEF SessionsEnd, MayEnd
  <2> QED
    BY <1>8, <2>1 DEF SessionsEnd, CookieTypeOK, Shapes
<1>9. CASE Restart
  <2>1. ASSUME NEW r \in Requests, requests[r] # Null
        PROVE  /\ [requests[r] EXCEPT !.heard = FALSE] \in Request
               /\ Shape(requests[r]) => Shape([requests[r] EXCEPT !.heard = FALSE])
    <3>1. requests[r] \in Request
      BY <2>1 DEF CookieTypeOK
    <3> QED
      BY <3>1 DEF Request, Shape
  <2>2. requests' \in [Requests -> Request \cup {Null}]
    BY <1>9, <2>1 DEF Restart
  <2>3. Shapes'
    BY <1>9, <2>1 DEF Restart, Shapes
  <2>4. cookie' \in Cookie \cup {Null} /\ mine' \in Sessions \cup {Null} /\ careful' \in BOOLEAN
    BY <1>9 DEF Restart, CookieTypeOK
  <2> QED
    BY <1>9, <2>2, <2>3, <2>4 DEF Restart, CookieTypeOK
<1> QED
  BY <1>1, <1>2, <1>3, <1>4, <1>5, <1>6, <1>7, <1>8, <1>9 DEF CookieStep

LEMMA InitShapes == CookieInit => CookieTypeOK /\ Shapes
BY DEF CookieInit, FamiliesInit, Unborn, CookieTypeOK, Family, Shapes

LEMMA StutterShapes ==
  ASSUME CookieTypeOK, Shapes, UNCHANGED cookieVars
  PROVE  CookieTypeOK' /\ Shapes'
BY DEF cookieVars, CookieTypeOK, Shapes

\* The browser's and the service's state keep their types, for any number of
\* sessions and of requests on their way.
THEOREM CookieTypes == CookieSpec => []CookieTypeOK
<1>1. CookieTypeOK /\ Shapes /\ [CookieNext]_cookieVars => CookieTypeOK' /\ Shapes'
  BY NextIsCookieStep, StepShapes, StutterShapes
<1> QED
  BY InitShapes, <1>1, PTL DEF CookieSpec

----------------------------------------------------------------------------
(* One exchange at a time *)

Born(s) == families[s].state # "unborn"

Counted == \A s \in Sessions :
  /\ acknowledged[s] <= families[s].generation
  /\ ~Born(s) => families[s].generation = 0

JarIsAcknowledged ==
  cookie # Null => /\ Born(cookie.session)
                   /\ cookie.generation = acknowledged[cookie.session]

\* No request carries a token whose replacement arrived before it was sent.
TokensAreAcknowledged == \A r \in InFlight : Named(r) # Null =>
  /\ Born(Named(r).session)
  /\ Named(r).generation <= acknowledged[Named(r).session]

\* Of each session at most one exchange is under way, that of the current
\* token: only its answer brings the next one.
OneExchange ==
  /\ \A r \in InFlight : Pending(requests[r]) =>
       /\ Named(r).generation = acknowledged[Named(r).session]
       /\ acknowledged[Named(r).session] + 1 = families[Named(r).session].generation
  /\ \A r, i \in InFlight :
       /\ Pending(requests[r]) /\ Pending(requests[i])
       /\ Named(r).session = Named(i).session
       => r = i

\* Nobody has a token of a session before the answer of its login arrives.
LoginsAreFresh == \A r \in InFlight : LoggingIn(requests[r]) =>
  /\ Born(requests[r].given.session)
  /\ families[requests[r].given.session].generation = 0
  /\ cookie # Null => cookie.session # requests[r].given.session
  /\ \A i \in InFlight :
       /\ Named(i) # Null => Named(i).session # requests[r].given.session
       /\ LoggingIn(requests[i]) /\ requests[i].given.session = requests[r].given.session => i = r

Chain == /\ Counted /\ JarIsAcknowledged /\ TokensAreAcknowledged
         /\ OneExchange /\ LoginsAreFresh

\* What is known of a request on its way.
LEMMA RequestFacts ==
  ASSUME CookieTypeOK, Shapes, NEW r \in InFlight
  PROVE  /\ r \in Requests /\ requests[r] # Null /\ Shape(requests[r])
         /\ Named(r) # Null => Named(r).session \in Sessions /\ Named(r).generation \in Nat
         /\ Pending(requests[r]) =>
              /\ Named(r) # Null
              /\ requests[r].effect = "set" =>
                   /\ requests[r].given.session = Named(r).session
                   /\ requests[r].given.generation = Named(r).generation + 1
         /\ requests[r].effect = "set" =>
              /\ requests[r].given \in Cookie /\ requests[r].given # Null
              /\ requests[r].given.session \in Sessions
              /\ requests[r].grants = requests[r].given.session
         /\ LoggingIn(requests[r]) => requests[r].given.generation = 0
         /\ requests[r].at # "answered" => ~LoggingIn(requests[r])
         /\ requests[r].at \in {"sent", "admitted"} => ~Pending(requests[r])
<1>1. r \in Requests /\ requests[r] # Null /\ Shape(requests[r])
  BY DEF InFlight, Shapes
<1>2. Named(r) \in Token \cup {Null}
  BY InFlightType DEF Named
<1>3. Named(r) # Null => Named(r).session \in Sessions /\ Named(r).generation \in Nat
  BY <1>2 DEF Token
<1>4. requests[r].effect = "set" =>
        /\ requests[r].given \in Cookie /\ requests[r].given # Null
        /\ requests[r].given.session \in Sessions
        /\ requests[r].grants = requests[r].given.session
  BY <1>1 DEF Shape, Cookie
<1>5. Pending(requests[r]) =>
        /\ Named(r) # Null
        /\ requests[r].effect = "set" =>
             /\ requests[r].given.session = Named(r).session
             /\ requests[r].given.generation = Named(r).generation + 1
  BY <1>1 DEF Shape, Pending, Named
<1> QED
  BY <1>1, <1>3, <1>4, <1>5 DEF Shape, Pending, LoggingIn

\* A step that brings no token further.
Quiet ==
  /\ \A s \in Sessions : /\ families'[s].generation = families[s].generation
                         /\ families'[s].state = "unborn" <=> families[s].state = "unborn"
  /\ acknowledged' = acknowledged
  /\ cookie' \in {cookie, Null}
  /\ \A r \in InFlight' :
       /\ r \in InFlight
       /\ requests'[r].token = requests[r].token
       /\ Pending(requests'[r]) => Pending(requests[r])
       /\ LoggingIn(requests'[r]) => /\ LoggingIn(requests[r])
                                     /\ requests'[r].given = requests[r].given

LEMMA QuietKeepsChain ==
  ASSUME CookieTypeOK, Shapes, Chain, Quiet
  PROVE  Chain'
<1>1. \A s \in Sessions : families'[s].state # "unborn" <=> Born(s)
  BY DEF Quiet, Born
<1>2. Counted'
  BY <1>1 DEF Chain, Counted, Quiet, Born
<1>3. JarIsAcknowledged'
  <2>1. cookie # Null => cookie.session \in Sessions
    BY DEF CookieTypeOK, Cookie
  <2> QED
    BY <1>1, <2>1 DEF Chain, JarIsAcknowledged, Quiet, Born
<1>4. \A r \in InFlight' : r \in InFlight /\ requests'[r].token = Named(r)
  BY DEF Quiet, Named
<1>5. TokensAreAcknowledged'
  <2> SUFFICES ASSUME NEW r \in InFlight', requests'[r].token # Null
               PROVE  /\ families'[requests'[r].token.session].state # "unborn"
                      /\ requests'[r].token.generation <= acknowledged'[requests'[r].token.session]
    BY DEF TokensAreAcknowledged, Born, Named
  <2>1. r \in InFlight /\ requests'[r].token = Named(r)
    BY <1>4
  <2>2. Named(r).session \in Sessions
    BY <2>1, RequestFacts
  <2> QED
    BY <1>1, <2>1, <2>2 DEF Chain, TokensAreAcknowledged, Quiet, Born
<1>6. OneExchange'
  <2>1. ASSUME NEW r \in InFlight', Pending(requests'[r])
        PROVE  /\ r \in InFlight /\ Pending(requests[r])
               /\ requests'[r].token = Named(r) /\ Named(r).session \in Sessions
               /\ Named(r).generation = acknowledged'[Named(r).session]
               /\ acknowledged'[Named(r).session] + 1 = families'[Named(r).session].generation
    <3>1. r \in InFlight /\ Pending(requests[r]) /\ requests'[r].token = Named(r)
      BY <1>4, <2>1 DEF Quiet
    <3>2. Named(r).session \in Sessions
      BY <3>1, RequestFacts
    <3> QED
      BY <3>1, <3>2 DEF Chain, OneExchange, Quiet
  <2>2. \A r \in InFlight' : Pending(requests'[r]) =>
          /\ requests'[r].token.generation = acknowledged'[requests'[r].token.session]
          /\ acknowledged'[requests'[r].token.session] + 1 = families'[requests'[r].token.session].generation
    BY <2>1
  <2>3. \A r, i \in InFlight' :
          /\ Pending(requests'[r]) /\ Pending(requests'[i])
          /\ requests'[r].token.session = requests'[i].token.session
          => r = i
    BY <2>1 DEF Chain, OneExchange
  <2> QED
    BY <2>2, <2>3 DEF OneExchange, Named
<1>7. LoginsAreFresh'
  <2> SUFFICES ASSUME NEW r \in InFlight', LoggingIn(requests'[r])
               PROVE  LET s == requests'[r].given.session
                      IN  /\ families'[s].state # "unborn" /\ families'[s].generation = 0
                          /\ cookie' # Null => cookie'.session # s
                          /\ \A i \in InFlight' :
                               /\ requests'[i].token # Null => requests'[i].token.session # s
                               /\ LoggingIn(requests'[i]) /\ requests'[i].given.session = s => i = r
    BY DEF LoginsAreFresh, Born, Named
  <2> DEFINE s == requests[r].given.session
  <2>1. /\ r \in InFlight /\ LoggingIn(requests[r])
        /\ requests'[r].given.session = s /\ s \in Sessions
    <3>1. r \in InFlight /\ LoggingIn(requests[r]) /\ requests'[r].given = requests[r].given
      BY DEF Quiet
    <3> QED
      BY <3>1, RequestFacts DEF LoggingIn
  <2>2. /\ Born(s) /\ families[s].generation = 0 /\ (cookie # Null => cookie.session # s)
        /\ \A i \in InFlight : /\ Named(i) # Null => Named(i).session # s
                               /\ LoggingIn(requests[i]) /\ requests[i].given.session = s => i = r
    BY <2>1 DEF Chain, LoginsAreFresh
  <2>3. families'[s].state # "unborn" /\ families'[s].generation = 0 /\ (cookie' # Null => cookie'.session # s)
    BY <1>1, <2>1, <2>2 DEF Quiet, Born
  <2>4. \A i \in InFlight' :
          /\ requests'[i].token # Null => requests'[i].token.session # s
          /\ LoggingIn(requests'[i]) /\ requests'[i].given.session = s => i = r
    BY <1>4, <2>2 DEF Quiet
  <2> HIDE DEF s
  <2> QED
    BY <2>1, <2>3, <2>4 DEF Born
<1> QED
  BY <1>2, <1>3, <1>5, <1>6, <1>7 DEF Chain

LEMMA SendKeepsChain ==
  ASSUME CookieTypeOK, Shapes, Chain, NEW r \in Requests, NEW kind \in Kinds,
         NEW remember \in BOOLEAN, Send(r, kind, remember)
  PROVE  Chain'
<1> DEFINE q == [kind |-> kind, at |-> "sent", token |-> Carried(kind),
                 bearer |-> IF kind = "change" THEN access ELSE Null, remember |-> remember,
                 effect |-> "none", given |-> Null, grants |-> Null, failed |-> FALSE,
                 heard |-> TRUE]
<1>1. q \in Request /\ Becomes(r, q)
  BY SendType
<1>2. /\ q.token # Null => /\ cookie # Null /\ q.token.session = cookie.session
                           /\ q.token.generation = cookie.generation
      /\ ~Pending(q) /\ ~LoggingIn(q)
  BY DEF Carried, Pending, LoggingIn
<1> HIDE DEF q
<1>3. /\ r \notin InFlight
      /\ \A i \in InFlight' : /\ i \in Requests
                              /\ i = r \/ (i \in InFlight /\ requests'[i] = requests[i])
                              /\ i = r => requests'[i] = q
  BY <1>1, BecomesType DEF Send, InFlight
<1>4. families' = families /\ cookie' = cookie /\ acknowledged' = acknowledged
  BY DEF Send
<1>5. Counted' /\ JarIsAcknowledged'
  BY <1>4 DEF Chain, Counted, JarIsAcknowledged, Born
<1>6. TokensAreAcknowledged'
  <2> SUFFICES ASSUME NEW i \in InFlight', requests'[i].token # Null
               PROVE  /\ families[requests'[i].token.session].state # "unborn"
                      /\ requests'[i].token.generation <= acknowledged[requests'[i].token.session]
    BY <1>4 DEF TokensAreAcknowledged, Born, Named
  <2>1. CASE i = r
    <3>1. cookie \in Cookie
      BY <1>2, <1>3, <2>1 DEF CookieTypeOK
    <3> QED
      BY <1>2, <1>3, <2>1, <3>1 DEF Chain, JarIsAcknowledged, Born, Cookie, CookieTypeOK
  <2>2. CASE i # r
    BY <1>3, <2>2 DEF Chain, TokensAreAcknowledged, Born, Named
  <2> QED
    BY <2>1, <2>2
<1>7. OneExchange'
  <2>1. \A i \in InFlight' : Pending(requests'[i]) =>
          i \in InFlight /\ requests'[i] = requests[i]
    BY <1>2, <1>3
  <2> QED
    BY <1>4, <2>1 DEF Chain, OneExchange, Named
<1>8. LoginsAreFresh'
  <2>1. \A i \in InFlight' : LoggingIn(requests'[i]) =>
          i \in InFlight /\ requests'[i] = requests[i]
    BY <1>2, <1>3
  <2>2. \A i, j \in InFlight' : LoggingIn(requests'[i]) /\ requests'[j].token # Null =>
          requests'[j].token.session # requests'[i].given.session
    BY <1>2, <1>3, <2>1 DEF Chain, LoginsAreFresh, Named
  <2> QED
    BY <1>4, <2>1, <2>2 DEF Chain, LoginsAreFresh, Named, Born
<1> QED
  BY <1>5, <1>6, <1>7, <1>8 DEF Chain

LEMMA LoginKeepsChain ==
  ASSUME CookieTypeOK, Shapes, Chain, NEW r \in InFlight, LoginSucceeds(r)
  PROVE  Chain'
<1>1. PICK s \in Sessions : Open(s) /\ SetRefreshCookie(r, s, 0, requests[r].remember)
  BY DEF LoginSucceeds
<1> DEFINE given == [session |-> s, generation |-> 0, kept |-> requests[r].remember]
           q == AnsweredWith(r, "set", given, s, requests[r].failed)
<1>2. q \in Request /\ Becomes(r, q)
  BY <1>1, InFlightType, SetAnswer
<1>3. requests[r].kind = "login" /\ Named(r) = Null
  BY RequestFacts DEF LoginSucceeds, At, Shape, Named
<1>4. q.token = Null /\ ~Pending(q) /\ LoggingIn(q) /\ q.given.session = s
  BY <1>3 DEF AnsweredWith, Pending, LoggingIn, Named
<1> HIDE DEF q
<1>5. \A i \in InFlight' : /\ i \in InFlight
                           /\ i # r => requests'[i] = requests[i]
                           /\ i = r => requests'[i] = q
  BY <1>2, InFlightType, BecomesType DEF InFlight
<1>6. /\ families[s].state = "unborn" /\ families[s].generation = 0
      /\ families'[s].state = "live" /\ families'[s].generation = 0
      /\ \A i \in Sessions : i # s => families'[i] = families[i]
  BY <1>1 DEF Open, Unborn, CookieTypeOK, Family
<1>7. cookie' = cookie /\ acknowledged' = acknowledged
  BY DEF LoginSucceeds
<1>8. Counted'
  BY <1>6, <1>7 DEF Chain, Counted, Born
<1>9. cookie # Null => cookie.session # s /\ cookie.session \in Sessions
  BY <1>6 DEF Chain, JarIsAcknowledged, Born, CookieTypeOK, Cookie
<1>10. JarIsAcknowledged'
  BY <1>6, <1>7, <1>9 DEF Chain, JarIsAcknowledged, Born
<1>11. \A i \in InFlight' : /\ requests'[i].token = Named(i)
                            /\ Named(i) # Null => Named(i).session # s /\ Named(i).session \in Sessions
  <2> SUFFICES ASSUME NEW i \in InFlight'
               PROVE  /\ requests'[i].token = Named(i)
                      /\ Named(i) # Null => Named(i).session # s /\ Named(i).session \in Sessions
    OBVIOUS
  <2>1. i \in InFlight /\ requests'[i].token = Named(i)
    BY <1>3, <1>4, <1>5 DEF Named
  <2>2. Named(i) # Null => Named(i).session # s
    BY <1>6, <2>1 DEF Chain, TokensAreAcknowledged, Born
  <2> QED
    BY <2>1, <2>2, RequestFacts
<1>12. TokensAreAcknowledged'
  BY <1>5, <1>6, <1>7, <1>11 DEF Chain, TokensAreAcknowledged, Born, Named
<1>13. OneExchange'
  <2>1. \A i \in InFlight' : Pending(requests'[i]) =>
          /\ i \in InFlight /\ requests'[i] = requests[i] /\ Named(i).session \in Sessions
          /\ families'[Named(i).session] = families[Named(i).session]
    <3> SUFFICES ASSUME NEW i \in InFlight', Pending(requests'[i])
                 PROVE  /\ i \in InFlight /\ requests'[i] = requests[i]
                        /\ Named(i).session \in Sessions
                        /\ families'[Named(i).session] = families[Named(i).session]
      OBVIOUS
    <3>1. i \in InFlight /\ requests'[i] = requests[i]
      BY <1>4, <1>5
    <3>2. Named(i) # Null
      BY <3>1, RequestFacts
    <3> QED
      BY <1>6, <1>11, <3>1, <3>2
  <2> QED
    BY <1>7, <2>1 DEF Chain, OneExchange, Named
<1>14. LoginsAreFresh'
  <2>1. \A i \in InFlight' : i # r /\ LoggingIn(requests'[i]) =>
          /\ i \in InFlight /\ requests'[i] = requests[i]
          /\ requests[i].given.session \in Sessions /\ requests[i].given.session # s
    <3> SUFFICES ASSUME NEW i \in InFlight', i # r, LoggingIn(requests'[i])
                 PROVE  /\ i \in InFlight /\ requests'[i] = requests[i]
                        /\ requests[i].given.session \in Sessions
                        /\ requests[i].given.session # s
      OBVIOUS
    <3>1. i \in InFlight /\ requests'[i] = requests[i]
      BY <1>5
    <3>2. requests[i].given.session \in Sessions
      BY <3>1, RequestFacts DEF LoggingIn
    <3>3. Born(requests[i].given.session)
      BY <3>1 DEF Chain, LoginsAreFresh
    <3> QED
      BY <1>6, <3>1, <3>2, <3>3 DEF Born
  <2> SUFFICES ASSUME NEW i \in InFlight', LoggingIn(requests'[i])
               PROVE  LET t == requests'[i].given.session
                      IN  /\ families'[t].state # "unborn" /\ families'[t].generation = 0
                          /\ cookie' # Null => cookie'.session # t
                          /\ \A j \in InFlight' :
                               /\ requests'[j].token # Null => requests'[j].token.session # t
                               /\ LoggingIn(requests'[j]) /\ requests'[j].given.session = t => j = i
    BY DEF LoginsAreFresh, Named, Born
  <2>2. CASE i = r
    <3>1. requests'[i].given.session = s
      BY <1>4, <1>5, <2>2
    <3> QED
      BY <1>6, <1>7, <1>9, <1>11, <2>1, <2>2, <3>1
  <2>3. CASE i # r
    <3>1. /\ i \in InFlight /\ requests'[i] = requests[i] /\ LoggingIn(requests[i])
          /\ requests[i].given.session \in Sessions /\ requests[i].given.session # s
      BY <2>1, <2>3
    <3>2. families'[requests[i].given.session] = families[requests[i].given.session]
      BY <1>6, <3>1
    <3>3. \A j \in InFlight' :
            /\ requests'[j].token # Null => requests'[j].token.session # requests[i].given.session
            /\ LoggingIn(requests'[j]) /\ requests'[j].given.session = requests[i].given.session
                 => j = i
      BY <1>4, <1>5, <1>11, <2>1, <3>1 DEF Chain, LoginsAreFresh
    <3> QED
      BY <1>7, <3>1, <3>2, <3>3 DEF Chain, LoginsAreFresh, Born
  <2> QED
    BY <2>2, <2>3
<1> QED
  BY <1>8, <1>10, <1>12, <1>13, <1>14 DEF Chain

LEMMA RotationKeepsChain ==
  ASSUME CookieTypeOK, Shapes, Chain, NEW r \in InFlight, RefreshRotates(r)
  PROVE  Chain'
<1> DEFINE q == [requests[r] EXCEPT !.at = "rotated"]
<1>1. q \in Request /\ Becomes(r, q)
  BY Moves DEF RefreshRotates
<1>2. PICK s \in Sessions : s = Named(r).session
  BY RequestFacts DEF RefreshRotates
<1>3. /\ requests[r].kind = "refresh" /\ requests[r].at = "sent" /\ Named(r) # Null
      /\ Named(r).generation = families[s].generation
      /\ Exchange(s) /\ cookie' = cookie /\ acknowledged' = acknowledged
  BY <1>2 DEF RefreshRotates, At, IsCurrent
<1>4. q.token = Named(r) /\ ~LoggingIn(q) /\ ~Pending(requests[r])
  BY <1>3, InFlightType, RequestFacts DEF Request, LoggingIn, Named
<1> HIDE DEF q
<1>5. \A i \in InFlight' : /\ i \in InFlight
                           /\ i # r => requests'[i] = requests[i]
                           /\ i = r => requests'[i] = q
                           /\ requests'[i].token = Named(i)
  BY <1>1, <1>4, InFlightType, BecomesType DEF InFlight, Named
<1>6. /\ families[s].state = "live" /\ families'[s].state = "live"
      /\ families'[s].generation = families[s].generation + 1
      /\ families[s].generation \in Nat
      /\ \A i \in Sessions : i # s => families'[i] = families[i]
  BY <1>3 DEF Exchange, Live, CookieTypeOK, Family
\* The token was sent with every exchange acknowledged.
<1>7. acknowledged[s] = families[s].generation /\ acknowledged[s] \in Nat
  BY <1>2, <1>3, <1>6 DEF Chain, TokensAreAcknowledged, Counted, CookieTypeOK
<1>8. \A i \in InFlight : Pending(requests[i]) => Named(i).session # s /\ Named(i).session \in Sessions
  BY <1>6, <1>7, RequestFacts DEF Chain, OneExchange
<1>9. \A i \in InFlight : LoggingIn(requests[i]) =>
        requests[i].given.session # s /\ requests[i].given.session \in Sessions
  BY <1>2, <1>3, RequestFacts DEF Chain, LoginsAreFresh, LoggingIn
<1>10. Counted'
  BY <1>3, <1>6, <1>7 DEF Chain, Counted, Born
<1>11. JarIsAcknowledged'
  <2>1. cookie # Null => cookie.session \in Sessions
    BY DEF CookieTypeOK, Cookie
  <2> QED
    BY <1>3, <1>6, <2>1 DEF Chain, JarIsAcknowledged, Born
<1>12. TokensAreAcknowledged'
  <2> SUFFICES ASSUME NEW i \in InFlight', requests'[i].token # Null
               PROVE  /\ families'[requests'[i].token.session].state # "unborn"
                      /\ requests'[i].token.generation <= acknowledged'[requests'[i].token.session]
    BY DEF TokensAreAcknowledged, Born, Named
  <2>1. i \in InFlight /\ requests'[i].token = Named(i) /\ Named(i).session \in Sessions
    BY <1>5, RequestFacts
  <2> QED
    BY <1>3, <1>6, <2>1 DEF Chain, TokensAreAcknowledged, Born
<1>13. OneExchange'
  <2>1. \A i \in InFlight' : i # r /\ Pending(requests'[i]) =>
          /\ i \in InFlight /\ Pending(requests[i])
          /\ Named(i).session \in Sessions /\ Named(i).session # s
          /\ families'[Named(i).session] = families[Named(i).session]
    BY <1>5, <1>6, <1>8
  <2>2. \A i \in InFlight' : Pending(requests'[i]) =>
          /\ Named(i).generation = acknowledged'[Named(i).session]
          /\ acknowledged'[Named(i).session] + 1 = families'[Named(i).session].generation
    BY <1>2, <1>3, <1>6, <1>7, <2>1 DEF Chain, OneExchange
  <2>3. \A i, j \in InFlight' :
          /\ Pending(requests'[i]) /\ Pending(requests'[j])
          /\ Named(i).session = Named(j).session
          => i = j
    BY <1>2, <2>1 DEF Chain, OneExchange
  <2> QED
    BY <1>5, <2>2, <2>3 DEF OneExchange, Named
<1>14. LoginsAreFresh'
  <2>1. \A i \in InFlight' : LoggingIn(requests'[i]) =>
          /\ i \in InFlight /\ requests'[i] = requests[i]
          /\ families'[requests[i].given.session] = families[requests[i].given.session]
    BY <1>4, <1>5, <1>6, <1>9
  <2> QED
    BY <1>3, <1>5, <2>1 DEF Chain, LoginsAreFresh, Named, Born
<1> QED
  BY <1>10, <1>11, <1>12, <1>13, <1>14 DEF Chain

\* The answer of a refresh arrives.
LEMMA ExchangedKeepsChain ==
  ASSUME CookieTypeOK, Shapes, Chain, NEW r \in InFlight, Receive(r),
         requests[r].effect = "set", requests[r].kind = "refresh"
  PROVE  Chain'
<1>1. PICK s \in Sessions : s = Named(r).session
  BY RequestFacts DEF Pending
<1>2. /\ Pending(requests[r]) /\ Named(r) # Null
      /\ requests[r].grants = s /\ requests[r].given.session = s
      /\ requests[r].given.generation = acknowledged[s] + 1
      /\ families[s].generation = acknowledged[s] + 1
  BY <1>1, RequestFacts DEF Pending, Chain, OneExchange
<1>3. /\ cookie' = requests[r].given /\ families' = families
      /\ acknowledged' = [acknowledged EXCEPT ![s] = @ + 1]
      /\ Becomes(r, Null)
  BY <1>2 DEF Receive, Forget, Becomes
<1>4. \A i \in InFlight' : i \in InFlight /\ i # r /\ requests'[i] = requests[i]
  BY <1>3, InFlightType, BecomesType DEF InFlight
<1>5. /\ acknowledged'[s] = acknowledged[s] + 1 /\ acknowledged[s] \in Nat
      /\ \A i \in Sessions : i # s => acknowledged'[i] = acknowledged[i]
      /\ \A i \in Sessions : acknowledged[i] \in Nat
  BY <1>3 DEF CookieTypeOK
<1>6. Born(s)
  BY <1>1, <1>2 DEF Chain, TokensAreAcknowledged
<1>7. Counted'
  BY <1>2, <1>3, <1>5 DEF Chain, Counted, Born
<1>8. JarIsAcknowledged'
  BY <1>2, <1>3, <1>5, <1>6 DEF JarIsAcknowledged, Born
<1>9. TokensAreAcknowledged'
  <2> SUFFICES ASSUME NEW i \in InFlight', requests'[i].token # Null
               PROVE  /\ families[requests'[i].token.session].state # "unborn"
                      /\ requests'[i].token.generation <= acknowledged'[requests'[i].token.session]
    BY <1>3 DEF TokensAreAcknowledged, Born, Named
  <2>1. /\ i \in InFlight /\ requests'[i].token = Named(i)
        /\ Named(i).session \in Sessions /\ Named(i).generation \in Nat
    BY <1>4, RequestFacts DEF Named
  <2>2. Born(Named(i).session) /\ Named(i).generation <= acknowledged[Named(i).session]
    BY <2>1 DEF Chain, TokensAreAcknowledged
  <2> QED
    BY <1>5, <2>1, <2>2 DEF Born
<1>10. OneExchange'
  <2>1. \A i \in InFlight' : Pending(requests'[i]) =>
          /\ i \in InFlight /\ requests'[i] = requests[i]
          /\ Named(i).session \in Sessions /\ Named(i).session # s
          /\ acknowledged'[Named(i).session] = acknowledged[Named(i).session]
    BY <1>1, <1>2, <1>4, <1>5, RequestFacts DEF Chain, OneExchange
  <2> QED
    BY <1>3, <2>1 DEF Chain, OneExchange, Named
<1>11. LoginsAreFresh'
  <2>1. \A i \in InFlight : LoggingIn(requests[i]) => requests[i].given.session # s
    BY <1>1, <1>2 DEF Chain, LoginsAreFresh
  <2> QED
    BY <1>2, <1>3, <1>4, <2>1 DEF Chain, LoginsAreFresh, Named, Born
<1> QED
  BY <1>7, <1>8, <1>9, <1>10, <1>11 DEF Chain

\* The answer of a login arrives.
LEMMA LoggedInKeepsChain ==
  ASSUME CookieTypeOK, Shapes, Chain, NEW r \in InFlight, Receive(r),
         requests[r].effect = "set", requests[r].kind = "login"
  PROVE  Chain'
<1>1. PICK s \in Sessions : s = requests[r].given.session
  BY RequestFacts
<1>2. LoggingIn(requests[r]) /\ requests[r].given.generation = 0
  BY RequestFacts DEF LoggingIn
<1>3. /\ cookie' = requests[r].given /\ families' = families /\ acknowledged' = acknowledged
      /\ Becomes(r, Null)
  BY DEF Receive, Forget, Becomes
<1>4. \A i \in InFlight' : i \in InFlight /\ i # r /\ requests'[i] = requests[i]
  BY <1>3, InFlightType, BecomesType DEF InFlight
<1>5. Born(s) /\ families[s].generation = 0 /\ acknowledged[s] = 0
  BY <1>1, <1>2 DEF Chain, LoginsAreFresh, Counted, CookieTypeOK
<1>6. Counted' /\ JarIsAcknowledged'
  BY <1>1, <1>2, <1>3, <1>5 DEF Chain, Counted, JarIsAcknowledged, Born
<1>7. TokensAreAcknowledged' /\ OneExchange'
  BY <1>3, <1>4 DEF Chain, TokensAreAcknowledged, OneExchange, Named, Born
<1>8. LoginsAreFresh'
  <2>1. \A i \in InFlight : i # r /\ LoggingIn(requests[i]) => requests[i].given.session # s
    BY <1>1, <1>2 DEF Chain, LoginsAreFresh
  <2> QED
    BY <1>1, <1>3, <1>4, <2>1 DEF Chain, LoginsAreFresh, Named, Born
<1> QED
  BY <1>6, <1>7, <1>8 DEF Chain

\* An answer that brings no token arrives, or any answer is lost.
LEMMA ForgottenIsQuiet ==
  ASSUME CookieTypeOK, NEW r \in InFlight,
         Lose(r) \/ (Receive(r) /\ requests[r].effect # "set")
  PROVE  Quiet
<1>1. Becomes(r, Null)
  BY DEF Receive, Lose, Forget, Becomes
<1>2. \A i \in InFlight' : i \in InFlight /\ requests'[i] = requests[i]
  BY <1>1, InFlightType, BecomesType DEF InFlight
<1>3. families' = families /\ acknowledged' = acknowledged /\ cookie' \in {cookie, Null}
  BY DEF Receive, Lose
<1> QED
  BY <1>2, <1>3 DEF Quiet

LEMMA UpdateIsQuiet ==
  ASSUME CookieTypeOK, NEW r \in InFlight, NEW q \in Request, Becomes(r, q),
         q.token = requests[r].token, Pending(q) => Pending(requests[r]), ~LoggingIn(q),
         MayEnd, UNCHANGED <<acknowledged, cookie>>
  PROVE  Quiet
<1>1. \A i \in InFlight' : /\ i \in InFlight
                           /\ i # r => requests'[i] = requests[i]
                           /\ i = r => requests'[i] = q
  BY InFlightType, BecomesType DEF InFlight
<1> QED
  BY <1>1, EndsOnly DEF Quiet

LEMMA StepChain ==
  ASSUME CookieTypeOK, Shapes, Chain, CookieStep
  PROVE  Chain'
<1>1. ASSUME NEW r \in InFlight, RefreshSigns(r)
      PROVE  Quiet
  <2> DEFINE s == Named(r).session
             g == Named(r).generation + 1
             kept == s \in remembered
             given == [session |-> s, generation |-> g, kept |-> kept]
             q == AnsweredWith(r, "set", given, s, requests[r].failed)
  <2>1. requests[r].kind = "refresh" /\ Pending(requests[r]) /\ Named(r) # Null
    BY <1>1, RequestFacts DEF RefreshSigns, At, Pending
  <2>2. s \in Sessions /\ g \in Nat /\ kept \in BOOLEAN /\ SetRefreshCookie(r, s, g, kept)
    BY <1>1, <2>1, RequestFacts DEF RefreshSigns
  <2> HIDE DEF s, g, kept
  <2>3. q \in Request /\ Becomes(r, q)
    BY <2>2, SetAnswer
  <2>4. q.token = requests[r].token /\ ~LoggingIn(q)
    BY <2>1 DEF AnsweredWith, LoggingIn
  <2> HIDE DEF q
  <2> QED
    BY <1>1, <2>1, <2>3, <2>4, UpdateIsQuiet DEF RefreshSigns, MayEnd
<1>2. ASSUME NEW r \in InFlight, Clears(r)
      PROVE  Quiet
  <2>1. PICK failed \in BOOLEAN : ClearCookie(r, failed)
    BY <1>2 DEF Clears
  <2> DEFINE q == AnsweredWith(r, "clear", requests[r].given, requests[r].grants, failed)
  <2>2. q \in Request /\ Becomes(r, q)
    BY <2>1, ClearAnswer
  <2>3. q.token = requests[r].token /\ ~Pending(q) /\ ~LoggingIn(q)
    BY DEF AnsweredWith, LoggingIn, Pending
  <2> HIDE DEF q
  <2> QED
    BY <1>2, <2>2, <2>3, UpdateIsQuiet DEF Clears
<1>3. ASSUME NEW r \in InFlight, Passes(r)
      PROVE  Quiet
  <2>1. PICK at \in {"admitted", "answered"} : requests' = [requests EXCEPT ![r].at = at]
    BY <1>3 DEF Passes
  <2> DEFINE q == [requests[r] EXCEPT !.at = at]
  <2>2. q \in Request /\ Becomes(r, q)
    BY <2>1, Moves
  <2>3. requests[r].effect = "none"
    BY <1>3, RequestFacts DEF Passes, Shape
  <2>4. q.token = requests[r].token /\ ~Pending(q) /\ ~LoggingIn(q)
    BY <2>3, InFlightType DEF LoggingIn, Pending, Request
  <2> HIDE DEF q
  <2> QED
    BY <1>3, <2>2, <2>4, UpdateIsQuiet DEF Passes
<1>4. ASSUME NEW r \in InFlight, Receive(r), requests[r].effect = "set"
      PROVE  Chain'
  <2>1. requests[r].kind \in {"login", "refresh"}
    BY <1>4, RequestFacts DEF Shape
  <2> QED
    BY <1>4, <2>1, ExchangedKeepsChain, LoggedInKeepsChain
<1>5. CASE SessionsEnd
  <2>1. MayEnd /\ requests' = requests /\ acknowledged' = acknowledged /\ cookie' = cookie
    BY <1>5 DEF SessionsEnd, MayEnd
  <2>2. InFlight' = InFlight
    BY <2>1 DEF InFlight
  <2> QED
    BY <2>1, <2>2, EndsOnly, QuietKeepsChain DEF Quiet
<1>6. CASE Restart
  <2>1. /\ families' = families /\ acknowledged' = acknowledged /\ cookie' \in {cookie, Null}
        /\ requests' = [r \in Requests |->
             IF requests[r] = Null THEN Null ELSE [requests[r] EXCEPT !.heard = FALSE]]
    BY <1>6 DEF Restart
  <2>2. ASSUME NEW r \in InFlight'
        PROVE  /\ r \in InFlight
               /\ requests'[r].token = requests[r].token
               /\ Pending(requests'[r]) => Pending(requests[r])
               /\ LoggingIn(requests'[r]) => /\ LoggingIn(requests[r])
                                             /\ requests'[r].given = requests[r].given
    <3>1. r \in InFlight /\ requests'[r] = [requests[r] EXCEPT !.heard = FALSE]
      BY <2>1 DEF InFlight
    <3>2. requests[r] \in Request
      BY <3>1, InFlightType
    <3> QED
      BY <3>1, <3>2 DEF Request, Pending, LoggingIn
  <2> QED
    BY <2>1, <2>2, QuietKeepsChain DEF Quiet
<1> QED
  BY <1>1, <1>2, <1>3, <1>4, <1>5, <1>6, SendKeepsChain, LoginKeepsChain, RotationKeepsChain,
     ForgottenIsQuiet, QuietKeepsChain DEF CookieStep

LEMMA InitChain == CookieInit => Chain
BY DEF CookieInit, FamiliesInit, Unborn, Chain, Counted, JarIsAcknowledged,
       TokensAreAcknowledged, OneExchange, LoginsAreFresh, InFlight, Born

LEMMA StutterChain ==
  ASSUME Chain, UNCHANGED cookieVars
  PROVE  Chain'
BY DEF cookieVars, Chain, Counted, JarIsAcknowledged, TokensAreAcknowledged, OneExchange,
       LoginsAreFresh, InFlight, Born, Named

LEMMA ChainHolds == CookieSpec => [](CookieTypeOK /\ Shapes /\ Chain)
<1>1. CookieTypeOK /\ Shapes /\ Chain /\ [CookieNext]_cookieVars
        => CookieTypeOK' /\ Shapes' /\ Chain'
  BY NextIsCookieStep, StepShapes, StutterShapes, StepChain, StutterChain
<1> QED
  BY InitShapes, InitChain, <1>1, PTL DEF CookieSpec

\* However requests, answers and restarts of the browser overlap, the token
\* in its jar is the newest it was ever answered.
THEOREM JarMovesForward == CookieSpec => []TokensMoveForward
<1>1. Chain => TokensMoveForward
  BY DEF Chain, JarIsAcknowledged, TokensMoveForward
<1> QED
  BY ChainHolds, <1>1, PTL

----------------------------------------------------------------------------
(* Who loses the cookie *)

\* An ended session stays ended, whatever the step.
LEMMA DeadStaysDead ==
  ASSUME CookieTypeOK, Shapes, CookieStep, NEW s \in Sessions, Born(s), s \notin Live
  PROVE  s \notin Live'
<1>1. families[s].state # "unborn" /\ families[s].state # "live"
  BY DEF Born, Live
<1>2. ASSUME MayEnd
      PROVE  s \notin Live'
  BY <1>1, <1>2, EndsOnly DEF Live
<1>3. ASSUME families' = families
      PROVE  s \notin Live'
  BY <1>3 DEF Live
<1>4. ASSUME NEW i \in Sessions, Open(i) \/ Exchange(i)
      PROVE  s \notin Live'
  <2>1. families[i] # families[s]
    BY <1>1, <1>4 DEF Open, Unborn, Exchange, Live
  <2>2. families'[s] = families[s]
    BY <1>4, <2>1 DEF Open, Exchange, CookieTypeOK
  <2> QED
    BY <1>1, <2>2 DEF Live
<1>5. ASSUME NEW r \in InFlight, RefreshRotates(r)
      PROVE  s \notin Live'
  BY <1>4, <1>5, RequestFacts DEF RefreshRotates
<1> QED
  BY <1>2, <1>3, <1>4, <1>5
     DEF CookieStep, Send, LoginSucceeds, RefreshSigns, Clears, Passes, Receive, Lose,
         SessionsEnd, MayEnd, Restart

\* What a refresh or a logout clears is over when it does: a token the
\* history does not know cannot be ahead of its session.
LEMMA ClearingEnds ==
  ASSUME CookieTypeOK, Shapes, Chain, NEW r \in InFlight, Named(r) # Null,
         \/ RefreshReused(r) \/ RefreshInactive(r) \/ RefreshRejected(r)
         \/ LogoutRevokes(r) \/ LogoutIgnored(r)
  PROVE  Named(r).session \notin Live'
<1> DEFINE s == Named(r).session
<1>1. s \in Sessions /\ Named(r).generation \in Nat
  BY RequestFacts
<1>2. ASSUME End({s})
      PROVE  s \notin Live'
  <2>1. families'[s] = [families[s] EXCEPT !.state = "ended"]
    BY <1>1, <1>2 DEF End
  <2>2. families[s] \in Family
    BY <1>1 DEF CookieTypeOK
  <2> QED
    BY <2>1, <2>2 DEF Live, Family
<1>3. IsCurrent(Named(r)) \/ WasUsed(Named(r))
  <2>1. /\ Named(r).generation <= acknowledged[s] /\ acknowledged[s] <= families[s].generation
        /\ acknowledged[s] \in Nat /\ families[s].generation \in Nat
    BY <1>1 DEF Chain, TokensAreAcknowledged, Counted, CookieTypeOK, Family
  <2> HIDE DEF s
  <2>2. Named(r).generation <= families[s].generation
    BY <1>1, <2>1
  <2> QED
    BY <1>1, <2>1, <2>2 DEF IsCurrent, WasUsed, s
<1>4. ASSUME RefreshRejected(r) \/ LogoutIgnored(r)
      PROVE  s \notin Live'
  <2>1. s \notin Live /\ families' = families
    BY <1>3, <1>4 DEF RefreshRejected, LogoutIgnored
  <2> QED
    BY <2>1 DEF Live
<1> QED
  BY <1>2, <1>4 DEF RefreshReused, RefreshInactive, LogoutRevokes

LEMMA StepClearsTheDead ==
  ASSUME CookieTypeOK, Shapes, Chain, ClearedCookieIsDead, CookieNext
  PROVE  ClearedCookieIsDead'
<1> SUFFICES ASSUME NEW i \in InFlight',
                    requests'[i].kind \in {"refresh", "logout"},
                    requests'[i].effect = "clear", ~requests'[i].failed,
                    requests'[i].token # Null
             PROVE  requests'[i].token.session \notin Live'
  BY DEF ClearedCookieIsDead, Named
<1>1. CookieStep
  BY NextIsCookieStep
\* A request that carries the clearing header already.
<1>2. ASSUME i \in InFlight, requests[i].effect = "clear", requests[i].token = requests'[i].token,
             requests[i].kind = requests'[i].kind, requests[i].failed = requests'[i].failed
      PROVE  requests'[i].token.session \notin Live'
  <2>1. Named(i) # Null /\ Named(i).session \notin Live
    BY <1>2 DEF ClearedCookieIsDead, Named
  <2>2. Named(i).session \in Sessions /\ Born(Named(i).session)
    BY <1>2, <2>1, RequestFacts DEF Chain, TokensAreAcknowledged
  <2> QED
    BY <1>1, <1>2, <2>1, <2>2, DeadStaysDead DEF Named
<1>3. ASSUME NEW r \in Requests, NEW q \in Request, Becomes(r, q), i # r
      PROVE  requests'[i].token.session \notin Live'
  <2>1. i \in InFlight /\ requests'[i] = requests[i]
    BY <1>3, BecomesType DEF InFlight
  <2> QED
    BY <1>2, <2>1
<1>4. ASSUME NEW r \in Requests, NEW q \in Request, Becomes(r, q), q.effect # "clear"
      PROVE  requests'[i].token.session \notin Live'
  <2>1. i # r
    BY <1>4, BecomesType
  <2> QED
    BY <1>3, <1>4, <2>1
<1>5. ASSUME NEW r \in InFlight,
             \/ RefreshReused(r) \/ RefreshInactive(r) \/ RefreshRejected(r)
             \/ LogoutRevokes(r) \/ LogoutIgnored(r)
             \/ ResetSucceeds(r) \/ RefreshNotSigned(r) \/ RefreshFails(r)
      PROVE  requests'[i].token.session \notin Live'
  <2>1. PICK failed \in BOOLEAN :
          /\ ClearCookie(r, failed)
          /\ RefreshNotSigned(r) \/ RefreshFails(r) => failed
    BY <1>5 DEF RefreshReused, RefreshInactive, RefreshRejected, LogoutRevokes, LogoutIgnored,
         ResetSucceeds, RefreshNotSigned, RefreshFails
  <2> DEFINE q == AnsweredWith(r, "clear", requests[r].given, requests[r].grants, failed)
  <2>2. q \in Request /\ Becomes(r, q)
    BY <2>1, ClearAnswer
  <2>3. q.kind = requests[r].kind /\ q.token = requests[r].token /\ q.failed = failed
    BY DEF AnsweredWith
  <2> HIDE DEF q
  <2>4. CASE i # r
    BY <1>3, <2>2, <2>4, InFlightType
  <2>5. CASE i = r
    <3>1. requests'[i] = q
      BY <2>2, <2>5, InFlightType, BecomesType
    <3>2. ~failed /\ requests[r].kind # "reset" /\ Named(r) # Null
      BY <2>3, <3>1 DEF Named
    <3>3. \/ RefreshReused(r) \/ RefreshInactive(r) \/ RefreshRejected(r)
          \/ LogoutRevokes(r) \/ LogoutIgnored(r)
      BY <1>5, <2>1, <3>2 DEF ResetSucceeds, At
    <3>4. Named(r).session \notin Live'
      BY <3>2, <3>3, ClearingEnds
    <3> QED
      BY <2>3, <3>1, <3>4 DEF Named
  <2> QED
    BY <2>4, <2>5
<1>6. ASSUME NEW r \in Requests, NEW kind \in Kinds, NEW remember \in BOOLEAN,
             Send(r, kind, remember)
      PROVE  requests'[i].token.session \notin Live'
  BY <1>4, <1>6, SendType
<1>7. ASSUME NEW r \in InFlight, LoginSucceeds(r) \/ RefreshSigns(r)
      PROVE  requests'[i].token.session \notin Live'
  <2>1. PICK s \in Sessions, g \in Nat, kept \in BOOLEAN : SetRefreshCookie(r, s, g, kept)
    <3>1. CASE LoginSucceeds(r)
      BY <3>1, InFlightType DEF LoginSucceeds
    <3>2. CASE RefreshSigns(r)
      <4>1. Named(r).session \in Sessions /\ Named(r).generation + 1 \in Nat
        BY <3>2, RequestFacts DEF RefreshSigns, At, Pending
      <4>2. (Named(r).session \in remembered) \in BOOLEAN
        OBVIOUS
      <4> QED
        BY <3>2, <4>1, <4>2 DEF RefreshSigns
    <3> QED
      BY <1>7, <3>1, <3>2
  <2> DEFINE given == [session |-> s, generation |-> g, kept |-> kept]
             q == AnsweredWith(r, "set", given, s, requests[r].failed)
  <2>2. q \in Request /\ Becomes(r, q)
    BY <2>1, SetAnswer
  <2>3. q.effect = "set"
    BY DEF AnsweredWith
  <2> HIDE DEF q
  <2> QED
    BY <1>4, <2>2, <2>3, InFlightType
<1>8. ASSUME NEW r \in InFlight, NEW at \in {"rotated", "admitted", "answered"},
             requests' = [requests EXCEPT ![r].at = at]
      PROVE  requests'[i].token.session \notin Live'
  <2> DEFINE q == [requests[r] EXCEPT !.at = at]
  <2>1. q \in Request /\ Becomes(r, q)
    BY <1>8, Moves
  <2>2. /\ q.effect = requests[r].effect /\ q.token = requests[r].token
        /\ q.kind = requests[r].kind /\ q.failed = requests[r].failed
    BY InFlightType DEF Request
  <2> HIDE DEF q
  <2>3. CASE i = r
    <3>1. requests'[i] = q
      BY <2>1, <2>3, InFlightType, BecomesType
    <3> QED
      BY <1>2, <2>2, <2>3, <3>1
  <2> QED
    BY <1>3, <2>1, <2>3, InFlightType
<1>9. ASSUME NEW r \in InFlight,
             RefreshRotates(r) \/ GuardAdmits(r) \/ ChangeSucceeds(r) \/ Rejected(r)
      PROVE  requests'[i].token.session \notin Live'
  BY <1>8, <1>9 DEF RefreshRotates, GuardAdmits, ChangeSucceeds, Rejected, LeaveCookie
<1>10. ASSUME NEW r \in InFlight, Receive(r) \/ Lose(r)
       PROVE  requests'[i].token.session \notin Live'
  <2>1. Becomes(r, Null)
    BY <1>10 DEF Receive, Lose, Forget, Becomes
  <2>2. i \in InFlight /\ requests'[i] = requests[i]
    BY <2>1, InFlightType, BecomesType DEF InFlight
  <2> QED
    BY <1>2, <2>2
<1>11. CASE SessionsEnd
  BY <1>2, <1>11 DEF SessionsEnd, InFlight
<1>12. CASE Restart
  <2>1. i \in InFlight /\ requests'[i] = [requests[i] EXCEPT !.heard = FALSE]
    BY <1>12 DEF Restart, InFlight
  <2>2. requests[i] \in Request
    BY <2>1, InFlightType
  <2> QED
    BY <1>2, <2>1, <2>2 DEF Request
<1>13. ASSUME NEW r \in Requests, Answers(r)
       PROVE  r \in InFlight
  BY <1>13 DEF Answers, LoginSucceeds, RefreshRotates, RefreshSigns, RefreshNotSigned,
       RefreshReused, RefreshInactive, RefreshRejected, RefreshFails, LogoutRevokes,
       LogoutIgnored, ResetSucceeds, GuardAdmits, ChangeSucceeds, Rejected, At
<1>14. ASSUME NEW r \in Requests, Receive(r) \/ Lose(r)
       PROVE  r \in InFlight
  BY <1>14 DEF Receive, Lose
<1> QED
  BY <1>5, <1>6, <1>7, <1>9, <1>10, <1>11, <1>12, <1>13, <1>14 DEF CookieNext, Answers

\* Only a failure of the service takes the cookie of a session that lives; a
\* logout that was answered has worked.
THEOREM OnlyTheDeadAreCleared == CookieSpec => []ClearedCookieIsDead
<1>1. CookieInit => ClearedCookieIsDead
  BY DEF CookieInit, ClearedCookieIsDead, InFlight
<1>2. ClearedCookieIsDead /\ UNCHANGED cookieVars => ClearedCookieIsDead'
  BY DEF cookieVars, ClearedCookieIsDead, InFlight, Named, Live
<1>3. CookieTypeOK /\ Shapes /\ Chain /\ ClearedCookieIsDead /\ [CookieNext]_cookieVars
        => ClearedCookieIsDead'
  BY <1>2, StepClearsTheDead
<1> QED
  BY ChainHolds, <1>1, <1>3, PTL DEF CookieSpec

----------------------------------------------------------------------------
(* The careful browser *)

\* is_persistent goes with the session, from its login through every cookie.
PersistenceHandedOn ==
  /\ \A s \in remembered : Born(s)
  /\ cookie # Null => (cookie.kept <=> cookie.session \in remembered)
  /\ \A r \in InFlight : requests[r].effect = "set" =>
       (requests[r].given.kept <=> requests[r].given.session \in remembered)

\* One request at a time.
Alone == careful => \A r, i \in InFlight : r = i

\* Its answer, when it is heard, takes the browser off the token it presented.
Moving(q) == Pending(q) \/ q.failed

\* Everything a careful browser has, or sent, is of the session it is logged
\* in with; the cookie is behind at most by the answer it waits for.
AtHome ==
  /\ mine # Null => Born(mine)
  /\ careful /\ mine \in Live =>
       /\ cookie # Null /\ cookie.session = mine
       /\ access \in {mine, Null}
       /\ \A r \in InFlight :
            /\ requests[r].kind \in {"refresh", "logout"} =>
                 Named(r) # Null /\ Named(r).session = mine
            /\ requests[r].kind = "change" => requests[r].bearer = mine
       /\ (\E r \in InFlight : Moving(requests[r]))
            \/ cookie.generation = families[mine].generation

Careful == PersistenceHandedOn /\ Alone /\ AtHome

LEMMA MineIsLive ==
  ASSUME CookieTypeOK, Shapes, AtHome, CookieStep, mine \in Live', mine # Null
  PROVE  mine \in Live /\ mine \in Sessions
BY DeadStaysDead DEF AtHome, CookieTypeOK

LEMMA BornStaysBorn ==
  ASSUME CookieTypeOK, Shapes, CookieStep, NEW s \in Sessions, Born(s)
  PROVE  families'[s].state # "unborn"
<1>1. ASSUME MayEnd
      PROVE  families'[s].state # "unborn"
  BY <1>1, EndsOnly DEF Born
<1>2. ASSUME NEW i \in Sessions, Open(i) \/ Exchange(i)
      PROVE  families'[s].state # "unborn"
  <2>1. CASE i # s
    BY <1>2, <2>1 DEF Open, Exchange, CookieTypeOK, Born
  <2>2. CASE i = s
    BY <1>2, <2>2 DEF Open, Exchange, CookieTypeOK, Born, Unborn, Family
  <2> QED
    BY <2>1, <2>2
<1>3. ASSUME NEW r \in InFlight, RefreshRotates(r)
      PROVE  families'[s].state # "unborn"
  BY <1>2, <1>3, RequestFacts DEF RefreshRotates
<1> QED
  BY <1>1, <1>2, <1>3
     DEF CookieStep, Send, LoginSucceeds, RefreshSigns, Clears, Passes, Receive, Lose,
         SessionsEnd, MayEnd, Restart, Born

\* A step that changes neither what the browser has nor what it has sent.
Steady ==
  /\ UNCHANGED <<cookie, access, mine>>
  /\ careful' => careful
  /\ mine \in Live => families'[mine].generation = families[mine].generation
  /\ \A r \in InFlight' : /\ r \in InFlight
                          /\ requests'[r].kind = requests[r].kind
                          /\ requests'[r].token = requests[r].token
                          /\ requests'[r].bearer = requests[r].bearer
  /\ \A r \in InFlight : Moving(requests[r]) =>
       r \in InFlight' /\ Moving(requests'[r])

LEMMA SteadyIsCareful ==
  ASSUME CookieTypeOK, Shapes, CookieStep, Alone, AtHome, Steady
  PROVE  Alone' /\ AtHome'
<1>1. Alone'
  BY DEF Alone, Steady
<1>2. mine' # Null => families'[mine'].state # "unborn"
  BY BornStaysBorn DEF AtHome, Steady, CookieTypeOK
<1>3. ASSUME careful', mine \in Live'
      PROVE  /\ cookie # Null /\ cookie.session = mine
             /\ access \in {mine, Null}
             /\ \A r \in InFlight' :
                  /\ requests'[r].kind \in {"refresh", "logout"} =>
                       requests'[r].token # Null /\ requests'[r].token.session = mine
                  /\ requests'[r].kind = "change" => requests'[r].bearer = mine
             /\ (\E r \in InFlight' : Moving(requests'[r]))
                  \/ cookie.generation = families'[mine].generation
  <2>1. mine # Null
    BY <1>3 DEF Live
  <2>2. careful /\ mine \in Live
    BY <1>3, <2>1, MineIsLive DEF Steady
  <2> QED
    BY <1>3, <2>2 DEF AtHome, Steady, Named
<1>4. UNCHANGED <<cookie, access, mine>>
  BY DEF Steady
<1>5. AtHome'
  BY <1>2, <1>3, <1>4 DEF AtHome, Named, Born
<1> QED
  BY <1>1, <1>5

LEMMA UpdateIsSteady ==
  ASSUME CookieTypeOK, NEW r \in InFlight, NEW q \in Request, Becomes(r, q),
         q.kind = requests[r].kind, q.token = requests[r].token, q.bearer = requests[r].bearer,
         UNCHANGED <<cookie, access, mine>>, careful' => careful,
         Moving(requests[r]) => Moving(q),
         mine \in Live => families'[mine].generation = families[mine].generation
  PROVE  Steady
<1>1. \A i \in InFlight' : /\ i \in InFlight
                           /\ i # r => requests'[i] = requests[i]
                           /\ i = r => requests'[i] = q
  BY InFlightType, BecomesType DEF InFlight
<1>2. \A i \in InFlight : i \in InFlight'
  BY InFlightType, BecomesType DEF InFlight
<1> QED
  BY <1>1, <1>2 DEF Steady

LEMMA SameGeneration ==
  ASSUME CookieTypeOK, MayEnd, mine \in Live
  PROVE  families'[mine].generation = families[mine].generation
BY EndsOnly DEF Live

LEMMA StepPersistence ==
  ASSUME CookieTypeOK, Shapes, Chain, PersistenceHandedOn, CookieStep
  PROVE  PersistenceHandedOn'
<1>1. \A s \in Sessions : Born(s) => families'[s].state # "unborn"
  BY BornStaysBorn
<1>2. remembered \subseteq Sessions
  BY DEF CookieTypeOK
\* A step that hands out no cookie.
<1>3. ASSUME remembered' = remembered, cookie' \in {cookie, Null},
             \A r \in InFlight' : requests'[r].effect = "set" =>
               /\ r \in InFlight /\ requests[r].effect = "set"
               /\ requests'[r].given = requests[r].given
      PROVE  PersistenceHandedOn'
  BY <1>1, <1>2, <1>3 DEF PersistenceHandedOn, Born
<1>4. ASSUME NEW r \in Requests, NEW q \in Request, Becomes(r, q), q.effect # "set",
             remembered' = remembered, cookie' \in {cookie, Null}
      PROVE  PersistenceHandedOn'
  <2>1. \A i \in InFlight' : /\ i = r => requests'[i] = q
                             /\ i # r => i \in InFlight /\ requests'[i] = requests[i]
    BY <1>4, BecomesType DEF InFlight
  <2> QED
    BY <1>3, <1>4, <2>1
<1>5. ASSUME NEW r \in Requests, NEW kind \in Kinds, NEW remember \in BOOLEAN,
             Send(r, kind, remember)
      PROVE  PersistenceHandedOn'
  BY <1>4, <1>5, SendType DEF Send
<1>6. ASSUME NEW r \in InFlight, LoginSucceeds(r)
      PROVE  PersistenceHandedOn'
  <2>1. PICK s \in Sessions :
          /\ Open(s)
          /\ remembered' = IF requests[r].remember THEN remembered \cup {s} ELSE remembered
          /\ SetRefreshCookie(r, s, 0, requests[r].remember)
    BY <1>6 DEF LoginSucceeds
  <2> DEFINE given == [session |-> s, generation |-> 0, kept |-> requests[r].remember]
             q == AnsweredWith(r, "set", given, s, requests[r].failed)
  <2>2. q \in Request /\ Becomes(r, q)
    BY <2>1, InFlightType, SetAnswer
  <2>3. q.given.session = s /\ (q.given.kept <=> requests[r].remember)
    BY DEF AnsweredWith
  <2> HIDE DEF q
  <2>4. \A i \in InFlight' : /\ i = r => requests'[i] = q
                             /\ i # r => i \in InFlight /\ requests'[i] = requests[i]
    BY <2>2, InFlightType, BecomesType DEF InFlight
  <2>5. ~Born(s) /\ s \notin remembered
    BY <2>1 DEF Open, Unborn, Born, PersistenceHandedOn
  <2>6. families'[s].state # "unborn"
    BY <2>1 DEF Open, Unborn, CookieTypeOK, Family
  <2>7. \A i \in remembered' : families'[i].state # "unborn"
    BY <1>1, <1>2, <2>1, <2>6 DEF PersistenceHandedOn
  <2>8. cookie' = cookie /\ (cookie # Null => cookie.session # s)
    BY <1>6, <2>5 DEF LoginSucceeds, Chain, JarIsAcknowledged
  <2>9. \A i \in InFlight : requests[i].effect = "set" => requests[i].given.session # s
    <3> SUFFICES ASSUME NEW i \in InFlight, requests[i].effect = "set"
                 PROVE  requests[i].given.session # s
      OBVIOUS
    <3>1. CASE LoggingIn(requests[i])
      BY <2>5, <3>1 DEF Chain, LoginsAreFresh
    <3>2. CASE Pending(requests[i])
      <4>1. Named(i) # Null /\ requests[i].given.session = Named(i).session
        BY <3>2, RequestFacts
      <4> QED
        BY <2>5, <4>1 DEF Chain, TokensAreAcknowledged
    <3> QED
      BY <3>1, <3>2, RequestFacts DEF Shape, LoggingIn, Pending
  <2>10. \A i \in InFlight' : requests'[i].effect = "set" =>
           (requests'[i].given.kept <=> requests'[i].given.session \in remembered')
    <3>1. CASE requests[r].remember
      BY <2>1, <2>3, <2>4, <2>5, <2>9, <3>1 DEF PersistenceHandedOn
    <3>2. CASE ~requests[r].remember
      BY <2>1, <2>3, <2>4, <2>5, <2>9, <3>2 DEF PersistenceHandedOn
    <3> QED
      BY <3>1, <3>2
  <2>11. cookie' # Null => (cookie'.kept <=> cookie'.session \in remembered')
    BY <2>1, <2>8 DEF PersistenceHandedOn
  <2> QED
    BY <2>7, <2>10, <2>11 DEF PersistenceHandedOn, Born
<1>7. ASSUME NEW r \in InFlight, RefreshSigns(r)
      PROVE  PersistenceHandedOn'
  <2> DEFINE s == Named(r).session
             g == Named(r).generation + 1
             kept == s \in remembered
             given == [session |-> s, generation |-> g, kept |-> kept]
             q == AnsweredWith(r, "set", given, s, requests[r].failed)
  <2>1. s \in Sessions /\ g \in Nat /\ kept \in BOOLEAN /\ SetRefreshCookie(r, s, g, kept)
    BY <1>7, RequestFacts DEF RefreshSigns, At, Pending
  <2>2. q.given.session = s /\ (q.given.kept <=> s \in remembered)
    BY DEF AnsweredWith
  <2> HIDE DEF s, g, kept
  <2>3. q \in Request /\ Becomes(r, q)
    BY <2>1, SetAnswer
  <2> HIDE DEF q
  <2>4. \A i \in InFlight' : /\ i = r => requests'[i] = q
                             /\ i # r => i \in InFlight /\ requests'[i] = requests[i]
    BY <2>3, InFlightType, BecomesType DEF InFlight
  <2>5. remembered' = remembered /\ cookie' = cookie /\ families' = families
    BY <1>7 DEF RefreshSigns
  <2>6. \A i \in InFlight' : requests'[i].effect = "set" =>
          (requests'[i].given.kept <=> requests'[i].given.session \in remembered)
    BY <2>2, <2>4 DEF PersistenceHandedOn
  <2> QED
    BY <2>5, <2>6 DEF PersistenceHandedOn, Born
<1>8. ASSUME NEW r \in InFlight, Clears(r)
      PROVE  PersistenceHandedOn'
  <2>1. PICK failed \in BOOLEAN : ClearCookie(r, failed)
    BY <1>8 DEF Clears
  <2>2. PICK q \in Request : Becomes(r, q) /\ q.effect # "set"
    BY <2>1, ClearAnswer DEF AnsweredWith
  <2> QED
    BY <1>4, <1>8, <2>2, InFlightType DEF Clears
<1>9. ASSUME NEW r \in InFlight, NEW at \in {"rotated", "admitted", "answered"},
             requests' = [requests EXCEPT ![r].at = at], requests[r].effect = "none",
             remembered' = remembered, cookie' = cookie
      PROVE  PersistenceHandedOn'
  <2> DEFINE q == [requests[r] EXCEPT !.at = at]
  <2>1. q \in Request /\ Becomes(r, q)
    BY <1>9, Moves
  <2>2. q.effect # "set"
    BY <1>9, InFlightType DEF Request
  <2> HIDE DEF q
  <2> QED
    BY <1>4, <1>9, <2>1, <2>2, InFlightType
<1>10. ASSUME NEW r \in InFlight, RefreshRotates(r) \/ Passes(r)
       PROVE  PersistenceHandedOn'
  <2>1. requests[r].effect = "none"
    BY <1>10, RequestFacts DEF RefreshRotates, At, Passes, Shape
  <2> QED
    BY <1>9, <1>10, <2>1 DEF RefreshRotates, Passes
<1>11. ASSUME NEW r \in InFlight, Receive(r) \/ Lose(r)
       PROVE  PersistenceHandedOn'
  <2>1. Becomes(r, Null) /\ families' = families /\ remembered' = remembered
    BY <1>11 DEF Receive, Lose, Forget, Becomes
  <2>2. \A i \in InFlight' : i \in InFlight /\ requests'[i] = requests[i]
    BY <2>1, InFlightType, BecomesType DEF InFlight
  <2>3. cookie' \in {cookie, Null} \/ (cookie' = requests[r].given /\ requests[r].effect = "set")
    BY <1>11 DEF Receive, Lose
  <2> QED
    BY <2>1, <2>2, <2>3 DEF PersistenceHandedOn, Born
<1>12. CASE SessionsEnd
  BY <1>3, <1>12 DEF SessionsEnd, InFlight
<1>13. CASE Restart
  <2>1. \A r \in InFlight' :
          r \in InFlight /\ requests'[r] = [requests[r] EXCEPT !.heard = FALSE]
    BY <1>13 DEF Restart, InFlight
  <2>2. \A r \in InFlight' : /\ requests'[r].effect = requests[r].effect
                             /\ requests'[r].given = requests[r].given
    <3> SUFFICES ASSUME NEW r \in InFlight'
                 PROVE  /\ requests'[r].effect = requests[r].effect
                        /\ requests'[r].given = requests[r].given
      OBVIOUS
    <3>1. requests[r] \in Request
      BY <2>1, InFlightType
    <3> QED
      BY <2>1, <3>1 DEF Request
  <2>3. remembered' = remembered /\ cookie' \in {cookie, Null}
    BY <1>13 DEF Restart
  <2> QED
    BY <1>3, <2>1, <2>2, <2>3
<1> QED
  BY <1>5, <1>6, <1>7, <1>8, <1>10, <1>11, <1>12, <1>13 DEF CookieStep

LEMMA StepCareful ==
  ASSUME CookieTypeOK, Shapes, Chain, ClearedCookieIsDead, Careful, CookieStep
  PROVE  Alone' /\ AtHome'
<1> USE DEF Careful
<1>1. \A s \in Sessions : Born(s) => families'[s].state # "unborn"
  BY BornStaysBorn
<1>2. ASSUME NEW r \in Requests, NEW kind \in Kinds, NEW remember \in BOOLEAN,
             Send(r, kind, remember)
      PROVE  Alone' /\ AtHome'
  <2> DEFINE q == [kind |-> kind, at |-> "sent", token |-> Carried(kind),
                   bearer |-> IF kind = "change" THEN access ELSE Null, remember |-> remember,
                   effect |-> "none", given |-> Null, grants |-> Null, failed |-> FALSE,
                   heard |-> TRUE]
  <2>1. q \in Request /\ Becomes(r, q)
    BY <1>2, SendType
  <2>2. /\ q.kind = "change" => q.bearer = access /\ access # Null
        /\ q.kind \in {"refresh", "logout"} /\ cookie # Null =>
             q.token # Null /\ q.token.session = cookie.session
    <3>1. q.kind \in {"refresh", "logout"} /\ cookie # Null =>
             /\ q.token = [session |-> cookie.session, generation |-> cookie.generation]
             /\ q.token \in Token
      BY DEF Carried, CookieTypeOK, Cookie, Token
    <3> QED
      BY <1>2, <3>1 DEF Send
  <2> HIDE DEF q
  <2>3. \A i \in InFlight' : /\ i = r => requests'[i] = q
                             /\ i # r => i \in InFlight
    BY <2>1, BecomesType DEF InFlight
  <2>4. /\ UNCHANGED <<families, cookie, access, mine>>
        /\ careful' => careful /\ InFlight = {}
    BY <1>2 DEF Send
  <2>5. Alone'
    BY <2>3, <2>4 DEF Alone
  <2>6. ASSUME careful', mine \in Live
        PROVE  /\ cookie # Null /\ cookie.session = mine
               /\ access \in {mine, Null}
               /\ \A i \in InFlight' :
                    /\ requests'[i].kind \in {"refresh", "logout"} =>
                         requests'[i].token # Null /\ requests'[i].token.session = mine
                    /\ requests'[i].kind = "change" => requests'[i].bearer = mine
               /\ cookie.generation = families[mine].generation
    <3>1. careful /\ InFlight = {}
      BY <2>4, <2>6
    <3>2. /\ cookie # Null /\ cookie.session = mine /\ access \in {mine, Null}
          /\ cookie.generation = families[mine].generation
      BY <2>6, <3>1 DEF AtHome
    <3> QED
      BY <2>2, <2>3, <3>1, <3>2
  <2>7. Live' = Live
    BY <2>4 DEF Live
  <2>8. AtHome'
    BY <2>4, <2>6, <2>7 DEF AtHome, Born, Named
  <2> QED
    BY <2>5, <2>8
<1>3. ASSUME NEW r \in InFlight, LoginSucceeds(r)
      PROVE  Alone' /\ AtHome'
  <2>1. PICK s \in Sessions : Open(s) /\ SetRefreshCookie(r, s, 0, requests[r].remember)
    BY <1>3 DEF LoginSucceeds
  <2> DEFINE given == [session |-> s, generation |-> 0, kept |-> requests[r].remember]
             q == AnsweredWith(r, "set", given, s, requests[r].failed)
  <2>2. q \in Request /\ Becomes(r, q)
    BY <2>1, InFlightType, SetAnswer
  <2>3. /\ q.kind = requests[r].kind /\ q.token = requests[r].token
        /\ q.bearer = requests[r].bearer
    BY DEF AnsweredWith
  <2> HIDE DEF q
  <2>4. ~Moving(requests[r])
    BY <1>3, RequestFacts DEF LoginSucceeds, At, Pending, Moving, Shape
  <2>5. mine \in Live => families'[mine] = families[mine]
    BY <2>1 DEF Open, Unborn, Live, CookieTypeOK
  <2> QED
    BY <1>3, <2>2, <2>3, <2>4, <2>5, UpdateIsSteady, SteadyIsCareful DEF LoginSucceeds
<1>4. ASSUME NEW r \in InFlight, RefreshRotates(r)
      PROVE  Alone' /\ AtHome'
  <2> DEFINE q == [requests[r] EXCEPT !.at = "rotated"]
  <2>1. q \in Request /\ Becomes(r, q)
    BY <1>4, Moves DEF RefreshRotates
  <2>2. requests[r].kind = "refresh"
    BY <1>4 DEF RefreshRotates, At
  <2>3. /\ q.kind = requests[r].kind /\ q.token = requests[r].token
        /\ q.bearer = requests[r].bearer /\ Moving(q)
    BY <2>2, InFlightType DEF Request, Pending, Moving
  <2> HIDE DEF q
  <2>4. \A i \in InFlight' : /\ i \in InFlight
                             /\ i # r => requests'[i] = requests[i]
                             /\ i = r => requests'[i] = q
    BY <2>1, InFlightType, BecomesType DEF InFlight
  <2>5. r \in InFlight' /\ Moving(requests'[r])
    BY <2>1, <2>3, InFlightType, BecomesType DEF InFlight
  <2>6. UNCHANGED <<cookie, access, mine, careful>>
    BY <1>4 DEF RefreshRotates
  <2>7. Alone'
    BY <2>4, <2>6 DEF Alone
  <2>8. mine # Null => families'[mine].state # "unborn"
    BY <1>1 DEF AtHome, CookieTypeOK
  <2>9. ASSUME careful, mine \in Live'
        PROVE  /\ cookie # Null /\ cookie.session = mine
               /\ access \in {mine, Null}
               /\ \A i \in InFlight' :
                    /\ requests'[i].kind \in {"refresh", "logout"} =>
                         requests'[i].token # Null /\ requests'[i].token.session = mine
                    /\ requests'[i].kind = "change" => requests'[i].bearer = mine
    <3>1. mine \in Live
      BY <2>9, MineIsLive DEF Live
    <3> QED
      BY <2>3, <2>4, <2>9, <3>1 DEF AtHome, Named
  <2>10. AtHome'
    BY <2>5, <2>6, <2>8, <2>9 DEF AtHome, Named, Born
  <2> QED
    BY <2>7, <2>10
<1>5. ASSUME NEW r \in InFlight, RefreshSigns(r)
      PROVE  Alone' /\ AtHome'
  <2> DEFINE s == Named(r).session
             g == Named(r).generation + 1
             kept == s \in remembered
             given == [session |-> s, generation |-> g, kept |-> kept]
             q == AnsweredWith(r, "set", given, s, requests[r].failed)
  <2>1. requests[r].kind = "refresh" /\ Pending(requests[r])
    BY <1>5 DEF RefreshSigns, At, Pending
  <2>2. s \in Sessions /\ g \in Nat /\ kept \in BOOLEAN /\ SetRefreshCookie(r, s, g, kept)
    BY <1>5, <2>1, RequestFacts DEF RefreshSigns
  <2> HIDE DEF s, g, kept
  <2>3. q \in Request /\ Becomes(r, q)
    BY <2>2, SetAnswer
  <2>4. /\ q.kind = requests[r].kind /\ q.token = requests[r].token
        /\ q.bearer = requests[r].bearer /\ Moving(q)
    BY <2>1 DEF AnsweredWith, Pending, Moving
  <2> HIDE DEF q
  <2> QED
    BY <1>5, <2>3, <2>4, UpdateIsSteady, SteadyIsCareful DEF RefreshSigns
<1>6. ASSUME NEW r \in InFlight, Clears(r)
      PROVE  Alone' /\ AtHome'
  <2>1. PICK failed \in BOOLEAN :
          /\ ClearCookie(r, failed)
          /\ ~failed => requests[r].at = "sent"
    BY <1>6 DEF Clears
  <2> DEFINE q == AnsweredWith(r, "clear", requests[r].given, requests[r].grants, failed)
  <2>2. q \in Request /\ Becomes(r, q)
    BY <2>1, ClearAnswer
  <2>3. /\ q.kind = requests[r].kind /\ q.token = requests[r].token
        /\ q.bearer = requests[r].bearer /\ q.failed = failed
    BY DEF AnsweredWith
  <2> HIDE DEF q
  <2>4. Moving(requests[r]) => Moving(q)
    <3>1. CASE failed
      BY <2>3, <3>1 DEF Moving
    <3>2. CASE ~failed
      BY <2>1, <3>2, RequestFacts DEF Moving, Shape
    <3> QED
      BY <3>1, <3>2
  <2>5. UNCHANGED <<cookie, access, mine, careful>> /\ MayEnd
    BY <1>6 DEF Clears
  <2> QED
    BY <2>2, <2>3, <2>4, <2>5, SameGeneration, UpdateIsSteady, SteadyIsCareful
<1>7. ASSUME NEW r \in InFlight, Passes(r)
      PROVE  Alone' /\ AtHome'
  <2>1. PICK at \in {"admitted", "answered"} : requests' = [requests EXCEPT ![r].at = at]
    BY <1>7 DEF Passes
  <2> DEFINE q == [requests[r] EXCEPT !.at = at]
  <2>2. q \in Request /\ Becomes(r, q)
    BY <2>1, Moves
  <2>3. /\ q.kind = requests[r].kind /\ q.token = requests[r].token
        /\ q.bearer = requests[r].bearer
    BY InFlightType DEF Request
  <2> HIDE DEF q
  <2>4. ~Moving(requests[r])
    BY <1>7, RequestFacts DEF Passes, Moving, Shape
  <2>5. UNCHANGED <<cookie, access, mine, careful>> /\ MayEnd
    BY <1>7 DEF Passes
  <2> QED
    BY <2>2, <2>3, <2>4, <2>5, SameGeneration, UpdateIsSteady, SteadyIsCareful
<1>8. ASSUME NEW r \in InFlight, Lose(r)
      PROVE  Alone' /\ AtHome'
  <2>1. careful' = FALSE /\ UNCHANGED <<families, mine>>
    BY <1>8 DEF Lose
  <2> QED
    BY <2>1 DEF Alone, AtHome, Born
<1>9. ASSUME NEW r \in InFlight, Receive(r)
      PROVE  Alone' /\ AtHome'
  <2>1. Becomes(r, Null) /\ families' = families /\ careful' = careful
    BY <1>9 DEF Receive, Forget, Becomes
  <2>2. \A i \in InFlight' : i \in InFlight /\ i # r /\ requests'[i] = requests[i]
    BY <2>1, InFlightType, BecomesType DEF InFlight
  <2>3. Alone' /\ (careful => InFlight' = {})
    BY <2>1, <2>2 DEF Alone
  <2>4. Live' = Live
    BY <2>1 DEF Live
  <2>5. CASE requests[r].effect = "set" /\ requests[r].kind = "login"
    <3>1. /\ LoggingIn(requests[r])
          /\ requests[r].given # Null /\ requests[r].given.generation = 0
          /\ requests[r].grants = requests[r].given.session
      BY <2>5, RequestFacts DEF LoggingIn
    <3>2. /\ Born(requests[r].given.session)
          /\ families[requests[r].given.session].generation = 0
      BY <3>1 DEF Chain, LoginsAreFresh
    <3>3. /\ cookie' = requests[r].given /\ access' = requests[r].grants
          /\ mine' = requests[r].grants
      BY <1>9, <2>5 DEF Receive
    <3> QED
      BY <2>1, <2>3, <3>1, <3>2, <3>3 DEF AtHome, Born
  <2>6. CASE requests[r].effect = "set" /\ requests[r].kind = "refresh"
    <3>1. /\ Named(r) # Null /\ requests[r].given # Null
          /\ requests[r].given.session = Named(r).session
          /\ requests[r].grants = Named(r).session
          /\ requests[r].given.generation = families[Named(r).session].generation
      <4>1. Pending(requests[r])
        BY <2>6 DEF Pending
      <4> QED
        BY <2>6, <4>1, RequestFacts DEF Chain, OneExchange
    <3>2. /\ cookie' = requests[r].given /\ access' = requests[r].grants
          /\ mine' = mine
      BY <1>9, <2>6 DEF Receive
    <3>3. careful /\ mine \in Live => Named(r).session = mine
      BY <2>6 DEF AtHome
    <3> QED
      BY <2>1, <2>3, <2>4, <3>1, <3>2, <3>3 DEF AtHome, Born
  <2>7. CASE requests[r].effect = "clear" /\ (requests[r].kind = "refresh" => requests[r].failed)
    <3>1. mine' = Null
      BY <1>9, <2>7 DEF Receive
    <3> QED
      BY <2>3, <3>1 DEF AtHome, Live
  <2>8. CASE requests[r].effect = "clear" /\ requests[r].kind = "refresh" /\ ~requests[r].failed
    <3>1. mine' = mine
      BY <1>9, <2>8 DEF Receive
    <3>2. ~(careful /\ mine \in Live)
      BY <2>8 DEF AtHome, ClearedCookieIsDead
    <3> QED
      BY <2>1, <2>3, <2>4, <3>1, <3>2 DEF AtHome, Born
  <2>9. CASE requests[r].effect = "none"
    <3>1. UNCHANGED <<cookie, access, mine>>
      BY <1>9, <2>9 DEF Receive
    <3>2. ~Moving(requests[r])
      BY <1>9, <2>9, RequestFacts DEF Receive, Pending, Moving, Shape
    <3>3. careful => ~\E i \in InFlight : Moving(requests[i])
      BY <3>2 DEF Alone
    <3> QED
      BY <2>1, <2>3, <2>4, <3>1, <3>3 DEF AtHome, Born
  <2> QED
    BY <2>5, <2>6, <2>7, <2>8, <2>9, InFlightType, RequestFacts DEF Shape
<1>10. CASE SessionsEnd
  <2>1. MayEnd /\ UNCHANGED <<requests, cookie, access, mine, careful>>
    BY <1>10 DEF SessionsEnd, MayEnd
  <2>2. Steady
    BY <2>1, SameGeneration DEF Steady, InFlight
  <2> QED
    BY <2>2, SteadyIsCareful
<1>11. CASE Restart
  <2>1. /\ cookie' = IF cookie # Null /\ cookie.kept THEN cookie ELSE Null
        /\ access' = Null /\ families' = families
        /\ mine' = IF mine \in remembered THEN mine ELSE Null
        /\ careful' => careful /\ InFlight = {}
        /\ \A r \in Requests : requests[r] = Null => requests'[r] = Null
    BY <1>11 DEF Restart
  <2>2. careful' => InFlight' = {}
    BY <2>1 DEF InFlight
  <2>3. Live' = Live /\ Null \notin Live
    BY <2>1 DEF Live
  <2>4. ASSUME careful', mine' \in Live
        PROVE  /\ mine' = mine /\ cookie' = cookie /\ cookie # Null
               /\ cookie.session = mine /\ cookie.generation = families[mine].generation
    <3>1. mine' = mine /\ mine \in remembered /\ mine \in Live
      BY <2>1, <2>3, <2>4
    <3>2. /\ cookie # Null /\ cookie.session = mine
          /\ cookie.generation = families[mine].generation
      BY <2>1, <2>4, <3>1 DEF AtHome
    <3>3. cookie.kept
      BY <3>1, <3>2 DEF PersistenceHandedOn
    <3> QED
      BY <2>1, <3>1, <3>2, <3>3
  <2>5. AtHome'
    BY <2>1, <2>2, <2>3, <2>4 DEF AtHome, Born
  <2>6. Alone'
    BY <2>2 DEF Alone
  <2> QED
    BY <2>5, <2>6
<1> QED
  BY <1>2, <1>3, <1>4, <1>5, <1>6, <1>7, <1>8, <1>9, <1>10, <1>11 DEF CookieStep

LEMMA InitCareful == CookieInit => Careful
BY DEF CookieInit, Careful, PersistenceHandedOn, Alone, AtHome, InFlight, Live

LEMMA StutterCareful ==
  ASSUME Careful, UNCHANGED cookieVars
  PROVE  Careful'
BY DEF cookieVars, Careful, PersistenceHandedOn, Alone, AtHome, InFlight, Born, Live, Named

LEMMA CarefulHolds == CookieSpec => []Careful
<1>1. CookieTypeOK /\ Shapes /\ Chain /\ ClearedCookieIsDead /\ Careful /\ [CookieNext]_cookieVars
        => Careful'
  BY NextIsCookieStep, StepPersistence, StepCareful, StutterCareful DEF Careful
<1> QED
  BY ChainHolds, OnlyTheDeadAreCleared, InitCareful, <1>1, PTL DEF CookieSpec

\* A browser that sends one request at a time and hears every answer holds the
\* current token of its live session until an error takes its cookie, over
\* restarts too.
THEOREM CarefulStaysIn == CookieSpec => []CarefulBrowserStaysIn
<1>1. CookieTypeOK /\ Careful => CarefulBrowserStaysIn
  <2> SUFFICES ASSUME CookieTypeOK, Careful, careful, InFlight = {}, mine \in Live
               PROVE  cookie = [session |-> mine, generation |-> families[mine].generation,
                                kept |-> mine \in remembered]
    BY DEF CarefulBrowserStaysIn
  <2>1. /\ cookie \in Cookie /\ cookie.session = mine
        /\ cookie.generation = families[mine].generation
    BY DEF Careful, AtHome, CookieTypeOK
  <2>2. cookie.kept = (mine \in remembered)
    BY <2>1 DEF Careful, AtHome, PersistenceHandedOn, Cookie
  <2> QED
    BY <2>1, <2>2 DEF Cookie
<1> QED
  BY ChainHolds, CarefulHolds, <1>1, PTL

\* The session a careful user changes the password in is not among those the
\* change ends.
THEOREM ChangeSparesMySession == CookieSpec => ChangeKeepsMySession
<1>1. CookieTypeOK /\ Careful /\ [CookieNext]_cookieVars =>
        [\A r \in Requests : ChangeSucceeds(r) /\ careful /\ mine \in Live
           => mine \in Live']_cookieVars
  <2> SUFFICES ASSUME CookieTypeOK, Careful, NEW r \in Requests, ChangeSucceeds(r), careful,
                      mine \in Live
               PROVE  mine \in Live'
    OBVIOUS
  <2>1. PICK ended \in SUBSET OtherSessions(r) : End(ended)
    BY DEF ChangeSucceeds
  <2>2. requests[r].bearer = mine
    BY DEF ChangeSucceeds, At, Careful, AtHome
  <2>3. mine \notin ended /\ mine \in Sessions
    BY <2>1, <2>2 DEF OtherSessions, Principal, Live
  <2> QED
    BY <2>1, <2>3 DEF End, Live
<1> QED
  BY ChainHolds, CarefulHolds, <1>1, PTL DEF CookieSpec, ChangeKeepsMySession

=============================================================================
