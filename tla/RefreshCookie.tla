---------------------------- MODULE RefreshCookie ----------------------------
(***************************************************************************)
(* AuthController.ts and the browser: the refresh token travels in one     *)
(* cookie, which every answer of the service may set or clear, while       *)
(* requests of several tabs are on their way and answers come late, in     *)
(* another order, or never.  What the service does with a token is         *)
(* TokenFamilies, which AuthSessions implements.                           *)
(***************************************************************************)
EXTENDS TokenFamilies

CONSTANTS
  Requests,        \* that can be on their way at one time
  Faults,          \* whether the database or the signing of a token fails
  MaxGeneration,   \* bound on exchanges
  Null

\* What the browser keeps: "kept" over a restart, with an expiry date.
Cookie == [session : Sessions, generation : Nat, kept : BOOLEAN]

\* What a request carries of it.
Token == [session : Sessions, generation : Nat]

ASSUME CookieAssumption ==
  /\ Faults \in BOOLEAN
  /\ MaxGeneration \in Nat
  /\ Null \notin Cookie \cup Token
  /\ Null \notin Sessions

VARIABLES
  remembered,     \* the sessions whose is_persistent is set
  cookie,         \* in the browser's jar
  access,         \* the session of the access token the page holds
  requests,       \* on their way, there or back
  acknowledged,   \* observation: the exchanges of each session whose answer arrived
  mine,           \* observation: the session the user is logged in with, until a
                  \* logout, a reset or the error of a refresh takes the cookie
  careful         \* observation: one request at a time, all of them heard

cookieVars == <<families, remembered, cookie, access, requests, acknowledged, mine, careful>>

Kinds == {"login", "refresh", "logout", "reset", "change"}

\* at: "sent", then "rotated" or "admitted" on the way, then "answered".
\* effect, given, grants: what the answer does to the cookie, and the session
\* of the access token in its body.  heard: the page still waits for it.
Request ==
  [kind : Kinds, at : {"sent", "rotated", "admitted", "answered"},
   token : Token \cup {Null}, bearer : Sessions \cup {Null}, remember : BOOLEAN,
   effect : {"none", "set", "clear"}, given : Cookie \cup {Null},
   grants : Sessions \cup {Null}, failed : BOOLEAN, heard : BOOLEAN]

ASSUME CookieRequestAssumption == Null \notin Request

InFlight == {r \in Requests : requests[r] # Null}

At(r, kind, at) == r \in InFlight /\ requests[r].kind = kind /\ requests[r].at = at

\* The token a request carries.
Named(r) == requests[r].token

----------------------------------------------------------------------------
(* The browser sends *)

\* The cookie's path is /api/v1/auth/token: login, reset and change go
\* without it.
Carried(kind) ==
  IF kind \in {"refresh", "logout"} /\ cookie # Null
  THEN [session |-> cookie.session, generation |-> cookie.generation]
  ELSE Null

Send(r, kind, remember) ==
  /\ requests[r] = Null
  /\ kind = "change" => access # Null
  /\ remember => kind = "login"
  /\ requests' = [requests EXCEPT ![r] =
       [kind |-> kind, at |-> "sent", token |-> Carried(kind),
        bearer |-> IF kind = "change" THEN access ELSE Null, remember |-> remember,
        effect |-> "none", given |-> Null, grants |-> Null, failed |-> FALSE,
        heard |-> TRUE]]
  /\ careful' = (careful /\ InFlight = {})
  /\ UNCHANGED <<families, remembered, cookie, access, acknowledged, mine>>

----------------------------------------------------------------------------
(* The service answers *)

\* Mutant: a refresh sets the cookie without its expiry date.
SetRefreshCookie_ForgetsExpiry(r, s, generation, persistent) ==
  requests' = [requests EXCEPT
    ![r].at = "answered", ![r].effect = "set", ![r].grants = s,
    ![r].given = [session |-> s, generation |-> generation,
                  kept |-> persistent /\ requests[r].kind = "login"]]

\* Mutant: whether the session is persistent is not handed on.
SetRefreshCookie_NoFlag(r, s, generation, persistent) ==
  requests' = [requests EXCEPT
    ![r].at = "answered", ![r].effect = "set", ![r].grants = s,
    ![r].given = [session |-> s, generation |-> generation, kept |-> Null]]

\* setRefreshCookie, with authenticationData in the body.
SetRefreshCookie(r, s, generation, persistent) ==
  requests' = [requests EXCEPT
    ![r].at = "answered", ![r].effect = "set", ![r].grants = s,
    ![r].given = [session |-> s, generation |-> generation, kept |-> persistent]]

\* res.clearCookie
ClearCookie(r, failed) ==
  requests' = [requests EXCEPT ![r].at = "answered", ![r].effect = "clear",
                               ![r].failed = failed]

\* An answer without a Set-Cookie header.
LeaveCookie(r) == requests' = [requests EXCEPT ![r].at = "answered"]

IsCurrent(token) == token.generation = families[token.session].generation

\* Mutant: the history holds the last exchanged token only.
WasUsed_LastOnly(token) == token.generation + 1 = families[token.session].generation

WasUsed(token) == token.generation < families[token.session].generation

LoginSucceeds(r) ==
  /\ At(r, "login", "sent")
  /\ \E s \in Sessions :
       /\ Open(s)
       /\ remembered' = IF requests[r].remember THEN remembered \cup {s} ELSE remembered
       /\ SetRefreshCookie(r, s, 0, requests[r].remember)
  /\ UNCHANGED <<cookie, access, acknowledged, mine, careful>>

\* refreshAuthentication up to its COMMIT.
RefreshRotates(r) ==
  /\ At(r, "refresh", "sent")
  /\ Named(r) # Null
  /\ Named(r).session \in Live
  /\ IsCurrent(Named(r))
  /\ Named(r).generation < MaxGeneration
  /\ Exchange(Named(r).session)
  /\ requests' = [requests EXCEPT ![r].at = "rotated"]
  /\ UNCHANGED <<remembered, cookie, access, acknowledged, mine, careful>>

\* Mutant: the answer sets the token that was presented.
RefreshSigns_SameToken(r) ==
  /\ At(r, "refresh", "rotated")
  /\ SetRefreshCookie(r, Named(r).session, Named(r).generation,
                      Named(r).session \in remembered)
  /\ UNCHANGED <<families, remembered, cookie, access, acknowledged, mine, careful>>

\* issueAccessToken, and the answer.
RefreshSigns(r) ==
  /\ At(r, "refresh", "rotated")
  /\ SetRefreshCookie(r, Named(r).session, Named(r).generation + 1,
                      Named(r).session \in remembered)
  /\ UNCHANGED <<families, remembered, cookie, access, acknowledged, mine, careful>>

\* Mutant: the catch of the controller leaves the cookie alone.
RefreshNotSigned_KeepsCookie(r) ==
  /\ Faults
  /\ At(r, "refresh", "rotated")
  /\ LeaveCookie(r)
  /\ UNCHANGED <<families, remembered, cookie, access, acknowledged, mine, careful>>

\* issueAccessToken throws, or the COMMIT was done and not heard of: the
\* token was exchanged, and the catch of the controller clears the cookie.
RefreshNotSigned(r) ==
  /\ Faults
  /\ At(r, "refresh", "rotated")
  /\ ClearCookie(r, TRUE)
  /\ UNCHANGED <<families, remembered, cookie, access, acknowledged, mine, careful>>

RefreshReused(r) ==
  /\ At(r, "refresh", "sent")
  /\ Named(r) # Null
  /\ Named(r).session \in Live
  /\ ~IsCurrent(Named(r)) /\ WasUsed(Named(r))
  /\ End({Named(r).session})
  /\ ClearCookie(r, FALSE)
  /\ UNCHANGED <<remembered, cookie, access, acknowledged, mine, careful>>

\* The session has expired, or its account is locked or not active.
RefreshInactive(r) ==
  /\ At(r, "refresh", "sent")
  /\ Named(r) # Null
  /\ Named(r).session \in Live
  /\ End({Named(r).session})
  /\ ClearCookie(r, FALSE)
  /\ UNCHANGED <<remembered, cookie, access, acknowledged, mine, careful>>

\* No cookie, a revoked session, or a token that is not recognised.
RefreshRejected(r) ==
  /\ At(r, "refresh", "sent")
  /\ Named(r) # Null => \/ Named(r).session \notin Live
                        \/ ~IsCurrent(Named(r)) /\ ~WasUsed(Named(r))
  /\ ClearCookie(r, FALSE)
  /\ UNCHANGED <<families, remembered, cookie, access, acknowledged, mine, careful>>

\* The transaction fails: the catch of the controller clears the cookie of a
\* session that lives on.
RefreshFails(r) ==
  /\ Faults
  /\ At(r, "refresh", "sent")
  /\ ClearCookie(r, TRUE)
  /\ UNCHANGED <<families, remembered, cookie, access, acknowledged, mine, careful>>

LogoutRevokes(r) ==
  /\ At(r, "logout", "sent")
  /\ Named(r) # Null
  /\ Named(r).session \in Live
  /\ IsCurrent(Named(r)) \/ WasUsed(Named(r))
  /\ End({Named(r).session})
  /\ ClearCookie(r, FALSE)
  /\ UNCHANGED <<remembered, cookie, access, acknowledged, mine, careful>>

LogoutIgnored(r) ==
  /\ At(r, "logout", "sent")
  /\ Named(r) # Null => \/ Named(r).session \notin Live
                        \/ ~IsCurrent(Named(r)) /\ ~WasUsed(Named(r))
  /\ ClearCookie(r, FALSE)
  /\ UNCHANGED <<families, remembered, cookie, access, acknowledged, mine, careful>>

\* The sessions of the link's account end, if the setting says so; the cookie
\* goes, whoever's session it names.
ResetSucceeds(r) ==
  /\ At(r, "reset", "sent")
  /\ \E ended \in SUBSET Live : End(ended)
  /\ ClearCookie(r, FALSE)
  /\ UNCHANGED <<remembered, cookie, access, acknowledged, mine, careful>>

\* verifyAccessToken: the session the access token names.  One that is
\* expired or does not verify is Rejected.
Principal(r) == requests[r].bearer

\* AuthGuard: the access token verifies and its session is active.
GuardAdmits(r) ==
  /\ At(r, "change", "sent")
  /\ Principal(r) \in Live
  /\ requests' = [requests EXCEPT ![r].at = "admitted"]
  /\ UNCHANGED <<families, remembered, cookie, access, acknowledged, mine, careful>>

\* Mutant: the sessions of the account are revoked without an exception.
OtherSessions_All(r) == Live

\* revokeUserSessions, excepting the session of the access token.
OtherSessions(r) == Live \ {Principal(r)}

ChangeSucceeds(r) ==
  /\ At(r, "change", "admitted")
  /\ \E ended \in SUBSET OtherSessions(r) : End(ended)
  /\ LeaveCookie(r)
  /\ UNCHANGED <<remembered, cookie, access, acknowledged, mine, careful>>

\* Answers that change nothing: 429 of a rate limiter, which logout has not;
\* wrong credentials, a bad link, a token the guard refuses; an internal error.
Rejected(r) ==
  /\ r \in InFlight
  /\ requests[r].at \in {"sent", "admitted"}
  /\ requests[r].kind = "logout" => Faults
  /\ LeaveCookie(r)
  /\ UNCHANGED <<families, remembered, cookie, access, acknowledged, mine, careful>>

\* Expiry, another device, a password reset by mail.
SessionsEnd ==
  /\ \E ended \in SUBSET Live : ended # {} /\ End(ended)
  /\ UNCHANGED <<remembered, cookie, access, requests, acknowledged, mine, careful>>

----------------------------------------------------------------------------
(* The browser hears, or not *)

Forget(r) == requests' = [requests EXCEPT ![r] = Null]

Receive(r) ==
  /\ r \in InFlight
  /\ requests[r].at = "answered"
  /\ requests[r].heard
  /\ LET answer == requests[r]
     IN  /\ cookie' = IF answer.effect = "set" THEN answer.given
                      ELSE IF answer.effect = "clear" THEN Null
                      ELSE cookie
         /\ access' = IF answer.effect = "set" THEN answer.grants ELSE access
         /\ acknowledged' = IF answer.effect = "set" /\ answer.kind = "refresh"
                            THEN [acknowledged EXCEPT ![answer.grants] = @ + 1]
                            ELSE acknowledged
         /\ mine' = IF answer.effect = "set" /\ answer.kind = "login" THEN answer.grants
                    ELSE IF /\ answer.effect = "clear"
                            /\ answer.kind = "refresh" => answer.failed
                         THEN Null
                    ELSE mine
  /\ Forget(r)
  /\ UNCHANGED <<families, remembered, careful>>

Lose(r) ==
  /\ r \in InFlight
  /\ requests[r].at = "answered"
  /\ Forget(r)
  /\ careful' = FALSE
  /\ UNCHANGED <<families, remembered, cookie, access, acknowledged, mine>>

\* The browser is closed and opened: a cookie without an expiry date goes, and
\* nobody waits for the answers of before.
Restart ==
  /\ cookie' = IF cookie # Null /\ cookie.kept THEN cookie ELSE Null
  /\ access' = Null
  /\ requests' = [r \in Requests |->
       IF requests[r] = Null THEN Null ELSE [requests[r] EXCEPT !.heard = FALSE]]
  /\ mine' = IF mine \in remembered THEN mine ELSE Null
  /\ careful' = (careful /\ InFlight = {})
  /\ UNCHANGED <<families, remembered, acknowledged>>

----------------------------------------------------------------------------

CookieInit ==
  /\ FamiliesInit
  /\ remembered = {}
  /\ cookie = Null
  /\ access = Null
  /\ requests = [r \in Requests |-> Null]
  /\ acknowledged = [s \in Sessions |-> 0]
  /\ mine = Null
  /\ careful = TRUE

Answers(r) ==
  \/ LoginSucceeds(r)
  \/ RefreshRotates(r) \/ RefreshSigns(r) \/ RefreshNotSigned(r)
  \/ RefreshReused(r) \/ RefreshInactive(r) \/ RefreshRejected(r) \/ RefreshFails(r)
  \/ LogoutRevokes(r) \/ LogoutIgnored(r)
  \/ ResetSucceeds(r)
  \/ GuardAdmits(r) \/ ChangeSucceeds(r)
  \/ Rejected(r)

CookieNext ==
  \/ \E r \in Requests :
       \/ \E kind \in Kinds, remember \in BOOLEAN : Send(r, kind, remember)
       \/ Answers(r)
       \/ Receive(r)
       \/ Lose(r)
  \/ SessionsEnd
  \/ Restart

CookieSpec == CookieInit /\ [][CookieNext]_cookieVars

----------------------------------------------------------------------------
(* Properties *)

\* Every variable has its type.
CookieTypeOK ==
  /\ families \in [Sessions -> Family]
  /\ remembered \subseteq Sessions
  /\ cookie \in Cookie \cup {Null}
  /\ access \in Sessions \cup {Null}
  /\ requests \in [Requests -> Request \cup {Null}]
  /\ acknowledged \in [Sessions -> Nat]
  /\ mine \in Sessions \cup {Null}
  /\ careful \in BOOLEAN

\* The cookie never goes back to a token whose replacement has arrived,
\* whatever overtakes what: reuse detection can end the session of an honest
\* browser only when an answer was lost, late or never sent.
TokensMoveForward ==
  cookie # Null => cookie.generation = acknowledged[cookie.session]

\* Whoever loses the cookie to the answer of a refresh or a logout has lost a
\* session that is over, unless the database or the signing failed; a logout
\* that is answered has worked, also when a refresh overtook it.
ClearedCookieIsDead ==
  \A r \in InFlight :
    /\ requests[r].kind \in {"refresh", "logout"}
    /\ requests[r].effect = "clear" /\ ~requests[r].failed
    /\ Named(r) # Null
    => Named(r).session \notin Live

\* A browser that sends one request at a time and hears every answer holds
\* the current token of the session its user logged in with, for as long as
\* that lives and no refresh of it fails, over restarts too if the user asked
\* to be remembered.  A refresh that fails after its exchange takes the cookie
\* with it, so that this browser never presents an exchanged token.
CarefulBrowserStaysIn ==
  careful /\ InFlight = {} /\ mine \in Live =>
    cookie = [session |-> mine, generation |-> families[mine].generation,
              kept |-> mine \in remembered]

\* README.md:188: a change of the password "preserves the current refresh
\* session": not only the one of the access token, but the one in the cookie.
ChangeKeepsMySession ==
  [][\A r \in Requests : ChangeSucceeds(r) /\ careful /\ mine \in Live => mine \in Live']_cookieVars

=============================================================================
