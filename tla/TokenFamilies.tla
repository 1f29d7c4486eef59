---------------------------- MODULE TokenFamilies ----------------------------
(***************************************************************************)
(* What auth-svc promises about refresh tokens: the tokens of a session    *)
(* are a family with one current token, exchanged for the next one by one  *)
(* while the family lives; an ended family never comes back.  AuthSessions *)
(* implements it; RefreshCookie builds on it.                              *)
(***************************************************************************)
EXTENDS Naturals

CONSTANT Sessions

Family == [state : {"unborn", "live", "ended"}, generation : Nat]

VARIABLE families

Unborn == [state |-> "unborn", generation |-> 0]

Live == {s \in Sessions : families[s].state = "live"}

\* login
Open(s) ==
  /\ families[s] = Unborn
  /\ families' = [families EXCEPT ![s].state = "live"]

\* refresh: the next token of the family becomes the current one.
Exchange(s) ==
  /\ s \in Live
  /\ families' = [families EXCEPT ![s].generation = @ + 1]

\* logout, reuse, expiry, a new password
End(ended) ==
  /\ ended \subseteq Live
  /\ families' = [s \in Sessions |-> IF s \in ended THEN [families[s] EXCEPT !.state = "ended"]
                                                    ELSE families[s]]

FamiliesInit == families = [s \in Sessions |-> Unborn]

FamiliesNext ==
  \/ \E s \in Sessions : Open(s) \/ Exchange(s)
  \/ \E ended \in SUBSET Sessions : End(ended)

FamiliesSpec == FamiliesInit /\ [][FamiliesNext]_families

=============================================================================
