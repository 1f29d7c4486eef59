---------------------------- MODULE MigrationLog ----------------------------
(***************************************************************************)
(* What the migration runner promises: the database goes through one log   *)
(* of scripts, each run succeeds only when its whole release is in that    *)
(* log, and every run comes to an end.                                     *)
(***************************************************************************)
EXTENDS Naturals, Sequences

CONSTANTS Runners, Names, Texts, Null

VARIABLES
  log,       \* the scripts whose effects the database has, in order
  wanted,    \* what the release of each run says under each name, or Null
  outcome    \* how each run ended

logVars == <<log, wanted, outcome>>

Logged(name) == \E i \in DOMAIN log : log[i].name = name

LoggedAs(name, text) == \E i \in DOMAIN log : log[i] = [name |-> name, text |-> text]

LogInit ==
  /\ log = <<>>
  /\ wanted \in [Runners -> [Names -> Texts \cup {Null}]]
  /\ outcome = [r \in Runners |-> "running"]

\* A script enters the log once, after every earlier one of its release.
Enter(r, name) ==
  /\ outcome[r] = "running"
  /\ wanted[r][name] # Null
  /\ ~Logged(name)
  /\ \A m \in Names : m < name /\ wanted[r][m] # Null => LoggedAs(m, wanted[r][m])
  /\ log' = Append(log, [name |-> name, text |-> wanted[r][name]])

\* A run whose connection dies at the COMMIT fails, and its script is in the
\* log all the same.
Enters(r, name) ==
  /\ Enter(r, name)
  /\ outcome' \in {outcome, [outcome EXCEPT ![r] = "failed"]}
  /\ UNCHANGED wanted

Succeeds(r) ==
  /\ outcome[r] = "running"
  /\ \A name \in Names : wanted[r][name] # Null => LoggedAs(name, wanted[r][name])
  /\ outcome' = [outcome EXCEPT ![r] = "succeeded"]
  /\ UNCHANGED <<log, wanted>>

Fails(r) ==
  /\ outcome[r] = "running"
  /\ outcome' = [outcome EXCEPT ![r] = "failed"]
  /\ UNCHANGED <<log, wanted>>

LogNext ==
  \E r \in Runners :
    \/ \E name \in Names : Enters(r, name)
    \/ Succeeds(r)
    \/ Fails(r)

LogSpec == LogInit /\ [][LogNext]_logVars

\* Every run ends, whatever becomes of the others.
RunsEnd == \A r \in Runners : <>(outcome[r] # "running")

=============================================================================
