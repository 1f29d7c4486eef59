---------------------------- MODULE OutboxContract ----------------------------
(***************************************************************************)
(* What the e-mail outbox promises for every event, whatever its workers   *)
(* do: nothing is mailed before the event exists, an event is published    *)
(* only when its mail has been taken, a published or dead-lettered event   *)
(* stays so, and every event becomes one or the other.                     *)
(***************************************************************************)
CONSTANT Events

VARIABLES
  status,    \* of each event
  mailed     \* the events with a mail taken by the e-mail service

contractVars == <<status, mailed>>

Status == {"none", "pending", "published", "deadLettered"}

ContractInit ==
  /\ status = [e \in Events |-> "none"]
  /\ mailed = {}

Enqueue(e) ==
  /\ status[e] = "none"
  /\ status' = [status EXCEPT ![e] = "pending"]
  /\ UNCHANGED mailed

\* A request that timed out may be served after its event was dead-lettered.
Mail(e) ==
  /\ status[e] # "none"
  /\ mailed' = mailed \cup {e}
  /\ UNCHANGED status

Publish(e) ==
  /\ status[e] = "pending"
  /\ e \in mailed
  /\ status' = [status EXCEPT ![e] = "published"]
  /\ UNCHANGED mailed

DeadLetter(e) ==
  /\ status[e] = "pending"
  /\ status' = [status EXCEPT ![e] = "deadLettered"]
  /\ UNCHANGED mailed

Settle(e) == Publish(e) \/ DeadLetter(e)

ContractNext == \E e \in Events : Enqueue(e) \/ Mail(e) \/ Settle(e)

ContractSpec ==
  /\ ContractInit
  /\ [][ContractNext]_contractVars
  /\ \A e \in Events : WF_contractVars(Settle(e))

=============================================================================
