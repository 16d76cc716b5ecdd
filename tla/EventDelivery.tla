--------------------------- MODULE EventDelivery ---------------------------
(***************************************************************************)
(* What outbound webhooks promise the receiver of an event: an event that  *)
(* is owed is settled in the end, and it is marked delivered only when the *)
(* receiver has accepted it. The receiver may be sent an event again, also *)
(* one the sender had given up on. Webhooks implements this.               *)
(***************************************************************************)
CONSTANT Events

VARIABLES
  owed,      \* the events with a delivery
  accepted,  \* the events the receiver has answered 2xx to
  outcome    \* of each event: "open", "delivered" or "given up"

vars == <<owed, accepted, outcome>>

Init ==
  /\ owed = {}
  /\ accepted = {}
  /\ outcome = [e \in Events |-> "open"]

Owe(e) ==
  /\ e \notin owed
  /\ owed' = owed \cup {e}
  /\ UNCHANGED <<accepted, outcome>>

Accept(e) ==
  /\ e \in owed
  /\ accepted' = accepted \cup {e}
  /\ UNCHANGED <<owed, outcome>>

\* Delivered is for good; giving up, and trying once more, is not.
Deliver(e) ==
  /\ e \in accepted
  /\ outcome' = [outcome EXCEPT ![e] = "delivered"]
  /\ UNCHANGED <<owed, accepted>>

Reconsider(e) ==
  /\ e \in owed
  /\ outcome[e] # "delivered"
  /\ outcome' \in {[outcome EXCEPT ![e] = "given up"],
                   [outcome EXCEPT ![e] = "open"]}
  /\ UNCHANGED <<owed, accepted>>

Next == \E e \in Events : Owe(e) \/ Accept(e) \/ Deliver(e) \/ Reconsider(e)

Settles == \A e \in Events : e \in owed ~> outcome[e] # "open"

Spec == Init /\ [][Next]_vars /\ Settles
=============================================================================
