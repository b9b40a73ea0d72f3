---------------------------- MODULE OrderOutcome ----------------------------
(***************************************************************************)
(* What the backend promises about the outcome of an order, whatever the   *)
(* payment handler, the vendor's callbacks, the jobs and the crashes do:   *)
(* an order that was paid for ends as a card or as a refund, never as      *)
(* both; only the card is charged to the key, at most once and when it is  *)
(* delivered (orders without a key are not charged; a crash may lose the   *)
(* charge); what is closed stays closed.  A closed order may still get its *)
(* refund, never its card.                                                 *)
(***************************************************************************)
EXTENDS Naturals

CONSTANT Orders

VARIABLES
  phase,     \* "open": not paid; "expired"; "working": paid; "closed"
  outcome,   \* "none", "card" or "refund"
  charged    \* cards charged to the key

vars == <<phase, outcome, charged>>

Init ==
  /\ phase = [o \in Orders |-> "open"]
  /\ outcome = [o \in Orders |-> "none"]
  /\ charged = [o \in Orders |-> 0]

Pay(o) ==
  /\ phase[o] = "open"
  /\ phase' = [phase EXCEPT ![o] = "working"]
  /\ UNCHANGED <<outcome, charged>>

Expire(S) ==
  /\ \A o \in S : phase[o] = "open"
  /\ phase' = [o \in Orders |-> IF o \in S THEN "expired" ELSE phase[o]]
  /\ UNCHANGED <<outcome, charged>>

Deliver(o) ==
  /\ phase[o] = "working" /\ outcome[o] = "none"
  /\ phase' = [phase EXCEPT ![o] = "closed"]
  /\ outcome' = [outcome EXCEPT ![o] = "card"]
  /\ charged' \in {charged, [charged EXCEPT ![o] = @ + 1]}

\* Giving up, with or without a refund; and the refund of an order given up.
GiveUp(o) ==
  /\ phase[o] \in {"working", "closed"} /\ outcome[o] # "card"
  /\ phase' = [phase EXCEPT ![o] = "closed"]
  /\ outcome' \in {outcome, [outcome EXCEPT ![o] = "refund"]}
  /\ UNCHANGED charged

Next ==
  \/ \E o \in Orders : Pay(o) \/ Deliver(o) \/ GiveUp(o)
  \/ \E S \in SUBSET Orders : Expire(S)

Spec == Init /\ [][Next]_vars

=============================================================================
