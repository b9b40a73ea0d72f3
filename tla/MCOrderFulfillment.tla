------------------------- MODULE MCOrderFulfillment -------------------------
(***************************************************************************)
(* Instances of OrderFulfillment for TLC: one order each.  No action       *)
(* relates two orders but the selection of a job and the claims of the     *)
(* ledger's sequence number, which one order has too (its several sends).  *)
(***************************************************************************)
EXTENDS OrderFulfillment

=============================================================================
