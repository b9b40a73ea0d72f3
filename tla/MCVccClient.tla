----------------------------- MODULE MCVccClient -----------------------------
(***************************************************************************)
(* One order among others.  Three faults take up to four registrations,    *)
(* and an order one nonce more than the jobs it can have.                  *)
(***************************************************************************)
EXTENDS VccClient

=============================================================================
