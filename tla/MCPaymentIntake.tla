--------------------------- MODULE MCPaymentIntake ---------------------------
(***************************************************************************)
(* Instances of PaymentIntake for TLC: p1 pays the order o1, p2 pays the   *)
(* challenge c1, which two requests present, and p3 cannot be parsed.      *)
(***************************************************************************)
EXTENDS PaymentIntake, TLC

CONSTANTS p1, p2, p3, o1, c1, a1, a2

MCNames == p1 :> o1 @@ p2 :> c1 @@ p3 :> Unknown
MCCredential == [a \in Attempts |-> [challenge |-> c1, payment |-> p2]]

=============================================================================
