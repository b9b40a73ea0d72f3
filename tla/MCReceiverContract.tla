-------------------------- MODULE MCReceiverContract --------------------------
(***************************************************************************)
(* Three accounts; one asset, whose token contract can be switched; an     *)
(* escrow is locked for one tick and its record lives for two, a day has   *)
(* two.  Five calls of one group of entrypoints (four payments: one over   *)
(* the limit and one that is not counted), or three of all of them.        *)
(***************************************************************************)
EXTENDS ReceiverContract, TLC

CONSTANTS usdc, sac1

MCFirstToken == usdc :> sac1
MCDefaultRate == [max |-> 2, window |-> 2]
MCRates == {[max |-> 1, window |-> 2]}
MCAreas ==
  [groups: {{"governance"}, {"escrow"}}, calls: {5}] \cup
  [groups: {{"payments"}}, calls: {4}] \cup
  [groups: {{"governance", "payments", "escrow"}}, calls: {3}]

Symmetry == Permutations(Accounts \ {Deployer}) \cup Permutations(EscrowOrders)

=============================================================================
