------------------------------- MODULE MCWallet -------------------------------
(***************************************************************************)
(* Small instances of Wallet.  Blindings are the negatives of distinct     *)
(* powers of two: their sums exceed the group order, and no two sums       *)
(* coincide by accident.                                                   *)
(***************************************************************************)
EXTENDS Wallet, TLC

CONSTANTS t1, t2, device1, bob

MCSigma == 1..6

MCGroupOrder == 8209

MCDeriveSpendR(s) == MCGroupOrder - 2 ^ (2 * s)
MCDeriveTxBlind(s) == MCGroupOrder - 2 ^ (2 * s + 1)

\* An account that has registered, deposited 1, merged, and deposited 1 again.
FundedAccount ==
  [registered |-> TRUE, spendable |-> [v |-> 1, r |-> 0], receiving |-> [v |-> 1, r |-> 0]]

Symmetry == Permutations({t1, t2})

OneSession == (t1 :> device1)
TwoTabs == (t1 :> device1 @@ t2 :> device1)

=============================================================================
