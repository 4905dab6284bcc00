---------------------------- MODULE MCDisclosure ----------------------------
(* Small instances of Disclosure.  Accounts, tokens and amounts are compared   *)
(* and nothing else, so they are interchangeable.                              *)
EXTENDS Disclosure, TLC

Symmetry == Permutations(Account) \cup Permutations(Token) \cup Permutations(Amounts)

=============================================================================
