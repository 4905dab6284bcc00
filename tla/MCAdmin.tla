------------------------------- MODULE MCAdmin -------------------------------
(***************************************************************************)
(* Small instances of AdminConsole: an account has a token of its own and  *)
(* may deploy another.  Accounts and slots are compared and nothing else,  *)
(* so they are interchangeable.                                            *)
(***************************************************************************)
EXTENDS AdminConsole, TLC

DefaultToken == [kind |-> "vanilla", owner |-> NoAccount, log |-> <<>>]

\* An account deployed a token with an allowlist and has allowed itself.
OwnToken(a) ==
  [kind |-> "allowlist", owner |-> a,
   log |-> <<[ledger |-> 1, list |-> "members", on |-> TRUE, who |-> a,
              after |-> [NoMembers EXCEPT !["members"] = {a}]]>>]

MCStarts == {<<DefaultToken, OwnToken(a)>> : a \in Account}

Symmetry == Permutations(Account) \cup Permutations(Slot)

=============================================================================
