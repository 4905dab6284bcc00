---------------------------- MODULE AccountReplica ----------------------------
(***************************************************************************)
(* What a wallet promises its user about the local copy of the account:    *)
(* it is the account as it was at some point of its history; it moves only *)
(* forward; and the spendable opening alone may run ahead of the rest, to  *)
(* a later point of the same history (never to a value the account has not *)
(* had).  Nothing here knows of events, cursors, sessions or transactions. *)
(***************************************************************************)
EXTENDS Integers, Sequences

CONSTANTS
  Profile,            \* where copies are kept
  Origin              \* the account at the beginning of its history

VARIABLES
  history,            \* history[i]: the account after its i-th change
  copy                \* copy[p]: position, registered, receiving, spendable

replicaVars == <<history, copy>>

At(i) == IF i = 0 THEN Origin ELSE history[i]

\* A copy at position n whose spendable part is that of position m.
CopyAt(n, m) ==
  [registered |-> At(n).registered, receiving |-> At(n).receiving,
   spendable |-> At(m).spendable, pos |-> n]

Init ==
  /\ history = <<>>
  /\ copy = [p \in Profile |-> CopyAt(0, 0)]

\* The chain executes an operation of the account (or of another one).
Grow ==
  /\ Len(history') = Len(history) + 1
  /\ SubSeq(history', 1, Len(history)) = history
  /\ UNCHANGED copy

\* The copy of profile p moves on.
Advance(p) ==
  /\ \E n \in copy[p].pos .. Len(history) : \E m \in n .. Len(history) :
       copy' = [copy EXCEPT ![p] = CopyAt(n, m)]
  /\ UNCHANGED history

Next == Grow \/ \E p \in Profile : Advance(p)

Spec == Init /\ [][Next]_replicaVars

=============================================================================
