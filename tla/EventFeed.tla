------------------------------- MODULE EventFeed -------------------------------
(***************************************************************************)
(* What the state engine needs of its event source, whose events it cannot *)
(* apply twice, out of order or with one left out: the events of the       *)
(* contract, numbered in chain order, arrive one after the other, as a     *)
(* stretch of the history that only grows at its end.  A complete feed     *)
(* begins with the first event; another one wherever it begins.  Nothing   *)
(* here knows of ledgers, cursors, RPC nodes or indexers.                  *)
(***************************************************************************)
EXTENDS Naturals

VARIABLES
  complete,           \* the feed begins with the first event
  published,          \* number of events the contract has emitted
  consumed            \* the events handed to the engine, in order

feedVars == <<complete, published, consumed>>

\* The events after the m-th up to the n-th.
Stretch(m, n) == [i \in 1 .. n - m |-> m + i]

Init == complete \in BOOLEAN /\ published = 0 /\ consumed = <<>>

Publish == published' > published /\ UNCHANGED <<complete, consumed>>

\* One successful fetch: everything up to some event n, or nothing new.
Consume ==
  /\ \E m, k, n \in 0 .. published :
       /\ m <= k /\ k <= n
       /\ complete => m = 0
       /\ consumed = Stretch(m, k)
       /\ consumed' = Stretch(m, n)
  /\ UNCHANGED <<complete, published>>

\* A reader that keeps no cursor starts again.
StartOver == consumed' = <<>> /\ UNCHANGED <<complete, published>>

Next == Publish \/ Consume \/ StartOver

Spec == Init /\ [][Next]_feedVars

=============================================================================
