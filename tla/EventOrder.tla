------------------------------- MODULE EventOrder -------------------------------
(***************************************************************************)
(* dedupeById (packages/sdk/src/chain/event-source.ts), through which goes *)
(* whatever a reader gets from its sources.  Sorting is written as a rank  *)
(* in a relation, a form that can be reasoned about without induction over *)
(* sequences.                                                              *)
(***************************************************************************)
EXTENDS Integers, Sequences, FiniteSets

\* Those of S that come before x.
Below(S, before, x) == {y \in S : <<y, x>> \in before}

\* The elements of the finite set S in the strict order `before`: the n-th is
\* the one that has n - 1 others before it.
InOrder(S, before) ==
  [n \in 1 .. Cardinality(S) |->
     CHOOSE x \in S : Cardinality(Below(S, before, x)) = n - 1]

\* Where an event of s occurs for the first time.
Firsts(s) == {k \in DOMAIN s : \A j \in 1 .. k - 1 : s[j] # s[k]}

\* By ledger, and within a ledger as they came: Array.prototype.sort is stable.
StableOrder(s, ledgerOf) ==
  {p \in (DOMAIN s) \X (DOMAIN s) :
     \/ ledgerOf[s[p[1]]] < ledgerOf[s[p[2]]]
     \/ ledgerOf[s[p[1]]] = ledgerOf[s[p[2]]] /\ p[1] < p[2]}

DedupeById(s, ledgerOf) ==
  LET order == InOrder(Firsts(s), StableOrder(s, ledgerOf))
  IN  [n \in DOMAIN order |-> s[order[n]]]

=============================================================================
