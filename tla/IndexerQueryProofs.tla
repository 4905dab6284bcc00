--------------------------- MODULE IndexerQueryProofs ---------------------------
(***************************************************************************)
(* Theorems about IndexerQuery, for every page size, ledger range, number  *)
(* of transactions and of events: what the pages of one fetch add up to    *)
(* while the pipeline goes on storing rows between them.                   *)
(***************************************************************************)
EXTENDS IndexerQuery, FiniteSetTheorems, FunctionTheorems, WellFoundedInduction, TLAPS

-----------------------------------------------------------------------------
(* The inductive invariants. *)

\* Ledgers do not decrease along the chain, and the events of one transaction
\* are numbered in the order of the chain.
ChainInOrder ==
  /\ \A i \in DOMAIN chain : chain[i].ledger >= FirstLedger /\ chain[i].ledger <= ledger
  /\ \A i, j \in DOMAIN chain :
       i < j => /\ chain[i].ledger <= chain[j].ledger
                /\ chain[i].ledger = chain[j].ledger /\ chain[i].tx = chain[j].tx
                     => chain[i].event < chain[j].event

NetworkInv ==
  /\ ledger \in FirstLedger - 1 .. LastLedger
  /\ chain \in Seq(Row) /\ Len(chain) <= MaxEvents
  /\ raw \subseteq DOMAIN chain
  /\ ChainInOrder

\* The rows that came are in the order of their ids, the cursor names the last
\* of them, and none that matches comes before the cursor.
Ascending(s) == \A n, m \in DOMAIN s : n < m => IdBelow(s[n], s[m])

InRange(i) == chain[i].ledger \in StartLedger .. EndLedger

FetchInv ==
  /\ asking \in BOOLEAN
  /\ begun \subseteq raw
  /\ got \in Seq(raw)
  /\ Ascending(got)
  /\ \A n \in DOMAIN got : chain[got[n]].ledger <= EndLedger
  /\ got # <<>> => chain[got[1]].ledger >= StartLedger
  /\ asking => \E q \in Nat : Len(got) = q * PageLimit
  /\ IF asking /\ got # <<>> THEN last = got[Len(got)] ELSE last = 0
  /\ asking /\ got # <<>> =>
       \A i \in begun : InRange(i) => i \in ToSet(got) \/ IdBelow(last, i)
  /\ ~asking => \A i \in begun : InRange(i) => i \in ToSet(got)

QueryInv == NetworkInv /\ FetchInv

-----------------------------------------------------------------------------
(* Sequences, and the least of a set of numbers. *)

\* A set of natural numbers has a least element.
LEMMA LeastNumber ==
  ASSUME NEW S \in SUBSET Nat, S # {}
  PROVE  \E x \in S : \A y \in S : x <= y
<1> DEFINE T == {0 .. n : n \in S}
<1>1. T \subseteq FiniteSubsetsOf(Nat) /\ T # {}
  <2>1. \A n \in S : IsFiniteSet(0 .. n) /\ 0 .. n \in SUBSET Nat
    BY FS_Interval
  <2>2. QED
    BY <2>1 DEF FiniteSubsetsOf
<1>2. PICK t \in T : \A y \in T : <<y, t>> \notin StrictSubsetOrdering(Nat)
  <2> HIDE DEF T
  <2>1. QED
    BY <1>1, FS_StrictSubsetOrderingWellFounded, WFMin
<1>3. PICK x \in S : t = 0 .. x
  BY <1>2
<1>4. ASSUME NEW y \in S, y < x
      PROVE  FALSE
  <2>1. x \in t /\ x \notin 0 .. y /\ 0 .. y \subseteq t
    BY <1>3, <1>4
  <2>2. <<0 .. y, t>> \in StrictSubsetOrdering(Nat)
    BY <2>1, <1>3 DEF StrictSubsetOrdering
  <2>3. QED
    BY <2>2, <1>2
<1>5. QED
  BY <1>4

\* Functions as sequences, sequences over a larger set, and one after another.
LEMMA FunctionIsSeq ==
  ASSUME NEW S, NEW n \in Nat, NEW f \in [1 .. n -> S]
  PROVE  f \in Seq(S) /\ Len(f) = n
OBVIOUS

LEMMA SeqWiden ==
  ASSUME NEW A, NEW B, A \subseteq B, NEW s \in Seq(A)
  PROVE  s \in Seq(B)
<1>1. Len(s) \in Nat /\ s = [i \in 1 .. Len(s) |-> s[i]]
  OBVIOUS
<1>2. \A i \in 1 .. Len(s) : s[i] \in B
  OBVIOUS
<1>3. [i \in 1 .. Len(s) |-> s[i]] \in Seq(B)
  BY <1>1, <1>2
<1>4. QED
  BY <1>1, <1>3

LEMMA JoinFacts ==
  ASSUME NEW S, NEW s \in Seq(S), NEW t \in Seq(S)
  PROVE  /\ s \o t \in Seq(S) /\ Len(s) \in Nat /\ Len(t) \in Nat
         /\ Len(s \o t) = Len(s) + Len(t) /\ DOMAIN (s \o t) = 1 .. Len(s) + Len(t)
         /\ DOMAIN s = 1 .. Len(s) /\ DOMAIN t = 1 .. Len(t)
         /\ \A k \in 1 .. Len(s) : (s \o t)[k] = s[k]
         /\ \A k \in Len(s) + 1 .. Len(s) + Len(t) :
              k - Len(s) \in 1 .. Len(t) /\ (s \o t)[k] = t[k - Len(s)]
<1>1. /\ s \o t \in Seq(S) /\ Len(s) \in Nat /\ Len(t) \in Nat
      /\ Len(s \o t) = Len(s) + Len(t)
  OBVIOUS
<1>2. DOMAIN (s \o t) = 1 .. Len(s) + Len(t) /\ DOMAIN s = 1 .. Len(s) /\ DOMAIN t = 1 .. Len(t)
  BY <1>1
<1>3. \A k \in 1 .. Len(s) : (s \o t)[k] = s[k]
  BY <1>1
<1>4. \A k \in Len(s) + 1 .. Len(s) + Len(t) : k - Len(s) \in 1 .. Len(t)
  BY <1>1
<1>5. \A k \in Len(s) + 1 .. Len(s) + Len(t) : (s \o t)[k] = t[k - Len(s)]
  BY <1>1
<1>6. QED
  BY <1>1, <1>2, <1>3, <1>4, <1>5

-----------------------------------------------------------------------------
(* Sorting: InOrder lists a finite set in a strict total order. *)

IsStrictOrder(S, before) ==
  /\ \A x \in S : <<x, x>> \notin before
  /\ \A x, y, z \in S : <<x, y>> \in before /\ <<y, z>> \in before => <<x, z>> \in before
  /\ \A x, y \in S : x # y => <<x, y>> \in before \/ <<y, x>> \in before

\* What comes later has more before it.
LEMMA RankGrows ==
  ASSUME NEW S, IsFiniteSet(S), NEW before, IsStrictOrder(S, before),
         NEW x \in S, NEW y \in S, <<x, y>> \in before
  PROVE  /\ Cardinality(Below(S, before, x)) \in Nat
         /\ Cardinality(Below(S, before, x)) < Cardinality(Below(S, before, y))
<1>1. PICK A, B : A = Below(S, before, x) /\ B = Below(S, before, y)
  OBVIOUS
<1>2. A \subseteq B /\ B \subseteq S /\ x \in B /\ x \notin A
  BY <1>1 DEF Below, IsStrictOrder
<1>3. IsFiniteSet(B)
  BY <1>2, FS_Subset
<1>4. /\ IsFiniteSet(A) /\ Cardinality(A) <= Cardinality(B)
      /\ Cardinality(B) = Cardinality(A) => B = A
  BY <1>2, <1>3, FS_Subset
<1>5. Cardinality(A) \in Nat /\ Cardinality(B) \in Nat
  BY <1>3, <1>4, FS_CardinalityType
<1>6. QED
  BY <1>1, <1>2, <1>4, <1>5

LEMMA InOrderFacts ==
  ASSUME NEW S, IsFiniteSet(S), NEW before, IsStrictOrder(S, before)
  PROVE  LET o == InOrder(S, before)
             N == Cardinality(S)
         IN  /\ N \in Nat /\ o \in Seq(S) /\ Len(o) = N /\ DOMAIN o = 1 .. N
             /\ \A x \in S : \E n \in 1 .. N : o[n] = x
             /\ \A n, m \in 1 .. N : n < m => <<o[n], o[m]>> \in before
<1>1. PICK N \in Nat : N = Cardinality(S)
  BY FS_CardinalityType
<1>2. PICK rank : rank = [x \in S |-> Cardinality(Below(S, before, x))]
  OBVIOUS
<1>3. \A x \in S : rank[x] = Cardinality(Below(S, before, x))
  BY <1>2
<1>4. ASSUME NEW x \in S
      PROVE  rank[x] \in 0 .. N - 1
  <2>1. PICK A : A = Below(S, before, x)
    OBVIOUS
  <2>2. A \subseteq S /\ A # S
    BY <2>1 DEF Below, IsStrictOrder
  <2>3. /\ IsFiniteSet(A) /\ Cardinality(A) <= Cardinality(S)
        /\ Cardinality(S) = Cardinality(A) => S = A
    BY <2>2, FS_Subset
  <2>4. Cardinality(A) \in Nat
    BY <2>3, FS_CardinalityType
  <2>5. QED
    BY <1>1, <1>3, <2>1, <2>2, <2>3, <2>4
<1>5. ASSUME NEW x \in S, NEW y \in S, x # y
      PROVE  rank[x] # rank[y] /\ (rank[x] < rank[y] => <<x, y>> \in before)
  <2>1. CASE <<x, y>> \in before
    <3>1. rank[x] < rank[y] /\ rank[x] \in Nat /\ rank[y] \in Int
      BY <1>3, <1>4, <2>1, RankGrows
    <3>2. QED
      BY <2>1, <3>1
  <2>2. CASE <<y, x>> \in before
    <3>1. rank[y] < rank[x] /\ rank[y] \in Nat /\ rank[x] \in Int
      BY <1>3, <1>4, <2>2, RankGrows
    <3>2. QED
      BY <3>1
  <2>3. QED
    BY <1>5, <2>1, <2>2 DEF IsStrictOrder
<1>6. PICK T : T = 0 .. N - 1
  OBVIOUS
<1>7. rank \in [S -> T]
  BY <1>2, <1>3, <1>4, <1>6
<1>8. rank \in Injection(S, T)
  BY <1>5, <1>7 DEF Injection, IsInjective
<1>9. IsFiniteSet(T) /\ Cardinality(T) = N
  <2>1. N - 1 \in Int /\ 0 \in Int
    OBVIOUS
  <2>2. IsFiniteSet(0 .. N - 1) /\ Cardinality(0 .. N - 1) = IF 0 > N - 1 THEN 0 ELSE N - 1 - 0 + 1
    BY <2>1, FS_Interval
  <2>3. QED
    BY <1>6, <2>2
<1>10. rank \in Surjection(S, T)
  BY <1>1, <1>8, <1>9, FS_Injection
<1>11. \A k \in T : \E x \in S : rank[x] = k
  BY <1>10 DEF Surjection
<1>12. PICK o : o = InOrder(S, before)
  OBVIOUS
<1>13. o = [n \in 1 .. N |-> CHOOSE x \in S : Cardinality(Below(S, before, x)) = n - 1]
  BY <1>1, <1>12 DEF InOrder
<1>14. ASSUME NEW n \in 1 .. N
       PROVE  o[n] \in S /\ rank[o[n]] = n - 1
  <2>1. n - 1 \in T
    BY <1>6
  <2>2. \E x \in S : Cardinality(Below(S, before, x)) = n - 1
    BY <1>3, <1>11, <2>1
  <2>3. o[n] = CHOOSE x \in S : Cardinality(Below(S, before, x)) = n - 1
    BY <1>13
  <2>4. o[n] \in S /\ Cardinality(Below(S, before, o[n])) = n - 1
    BY <2>2, <2>3
  <2>5. QED
    BY <1>3, <2>4
<1>15. o \in [1 .. N -> S]
  BY <1>13, <1>14
<1>16. o \in Seq(S) /\ Len(o) = N /\ DOMAIN o = 1 .. N
  BY <1>15
<1>17. ASSUME NEW x \in S
       PROVE  \E n \in 1 .. N : o[n] = x
  <2>1. PICK n \in 1 .. N : n = rank[x] + 1
    BY <1>4
  <2>2. o[n] \in S /\ rank[o[n]] = n - 1
    BY <1>14
  <2>3. rank[o[n]] = rank[x]
    BY <1>4, <2>1, <2>2
  <2>4. o[n] = x
    BY <1>5, <2>2, <2>3
  <2>5. QED
    BY <2>4
<1>18. ASSUME NEW n \in 1 .. N, NEW m \in 1 .. N, n < m
       PROVE  <<o[n], o[m]>> \in before
  <2>1. o[n] \in S /\ o[m] \in S /\ rank[o[n]] < rank[o[m]]
    BY <1>14, <1>18
  <2>2. o[n] # o[m]
    BY <1>14, <1>18
  <2>3. QED
    BY <1>5, <2>1, <2>2
<1>19. QED
  BY <1>1, <1>12, <1>16, <1>17, <1>18

-----------------------------------------------------------------------------
(* The network: the chain, and the order of ids. *)

LEMMA ChainFacts ==
  ASSUME NetworkInv
  PROVE  /\ Len(chain) \in Nat /\ DOMAIN chain = 1 .. Len(chain) /\ ledger \in Int
         /\ raw \subseteq DOMAIN chain /\ IsFiniteSet(raw)
         /\ \A i \in DOMAIN chain :
              /\ chain[i].ledger \in FirstLedger .. LastLedger /\ chain[i].ledger \in Nat
              /\ chain[i].ledger <= ledger
              /\ chain[i].tx \in Nat /\ chain[i].event \in Nat
<1>1. chain \in Seq(Row) /\ raw \subseteq DOMAIN chain /\ ledger \in FirstLedger - 1 .. LastLedger
  BY DEF NetworkInv
<1>2. FirstLedger \in Nat /\ LastLedger \in Nat /\ Hashes \subseteq Nat
  BY QueryAssumption
<1>3. Len(chain) \in Nat /\ DOMAIN chain = 1 .. Len(chain) /\ ledger \in Int /\ ledger <= LastLedger
  BY <1>1, <1>2
<1>4. IsFiniteSet(raw)
  <2>1. IsFiniteSet(1 .. Len(chain))
    BY <1>3, FS_Interval
  <2>2. QED
    BY <1>1, <1>3, <2>1, FS_Subset
<1>5. ASSUME NEW i \in DOMAIN chain
      PROVE  /\ chain[i].ledger \in FirstLedger .. LastLedger /\ chain[i].ledger \in Nat
             /\ chain[i].ledger <= ledger
             /\ chain[i].tx \in Nat /\ chain[i].event \in Nat
  <2>1. chain[i] \in Row
    BY <1>1, <1>5
  <2>2. chain[i].ledger \in Nat /\ chain[i].tx \in Nat /\ chain[i].event \in Nat
    BY <1>2, <2>1 DEF Row
  <2>3. chain[i].ledger >= FirstLedger /\ chain[i].ledger <= ledger
    BY <1>5 DEF NetworkInv, ChainInOrder
  <2>4. QED
    BY <1>2, <1>3, <2>2, <2>3
<1>6. QED
  BY <1>1, <1>3, <1>4, <1>5

\* Two ledgers have the same text only if they are the same.
LEMMA TextFacts ==
  ASSUME NEW k \in FirstLedger .. LastLedger, NEW l \in FirstLedger .. LastLedger
  PROVE  /\ LedgerText(k) \in Nat /\ LedgerText(l) \in Nat
         /\ LedgerText(k) = LedgerText(l) <=> k = l
         /\ (k < WideLedger <=> l < WideLedger) => (LedgerText(k) < LedgerText(l) <=> k < l)
BY QueryAssumption DEF LedgerText

\* Ids are totally ordered: no two events have the same one.
LEMMA IdFacts ==
  ASSUME NetworkInv, NEW i \in DOMAIN chain, NEW j \in DOMAIN chain
  PROVE  /\ ~IdBelow(i, i)
         /\ i # j => IdBelow(i, j) \/ IdBelow(j, i)
         /\ \A k \in DOMAIN chain : IdBelow(i, j) /\ IdBelow(j, k) => IdBelow(i, k)
<1>1. \A a \in DOMAIN chain : /\ chain[a].ledger \in FirstLedger .. LastLedger
                             /\ chain[a].tx \in Nat /\ chain[a].event \in Nat
  BY ChainFacts
<1>2. \A a \in DOMAIN chain : LedgerText(chain[a].ledger) \in Nat
  BY <1>1, TextFacts
<1>3. \A a, b \in DOMAIN chain :
        LedgerText(chain[a].ledger) = LedgerText(chain[b].ledger) <=> chain[a].ledger = chain[b].ledger
  BY <1>1, TextFacts
<1>4. ~IdBelow(i, i)
  BY <1>1, <1>2 DEF IdBelow
<1>5. ASSUME i # j
      PROVE  IdBelow(i, j) \/ IdBelow(j, i)
  <2>1. chain[i].ledger = chain[j].ledger /\ chain[i].tx = chain[j].tx => chain[i].event # chain[j].event
    <3>1. i \in Int /\ j \in Int
      BY ChainFacts
    <3>2. i < j \/ j < i
      BY <1>5, <3>1
    <3>3. QED
      BY <1>1, <3>2 DEF NetworkInv, ChainInOrder
  <2>2. QED
    BY <1>1, <1>2, <1>3, <2>1 DEF IdBelow
<1>6. ASSUME NEW k \in DOMAIN chain, IdBelow(i, j), IdBelow(j, k)
      PROVE  IdBelow(i, k)
  <2>1. LedgerText(chain[i].ledger) <= LedgerText(chain[j].ledger)
        /\ LedgerText(chain[j].ledger) <= LedgerText(chain[k].ledger)
    BY <1>2, <1>6 DEF IdBelow
  <2>2. CASE LedgerText(chain[i].ledger) < LedgerText(chain[k].ledger)
    BY <2>2 DEF IdBelow
  <2>3. CASE ~(LedgerText(chain[i].ledger) < LedgerText(chain[k].ledger))
    <3>1. chain[i].ledger = chain[j].ledger /\ chain[j].ledger = chain[k].ledger
          /\ LedgerText(chain[i].ledger) = LedgerText(chain[j].ledger)
          /\ LedgerText(chain[j].ledger) = LedgerText(chain[k].ledger)
      BY <1>2, <1>3, <2>1, <2>3
    <3>2. /\ chain[i].tx < chain[j].tx \/ (chain[i].tx = chain[j].tx /\ chain[i].event < chain[j].event)
          /\ chain[j].tx < chain[k].tx \/ (chain[j].tx = chain[k].tx /\ chain[j].event < chain[k].event)
      BY <1>2, <1>6, <3>1 DEF IdBelow
    <3>3. chain[i].tx < chain[k].tx \/ (chain[i].tx = chain[k].tx /\ chain[i].event < chain[k].event)
      BY <1>1, <3>2
    <3>4. QED
      BY <3>1, <3>3 DEF IdBelow
  <2>4. QED
    BY <2>2, <2>3
<1>7. QED
  BY <1>4, <1>5, <1>6

\* In a block the events of one transaction are numbered in order.
LEMMA BlockInOrder ==
  ASSUME NEW n \in Nat, NEW B, NEW block \in [1 .. n -> B], InSuccession(block),
         \A k \in 1 .. n : block[k].event \in Nat,
         NEW i \in 1 .. n, NEW j \in 1 .. n, i < j, block[i].tx = block[j].tx
  PROVE  block[i].event < block[j].event
<1> DEFINE Wrong == {k \in 1 .. n : i < k /\ block[i].tx = block[k].tx
                                   /\ ~(block[i].event < block[k].event)}
<1>1. DOMAIN block = 1 .. n
  OBVIOUS
<1>2. SUFFICES ASSUME Wrong # {}
               PROVE  FALSE
  OBVIOUS
<1>3. Wrong \subseteq Nat
  OBVIOUS
<1>4. PICK k \in Wrong : \A m \in Wrong : k <= m
  <2> HIDE DEF Wrong
  <2>1. QED
    BY <1>2, <1>3, LeastNumber
<1>5. k \in 1 .. n /\ i < k /\ block[i].tx = block[k].tx /\ ~(block[i].event < block[k].event)
  BY <1>4
<1>6. block[k].event # 1
  <2>1. i \in 1 .. k - 1
    BY <1>5
  <2>2. QED
    BY <1>1, <1>5, <2>1 DEF InSuccession
<1>7. k > 1 /\ block[k - 1].tx = block[k].tx /\ block[k - 1].event = block[k].event - 1
  BY <1>1, <1>5, <1>6 DEF InSuccession
<1>8. k - 1 \in 1 .. n /\ i <= k - 1
  BY <1>5, <1>7
<1>9. CASE k - 1 = i
  BY <1>5, <1>7, <1>9
<1>10. CASE i < k - 1
  <2>1. k - 1 \notin Wrong
    <3>1. ~(k <= k - 1)
      BY <1>5
    <3>2. QED
      BY <1>4, <3>1
  <2>2. block[i].event < block[k - 1].event
    BY <1>5, <1>7, <1>8, <1>10, <2>1
  <2>3. block[i].event \in Nat /\ block[k].event \in Nat
    BY <1>5
  <2>4. QED
    BY <1>5, <1>7, <2>2, <2>3
<1>11. QED
  BY <1>5, <1>8, <1>9, <1>10

\* A ledger is added to the chain, at its end.
LEMMA CloseLedgerFacts ==
  ASSUME NetworkInv, CloseLedger
  PROVE  /\ ledger' = ledger + 1 /\ ledger' <= LastLedger
         /\ UNCHANGED <<raw, asking, last, got, begun>>
         /\ \E n \in Nat :
              /\ chain' \in Seq(Row) /\ Len(chain') = Len(chain) + n /\ Len(chain') <= MaxEvents
              /\ DOMAIN chain' = 1 .. Len(chain) + n
              /\ \A i \in DOMAIN chain : i \in DOMAIN chain' /\ chain'[i] = chain[i]
              /\ \A i \in Len(chain) + 1 .. Len(chain) + n : chain'[i].ledger = ledger + 1
              /\ \A i, j \in Len(chain) + 1 .. Len(chain) + n :
                   i < j /\ chain'[i].tx = chain'[j].tx => chain'[i].event < chain'[j].event
<1>1. ledger < LastLedger /\ ledger' = ledger + 1 /\ UNCHANGED <<raw, asking, last, got, begun>>
  BY DEF CloseLedger, fetchVars
<1>2. PICK n \in 0 .. MaxEvents - Len(chain) :
        \E block \in [1 .. n -> [ledger : {ledger + 1}, tx : Hashes, event : 1 .. PerTx]] :
          InSuccession(block) /\ chain' = chain \o block
  BY DEF CloseLedger
<1>3. PICK block :
        /\ block \in [1 .. n -> [ledger : {ledger + 1}, tx : Hashes, event : 1 .. PerTx]]
        /\ InSuccession(block) /\ chain' = chain \o block
  BY <1>2
<1>4. PICK len \in Nat : len = Len(chain) /\ DOMAIN chain = 1 .. len
  BY ChainFacts
<1>5. n \in Nat /\ len + n <= MaxEvents
  BY <1>2, <1>4, QueryAssumption
<1>6. \A k \in 1 .. n : /\ block[k] \in [ledger : {ledger + 1}, tx : Hashes, event : 1 .. PerTx]
                       /\ block[k].ledger = ledger + 1 /\ block[k].event \in 1 .. PerTx
                       /\ block[k].tx \in Hashes
  BY <1>3
<1>7. \A k \in 1 .. n : block[k].event \in Nat
  BY <1>6
<1>8. ledger + 1 \in Nat
  BY QueryAssumption DEF NetworkInv
<1>9. \A k \in 1 .. n : block[k] \in Row
  <2> TAKE k \in 1 .. n
  <2>1. PICK r \in [ledger : {ledger + 1}, tx : Hashes, event : 1 .. PerTx] : r = block[k]
    BY <1>6
  <2>2. r.event \in Nat
    BY QueryAssumption
  <2>3. r \in Row
    BY <1>8, <2>1, <2>2 DEF Row
  <2>4. QED
    BY <2>1, <2>3
<1>10. block \in Seq(Row) /\ Len(block) = n
  <2>1. block \in [1 .. n -> Row]
    BY <1>3, <1>9
  <2>2. QED
    BY <1>5, <2>1
<1>11. PICK s \in Seq(Row) : s = chain
  BY DEF NetworkInv
<1>12. /\ s \o block \in Seq(Row) /\ Len(s \o block) = Len(s) + Len(block)
       /\ DOMAIN (s \o block) = 1 .. Len(s) + Len(block)
       /\ \A k \in 1 .. Len(s) : (s \o block)[k] = s[k]
       /\ \A k \in Len(s) + 1 .. Len(s) + Len(block) :
            k - Len(s) \in 1 .. Len(block) /\ (s \o block)[k] = block[k - Len(s)]
  <2>1. block \in Seq(Row)
    BY <1>10
  <2>2. QED
    BY <2>1, JoinFacts
<1>13. /\ chain' \in Seq(Row) /\ Len(chain') = len + n /\ DOMAIN chain' = 1 .. len + n
       /\ \A k \in 1 .. len : chain'[k] = chain[k]
       /\ \A k \in len + 1 .. len + n : k - len \in 1 .. n /\ chain'[k] = block[k - len]
  BY <1>3, <1>4, <1>10, <1>11, <1>12
<1>14. \A i \in DOMAIN chain : i \in DOMAIN chain' /\ chain'[i] = chain[i]
  BY <1>4, <1>5, <1>13
<1>15. \A i \in len + 1 .. len + n : chain'[i].ledger = ledger + 1
  BY <1>6, <1>13
<1>16. ASSUME NEW i \in len + 1 .. len + n, NEW j \in len + 1 .. len + n,
              i < j, chain'[i].tx = chain'[j].tx
       PROVE  chain'[i].event < chain'[j].event
  <2>1. PICK k \in 1 .. n, m \in 1 .. n : k = i - len /\ m = j - len /\ k < m
    BY <1>13, <1>16
  <2>2. chain'[i] = block[k] /\ chain'[j] = block[m]
    BY <1>13, <2>1
  <2>3. block[k].event < block[m].event
    BY <1>3, <1>5, <1>7, <1>16, <2>1, <2>2, BlockInOrder
  <2>4. QED
    BY <2>2, <2>3
<1>17. ledger' <= LastLedger
  BY <1>1, ChainFacts, QueryAssumption
<1>18. QED
  BY <1>1, <1>4, <1>5, <1>13, <1>14, <1>15, <1>16, <1>17

LEMMA CloseLedgerKeepsNetwork ==
  ASSUME NetworkInv, CloseLedger
  PROVE  NetworkInv'
<1>1. ledger' = ledger + 1 /\ ledger' <= LastLedger /\ UNCHANGED raw
  BY CloseLedgerFacts
<1>2. PICK len \in Nat : len = Len(chain) /\ DOMAIN chain = 1 .. len
  BY ChainFacts
<1> PICK n \in Nat :
              /\ chain' \in Seq(Row) /\ Len(chain') = Len(chain) + n /\ Len(chain') <= MaxEvents
              /\ DOMAIN chain' = 1 .. Len(chain) + n
              /\ \A i \in DOMAIN chain : i \in DOMAIN chain' /\ chain'[i] = chain[i]
              /\ \A i \in Len(chain) + 1 .. Len(chain) + n : chain'[i].ledger = ledger + 1
              /\ \A i, j \in Len(chain) + 1 .. Len(chain) + n :
                   i < j /\ chain'[i].tx = chain'[j].tx => chain'[i].event < chain'[j].event
  BY CloseLedgerFacts
<1>3. /\ chain' \in Seq(Row) /\ Len(chain') = len + n /\ Len(chain') <= MaxEvents
      /\ DOMAIN chain' = 1 .. len + n
      /\ \A i \in 1 .. len : chain'[i] = chain[i]
      /\ \A i \in len + 1 .. len + n : chain'[i].ledger = ledger + 1
      /\ \A i, j \in len + 1 .. len + n :
           i < j /\ chain'[i].tx = chain'[j].tx => chain'[i].event < chain'[j].event
  BY <1>2
<1>4. \A i \in 1 .. len : /\ chain[i].ledger \in Nat /\ chain[i].ledger >= FirstLedger
                         /\ chain[i].ledger <= ledger
  BY <1>2, ChainFacts DEF NetworkInv, ChainInOrder
<1>5. ledger \in Int /\ FirstLedger \in Nat /\ ledger + 1 >= FirstLedger
  BY QueryAssumption DEF NetworkInv
<1>6. \A i \in DOMAIN chain' : i \in 1 .. len \/ i \in len + 1 .. len + n
  BY <1>3
<1>7. ASSUME NEW i \in DOMAIN chain'
      PROVE  chain'[i].ledger >= FirstLedger /\ chain'[i].ledger <= ledger'
  <2>1. CASE i \in 1 .. len
    BY <1>1, <1>3, <1>4, <1>5, <2>1
  <2>2. CASE i \in len + 1 .. len + n
    BY <1>1, <1>3, <1>5, <2>2
  <2>3. QED
    BY <1>6, <2>1, <2>2
<1>8. ASSUME NEW i \in DOMAIN chain', NEW j \in DOMAIN chain', i < j
      PROVE  /\ chain'[i].ledger <= chain'[j].ledger
             /\ chain'[i].ledger = chain'[j].ledger /\ chain'[i].tx = chain'[j].tx
                  => chain'[i].event < chain'[j].event
  <2>1. CASE j \in 1 .. len
    <3>1. i \in 1 .. len
      BY <1>6, <1>8, <2>1
    <3>2. chain'[i] = chain[i] /\ chain'[j] = chain[j]
      BY <1>3, <2>1, <3>1
    <3>3. QED
      BY <1>2, <1>8, <2>1, <3>1, <3>2 DEF NetworkInv, ChainInOrder
  <2>2. CASE j \in len + 1 .. len + n /\ i \in 1 .. len
    <3>1. chain'[i] = chain[i] /\ chain'[j].ledger = ledger + 1
      BY <1>3, <2>2
    <3>2. chain[i].ledger \in Nat /\ chain[i].ledger < ledger + 1
      BY <1>4, <1>5, <2>2
    <3>3. QED
      BY <1>5, <3>1, <3>2
  <2>3. CASE j \in len + 1 .. len + n /\ i \in len + 1 .. len + n
    <3>1. chain'[i].ledger = ledger + 1 /\ chain'[j].ledger = ledger + 1
      BY <1>3, <2>3
    <3>2. chain'[i].tx = chain'[j].tx => chain'[i].event < chain'[j].event
      BY <1>3, <1>8, <2>3
    <3>3. QED
      BY <1>5, <3>1, <3>2
  <2>4. QED
    BY <1>6, <2>1, <2>2, <2>3
<1>9. ChainInOrder'
  BY <1>7, <1>8 DEF ChainInOrder
<1>10. raw' \subseteq DOMAIN chain'
  BY <1>1, <1>2, <1>3 DEF NetworkInv
<1>11. ledger' \in FirstLedger - 1 .. LastLedger
  BY <1>1, <1>5, QueryAssumption
<1>12. QED
  BY <1>3, <1>9, <1>10, <1>11 DEF NetworkInv

\* What is said of a fetch stays when rows are added to the chain and the table.
LEMMA FetchInvStays ==
  ASSUME NetworkInv, FetchInv, UNCHANGED <<asking, last, got, begun>>, raw \subseteq raw',
         \A i \in DOMAIN chain : chain'[i] = chain[i]
  PROVE  FetchInv'
<1>1. begun \subseteq raw /\ got \in Seq(raw) /\ raw \subseteq DOMAIN chain
  BY DEF FetchInv, NetworkInv
<1>2. \A n \in DOMAIN got : got[n] \in raw /\ got[n] \in DOMAIN chain
  <2>1. \A n \in DOMAIN got : got[n] \in raw
    BY <1>1
  <2>2. QED
    BY <1>1, <2>1
<1>3. \A i, j \in DOMAIN chain : IdBelow(i, j)' <=> IdBelow(i, j)
  BY DEF IdBelow
<1>4. \A i \in DOMAIN chain : InRange(i)' <=> InRange(i)
  BY DEF InRange
<1>5. got' \in Seq(raw')
  BY <1>1, SeqWiden
<1>6. Ascending(got)'
  <2> SUFFICES ASSUME NEW n \in DOMAIN got, NEW m \in DOMAIN got, n < m
               PROVE  IdBelow(got[n], got[m])'
    BY DEF Ascending
  <2>1. PICK i \in DOMAIN chain, j \in DOMAIN chain : i = got[n] /\ j = got[m]
    BY <1>2
  <2>2. IdBelow(i, j)
    BY <2>1 DEF FetchInv, Ascending
  <2>3. IdBelow(i, j)'
    BY <1>3, <2>2
  <2>4. QED
    BY <2>1, <2>3 DEF IdBelow
<1>7. \A n \in DOMAIN got : chain'[got[n]].ledger <= EndLedger
  BY <1>2 DEF FetchInv
<1>8. got # <<>> => 1 \in DOMAIN got /\ chain'[got[1]].ledger >= StartLedger
  <2>1. got # <<>> => 1 \in DOMAIN got
    BY <1>1
  <2>2. QED
    BY <1>2, <2>1 DEF FetchInv
<1>9. ASSUME asking, got # <<>>, NEW i \in begun, InRange(i)'
      PROVE  i \in ToSet(got) \/ IdBelow(last, i)'
  <2>1. i \in DOMAIN chain
    BY <1>1
  <2>2. InRange(i)
    BY <1>4, <1>9, <2>1
  <2>3. i \in ToSet(got) \/ IdBelow(last, i)
    BY <1>9, <2>2 DEF FetchInv
  <2>4. PICK l \in DOMAIN chain : l = last
    <3>1. Len(got) \in DOMAIN got /\ last = got[Len(got)]
      BY <1>1, <1>9 DEF FetchInv
    <3>2. QED
      BY <1>2, <3>1
  <2>5. IdBelow(l, i) => IdBelow(l, i)'
    BY <1>3, <2>1
  <2>6. IdBelow(last, i) => IdBelow(last, i)'
    BY <2>4, <2>5 DEF IdBelow
  <2>7. QED
    BY <2>3, <2>6
<1>10. ASSUME ~asking, NEW i \in begun, InRange(i)'
       PROVE  i \in ToSet(got)
  BY <1>1, <1>4, <1>10 DEF FetchInv
<1>11. begun' \subseteq raw'
  BY <1>1
<1>12. /\ asking' \in BOOLEAN /\ (asking' => \E q \in Nat : Len(got') = q * PageLimit)
       /\ IF asking' /\ got' # <<>> THEN last' = got'[Len(got')] ELSE last' = 0
  BY DEF FetchInv
<1>13. /\ asking' /\ got' # <<>> =>
            \A i \in begun' : InRange(i)' => i \in ToSet(got') \/ IdBelow(last, i)'
       /\ ~asking' => \A i \in begun' : InRange(i)' => i \in ToSet(got')
  BY <1>9, <1>10
<1>14. QED
  BY <1>5, <1>6, <1>7, <1>8, <1>11, <1>12, <1>13 DEF FetchInv

LEMMA NetworkStep ==
  ASSUME QueryInv, CloseLedger \/ Ingest
  PROVE  QueryInv'
<1>1. CASE CloseLedger
  <2>1. NetworkInv'
    BY <1>1, CloseLedgerKeepsNetwork DEF QueryInv
  <2>2. /\ UNCHANGED <<raw, asking, last, got, begun>>
        /\ \A i \in DOMAIN chain : chain'[i] = chain[i]
    BY <1>1, CloseLedgerFacts DEF QueryInv
  <2>3. FetchInv'
    BY <2>2, FetchInvStays DEF QueryInv
  <2>4. QED
    BY <2>1, <2>3 DEF QueryInv
<1>2. CASE Ingest
  <2>1. PICK i \in DOMAIN chain : raw' = raw \cup {i}
    BY <1>2 DEF Ingest
  <2>2. UNCHANGED <<ledger, chain, asking, last, got, begun>>
    BY <1>2 DEF Ingest, fetchVars
  <2>3. NetworkInv'
    BY <2>1, <2>2 DEF QueryInv, NetworkInv, ChainInOrder
  <2>4. FetchInv'
    BY <2>1, <2>2, FetchInvStays DEF QueryInv
  <2>5. QED
    BY <2>3, <2>4 DEF QueryInv
<1>3. QED
  BY <1>1, <1>2

LEMMA NetworkStays ==
  ASSUME NetworkInv, UNCHANGED networkVars
  PROVE  NetworkInv' /\ UNCHANGED <<ledger, chain, raw>>
BY DEF NetworkInv, ChainInOrder, networkVars

-----------------------------------------------------------------------------
(* The pages of a fetch. *)

\* A page holds the first rows of those that match, in the order of their ids.
LEMMA PageFacts ==
  ASSUME NetworkInv, NEW after
  PROVE  /\ Matching(after) \subseteq raw
         /\ Page(after) \in Seq(Matching(after)) /\ Ascending(Page(after))
         /\ ~HasMore(after) => \A x \in Matching(after) : x \in ToSet(Page(after))
         /\ HasMore(after) =>
              /\ Len(Page(after)) = PageLimit
              /\ \A x \in Matching(after) :
                   x \in ToSet(Page(after)) \/ IdBelow(Page(after)[PageLimit], x)
<1>1. PICK M : M = Matching(after)
  OBVIOUS
<1>2. M \subseteq raw
  BY <1>1 DEF Matching
<1>3. M \subseteq DOMAIN chain /\ IsFiniteSet(M)
  BY <1>2, ChainFacts, FS_Subset
<1>4. PICK before : before = {p \in M \X M : IdBelow(p[1], p[2])}
  OBVIOUS
<1>5. \A x, y \in M : <<x, y>> \in before <=> IdBelow(x, y)
  BY <1>4
<1>6. /\ \A x \in M : ~IdBelow(x, x)
      /\ \A x, y \in M : x # y => IdBelow(x, y) \/ IdBelow(y, x)
      /\ \A x, y, z \in M : IdBelow(x, y) /\ IdBelow(y, z) => IdBelow(x, z)
  BY <1>3, IdFacts
<1>7. IsStrictOrder(M, before)
  BY <1>5, <1>6 DEF IsStrictOrder
<1>8. PICK o, N : o = InOrder(M, before) /\ N = Cardinality(M)
  OBVIOUS
<1>9. /\ N \in Nat /\ o \in Seq(M) /\ Len(o) = N /\ DOMAIN o = 1 .. N
      /\ \A x \in M : \E n \in 1 .. N : o[n] = x
      /\ \A n, m \in 1 .. N : n < m => <<o[n], o[m]>> \in before
  BY <1>3, <1>7, <1>8, InOrderFacts
<1>10. \A n \in 1 .. N : o[n] \in M
  BY <1>9
<1>11. \A n, m \in 1 .. N : n < m => IdBelow(o[n], o[m])
  BY <1>5, <1>9, <1>10
<1>12. PICK limit \in Nat \ {0} : limit = PageLimit
  BY QueryAssumption
<1>13. HasMore(after) <=> N > limit
  BY <1>1, <1>8, <1>12 DEF HasMore
<1>14. Page(after) = IF N > limit THEN SubSeq(o, 1, limit) ELSE o
  BY <1>1, <1>4, <1>8, <1>12, <1>13 DEF Page, InIdOrder
<1>15. PICK p : p = Page(after)
  OBVIOUS
<1>16. CASE N > limit
  <2>1. /\ p \in Seq(M) /\ Len(p) = limit /\ DOMAIN p = 1 .. limit
        /\ \A k \in 1 .. limit : p[k] = o[k]
    <3>1. p = SubSeq(o, 1, limit)
      BY <1>14, <1>15, <1>16
    <3>2. limit \in 1 .. Len(o)
      BY <1>9, <1>16
    <3>3. p = [k \in 1 .. limit |-> o[k]]
      BY <1>9, <3>1, <3>2
    <3>4. \A k \in 1 .. limit : k \in 1 .. N
      BY <1>9, <1>16
    <3>5. p \in [1 .. limit -> M]
      BY <1>10, <3>3, <3>4
    <3>6. QED
      BY <3>3, <3>5
  <2>2. Ascending(p)
    <3>1. \A k \in 1 .. limit : k \in 1 .. N
      BY <1>9, <1>16
    <3>2. QED
      BY <1>11, <2>1, <3>1 DEF Ascending
  <2>3. ASSUME NEW x \in M
        PROVE  x \in ToSet(p) \/ IdBelow(p[limit], x)
    <3>1. PICK n \in 1 .. N : o[n] = x
      BY <1>9
    <3>2. CASE n <= limit
      <4>1. n \in 1 .. limit
        BY <3>2
      <4>2. QED
        BY <2>1, <3>1, <4>1 DEF ToSet
    <3>3. CASE limit < n
      <4>1. limit \in 1 .. N /\ limit \in 1 .. limit
        BY <1>9, <1>16
      <4>2. IdBelow(o[limit], o[n])
        BY <1>11, <3>3, <4>1
      <4>3. QED
        BY <2>1, <3>1, <4>1, <4>2
    <3>4. QED
      BY <3>2, <3>3
  <2>4. HasMore(after)
    BY <1>13, <1>16
  <2>5. QED
    BY <1>1, <1>2, <1>12, <1>15, <2>1, <2>2, <2>3, <2>4
<1>17. CASE ~(N > limit)
  <2>1. p = o /\ ~HasMore(after)
    BY <1>13, <1>14, <1>15, <1>17
  <2>2. p \in Seq(M) /\ Ascending(p)
    BY <1>9, <1>11, <2>1 DEF Ascending
  <2>3. \A x \in M : x \in ToSet(p)
    BY <1>9, <2>1 DEF ToSet
  <2>4. QED
    BY <1>1, <1>2, <1>15, <2>1, <2>2, <2>3
<1>18. QED
  BY <1>16, <1>17

\* The cursor is a row, and the last of those that came.
LEMMA CursorFacts ==
  ASSUME QueryInv
  PROVE  /\ got \in Seq(raw) /\ Len(got) \in Nat /\ DOMAIN got = 1 .. Len(got)
         /\ \A n \in DOMAIN got : got[n] \in raw /\ got[n] \in DOMAIN chain
         /\ asking /\ got # <<>> => /\ last = got[Len(got)] /\ Len(got) \in DOMAIN got
                                  /\ last \in raw /\ last \in DOMAIN chain /\ last # 0
         /\ ~(asking /\ got # <<>>) => last = 0
<1>1. got \in Seq(raw) /\ raw \subseteq DOMAIN chain /\ DOMAIN chain = 1 .. Len(chain)
  BY ChainFacts DEF QueryInv, FetchInv
<1>2. Len(got) \in Nat /\ DOMAIN got = 1 .. Len(got)
  BY <1>1
<1>3. \A n \in DOMAIN got : got[n] \in raw
  BY <1>1
<1>4. got # <<>> => Len(got) \in DOMAIN got
  BY <1>1, <1>2
<1>5. IF asking /\ got # <<>> THEN last = got[Len(got)] ELSE last = 0
  BY DEF QueryInv, FetchInv
<1>6. 0 \notin DOMAIN chain
  BY <1>1
<1>7. QED
  BY <1>1, <1>2, <1>3, <1>4, <1>5, <1>6

LEMMA GetPageStep ==
  ASSUME QueryInv, GetPage
  PROVE  QueryInv'
<1>1. PICK M, p, more : M = Matching(last) /\ p = Page(last) /\ more = HasMore(last)
  OBVIOUS
<1>2. PICK limit \in Nat \ {0} : limit = PageLimit
  BY QueryAssumption
<1>3. /\ asking /\ got' = got \o p /\ asking' = more
      /\ last' = IF more THEN p[limit] ELSE 0
      /\ begun' = begun /\ UNCHANGED networkVars
  BY <1>1, <1>2 DEF GetPage, TakePage
<1>4. NetworkInv' /\ UNCHANGED <<ledger, chain, raw>>
  BY <1>3, NetworkStays DEF QueryInv
<1>5. more \in BOOLEAN
  BY <1>1 DEF HasMore
<1>6. /\ M \subseteq raw /\ p \in Seq(M) /\ Ascending(p)
      /\ ~more => \A x \in M : x \in ToSet(p)
      /\ more => Len(p) = limit /\ \A x \in M : x \in ToSet(p) \/ IdBelow(p[limit], x)
  BY <1>1, <1>2, PageFacts DEF QueryInv
<1>7. /\ Len(p) \in Nat /\ DOMAIN p = 1 .. Len(p) /\ \A k \in DOMAIN p : p[k] \in M
      /\ p \in Seq(raw)
  BY <1>6, SeqWiden
<1>8. /\ got \in Seq(raw) /\ Len(got) \in Nat /\ DOMAIN got = 1 .. Len(got)
      /\ \A n \in DOMAIN got : got[n] \in raw /\ got[n] \in DOMAIN chain
      /\ got # <<>> => /\ last = got[Len(got)] /\ Len(got) \in DOMAIN got
                      /\ last \in raw /\ last \in DOMAIN chain /\ last # 0
      /\ got = <<>> => last = 0
  BY <1>3, CursorFacts
<1>9. PICK a \in Nat, b \in Nat : a = Len(got) /\ b = Len(p)
  BY <1>7, <1>8
<1>10. /\ got' \in Seq(raw) /\ Len(got') = a + b /\ DOMAIN got' = 1 .. a + b
       /\ \A k \in 1 .. a : got'[k] = got[k]
       /\ \A k \in a + 1 .. a + b : k - a \in 1 .. b /\ got'[k] = p[k - a]
  BY <1>3, <1>7, <1>8, <1>9, JoinFacts
<1>11. \A i \in raw : i \in DOMAIN chain
  BY DEF QueryInv, NetworkInv
<1>12. \A x \in M : /\ chain[x].ledger <= EndLedger
                   /\ IF last = 0 THEN chain[x].ledger >= StartLedger ELSE IdBelow(last, x)
  BY <1>1 DEF Matching
<1>13. ASSUME NEW n \in 1 .. a + b, NEW m \in 1 .. a + b, n < m
       PROVE  IdBelow(got'[n], got'[m])
  <2>1. CASE m \in 1 .. a
    <3>1. n \in 1 .. a
      BY <1>13, <2>1
    <3>2. IdBelow(got[n], got[m])
      BY <1>8, <1>9, <1>13, <2>1, <3>1 DEF QueryInv, FetchInv, Ascending
    <3>3. QED
      BY <1>10, <2>1, <3>1, <3>2
  <2>2. CASE n \in a + 1 .. a + b /\ m \in a + 1 .. a + b
    <3>1. n - a \in 1 .. b /\ m - a \in 1 .. b /\ n - a < m - a
      BY <1>13, <2>2
    <3>2. IdBelow(p[n - a], p[m - a])
      BY <1>6, <1>7, <1>9, <3>1 DEF Ascending
    <3>3. QED
      BY <1>10, <2>2, <3>2
  <2>3. CASE n \in 1 .. a /\ m \in a + 1 .. a + b
    <3>1. m - a \in 1 .. b /\ got'[m] = p[m - a] /\ got'[n] = got[n]
      BY <1>10, <2>3
    <3>2. PICK x \in M : x = p[m - a]
      BY <1>7, <1>9, <3>1
    <3>3. got # <<>> /\ n \in DOMAIN got
      BY <1>8, <1>9, <2>3
    <3>4. IdBelow(last, x)
      BY <1>8, <1>12, <3>3
    <3>5. PICK i \in DOMAIN chain, j \in DOMAIN chain : i = got[n] /\ j = last
      BY <1>8, <3>3
    <3>6. i = j \/ IdBelow(i, j)
      <4>1. CASE n = a
        BY <1>8, <1>9, <3>3, <3>5, <4>1
      <4>2. CASE n # a
        <5>1. n < a
          BY <2>3, <4>2
        <5>2. a \in DOMAIN got /\ got[a] = j
          BY <1>8, <1>9, <3>3, <3>5
        <5>3. IdBelow(got[n], got[a])
          BY <3>3, <5>1, <5>2 DEF QueryInv, FetchInv, Ascending
        <5>4. QED
          BY <3>5, <5>2, <5>3
      <4>3. QED
        BY <4>1, <4>2
    <3>7. x \in DOMAIN chain
      BY <1>6, <1>11
    <3>8. IdBelow(i, x)
      BY <3>4, <3>5, <3>6, <3>7, IdFacts DEF QueryInv
    <3>9. QED
      BY <3>1, <3>2, <3>5, <3>8
  <2>4. QED
    BY <1>13, <2>1, <2>2, <2>3
<1>14. Ascending(got)'
  BY <1>4, <1>10, <1>13 DEF Ascending, IdBelow
<1>15. \A k \in DOMAIN got' : chain[got'[k]].ledger <= EndLedger
  <2>1. \A k \in 1 .. a : chain[got'[k]].ledger <= EndLedger
    BY <1>8, <1>9, <1>10 DEF QueryInv, FetchInv
  <2>2. \A k \in a + 1 .. a + b : chain[got'[k]].ledger <= EndLedger
    BY <1>7, <1>9, <1>10, <1>12
  <2>3. \A k \in 1 .. a + b : k \in 1 .. a \/ k \in a + 1 .. a + b
    OBVIOUS
  <2>4. QED
    BY <1>10, <2>1, <2>2, <2>3
<1>16. got' # <<>> => chain[got'[1]].ledger >= StartLedger
  <2>1. CASE got # <<>>
    <3>1. 1 \in 1 .. a
      BY <1>8, <1>9, <2>1
    <3>2. QED
      BY <1>10, <2>1, <3>1 DEF QueryInv, FetchInv
  <2>2. CASE got = <<>>
    <3>1. a = 0 /\ last = 0
      BY <1>8, <1>9, <2>2
    <3>2. SUFFICES ASSUME got' # <<>>
                   PROVE  chain[got'[1]].ledger >= StartLedger
      OBVIOUS
    <3>3. 1 \in a + 1 .. a + b /\ 1 - a = 1 /\ 1 \in 1 .. b
      BY <1>10, <3>1, <3>2
    <3>4. got'[1] = p[1] /\ p[1] \in M
      BY <1>7, <1>9, <1>10, <3>3
    <3>5. QED
      BY <1>12, <3>1, <3>4
  <2>3. QED
    BY <2>1, <2>2
<1>17. more => \E q \in Nat : Len(got') = q * PageLimit
  <2>1. PICK q \in Nat : a = q * limit
    BY <1>2, <1>3, <1>9 DEF QueryInv, FetchInv
  <2>2. more => Len(got') = (q + 1) * limit
    BY <1>6, <1>9, <1>10, <2>1
  <2>3. q + 1 \in Nat
    OBVIOUS
  <2>4. QED
    BY <1>2, <2>2, <2>3
<1>18. IF asking' /\ got' # <<>> THEN last' = got'[Len(got')] ELSE last' = 0
  <2>1. CASE more
    <3>1. b = limit /\ a + b \in a + 1 .. a + b /\ a + b - a = limit
      BY <1>6, <1>9, <2>1
    <3>2. got'[a + b] = p[limit] /\ got' # <<>>
      BY <1>10, <3>1
    <3>3. QED
      BY <1>3, <1>10, <2>1, <3>2
  <2>2. CASE ~more
    BY <1>3, <2>2
  <2>3. QED
    BY <2>1, <2>2
<1>19. \A i \in begun : InRange(i) => i \in ToSet(got) \/ i \in M
  <2> SUFFICES ASSUME NEW i \in begun, InRange(i), i \notin ToSet(got)
               PROVE  i \in M
    OBVIOUS
  <2>1. i \in raw /\ chain[i].ledger >= StartLedger /\ chain[i].ledger <= EndLedger
    <3>1. i \in raw
      BY DEF QueryInv, FetchInv
    <3>2. QED
      BY <3>1, QueryAssumption DEF InRange
  <2>2. CASE got = <<>>
    BY <1>1, <1>8, <2>1, <2>2 DEF Matching
  <2>3. CASE got # <<>>
    <3>1. IdBelow(last, i) /\ last # 0
      BY <1>3, <1>8, <2>3 DEF QueryInv, FetchInv
    <3>2. QED
      BY <1>1, <2>1, <3>1 DEF Matching
  <2>4. QED
    BY <2>2, <2>3
<1>20. ToSet(got) \subseteq ToSet(got') /\ ToSet(p) \subseteq ToSet(got')
  <2>1. \A k \in 1 .. a : k \in DOMAIN got' /\ got'[k] = got[k]
    BY <1>10
  <2>2. \A k \in 1 .. b : k + a \in DOMAIN got' /\ got'[k + a] = p[k]
    <3> TAKE k \in 1 .. b
    <3>1. k + a \in a + 1 .. a + b /\ k + a - a = k /\ k + a \in 1 .. a + b
      OBVIOUS
    <3>2. QED
      BY <1>10, <3>1
  <2>3. QED
    BY <1>7, <1>8, <1>9, <2>1, <2>2 DEF ToSet
<1>21. ASSUME NEW i \in begun, InRange(i)
       PROVE  IF more THEN i \in ToSet(got') \/ IdBelow(last', i) ELSE i \in ToSet(got')
  BY <1>3, <1>6, <1>19, <1>20, <1>21
<1>22. /\ more /\ got' # <<>> =>
            \A i \in begun : InRange(i)' => i \in ToSet(got') \/ IdBelow(last, i)'
       /\ ~more => \A i \in begun : InRange(i)' => i \in ToSet(got')
  BY <1>4, <1>21 DEF InRange, IdBelow
<1>23. begun' \subseteq raw'
  BY <1>3, <1>4 DEF QueryInv, FetchInv
<1>24. got' \in Seq(raw')
  BY <1>4, <1>10
<1>25. FetchInv'
  BY <1>3, <1>4, <1>5, <1>14, <1>15, <1>16, <1>17, <1>18, <1>22, <1>23, <1>24 DEF FetchInv
<1>26. QED
  BY <1>4, <1>25 DEF QueryInv

LEMMA BeginOrFailStep ==
  ASSUME QueryInv, BeginFetch \/ FailPage
  PROVE  QueryInv'
<1>1. /\ UNCHANGED networkVars /\ last' = 0 /\ got' = <<>> /\ asking' \in BOOLEAN
      /\ begun' \subseteq raw /\ (~asking' => begun' = {})
  BY DEF BeginFetch, FailPage
<1>2. NetworkInv' /\ UNCHANGED <<ledger, chain, raw>>
  BY <1>1, NetworkStays DEF QueryInv
<1>3. got' \in Seq(raw') /\ Len(got') = 0 /\ DOMAIN got' = {}
  BY <1>1
<1>4. asking' => \E q \in Nat : Len(got') = q * PageLimit
  <2>1. 0 = 0 * PageLimit /\ 0 \in Nat
    BY QueryAssumption
  <2>2. QED
    BY <1>3, <2>1
<1>5. FetchInv'
  BY <1>1, <1>2, <1>3, <1>4 DEF FetchInv, Ascending
<1>6. QED
  BY <1>2, <1>5 DEF QueryInv

\* QueryInv is an invariant of every execution.
THEOREM QueryInvariance == Spec => []QueryInv
<1>1. Init => QueryInv
  <2> SUFFICES ASSUME Init
               PROVE  QueryInv
    OBVIOUS
  <2>1. /\ ledger = FirstLedger - 1 /\ chain = <<>> /\ raw = {} /\ ~asking /\ asking \in BOOLEAN
        /\ last = 0 /\ got = <<>> /\ begun = {}
    BY DEF Init
  <2>2. NetworkInv
    <3>1. FirstLedger - 1 \in FirstLedger - 1 .. LastLedger
      BY QueryAssumption
    <3>2. QED
      BY <2>1, <3>1, QueryAssumption DEF NetworkInv, ChainInOrder
  <2>3. FetchInv
    BY <2>1 DEF FetchInv, Ascending
  <2>4. QED
    BY <2>2, <2>3 DEF QueryInv
<1>2. QueryInv /\ [Next]_vars => QueryInv'
  <2> SUFFICES ASSUME QueryInv, [Next]_vars
               PROVE  QueryInv'
    OBVIOUS
  <2>1. CASE CloseLedger \/ Ingest
    BY <2>1, NetworkStep
  <2>2. CASE GetPage
    BY <2>2, GetPageStep
  <2>3. CASE BeginFetch \/ FailPage
    BY <2>3, BeginOrFailStep
  <2>4. CASE UNCHANGED vars
    BY <2>4 DEF vars, networkVars, fetchVars, QueryInv, NetworkInv, ChainInOrder, FetchInv,
                Ascending, IdBelow, InRange
  <2>5. QED
    BY <2>1, <2>2, <2>3, <2>4 DEF Next
<1>3. QED
  BY <1>1, <1>2, PTL DEF Spec

-----------------------------------------------------------------------------
(* What a reader may rely on. *)

\* Every row that came is a stored row of its own.
LEMMA GotFacts ==
  ASSUME QueryInv
  PROVE  /\ Len(got) \in Nat /\ DOMAIN got = 1 .. Len(got) /\ ToSet(got) \subseteq raw
         /\ \A n \in DOMAIN got : got[n] \in ToSet(got) /\ got[n] \in DOMAIN chain
         /\ \A i \in ToSet(got) : \E n \in DOMAIN got : got[n] = i
         /\ \A n, m \in DOMAIN got : n < m => IdBelow(got[n], got[m])
         /\ \A n, m \in DOMAIN got : n # m => got[n] # got[m]
<1>1. /\ Len(got) \in Nat /\ DOMAIN got = 1 .. Len(got)
      /\ \A n \in DOMAIN got : got[n] \in raw /\ got[n] \in DOMAIN chain
  BY CursorFacts
<1>2. /\ ToSet(got) \subseteq raw /\ \A n \in DOMAIN got : got[n] \in ToSet(got)
      /\ \A i \in ToSet(got) : \E n \in DOMAIN got : got[n] = i
  BY <1>1 DEF ToSet
<1>3. \A n, m \in DOMAIN got : n < m => IdBelow(got[n], got[m])
  BY DEF QueryInv, FetchInv, Ascending
<1>4. ASSUME NEW n \in DOMAIN got, NEW m \in DOMAIN got, n # m
      PROVE  got[n] # got[m]
  <2>1. n < m \/ m < n
    BY <1>1, <1>4
  <2>2. IdBelow(got[n], got[m]) \/ IdBelow(got[m], got[n])
    BY <1>3, <2>1
  <2>3. ~IdBelow(got[n], got[n])
    BY <1>1, IdFacts DEF QueryInv
  <2>4. QED
    BY <2>2, <2>3
<1>5. QED
  BY <1>1, <1>2, <1>3, <1>4

\* The type invariant of the indexer and of the client's fetch; the number of
\* rows a fetch that goes on has collected is a multiple of the page size.
THEOREM QueryTypes == Spec => []TypeOK
<1>1. QueryInv => TypeOK
  <2> SUFFICES ASSUME QueryInv
               PROVE  TypeOK
    OBVIOUS
  <2>1. /\ ledger \in FirstLedger - 1 .. LastLedger
        /\ chain \in Seq(Row) /\ Len(chain) <= MaxEvents /\ raw \subseteq DOMAIN chain
        /\ begun \subseteq raw /\ asking \in BOOLEAN
    BY DEF QueryInv, NetworkInv, FetchInv
  <2>2. last \in raw \cup {0} /\ ToSet(got) \subseteq raw
    BY CursorFacts, GotFacts
  <2>3. asking => Len(got) % PageLimit = 0
    <3> SUFFICES ASSUME asking
                 PROVE  Len(got) % PageLimit = 0
      OBVIOUS
    <3>1. PICK q \in Nat : Len(got) = q * PageLimit
      BY DEF QueryInv, FetchInv
    <3>2. PICK limit \in Nat \ {0} : limit = PageLimit
      BY QueryAssumption
    <3>3. (q * limit) % limit = 0
      OBVIOUS
    <3>4. QED
      BY <3>1, <3>2, <3>3
  <2>4. QED
    BY <2>1, <2>2, <2>3 DEF TypeOK
<1>2. QED
  BY <1>1, QueryInvariance, PTL

\* Cursor paging never returns a row twice, whatever the pipeline stores in
\* between and however ids are ordered (queries.ts:38-40).
THEOREM NoRowTwice == Spec => []NothingTwice
<1>1. QueryInv => NothingTwice
  <2> SUFFICES ASSUME QueryInv
               PROVE  NothingTwice
    OBVIOUS
  <2>1. PICK a, D, T : a \in Nat /\ a = Len(got) /\ D = 1 .. a /\ T = ToSet(got)
    BY GotFacts
  <2>2. PICK f : f = [n \in D |-> got[n]]
    OBVIOUS
  <2>3. f \in [D -> T]
    BY <2>1, <2>2, GotFacts
  <2>4. f \in Injection(D, T)
    BY <2>1, <2>2, <2>3, GotFacts DEF Injection, IsInjective
  <2>5. f \in Surjection(D, T)
    BY <2>1, <2>2, <2>3, GotFacts DEF Surjection
  <2>6. IsFiniteSet(D) /\ Cardinality(D) = a
    <3>1. a \in Nat
      BY <2>1
    <3>2. IsFiniteSet(1 .. a) /\ Cardinality(1 .. a) = IF 1 > a THEN 0 ELSE a - 1 + 1
      BY <3>1, FS_Interval
    <3>3. QED
      BY <2>1, <3>1, <3>2
  <2>7. Cardinality(T) = Cardinality(D)
    BY <2>4, <2>5, <2>6, FS_Surjection
  <2>8. QED
    BY <2>1, <2>6, <2>7 DEF NothingTwice
<1>2. QED
  BY <1>1, QueryInvariance, PTL

\* A finished fetch holds every row of its range that was stored when it began
\* (queries.ts:78-85, indexer.ts:93-119).
THEOREM NoRowMissed == Spec => []NothingMissed
<1>1. QueryInv => NothingMissed
  BY DEF QueryInv, FetchInv, InRange, NothingMissed
<1>2. QED
  BY <1>1, QueryInvariance, PTL

\* With ledger numbers of one width no page brings a row from outside the range
\* (indexer.ts:80-82).
THEOREM NoRowOutOfRange == Spec => []NothingOutOfRange
<1>1. QueryInv => NothingOutOfRange
  <2> SUFFICES ASSUME QueryInv, SameWidth, NEW i \in ToSet(got)
               PROVE  chain[i].ledger \in StartLedger .. EndLedger
    BY DEF NothingOutOfRange
  <2>1. PICK n \in DOMAIN got : got[n] = i
    BY GotFacts
  <2>2. /\ DOMAIN got = 1 .. Len(got) /\ Len(got) \in Nat /\ got # <<>>
    BY <2>1, GotFacts
  <2>3. 1 \in DOMAIN got /\ n \in Nat /\ 1 <= n
    BY <2>1, <2>2
  <2>4. PICK j \in DOMAIN chain : j = got[1]
    BY <2>3, GotFacts
  <2>5. i \in DOMAIN chain
    BY <2>1, GotFacts
  <2>6. chain[j].ledger >= StartLedger /\ chain[i].ledger <= EndLedger
    BY <2>1, <2>2, <2>4 DEF QueryInv, FetchInv
  <2>7. chain[j].ledger <= chain[i].ledger
    <3>1. CASE n = 1
      <4>1. i = j
        BY <2>1, <2>4, <3>1
      <4>2. chain[j].ledger \in Nat
        BY ChainFacts DEF QueryInv
      <4>3. QED
        BY <4>1, <4>2
    <3>2. CASE n # 1
      <4>1. 1 < n
        BY <2>3, <3>2
      <4>2. IdBelow(j, i)
        BY <2>1, <2>3, <2>4, <4>1, GotFacts
      <4>3. PICK k \in FirstLedger .. LastLedger, l \in FirstLedger .. LastLedger :
              k = chain[j].ledger /\ l = chain[i].ledger
        BY <2>4, <2>5, ChainFacts DEF QueryInv
      <4>4. k < WideLedger <=> l < WideLedger
        BY <2>4, <2>5, <4>3 DEF SameWidth
      <4>5. LedgerText(k) < LedgerText(l) \/ k = l
        BY <4>2, <4>3 DEF IdBelow
      <4>6. k < l \/ k = l
        BY <4>4, <4>5, TextFacts
      <4>7. k \in Int /\ l \in Int
        BY QueryAssumption
      <4>8. QED
        BY <4>3, <4>6, <4>7
    <3>3. QED
      BY <3>1, <3>2
  <2>8. chain[i].ledger \in Nat /\ chain[j].ledger \in Nat
    BY <2>4, <2>5, ChainFacts DEF QueryInv
  <2>9. QED
    BY <2>6, <2>7, <2>8, QueryAssumption
<1>2. QED
  BY <1>1, QueryInvariance, PTL

\* What dedupeById makes of a fetch: every row once, by ledger, and within a
\* ledger in the order in which the rows came.
LEMMA ByLedgerFacts ==
  ASSUME QueryInv
  PROVE  \E order \in [DOMAIN ByLedger(got) -> DOMAIN got] :
           /\ DOMAIN ByLedger(got) \subseteq Nat
           /\ \A k \in DOMAIN ByLedger(got) : ByLedger(got)[k] = got[order[k]]
           /\ \A k, m \in DOMAIN ByLedger(got) :
                k < m => \/ chain[got[order[k]]].ledger < chain[got[order[m]]].ledger
                         \/ /\ chain[got[order[k]]].ledger = chain[got[order[m]]].ledger
                            /\ order[k] < order[m]
<1>1. PICK D, ledgerOf : /\ D = DOMAIN got
                         /\ ledgerOf = [i \in DOMAIN chain |-> chain[i].ledger]
  OBVIOUS
<1>2. /\ D \subseteq Nat /\ IsFiniteSet(D)
      /\ \A n \in D : /\ got[n] \in DOMAIN chain
                      /\ ledgerOf[got[n]] = chain[got[n]].ledger
                      /\ ledgerOf[got[n]] \in Nat
  <2>1. IsFiniteSet(1 .. Len(got))
    BY GotFacts, FS_Interval
  <2>2. \A n \in D : got[n] \in DOMAIN chain
    BY <1>1, GotFacts
  <2>3. \A n \in D : chain[got[n]].ledger \in Nat
    BY <2>2, ChainFacts DEF QueryInv
  <2>4. QED
    BY <1>1, <2>1, <2>2, <2>3, GotFacts
<1>3. Firsts(got) = D
  <2>1. \A k \in D : \A j \in 1 .. k - 1 : j \in D /\ j # k
    BY <1>1, GotFacts
  <2>2. \A k \in D : \A j \in 1 .. k - 1 : got[j] # got[k]
    BY <1>1, <2>1, GotFacts
  <2>3. QED
    BY <1>1, <2>2 DEF Firsts
<1>4. PICK before : before = StableOrder(got, ledgerOf)
  OBVIOUS
<1>5. \A n, m \in D :
        <<n, m>> \in before <=> \/ ledgerOf[got[n]] < ledgerOf[got[m]]
                                \/ ledgerOf[got[n]] = ledgerOf[got[m]] /\ n < m
  BY <1>1, <1>4 DEF StableOrder
<1>6. IsStrictOrder(D, before)
  <2>1. \A n \in D : <<n, n>> \notin before
    BY <1>2, <1>5
  <2>2. \A n, m \in D : n # m => <<n, m>> \in before \/ <<m, n>> \in before
    BY <1>2, <1>5
  <2>3. ASSUME NEW x \in D, NEW y \in D, NEW z \in D, <<x, y>> \in before, <<y, z>> \in before
        PROVE  <<x, z>> \in before
    BY <1>2, <1>5, <2>3
  <2>4. QED
    BY <2>1, <2>2, <2>3 DEF IsStrictOrder
<1>7. PICK order, N : order = InOrder(D, before) /\ N = Cardinality(D)
  OBVIOUS
<1>8. /\ N \in Nat /\ order \in Seq(D) /\ DOMAIN order = 1 .. N
      /\ \A n, m \in 1 .. N : n < m => <<order[n], order[m]>> \in before
  BY <1>2, <1>6, <1>7, InOrderFacts
<1>9. order \in [1 .. N -> D]
  BY <1>8
<1>10. PICK b : b = ByLedger(got)
  OBVIOUS
<1>11. b = [n \in 1 .. N |-> got[order[n]]]
  BY <1>1, <1>3, <1>4, <1>7, <1>8, <1>10 DEF ByLedger, DedupeById
<1>12. DOMAIN b = 1 .. N /\ \A k \in 1 .. N : b[k] = got[order[k]]
  BY <1>11
<1>13. \A k, m \in 1 .. N :
         k < m => \/ chain[got[order[k]]].ledger < chain[got[order[m]]].ledger
                  \/ /\ chain[got[order[k]]].ledger = chain[got[order[m]]].ledger
                     /\ order[k] < order[m]
  <2>1. \A k \in 1 .. N : order[k] \in D
    BY <1>9
  <2>2. QED
    BY <1>2, <1>5, <1>8, <2>1
<1>14. PICK E : E = 1 .. N /\ E \subseteq Nat
  BY <1>8
<1>15. order \in [E -> DOMAIN got] /\ DOMAIN b = E
  BY <1>1, <1>9, <1>12, <1>14
<1>16. /\ \A k \in E : b[k] = got[order[k]]
       /\ \A k, m \in E :
            k < m => \/ chain[got[order[k]]].ledger < chain[got[order[m]]].ledger
                     \/ /\ chain[got[order[k]]].ledger = chain[got[order[m]]].ledger
                        /\ order[k] < order[m]
  BY <1>12, <1>13, <1>14
<1>17. QED
  BY <1>10, <1>14, <1>15, <1>16

\* Ledgers reach the engine in order, and so do the events of one transaction,
\* over all the pages of a fetch (queries.ts:73-76, indexer.ts:120-121).
THEOREM TransactionsStayInOrder == Spec => []TransactionsInOrder
<1>1. QueryInv => TransactionsInOrder
  <2> SUFFICES ASSUME QueryInv
               PROVE  TransactionsInOrder
    OBVIOUS
  <2>1. PICK b : b = ByLedger(got)
    OBVIOUS
  <2>2. PICK order \in [DOMAIN b -> DOMAIN got] :
          /\ \A k \in DOMAIN b : b[k] = got[order[k]]
          /\ \A k, m \in DOMAIN b :
               k < m => \/ chain[got[order[k]]].ledger < chain[got[order[m]]].ledger
                        \/ /\ chain[got[order[k]]].ledger = chain[got[order[m]]].ledger
                           /\ order[k] < order[m]
    BY <2>1, ByLedgerFacts
  <2>3. ASSUME NEW k \in DOMAIN b, NEW m \in DOMAIN b, k < m
        PROVE  /\ chain[b[k]].ledger <= chain[b[m]].ledger
               /\ chain[b[k]].ledger = chain[b[m]].ledger /\ chain[b[k]].tx = chain[b[m]].tx
                    => b[k] < b[m]
    <3>1. PICK i, j : i = b[k] /\ j = b[m]
      OBVIOUS
    <3>2. PICK n \in DOMAIN got, l \in DOMAIN got : n = order[k] /\ l = order[m]
      OBVIOUS
    <3>3. i = got[n] /\ j = got[l] /\ i \in DOMAIN chain /\ j \in DOMAIN chain
      BY <2>2, <3>1, <3>2, GotFacts
    <3>4. \/ chain[i].ledger < chain[j].ledger
          \/ chain[i].ledger = chain[j].ledger /\ n < l
      BY <2>2, <2>3, <3>2, <3>3
    <3>5. /\ chain[i].ledger \in Nat /\ chain[i].event \in Nat /\ chain[i].tx \in Nat
          /\ chain[j].ledger \in Nat /\ chain[j].event \in Nat /\ chain[j].tx \in Nat
          /\ LedgerText(chain[i].ledger) \in Nat /\ i \in Nat /\ j \in Nat
      <4>1. \A x \in DOMAIN chain : x \in Nat /\ chain[x].ledger \in FirstLedger .. LastLedger
        BY ChainFacts DEF QueryInv
      <4>2. LedgerText(chain[i].ledger) \in Nat
        BY <3>3, <4>1, TextFacts
      <4>3. QED
        BY <3>3, <4>1, <4>2, ChainFacts DEF QueryInv
    <3>6. ASSUME chain[i].ledger = chain[j].ledger, chain[i].tx = chain[j].tx
          PROVE  i < j
      <4>1. IdBelow(i, j)
        BY <3>3, <3>4, <3>5, <3>6, GotFacts
      <4>2. chain[i].event < chain[j].event
        BY <3>5, <3>6, <4>1 DEF IdBelow
      <4>3. i # j
        BY <3>5, <4>2
      <4>4. j < i => chain[j].event < chain[i].event
        BY <3>3, <3>6 DEF QueryInv, NetworkInv, ChainInOrder
      <4>5. QED
        BY <3>5, <4>2, <4>3, <4>4
    <3>7. QED
      BY <3>1, <3>4, <3>5, <3>6
  <2>4. QED
    BY <2>1, <2>3 DEF TransactionsInOrder
<1>2. QED
  BY <1>1, QueryInvariance, PTL

-----------------------------------------------------------------------------
(* Where the order of ids is the order of the chain. *)

\* The events of one ledger are of one transaction.
OneTxEach ==
  \A i, j \in DOMAIN chain :
    chain[i].ledger = chain[j].ledger => chain[i].tx = chain[j].tx

LEMMA CloseLedgerOneTx ==
  ASSUME NetworkInv, OneTxEach, CloseLedger, TxPerLedger <= 1
  PROVE  OneTxEach'
<1> PICK R : R = [ledger : {ledger + 1}, tx : Hashes, event : 1 .. PerTx]
  OBVIOUS
<1>1. PICK n \in 0 .. MaxEvents - Len(chain) :
        \E block \in [1 .. n -> R] :
          /\ Cardinality({block[k].tx : k \in 1 .. n}) <= TxPerLedger
          /\ chain' = chain \o block
  BY DEF CloseLedger
<1>2. PICK block \in [1 .. n -> R] :
        /\ Cardinality({block[k].tx : k \in 1 .. n}) <= TxPerLedger
        /\ chain' = chain \o block
  BY <1>1
<1>3. n \in Nat /\ TxPerLedger \in Nat
  BY <1>1, ChainFacts, QueryAssumption
<1>4. \A k \in 1 .. n : block[k] \in R /\ block[k].ledger = ledger + 1
  BY <1>2
<1>5. ASSUME NEW k \in 1 .. n, NEW m \in 1 .. n
      PROVE  block[k].tx = block[m].tx
  <2>1. PICK T, f : /\ T = {block[l].tx : l \in 1 .. n}
                    /\ f = [l \in 1 .. n |-> block[l].tx]
    OBVIOUS
  <2>2. f \in Surjection(1 .. n, T)
    BY <2>1 DEF Surjection
  <2>3. IsFiniteSet(1 .. n)
    BY <1>3, FS_Interval
  <2>4. IsFiniteSet(T)
    BY <2>2, <2>3, FS_Surjection
  <2>5. PICK x : x = block[k].tx /\ x \in T
    BY <2>1
  <2>6. /\ Cardinality(T \ {x}) = Cardinality(T) - 1 /\ IsFiniteSet(T \ {x})
        /\ Cardinality(T) \in Nat /\ Cardinality(T \ {x}) \in Nat
    BY <2>4, <2>5, FS_RemoveElement, FS_CardinalityType
  <2>7. Cardinality(T) <= 1
    BY <1>2, <1>3, <2>1, <2>6
  <2>8. Cardinality(T \ {x}) = 0
    BY <2>6, <2>7
  <2>9. T \ {x} = {}
    BY <2>6, <2>8, FS_EmptySet
  <2>10. block[m].tx \in T
    BY <2>1
  <2>11. QED
    BY <2>5, <2>9, <2>10
<1>6. PICK len \in Nat : len = Len(chain) /\ DOMAIN chain = 1 .. len
  BY ChainFacts
<1>7. PICK s \in Seq(Row) : s = chain
  BY DEF NetworkInv
<1>8. /\ DOMAIN chain' = 1 .. len + n
      /\ \A i \in 1 .. len : chain'[i] = chain[i]
      /\ \A i \in len + 1 .. len + n : i - len \in 1 .. n /\ chain'[i] = block[i - len]
  <2>1. block \in [1 .. n -> R]
    BY <1>2
  <2>2. block \in Seq(R) /\ Len(block) = n
    BY <1>3, <2>1, FunctionIsSeq
  <2>3. block \in Seq(Row \cup R)
    BY <2>2, SeqWiden
  <2>4. s \in Seq(Row \cup R)
    BY <1>7, SeqWiden
  <2>5. /\ DOMAIN (s \o block) = 1 .. Len(s) + Len(block)
        /\ \A k \in 1 .. Len(s) : (s \o block)[k] = s[k]
        /\ \A k \in Len(s) + 1 .. Len(s) + Len(block) :
             k - Len(s) \in 1 .. Len(block) /\ (s \o block)[k] = block[k - Len(s)]
    BY <2>3, <2>4, JoinFacts
  <2>6. QED
    BY <1>2, <1>6, <1>7, <2>2, <2>5
<1>9. \A i \in 1 .. len : chain[i].ledger \in Nat /\ chain[i].ledger < ledger + 1
  BY <1>6, ChainFacts
<1>10. ASSUME NEW i \in 1 .. len + n, NEW j \in 1 .. len + n,
              chain'[i].ledger = chain'[j].ledger
       PROVE  chain'[i].tx = chain'[j].tx
  <2>1. \A l \in 1 .. len + n : l \in 1 .. len \/ l \in len + 1 .. len + n
    BY <1>3
  <2>2. \A l \in len + 1 .. len + n : chain'[l].ledger = ledger + 1
    BY <1>4, <1>8
  <2>3. \A l \in 1 .. len : chain'[l].ledger # ledger + 1
    BY <1>8, <1>9
  <2>4. CASE i \in 1 .. len /\ j \in 1 .. len
    BY <1>6, <1>8, <1>10, <2>4 DEF OneTxEach
  <2>5. CASE i \in len + 1 .. len + n /\ j \in len + 1 .. len + n
    BY <1>5, <1>8, <2>5
  <2>6. QED
    BY <1>10, <2>1, <2>2, <2>3, <2>4, <2>5
<1>11. QED
  BY <1>8, <1>10 DEF OneTxEach

\* "Equal-ledger events keep their Map insertion order, which is the
\* correctly-ordered source order" (event-source.ts:62-63) is so where no ledger
\* has two transactions with events of the contract.
THEOREM LoneTransactionsKeepChainOrder ==
  ASSUME TxPerLedger <= 1
  PROVE  Spec => []DeliversChainOrder
<1>1. Init => OneTxEach
  BY DEF Init, OneTxEach
<1>2. QueryInv /\ OneTxEach /\ [Next]_vars => OneTxEach'
  <2> SUFFICES ASSUME QueryInv, OneTxEach, [Next]_vars
               PROVE  OneTxEach'
    OBVIOUS
  <2>1. CASE CloseLedger
    BY <2>1, CloseLedgerOneTx DEF QueryInv
  <2>2. CASE Ingest \/ BeginFetch \/ GetPage \/ FailPage \/ UNCHANGED vars
    <3>1. chain' = chain
      BY <2>2 DEF Ingest, BeginFetch, GetPage, TakePage, FailPage, vars, networkVars
    <3>2. QED
      BY <3>1 DEF OneTxEach
  <2>3. QED
    BY <2>1, <2>2 DEF Next
<1>3. QueryInv /\ OneTxEach /\ TransactionsInOrder => DeliversChainOrder
  <2> SUFFICES ASSUME QueryInv, OneTxEach, TransactionsInOrder,
                      NEW k \in DOMAIN ByLedger(got), NEW m \in DOMAIN ByLedger(got), k < m
               PROVE  ByLedger(got)[k] < ByLedger(got)[m]
    BY DEF DeliversChainOrder
  <2>1. PICK i \in DOMAIN chain, j \in DOMAIN chain : i = ByLedger(got)[k] /\ j = ByLedger(got)[m]
    BY ByLedgerFacts, GotFacts
  <2>2. /\ chain[i].ledger <= chain[j].ledger
        /\ chain[i].ledger = chain[j].ledger /\ chain[i].tx = chain[j].tx => i < j
    BY <2>1 DEF TransactionsInOrder
  <2>3. /\ i \in Nat /\ j \in Nat
        /\ chain[i].ledger \in Nat /\ chain[j].ledger \in Nat
    BY ChainFacts DEF QueryInv
  <2>4. CASE chain[i].ledger = chain[j].ledger
    BY <2>1, <2>2, <2>4 DEF OneTxEach
  <2>5. CASE chain[i].ledger # chain[j].ledger
    <3>1. chain[i].ledger < chain[j].ledger
      BY <2>2, <2>3, <2>5
    <3>2. ~(j < i) /\ i # j
      BY <2>3, <3>1 DEF QueryInv, NetworkInv, ChainInOrder
    <3>3. QED
      BY <2>1, <2>3, <3>2
  <2>6. QED
    BY <2>4, <2>5
<1>4. QED
  BY <1>1, <1>2, <1>3, QueryInvariance, TransactionsStayInOrder, PTL DEF Spec

=============================================================================
