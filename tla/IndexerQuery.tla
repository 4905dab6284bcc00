----------------------------- MODULE IndexerQuery -----------------------------
(***************************************************************************)
(* The indexer: the table a pipeline fills, the Worker that serves it in   *)
(* pages (packages/indexer/handler), and IndexerClient.fetchEvents, which  *)
(* follows the pages of one ledger range to the end.  EventSource takes    *)
(* that fetch as one answer; this module is about what the answer is worth.*)
(*                                                                         *)
(* Rows are compared and paged by their id as text.  A row's id is         *)
(* <ledger>-<txHash>-op-<N>-event-<M>, so text order is by the decimal     *)
(* text of the ledger, then by transaction hash, then by position in the   *)
(* transaction; chain order is by ledger, then by the order in which the   *)
(* transactions were applied, which has nothing to do with their hashes.   *)
(***************************************************************************)
EXTENDS EventOrder, SequencesExt

CONSTANTS
  FirstLedger,        \* ledgers of the instance
  LastLedger,
  WideLedger,         \* the first ledger whose decimal text is one digit longer
  Hashes,             \* transaction hashes, numbered in text order
  TxPerLedger,        \* bound on the transactions of one ledger
  PerTx,              \* bound on the events of one transaction
  MaxEvents,          \* bound on the number of events
  StartLedger,        \* the range the client asks for, both inclusive
  EndLedger,
  PageLimit           \* rows per page

ASSUME QueryAssumption ==
  /\ FirstLedger \in Nat \ {0} /\ LastLedger \in Nat /\ FirstLedger <= LastLedger
  /\ WideLedger \in Nat
  /\ Hashes \subseteq Nat /\ PageLimit \in Nat \ {0}
  /\ StartLedger \in Nat /\ EndLedger \in Nat
  /\ TxPerLedger \in Nat /\ PerTx \in 0 .. 9 /\ MaxEvents \in Nat

VARIABLES
  ledger,             \* the latest ledger of the network
  chain,              \* the events of the contract, in chain order
  raw,                \* raw_events: the positions in chain of the rows stored
  asking,             \* a fetch is in progress
  last,               \* the row the cursor names (0: no cursor)
  got,                \* the rows fetched so far, in the order they came
  begun               \* the rows that were stored when the fetch began

networkVars == <<ledger, chain, raw>>
fetchVars == <<asking, last, got, begun>>
vars == <<networkVars, fetchVars>>

Row == [ledger : Nat, tx : Hashes, event : Nat]

Init ==
  /\ ledger = FirstLedger - 1
  /\ chain = <<>>
  /\ raw = {}
  /\ asking = FALSE
  /\ last = 0
  /\ got = <<>>
  /\ begun = {}

-----------------------------------------------------------------------------
(* The network and the pipeline. *)

\* The events of one transaction follow each other and are numbered from 1.
InSuccession(block) ==
  \A k \in DOMAIN block :
    IF block[k].event = 1
      THEN \A j \in 1 .. k - 1 : block[j].tx # block[k].tx
      ELSE /\ k > 1
           /\ block[k - 1].tx = block[k].tx
           /\ block[k - 1].event = block[k].event - 1

\* Transactions are applied in an order of the network's choosing.
CloseLedger ==
  /\ ledger < LastLedger
  /\ ledger' = ledger + 1
  /\ \E n \in 0 .. MaxEvents - Len(chain) :
       \E block \in [1 .. n -> [ledger : {ledger + 1}, tx : Hashes, event : 1 .. PerTx]] :
         /\ InSuccession(block)
         /\ Cardinality({block[k].tx : k \in 1 .. n}) <= TxPerLedger
         /\ chain' = chain \o block
  /\ UNCHANGED <<raw, fetchVars>>

\* The pipeline finishes one ledger before the next, its rows in any order.
Ingest ==
  /\ \E i \in DOMAIN chain \ raw :
       /\ \A j \in DOMAIN chain : chain[j].ledger < chain[i].ledger => j \in raw
       /\ raw' = raw \cup {i}
  /\ UNCHANGED <<ledger, chain, fetchVars>>

-----------------------------------------------------------------------------
(* GET /contracts/:contractId/events *)

\* Near a change of width every shorter number starts with a greater digit.
LedgerText(l) == IF l < WideLedger THEN l + LastLedger ELSE l

\* id < id, compared as text; positions have one digit (QueryAssumption).
IdBelow(i, j) ==
  LET a == chain[i]
      b == chain[j]
  IN  \/ LedgerText(a.ledger) < LedgerText(b.ledger)
      \/ /\ a.ledger = b.ledger
         /\ \/ a.tx < b.tx
            \/ a.tx = b.tx /\ a.event < b.event

\* Mutated: the end of the range is sent on the first request only.
MatchingFromCursor(after) ==
  {i \in raw : IF after = 0
                 THEN chain[i].ledger \in StartLedger .. EndLedger
                 ELSE IdBelow(after, i)}

\* Mutated: id >= cursor.
MatchingInclusive(after) ==
  {i \in raw : /\ IF after = 0 THEN chain[i].ledger >= StartLedger ELSE ~IdBelow(i, after)
               /\ chain[i].ledger <= EndLedger}

\* The WHERE clause; the client sends its start ledger without a cursor only.
Matching(after) ==
  {i \in raw : /\ IF after = 0 THEN chain[i].ledger >= StartLedger ELSE IdBelow(after, i)
               /\ chain[i].ledger <= EndLedger}

\* Mutated: rows are returned as the table holds them.
Unordered(rows) == InOrder(rows, {p \in rows \X rows : p[1] > p[2]})

\* ORDER BY id ASC
InIdOrder(rows) == InOrder(rows, {p \in rows \X rows : IdBelow(p[1], p[2])})

\* limit + 1 rows are read to see whether there is a further page.
HasMore(after) == Cardinality(Matching(after)) > PageLimit

\* Mutated: the row read ahead is returned with the page.
PageKeepsExtra(after) ==
  LET rows == InIdOrder(Matching(after))
  IN  IF HasMore(after) THEN SubSeq(rows, 1, PageLimit + 1) ELSE rows

Page(after) ==
  LET rows == InIdOrder(Matching(after))
  IN  IF HasMore(after) THEN SubSeq(rows, 1, PageLimit) ELSE rows

-----------------------------------------------------------------------------
(* IndexerClient.fetchEvents *)

BeginFetch ==
  /\ ~asking
  /\ asking' = TRUE
  /\ last' = 0
  /\ got' = <<>>
  /\ begun' = raw
  /\ UNCHANGED networkVars

TakePage(after) ==
  /\ asking
  /\ got' = got \o Page(last)
  /\ asking' = HasMore(last)
  /\ last' = IF HasMore(last) THEN after ELSE 0
  /\ UNCHANGED <<begun, networkVars>>

\* Mutated: the cursor names the row read ahead.
TakePageAhead == TakePage(InIdOrder(Matching(last))[PageLimit + 1])

GetPage == TakePage(Page(last)[PageLimit])

\* The request fails: fetchEvents throws and what came so far is dropped.
FailPage ==
  /\ asking
  /\ asking' = FALSE
  /\ got' = <<>>
  /\ last' = 0
  /\ begun' = {}
  /\ UNCHANGED networkVars

Next == CloseLedger \/ Ingest \/ BeginFetch \/ GetPage \/ FailPage

Spec == Init /\ [][Next]_vars

-----------------------------------------------------------------------------
(* What hybridFetchEvents makes of the answer. *)

ByLedger(rows) == DedupeById(rows, [i \in DOMAIN chain |-> chain[i].ledger])

-----------------------------------------------------------------------------
(* Properties. *)

TypeOK ==
  /\ ledger \in FirstLedger - 1 .. LastLedger
  /\ chain \in Seq(Row) /\ Len(chain) <= MaxEvents
  /\ raw \subseteq DOMAIN chain /\ begun \subseteq raw
  /\ asking \in BOOLEAN
  /\ last \in raw \cup {0}
  /\ ToSet(got) \subseteq raw
  /\ asking => Len(got) % PageLimit = 0

\* Whatever the order of ids and whatever the pipeline adds between two pages,
\* no row comes twice: "cursor paging never skips or duplicates rows"
\* (queries.ts:38-40).
NothingTwice == Cardinality(ToSet(got)) = Len(got)

\* A finished fetch holds every row of the range that was stored when it began:
\* a range the indexer has covered is answered in full (queries.ts:78-85,
\* indexer.ts:93-119).
NothingMissed ==
  ~asking =>
    \A i \in begun : chain[i].ledger \in StartLedger .. EndLedger => i \in ToSet(got)

\* Ledger numbers of one width: text order of ledgers is their order.
SameWidth ==
  \A i, j \in DOMAIN chain : chain[i].ledger < WideLedger <=> chain[j].ledger < WideLedger

\* "Fetch and parse all token events in [startLedger, endLedger] (both
\* inclusive)" (indexer.ts:80-82), although pages after the first ask by cursor
\* only: an event below the range has been applied before, and would be applied
\* again.  It takes ledger numbers of one width.
NothingOutOfRange ==
  SameWidth => \A i \in ToSet(got) : chain[i].ledger \in StartLedger .. EndLedger

\* Ledgers come in order, and so do the events of one transaction, across pages
\* and whatever the pipeline stores in between (queries.ts:73-76, indexer.ts:
\* 120-121).
TransactionsInOrder ==
  \A k, m \in DOMAIN ByLedger(got) :
    LET i == ByLedger(got)[k]
        j == ByLedger(got)[m]
    IN  k < m => /\ chain[i].ledger <= chain[j].ledger
                 /\ chain[i].ledger = chain[j].ledger /\ chain[i].tx = chain[j].tx => i < j

\* "Equal-ledger events keep their Map insertion order, which is the
\* correctly-ordered source order" (event-source.ts:62-63), which apply relies on.
DeliversChainOrder ==
  \A k, m \in DOMAIN ByLedger(got) : k < m => ByLedger(got)[k] < ByLedger(got)[m]

=============================================================================
