--------------------------- MODULE EventSourceProofs ---------------------------
(***************************************************************************)
(* Theorems about EventSource, for every retention period, margin, page    *)
(* and scan limit, for ledgers of any number of events and any number of   *)
(* ledgers and events: types, a feed without gaps, a cursor that agrees    *)
(* with it, the seam, and that EventSource implements EventFeed.           *)
(***************************************************************************)
EXTENDS EventSource, FiniteSetTheorems, WellFoundedInduction, TLAPS

-----------------------------------------------------------------------------
(* The inductive invariants. *)

\* Events are numbered in chain order, none before the deployment.
ChainInOrder ==
  /\ \A i, j \in DOMAIN log : i <= j => log[i] <= log[j]
  /\ \A e \in DOMAIN log : FromLedger < log[e] /\ log[e] <= latest

\* The window is of the chain, and moves on when the indexer has.
WindowMoves ==
  /\ FromLedger <= latest /\ 1 <= oldest /\ oldest <= latest /\ indexed <= latest
  /\ hasIndexer /\ IndexerKeepsUp => oldest = 1 \/ oldest + Margin - 1 <= indexed

\* A cursor that stands where it says: after event pos, in ledger.
Stands(c) ==
  /\ c \in Cursor /\ c.ledger <= latest /\ c.pos <= Len(log)
  /\ \A e \in DOMAIN log : /\ e <= c.pos => log[e] <= c.ledger
                           /\ c.pos < e => c.ledger <= log[e]

Increasing(s) == \A i, j \in DOMAIN s : i < j => s[i] < s[j]

\* What a fetch has got comes before the place its next page starts at.
GotBeforePage ==
  /\ call.got \in Seq(DOMAIN log)
  /\ Increasing(call.got)
  /\ call.phase = "backfilling" => call.byLedger /\ call.got = <<>> /\ call.page.ledger = call.seam - 1
  /\ call.phase = "done" => ~call.byLedger
  /\ IF call.byLedger
       THEN \A k \in DOMAIN call.got : log[call.got[k]] <= call.page.ledger
       ELSE /\ Stands(call.page)
            /\ \A k \in DOMAIN call.got : call.got[k] <= call.page.pos

SourceInv == TypeOK /\ ChainInOrder /\ WindowMoves /\ Stands(cursor) /\ GotBeforePage

\* Of an indexer that keeps up a fetch gets everything below the seam, and so
\* what it has got are consecutive events, the first of them the first needed.
FirstGot(a) ==
  IF call.seam > 0 THEN a = EventsUpTo(call.next - 1)
  ELSE /\ cursor # NoCursor => a = cursor.pos
       /\ cursor = NoCursor /\ hasIndexer => a = 0

GotIsInterval ==
  /\ call.phase # "idle" =>
       /\ call.page.ledger <= latest
       /\ call.seam > 0 => hasIndexer /\ call.next = FirstNeeded /\ call.next < oldest
  /\ call.phase = "backfilling" =>
       call.next < call.seam /\ call.seam - 1 <= indexed
  /\ call.phase \in {"paging", "done"} =>
       \E a \in 0 .. PageStart.pos : call.got = Numbers(a, PageStart.pos) /\ FirstGot(a)

\* A fetch passes over the cursor's ledger only if it has left the window.  A
\* cursor inside it has stranded the reader then.
GoneIsStranded == Strands(cursor, oldest) => stranded

\* What has been applied are the events up to the cursor, from the first one
\* on if there is an indexer.
FeedToCursor ==
  ~stranded => \E m \in 0 .. cursor.pos : /\ delivered = Numbers(m, cursor.pos)
                                          /\ hasIndexer => m = 0

IndexerComplete == hasIndexer => IndexerKeepsUp

-----------------------------------------------------------------------------
(* Numbers and positions. *)

\* A set of natural numbers has a least element.
LEMMA LeastNumber ==
  ASSUME NEW S \in SUBSET Nat, S # {}
  PROVE  \E x \in S : \A y \in S : x <= y
<1> DEFINE T == {0 .. n : n \in S}
<1>1. T \subseteq FiniteSubsetsOf(Nat) /\ T # {}
  <2>1. \A n \in S : IsFiniteSet(0 .. n) /\ 0 .. n \in SUBSET Nat
    BY FS_Interval
  <2>2. QED
    BY <2>1 DEF FiniteSubsetsOf
<1>2. PICK t \in T : \A y \in T : <<y, t>> \notin StrictSubsetOrdering(Nat)
  <2> HIDE DEF T
  <2>1. QED
    BY <1>1, FS_StrictSubsetOrderingWellFounded, WFMin
<1>3. PICK x \in S : t = 0 .. x
  BY <1>2
<1>4. ASSUME NEW y \in S, y < x
      PROVE  FALSE
  <2>1. x \in t /\ x \notin 0 .. y /\ 0 .. y \subseteq t
    BY <1>3, <1>4
  <2>2. <<0 .. y, t>> \in StrictSubsetOrdering(Nat)
    BY <2>1, <1>3 DEF StrictSubsetOrdering
  <2>3. QED
    BY <2>2, <1>2
<1>5. QED
  BY <1>4

\* The events of ledgers up to l are the first ones, EventsUpTo(l) of them.
LEMMA CountIsPosition ==
  ASSUME NEW s \in Seq(Nat), \A i, j \in DOMAIN s : i <= j => s[i] <= s[j], NEW l \in Int
  PROVE  LET n == Cardinality({e \in DOMAIN s : s[e] <= l})
         IN  n \in 0 .. Len(s) /\ \A e \in DOMAIN s : s[e] <= l <=> e <= n
<1> DEFINE Later == {e \in 1 .. Len(s) + 1 : e = Len(s) + 1 \/ s[e] > l}
<1>1. Len(s) \in Nat /\ DOMAIN s = 1 .. Len(s) /\ \A e \in DOMAIN s : s[e] \in Nat
  OBVIOUS
<1>2. Later \subseteq Nat /\ Len(s) + 1 \in Later
  BY <1>1
<1>3. PICK x \in Later : \A y \in Later : x <= y
  <2> HIDE DEF Later
  <2>1. QED
    BY <1>2, LeastNumber
<1>4. x \in 1 .. Len(s) + 1
  BY <1>3
<1>5. ASSUME NEW e \in DOMAIN s
      PROVE  s[e] <= l <=> e <= x - 1
  <2>1. CASE e < x
    BY <2>1, <1>1, <1>3, <1>4, <1>5
  <2>2. CASE e >= x
    <3>1. x \in DOMAIN s /\ s[x] > l
      BY <2>2, <1>1, <1>3, <1>4, <1>5
    <3>2. s[x] <= s[e]
      BY <2>2, <3>1
    <3>3. QED
      BY <2>2, <3>1, <3>2, <1>1, <1>4
  <2>3. QED
    BY <2>1, <2>2, <1>1, <1>4
<1>6. {e \in DOMAIN s : s[e] <= l} = 1 .. x - 1
  BY <1>1, <1>4, <1>5
<1>7. Cardinality(1 .. x - 1) = x - 1
  BY <1>4, <1>1, FS_Interval
<1>8. Cardinality({e \in DOMAIN s : s[e] <= l}) = x - 1
  BY <1>6, <1>7
<1>9. x - 1 \in 0 .. Len(s)
  BY <1>1, <1>4
<1>10. QED
  BY <1>5, <1>8, <1>9

\* Consecutive numbers, put after one another.
LEMMA NumbersFacts ==
  ASSUME NEW m \in Nat, NEW n \in Nat, m <= n
  PROVE  /\ Numbers(m, n) \in Seq(m + 1 .. n) /\ Len(Numbers(m, n)) = n - m
         /\ \A i \in 1 .. n - m : Numbers(m, n)[i] = m + i
         /\ Increasing(Numbers(m, n))
         /\ m = n => Numbers(m, n) = <<>>
         /\ \A k \in Nat : n <= k => Numbers(m, n) \o Numbers(n, k) = Numbers(m, k)
<1>1. n - m \in Nat /\ \A i \in 1 .. n - m : m + i \in m + 1 .. n
  OBVIOUS
<1>2. /\ Numbers(m, n) \in Seq(m + 1 .. n) /\ Len(Numbers(m, n)) = n - m
      /\ \A i \in 1 .. n - m : Numbers(m, n)[i] = m + i
  BY <1>1 DEF Numbers
<1>3. Increasing(Numbers(m, n))
  BY <1>1, <1>2 DEF Increasing
<1>4. m = n => Numbers(m, n) = <<>>
  BY <1>2
<1>5. ASSUME NEW k \in Nat, n <= k
      PROVE  Numbers(m, n) \o Numbers(n, k) = Numbers(m, k)
  BY <1>1, <1>5 DEF Numbers
<1>6. QED
  BY <1>2, <1>3, <1>4, <1>5

\* Sequences over a larger set, and sequences put after one another.
LEMMA SeqWiden ==
  ASSUME NEW A, NEW B, A \subseteq B, NEW s \in Seq(A)
  PROVE  s \in Seq(B)
<1>1. Len(s) \in Nat /\ s = [i \in 1 .. Len(s) |-> s[i]]
  OBVIOUS
<1>2. \A i \in 1 .. Len(s) : s[i] \in B
  OBVIOUS
<1>3. [i \in 1 .. Len(s) |-> s[i]] \in Seq(B)
  BY <1>1, <1>2
<1>4. QED
  BY <1>1, <1>3

LEMMA JoinFacts ==
  ASSUME NEW S, NEW s \in Seq(S), NEW t \in Seq(S)
  PROVE  /\ s \o t \in Seq(S) /\ Len(s) \in Nat /\ Len(t) \in Nat
         /\ Len(s \o t) = Len(s) + Len(t) /\ DOMAIN (s \o t) = 1 .. Len(s) + Len(t)
         /\ DOMAIN s = 1 .. Len(s) /\ DOMAIN t = 1 .. Len(t)
         /\ \A k \in 1 .. Len(s) : (s \o t)[k] = s[k]
         /\ \A k \in Len(s) + 1 .. Len(s) + Len(t) :
              k - Len(s) \in 1 .. Len(t) /\ (s \o t)[k] = t[k - Len(s)]
<1>1. /\ s \o t \in Seq(S) /\ Len(s) \in Nat /\ Len(t) \in Nat
      /\ Len(s \o t) = Len(s) + Len(t)
  OBVIOUS
<1>2. DOMAIN (s \o t) = 1 .. Len(s) + Len(t) /\ DOMAIN s = 1 .. Len(s) /\ DOMAIN t = 1 .. Len(t)
  BY <1>1
<1>3. \A k \in 1 .. Len(s) : (s \o t)[k] = s[k]
  BY <1>1
<1>4. \A k \in Len(s) + 1 .. Len(s) + Len(t) : k - Len(s) \in 1 .. Len(t)
  BY <1>1
<1>5. \A k \in Len(s) + 1 .. Len(s) + Len(t) : (s \o t)[k] = t[k - Len(s)]
  BY <1>1
<1>6. QED
  BY <1>1, <1>2, <1>3, <1>4, <1>5

LEMMA JoinBound ==
  ASSUME NEW S, NEW s \in Seq(S), NEW t \in Seq(S), NEW T,
         \A k \in DOMAIN s : s[k] \in T, \A k \in DOMAIN t : t[k] \in T
  PROVE  \A k \in DOMAIN (s \o t) : (s \o t)[k] \in T
<1> PICK a \in Nat, b \in Nat : a = Len(s) /\ b = Len(t)
  BY JoinFacts
<1> PICK u : u = s \o t
  OBVIOUS
<1>1. /\ DOMAIN u = 1 .. a + b /\ DOMAIN s = 1 .. a /\ DOMAIN t = 1 .. b
      /\ \A k \in 1 .. a : u[k] = s[k]
      /\ \A k \in a + 1 .. a + b : k - a \in 1 .. b /\ u[k] = t[k - a]
  BY JoinFacts
<1>2. \A k \in 1 .. a + b : k \in 1 .. a \/ k \in a + 1 .. a + b
  OBVIOUS
<1>3. \A k \in 1 .. a : u[k] \in T
  BY <1>1
<1>4. \A k \in a + 1 .. a + b : u[k] \in T
  BY <1>1
<1>5. QED
  BY <1>1, <1>2, <1>3, <1>4

LEMMA NumbersType ==
  ASSUME NEW m \in Nat, NEW n \in Nat
  PROVE  /\ Numbers(m, n) \in Seq(1 .. n) /\ Increasing(Numbers(m, n))
         /\ \A k \in DOMAIN Numbers(m, n) : m < Numbers(m, n)[k] /\ Numbers(m, n)[k] <= n
<1>1. CASE m <= n
  <2>1. m + 1 .. n \subseteq 1 .. n
    OBVIOUS
  <2>2. Numbers(m, n) \in Seq(1 .. n)
    BY <1>1, <2>1, NumbersFacts, SeqWiden
  <2>3. DOMAIN Numbers(m, n) = 1 .. n - m
    BY DEF Numbers
  <2>4. \A i \in 1 .. n - m : Numbers(m, n)[i] = m + i
    BY <1>1, NumbersFacts
  <2>5. \A i \in 1 .. n - m : m < m + i /\ m + i <= n
    BY <1>1
  <2>6. QED
    BY <1>1, <2>2, <2>3, <2>4, <2>5, NumbersFacts
<1>2. CASE n < m
  <2>1. 1 .. n - m = {}
    BY <1>2
  <2>2. Numbers(m, n) = <<>>
    BY <2>1 DEF Numbers
  <2>3. QED
    BY <2>2 DEF Increasing
<1>3. QED
  BY <1>1, <1>2

\* Increasing sequences of which one ends before the other begins.
LEMMA IncreasingJoin ==
  ASSUME NEW S \in SUBSET Nat, NEW s \in Seq(S), NEW t \in Seq(S), NEW n \in Nat,
         Increasing(s), Increasing(t),
         \A k \in DOMAIN s : s[k] <= n, \A k \in DOMAIN t : n < t[k]
  PROVE  s \o t \in Seq(S) /\ Increasing(s \o t)
<1> PICK u : u = s \o t
  OBVIOUS
<1> PICK a \in Nat, b \in Nat : a = Len(s) /\ b = Len(t)
  BY JoinFacts
<1>1. /\ u \in Seq(S) /\ DOMAIN u = 1 .. a + b /\ DOMAIN s = 1 .. a /\ DOMAIN t = 1 .. b
      /\ \A k \in 1 .. a : u[k] = s[k]
      /\ \A k \in a + 1 .. a + b : k - a \in 1 .. b /\ u[k] = t[k - a]
  BY JoinFacts
<1>2. /\ \A k \in 1 .. a : s[k] \in Nat
      /\ \A k \in 1 .. b : t[k] \in Nat
  <2>1. \A k \in DOMAIN s : s[k] \in S
    OBVIOUS
  <2>2. \A k \in DOMAIN t : t[k] \in S
    OBVIOUS
  <2>3. QED
    BY <1>1, <2>1, <2>2
<1>3. ASSUME NEW i \in 1 .. a + b, NEW j \in 1 .. a + b, i < j
      PROVE  u[i] < u[j]
  <2>1. CASE j <= a
    <3>1. i \in 1 .. a /\ j \in 1 .. a
      BY <1>3, <2>1
    <3>2. QED
      BY <1>1, <1>3, <3>1 DEF Increasing
  <2>2. CASE i > a
    <3>1. i - a \in 1 .. b /\ j - a \in 1 .. b /\ i - a < j - a
          /\ i \in a + 1 .. a + b /\ j \in a + 1 .. a + b
      BY <1>3, <2>2
    <3>2. t[i - a] < t[j - a]
      BY <1>1, <3>1 DEF Increasing
    <3>3. u[i] = t[i - a] /\ u[j] = t[j - a]
      BY <1>1, <3>1
    <3>4. QED
      BY <3>2, <3>3
  <2>3. CASE i <= a /\ j > a
    <3>1. i \in 1 .. a /\ j \in a + 1 .. a + b /\ j - a \in 1 .. b
      BY <1>3, <2>3
    <3>2. s[i] <= n /\ n < t[j - a] /\ s[i] \in Nat /\ t[j - a] \in Nat
      BY <1>1, <1>2, <3>1
    <3>3. u[i] = s[i] /\ u[j] = t[j - a]
      BY <1>1, <3>1
    <3>4. QED
      BY <3>2, <3>3
  <2>4. QED
    BY <2>1, <2>2, <2>3
<1>4. QED
  BY <1>1, <1>3 DEF Increasing

-----------------------------------------------------------------------------
(* dedupeById leaves alone what comes in order and without repeats. *)

LEMMA DedupeKeepsOrder ==
  ASSUME NEW S, NEW s \in Seq(S), NEW ledgerOf \in [S -> Nat],
         \A i, j \in DOMAIN s : i < j => s[i] # s[j] /\ ledgerOf[s[i]] <= ledgerOf[s[j]]
  PROVE  DedupeById(s, ledgerOf) = s
<1> DEFINE N == Len(s)
           before == StableOrder(s, ledgerOf)
           rank(x) == Cardinality(Below(1 .. N, before, x))
<1>1. N \in Nat /\ DOMAIN s = 1 .. N /\ \A i \in 1 .. N : ledgerOf[s[i]] \in Nat
  OBVIOUS
<1>2. Firsts(s) = 1 .. N
  BY <1>1 DEF Firsts
<1>3. ASSUME NEW i \in 1 .. N, NEW j \in 1 .. N
      PROVE  <<i, j>> \in before <=> i < j
  <2>1. <<i, j>> \in before <=> \/ ledgerOf[s[i]] < ledgerOf[s[j]]
                                \/ ledgerOf[s[i]] = ledgerOf[s[j]] /\ i < j
    BY <1>1 DEF StableOrder
  <2>2. i < j => ledgerOf[s[i]] <= ledgerOf[s[j]]
    BY <1>1
  <2>3. j < i => ledgerOf[s[j]] <= ledgerOf[s[i]]
    BY <1>1
  <2>4. QED
    BY <2>1, <2>2, <2>3, <1>1
<1>4. ASSUME NEW x \in 1 .. N
      PROVE  rank(x) = x - 1
  <2>1. Below(1 .. N, before, x) = 1 .. x - 1
    <3> HIDE DEF before
    <3>1. QED
      BY <1>1, <1>3 DEF Below
  <2>2. QED
    BY <2>1, <1>1, FS_Interval
<1>5. Cardinality(1 .. N) = N
  BY <1>1, FS_Interval
<1>6. InOrder(1 .. N, before) = [n \in 1 .. N |-> n]
  <2>1. ASSUME NEW n \in 1 .. N
        PROVE  (CHOOSE x \in 1 .. N : rank(x) = n - 1) = n
    <3> HIDE DEF rank
    <3>1. \A x \in 1 .. N : rank(x) = n - 1 <=> x = n
      BY <1>1, <1>4
    <3>2. QED
      BY <3>1
  <2>2. QED
    BY <2>1, <1>5 DEF InOrder
<1>7. DedupeById(s, ledgerOf) = [n \in 1 .. N |-> s[n]]
  <2> DEFINE order == InOrder(Firsts(s), StableOrder(s, ledgerOf))
  <2>1. DOMAIN order = 1 .. N /\ \A n \in 1 .. N : order[n] = n
    BY <1>2, <1>6
  <2>2. DedupeById(s, ledgerOf) = [n \in DOMAIN order |-> s[order[n]]]
    BY DEF DedupeById
  <2> HIDE DEF order
  <2>3. QED
    BY <2>1, <2>2
<1>8. s = [n \in 1 .. N |-> s[n]]
  BY <1>1
<1>9. QED
  BY <1>7, <1>8

-----------------------------------------------------------------------------
(* The log, and places in it. *)

LEMMA LogFacts ==
  ASSUME SourceInv
  PROVE  /\ log \in Seq(Nat) /\ Len(log) \in Nat /\ DOMAIN log = 1 .. Len(log)
         /\ \A e \in DOMAIN log : log[e] \in Nat /\ log[e] \in 1 .. MaxLedger
         /\ latest \in Nat /\ oldest \in Nat /\ indexed \in Nat
         /\ FromLedger \in Nat \ {0} /\ PageLimit \in Nat \ {0} /\ ScanWindow \in Nat \ {0}
         /\ Margin \in Nat /\ Retention \in Nat /\ MaxLedger \in Nat
         /\ hasIndexer \in BOOLEAN
<1>1. log \in Seq(1 .. MaxLedger) /\ {latest, oldest, indexed} \subseteq Nat
      /\ hasIndexer \in Configurations
  BY DEF SourceInv, TypeOK
<1>2. QED
  BY <1>1, SourceAssumption

LEMMA UpToFacts ==
  ASSUME SourceInv, NEW l \in Int
  PROVE  /\ EventsUpTo(l) \in 0 .. Len(log)
         /\ \A e \in DOMAIN log : log[e] <= l <=> e <= EventsUpTo(l)
<1>1. log \in Seq(Nat) /\ \A i, j \in DOMAIN log : i <= j => log[i] <= log[j]
  BY LogFacts DEF SourceInv, ChainInOrder
<1>2. QED
  BY <1>1, CountIsPosition DEF EventsUpTo

\* The end of a ledger is a place in the log.
LEMMA EndOfLedgerStands ==
  ASSUME SourceInv, NEW l \in Nat, l <= latest
  PROVE  Stands(EndOfLedger(l)) /\ EndOfLedger(l).ledger = l /\ EndOfLedger(l).pos = EventsUpTo(l)
<1>1. EventsUpTo(l) \in 0 .. Len(log) /\ \A e \in DOMAIN log : log[e] <= l <=> e <= EventsUpTo(l)
  BY UpToFacts
<1>2. QED
  BY <1>1, LogFacts DEF Stands, EndOfLedger, Cursor

\* Events before a place are in its ledger or before.
LEMMA StandsBelow ==
  ASSUME SourceInv, NEW c, Stands(c), NEW l \in Nat, c.ledger <= l
  PROVE  c.pos <= EventsUpTo(l)
<1>1. c.ledger \in Nat /\ c.pos \in Nat /\ c.pos <= Len(log)
  BY DEF Stands, Cursor
<1>2. CASE c.pos = 0
  BY <1>2, UpToFacts
<1>3. CASE c.pos > 0
  <2>1. c.pos \in DOMAIN log /\ log[c.pos] <= c.ledger
    BY <1>1, <1>3, LogFacts DEF Stands
  <2>2. log[c.pos] <= l
    BY <2>1, <1>1, LogFacts
  <2>3. QED
    BY <2>1, <2>2, UpToFacts
<1>4. QED
  BY <1>1, <1>2, <1>3

\* A page starts and ends at places in the log, and does not go back.
LEMMA PageFacts ==
  ASSUME SourceInv, call.phase = "paging", ~MustReject
  PROVE  /\ Stands(PageStart)
         /\ Stands(PageEnd(PageStart))
         /\ PageStart.pos <= PageEnd(PageStart).pos
         /\ call.byLedger => PageStart.pos = EventsUpTo(call.page.ledger) /\ call.page.ledger <= latest
<1>1. call.page \in Cursor /\ call.page.ledger \in Nat
  BY DEF SourceInv, TypeOK, Call, Cursor
<1>2. ASSUME call.byLedger
      PROVE  /\ Stands(PageStart) /\ call.page.ledger <= latest
             /\ PageStart.pos = EventsUpTo(call.page.ledger)
  <2>1. call.page.ledger <= latest
    BY <1>1, <1>2, LogFacts DEF MustReject, MayReject
  <2>2. QED
    BY <1>1, <1>2, <2>1, EndOfLedgerStands DEF PageStart
<1>3. ASSUME ~call.byLedger
      PROVE  Stands(PageStart)
  BY <1>3 DEF PageStart, SourceInv, GotBeforePage
<1>4. /\ Stands(PageStart)
      /\ call.byLedger => PageStart.pos = EventsUpTo(call.page.ledger) /\ call.page.ledger <= latest
  BY <1>2, <1>3
<1> DEFINE from == PageStart
           l == Least(from.ledger + ScanWindow, latest)
           full == from.pos + PageLimit
<1>5. Stands(from)
  BY <1>4
<1> HIDE DEF from
<1>6. from.ledger \in Nat /\ from.pos \in Nat /\ from.ledger <= latest /\ from.pos <= Len(log)
  BY <1>5 DEF Stands, Cursor
<1>7. l \in Nat /\ l <= latest /\ from.ledger <= l
  BY <1>6, LogFacts DEF Least
<1>8. Stands(EndOfLedger(l)) /\ EndOfLedger(l).pos = EventsUpTo(l) /\ from.pos <= EventsUpTo(l)
  BY <1>5, <1>7, EndOfLedgerStands, StandsBelow
<1>9. EventsUpTo(l) \in 0 .. Len(log) /\ full \in Nat \ {0} /\ from.pos <= full
  <2>1. EventsUpTo(l) \in 0 .. Len(log)
    BY <1>7, UpToFacts
  <2>2. QED
    BY <1>6, <2>1, SourceAssumption
<1> HIDE DEF l, full
<1>10. CASE full <= EventsUpTo(l)
  <2>1. full \in DOMAIN log /\ from.pos <= full
    BY <1>6, <1>9, <1>10, LogFacts
  <2>2. Stands([ledger |-> log[full], pos |-> full])
    BY <2>1, LogFacts DEF Stands, Cursor, SourceInv, ChainInOrder
  <2>3. PageEnd(from) = [ledger |-> log[full], pos |-> full]
    BY <1>8, <1>10 DEF PageEnd, l, full
  <2>4. QED
    BY <1>4, <1>5, <2>1, <2>2, <2>3 DEF from
<1>11. CASE ~(full <= EventsUpTo(l))
  <2>1. PageEnd(from) = EndOfLedger(l)
    BY <1>8, <1>11 DEF PageEnd, l, full
  <2>2. QED
    BY <1>4, <1>5, <1>8, <2>1 DEF from
<1>12. QED
  BY <1>10, <1>11

-----------------------------------------------------------------------------
(* SourceInv, whatever the indexer does. *)

LEMMA NoCallFacts ==
  /\ NoCall \in Call /\ NoCall.phase = "idle" /\ NoCall.got = <<>> /\ NoCall.seam = 0
  /\ ~NoCall.byLedger /\ NoCall.page = NoCursor
  /\ NoCursor \in Cursor /\ NoCursor.ledger = 0 /\ NoCursor.pos = 0
BY DEF NoCall, Call, NoCursor, Cursor

LEMMA InitSource ==
  ASSUME Init
  PROVE  SourceInv
<1>1. TypeOK
  <2>1. stranded \in BOOLEAN
    BY Zenon DEF Init
  <2>2. /\ hasIndexer \in Configurations /\ log \in Seq(1 .. MaxLedger) /\ Len(log) <= MaxEvents
        /\ {latest, oldest, indexed} \subseteq Nat
    BY SourceAssumption DEF Init
  <2>3. cursor \in Cursor /\ delivered \in Seq(DOMAIN log) /\ call \in Call
    BY NoCallFacts DEF Init
  <2>4. QED
    BY <2>1, <2>2, <2>3 DEF TypeOK
<1>2. ChainInOrder /\ WindowMoves
  BY SourceAssumption DEF Init, ChainInOrder, WindowMoves
<1>3. Stands(NoCursor)
  BY NoCallFacts, SourceAssumption DEF Init, Stands
<1>4. GotBeforePage
  BY <1>3, NoCallFacts DEF Init, GotBeforePage, Increasing
<1>5. QED
  BY <1>1, <1>2, <1>3, <1>4 DEF SourceInv, Init

\* A step that leaves the chain alone keeps what is said of it.
LEMMA ChainStays ==
  ASSUME SourceInv, UNCHANGED chainVars
  PROVE  /\ ChainInOrder' /\ WindowMoves'
         /\ UNCHANGED <<hasIndexer, log, latest, oldest, indexed>>
<1>1. UNCHANGED <<hasIndexer, log, latest, oldest, indexed>>
  BY DEF chainVars
<1>2. QED
  BY <1>1 DEF SourceInv, ChainInOrder, WindowMoves

\* A fetch step keeps the rest: what is left to prove is about its call.
LEMMA FetchStepKeeps ==
  ASSUME SourceInv, UNCHANGED <<chainVars, readerVars>>, call' \in Call, GotBeforePage'
  PROVE  SourceInv'
<1>1. ChainInOrder' /\ WindowMoves' /\ UNCHANGED <<hasIndexer, log, latest, oldest, indexed>>
  BY ChainStays
<1>2. UNCHANGED <<cursor, delivered, stranded>>
  BY DEF readerVars
<1>3. TypeOK'
  BY <1>1, <1>2 DEF SourceInv, TypeOK
<1>4. Stands(cursor)'
  BY <1>1, <1>2 DEF SourceInv, Stands
<1>5. QED
  BY <1>1, <1>3, <1>4 DEF SourceInv

\* The plans of hybridFetchEvents.
LEMMA PlanFacts ==
  ASSUME SourceInv, NEW floor \in {0, oldest}
  PROVE  LET c == PlanFrom(floor)
         IN  /\ c \in Call /\ c.got = <<>> /\ c.phase \in {"backfilling", "paging"}
             /\ c.next = FirstNeeded
             /\ \/ /\ c.phase = "backfilling" /\ c.byLedger /\ hasIndexer /\ floor > 0
                   /\ c.seam = floor + Margin /\ c.page.ledger = c.seam - 1
                   /\ FirstNeeded < floor
                \/ /\ c.phase = "paging" /\ ~c.byLedger /\ c.seam = 0
                   /\ c.page = cursor /\ cursor # NoCursor
                \/ /\ c.phase = "paging" /\ c.byLedger /\ c.seam = 0 /\ cursor = NoCursor
                   /\ c.page.ledger <= latest
                   /\ hasIndexer => c.page.ledger <= FromLedger
<1>1. /\ cursor \in Cursor /\ cursor.ledger \in Nat /\ floor \in Nat
      /\ oldest <= latest /\ FromLedger <= latest
  BY LogFacts DEF SourceInv, TypeOK, Cursor, WindowMoves
<1>2. FirstNeeded \in Nat /\ (cursor = NoCursor => FirstNeeded = FromLedger)
  BY <1>1, LogFacts DEF FirstNeeded
<1>3. ASSUME NEW l \in Nat \ {0}
      PROVE  /\ ByLedger(l) \in Call /\ ByLedger(l).got = <<>> /\ ByLedger(l).phase = "paging"
             /\ ByLedger(l).next = FirstNeeded /\ ByLedger(l).byLedger /\ ByLedger(l).seam = 0
             /\ ByLedger(l).page.ledger = l - 1
  <2>1. [ledger |-> l - 1, pos |-> 0] \in Cursor
    BY DEF Cursor
  <2> PICK c : c = ByLedger(l)
    OBVIOUS
  <2>2. c = [NoCall EXCEPT !.phase = "paging", !.next = FirstNeeded,
                           !.page = [ledger |-> l - 1, pos |-> 0], !.byLedger = TRUE]
    BY DEF ByLedger
  <2>3. c \in Call
    BY <1>2, <2>1, <2>2, NoCallFacts DEF Call
  <2>4. c.got = <<>> /\ c.phase = "paging" /\ c.next = FirstNeeded /\ c.seam = 0
        /\ c.page = [ledger |-> l - 1, pos |-> 0]
    BY <2>2, NoCallFacts DEF Call
  <2>5. c.byLedger
    BY <2>2, NoCallFacts DEF Call
  <2>6. QED
    BY <2>3, <2>4, <2>5
<1>4. /\ Resume \in Call /\ Resume.got = <<>> /\ Resume.phase = "paging" /\ Resume.next = FirstNeeded
      /\ ~Resume.byLedger /\ Resume.seam = 0 /\ Resume.page = cursor
  <2> PICK c : c = Resume
    OBVIOUS
  <2>1. c = [NoCall EXCEPT !.phase = "paging", !.next = FirstNeeded, !.page = cursor]
    BY DEF Resume
  <2>2. c \in Call
    BY <1>1, <1>2, <2>1, NoCallFacts DEF Call
  <2>3. c.got = <<>> /\ c.phase = "paging" /\ c.next = FirstNeeded /\ c.seam = 0 /\ c.page = cursor
    BY <2>1, NoCallFacts DEF Call
  <2>4. ~c.byLedger
    BY <2>1, NoCallFacts DEF Call
  <2>5. QED
    BY <2>2, <2>3, <2>4
<1>5. ASSUME floor > 0
      PROVE  LET c == BackfillTo(floor + Margin)
             IN  /\ c \in Call /\ c.got = <<>> /\ c.phase = "backfilling" /\ c.next = FirstNeeded
                 /\ c.byLedger /\ c.seam = floor + Margin /\ c.page.ledger = c.seam - 1
  <2>1. floor + Margin \in Nat \ {0}
    BY <1>1, <1>5, LogFacts
  <2> PICK n : n = floor + Margin
    OBVIOUS
  <2> PICK b : b = ByLedger(n)
    OBVIOUS
  <2>2. b \in Call /\ b.got = <<>> /\ b.next = FirstNeeded /\ b.byLedger /\ b.page.ledger = n - 1
    BY <1>3, <2>1
  <2> PICK c : c = BackfillTo(n)
    OBVIOUS
  <2>3. c = [b EXCEPT !.phase = "backfilling", !.seam = n]
    BY DEF BackfillTo
  <2>4. c \in Call /\ c.got = <<>> /\ c.phase = "backfilling" /\ c.next = FirstNeeded
        /\ c.byLedger /\ c.seam = n /\ c.page.ledger = n - 1
    BY <2>1, <2>2, <2>3 DEF Call
  <2>5. QED
    BY <2>4
<1>6. ASSUME cursor = NoCursor, hasIndexer /\ floor > 0 => FirstNeeded >= floor
      PROVE  LET c == ColdStart(floor)
             IN  /\ c \in Call /\ c.got = <<>> /\ c.phase = "paging" /\ c.next = FirstNeeded
                 /\ c.byLedger /\ c.seam = 0 /\ c.page.ledger <= latest
                 /\ hasIndexer => c.page.ledger <= FromLedger
  <2> DEFINE l == IF floor > 0 /\ floor + 1 > FromLedger THEN floor + 1 ELSE FromLedger
  <2>1. l \in Nat \ {0} /\ l - 1 <= latest /\ (hasIndexer => l - 1 <= FromLedger)
    BY <1>1, <1>2, <1>6, LogFacts
  <2>2. ColdStart(floor) = ByLedger(l)
    BY DEF ColdStart
  <2> HIDE DEF l
  <2>3. QED
    BY <1>3, <2>1, <2>2
<1>7. CASE hasIndexer /\ floor > 0 /\ FirstNeeded < floor
  <2>1. PlanFrom(floor) = BackfillTo(floor + Margin)
    BY <1>7 DEF PlanFrom
  <2>2. QED
    BY <1>5, <1>7, <2>1
<1>8. CASE ~(hasIndexer /\ floor > 0 /\ FirstNeeded < floor) /\ cursor # NoCursor
  <2>1. PlanFrom(floor) = Resume
    BY <1>8 DEF PlanFrom
  <2>2. QED
    BY <1>4, <1>8, <2>1
<1>9. CASE ~(hasIndexer /\ floor > 0 /\ FirstNeeded < floor) /\ cursor = NoCursor
  <2>1. PlanFrom(floor) = ColdStart(floor)
    BY <1>9 DEF PlanFrom
  <2>2. QED
    BY <1>1, <1>2, <1>6, <1>9, <2>1
<1>10. QED
  BY <1>7, <1>8, <1>9

LEMMA PlanKeepsSource ==
  ASSUME SourceInv, PlanFetch
  PROVE  SourceInv'
<1>1. PICK floor \in {0, oldest} : call' = PlanFrom(floor)
  BY DEF PlanFetch
<1>2. UNCHANGED <<chainVars, readerVars>>
  BY DEF PlanFetch
<1>3. UNCHANGED <<log, latest>>
  BY <1>2, ChainStays
<1>4. /\ call' \in Call /\ call'.got = <<>> /\ call'.phase \in {"backfilling", "paging"}
      /\ call'.phase = "backfilling" => call'.byLedger /\ call'.page.ledger = call'.seam - 1
      /\ ~call'.byLedger => call'.page = cursor
  BY <1>1, PlanFacts
<1>5. ~call'.byLedger => Stands(call.page)'
  BY <1>3, <1>4 DEF SourceInv, Stands
<1>6. GotBeforePage'
  BY <1>4, <1>5 DEF GotBeforePage, Increasing
<1>7. QED
  BY <1>2, <1>4, <1>6, FetchStepKeeps

LEMMA BackfillKeepsSource ==
  ASSUME SourceInv, Backfill
  PROVE  SourceInv'
<1> PICK m : m = EventsUpTo(call.next - 1)
  OBVIOUS
<1> PICK l : l = Least(call.seam - 1, indexed)
  OBVIOUS
<1> PICK n : n = EventsUpTo(l)
  OBVIOUS
<1> PICK g : g = Numbers(m, n)
  OBVIOUS
<1>1. /\ call \in Call /\ call.next \in Nat /\ call.seam \in Nat
      /\ call.byLedger /\ call.page.ledger = call.seam - 1 /\ call.phase = "backfilling"
  BY DEF SourceInv, TypeOK, Call, GotBeforePage, Backfill
<1>2. l \in Int /\ l <= call.seam - 1
  BY <1>1, LogFacts DEF Least
<1>3. /\ m \in Nat /\ n \in 0 .. Len(log)
      /\ \A e \in DOMAIN log : log[e] <= l <=> e <= n
  <2>1. n \in 0 .. Len(log) /\ \A e \in DOMAIN log : log[e] <= l <=> e <= n
    BY <1>2, UpToFacts
  <2>2. call.next - 1 \in Int
    BY <1>1
  <2>3. m \in 0 .. Len(log)
    BY <2>2, UpToFacts
  <2>4. QED
    BY <2>1, <2>3
<1>4. g \in Seq(1 .. n) /\ Increasing(g) /\ \A k \in DOMAIN g : g[k] <= n
  BY <1>3, NumbersType
<1>5. 1 .. n \subseteq DOMAIN log /\ 1 .. n \subseteq Nat
  BY <1>3, LogFacts
<1>6. g \in Seq(DOMAIN log) /\ g \in Seq(Nat)
  BY <1>4, <1>5, SeqWiden
<1>7. call' = [call EXCEPT !.phase = "paging", !.got = g]
  BY DEF Backfill
<1>8. /\ call' \in Call /\ call'.got = g /\ call'.page = call.page
      /\ call'.byLedger /\ call'.phase = "paging"
  BY <1>1, <1>6, <1>7 DEF Call
<1>9. \A k \in DOMAIN g : log[g[k]] <= call.page.ledger
  <2> TAKE k \in DOMAIN g
  <2>1. g[k] \in DOMAIN log /\ g[k] <= n
    BY <1>4, <1>6
  <2>2. log[g[k]] <= l /\ log[g[k]] \in Nat
    BY <1>3, <2>1, LogFacts
  <2>3. QED
    BY <1>1, <1>2, <2>2
<1>10. UNCHANGED <<chainVars, readerVars>> /\ UNCHANGED <<log, latest>>
  BY ChainStays DEF Backfill
<1>11. GotBeforePage'
  BY <1>4, <1>6, <1>8, <1>9, <1>10 DEF GotBeforePage, Increasing
<1>12. QED
  BY <1>8, <1>10, <1>11, FetchStepKeeps

\* What a page does to the call, in the words of the invariants.
LEMMA GetPageFacts ==
  ASSUME SourceInv, GetPage
  PROVE  LET to == PageEnd(PageStart)
         IN  /\ call.phase = "paging" /\ Stands(PageStart) /\ Stands(to)
             /\ PageStart.pos \in Nat /\ to.pos \in Nat /\ PageStart.pos <= to.pos
             /\ call.byLedger => PageStart.pos = EventsUpTo(call.page.ledger)
             /\ call' \in Call /\ call'.page = to /\ ~call'.byLedger
             /\ call'.got = call.got \o Numbers(PageStart.pos, to.pos)
             /\ call'.next = call.next /\ call'.seam = call.seam
             /\ call'.phase \in {"paging", "done"}
             /\ UNCHANGED <<hasIndexer, log, latest, oldest, indexed, cursor, delivered>>
             /\ UNCHANGED <<chainVars, readerVars>>
<1> PICK to : to = PageEnd(PageStart)
  OBVIOUS
<1> PICK from : from = PageStart
  OBVIOUS
<1> PICK ph : ph = IF to.ledger >= latest \/ (to = PageStart /\ ~call.byLedger) THEN "done" ELSE "paging"
  OBVIOUS
<1>1. call.phase = "paging" /\ ~MustReject
  BY DEF GetPage, TakePage
<1>2. /\ Stands(from) /\ Stands(to) /\ from.pos <= to.pos
      /\ call.byLedger => from.pos = EventsUpTo(call.page.ledger)
  BY <1>1, PageFacts
<1>3. to \in Cursor /\ from.pos \in Nat /\ to.pos \in Nat
  BY <1>2 DEF Stands, Cursor
<1>4. call \in Call /\ call.got \in Seq(Nat)
  BY DEF SourceInv, TypeOK, Call
<1> PICK g : g = call.got \o Numbers(from.pos, to.pos)
  OBVIOUS
<1>5. g \in Seq(Nat)
  <2> PICK n \in Nat, m \in Nat : n = to.pos /\ m = from.pos
    BY <1>3
  <2>1. Numbers(m, n) \in Seq(1 .. n)
    BY NumbersType
  <2>2. 1 .. n \subseteq Nat
    OBVIOUS
  <2>3. Numbers(m, n) \in Seq(Nat)
    BY <2>1, <2>2, SeqWiden
  <2>4. QED
    BY <1>4, <2>3, JoinFacts
<1>6. call' = [call EXCEPT !.page = to, !.byLedger = FALSE, !.got = g, !.phase = ph]
  BY <1>4 DEF GetPage, TakePage, Call
<1>7. ph \in {"paging", "done"}
  OBVIOUS
<1>8. /\ call' \in Call /\ call'.page = to /\ ~call'.byLedger /\ call'.got = g
      /\ call'.next = call.next /\ call'.seam = call.seam /\ call'.phase \in {"paging", "done"}
  BY <1>3, <1>4, <1>5, <1>6, <1>7 DEF Call
<1>9. UNCHANGED <<chainVars, readerVars>>
  BY DEF GetPage, TakePage
<1>10. UNCHANGED <<hasIndexer, log, latest, oldest, indexed, cursor, delivered>>
  BY <1>9, ChainStays DEF readerVars
<1>11. QED
  BY <1>1, <1>2, <1>3, <1>8, <1>9, <1>10

LEMMA GetPageKeepsSource ==
  ASSUME SourceInv, GetPage
  PROVE  SourceInv'
<1> PICK to : to = PageEnd(PageStart)
  OBVIOUS
<1> PICK p : p = PageStart.pos
  OBVIOUS
<1> PICK h : h = Numbers(p, to.pos)
  OBVIOUS
<1>1. /\ call.phase = "paging" /\ Stands(to) /\ Stands(PageStart)
      /\ p \in Nat /\ to.pos \in Nat /\ p <= to.pos
      /\ call.byLedger => p = EventsUpTo(call.page.ledger)
      /\ call' \in Call /\ call'.page = to /\ ~call'.byLedger /\ call'.got = call.got \o h
      /\ call'.phase \in {"paging", "done"}
      /\ UNCHANGED <<log, latest>> /\ UNCHANGED <<chainVars, readerVars>>
  BY GetPageFacts
<1>2. h \in Seq(1 .. to.pos) /\ Increasing(h) /\ \A k \in DOMAIN h : p < h[k] /\ h[k] <= to.pos
  BY <1>1, NumbersType
<1>3. to.pos \in 0 .. Len(log)
  BY <1>1 DEF Stands
<1>4. h \in Seq(DOMAIN log) /\ DOMAIN log \subseteq Nat /\ DOMAIN log = 1 .. Len(log)
  <2>1. 1 .. to.pos \subseteq DOMAIN log
    BY <1>1, <1>3, LogFacts
  <2>2. h \in Seq(DOMAIN log)
    BY <1>2, <2>1, SeqWiden
  <2>3. QED
    BY <2>2, LogFacts
<1>5. call.got \in Seq(DOMAIN log) /\ Increasing(call.got)
  BY DEF SourceInv, GotBeforePage
<1>6. \A k \in DOMAIN call.got : call.got[k] <= p
  <2>1. CASE call.byLedger
    <3> TAKE k \in DOMAIN call.got
    <3>1. call.got[k] \in DOMAIN log /\ log[call.got[k]] <= call.page.ledger
      BY <1>5, <2>1 DEF SourceInv, GotBeforePage
    <3>2. call.page.ledger \in Int
      BY DEF SourceInv, TypeOK, Call, Cursor
    <3>3. QED
      BY <1>1, <2>1, <3>1, <3>2, UpToFacts
  <2>2. CASE ~call.byLedger
    BY <2>2 DEF SourceInv, GotBeforePage, PageStart
  <2>3. QED
    BY <2>1, <2>2
<1>7. call'.got \in Seq(DOMAIN log) /\ Increasing(call'.got)
  BY <1>1, <1>2, <1>4, <1>5, <1>6, IncreasingJoin
<1>8. \A k \in DOMAIN call'.got : call'.got[k] <= to.pos
  <2> DEFINE T == {e \in Nat : e <= to.pos}
  <2>1. \A k \in DOMAIN call.got : call.got[k] \in T
    <3>1. \A k \in DOMAIN call.got : call.got[k] \in DOMAIN log
      BY <1>5
    <3>2. QED
      BY <1>1, <1>4, <1>6, <3>1
  <2>2. \A k \in DOMAIN h : h[k] \in T
    <3>1. \A k \in DOMAIN h : h[k] \in DOMAIN log
      BY <1>4
    <3>2. QED
      BY <1>2, <1>4, <3>1
  <2> HIDE DEF T
  <2>3. \A k \in DOMAIN (call.got \o h) : (call.got \o h)[k] \in T
    BY <1>4, <1>5, <2>1, <2>2, JoinBound
  <2>4. QED
    BY <1>1, <2>3 DEF T
<1>9. Stands(call.page)'
  BY <1>1 DEF Stands
<1>10. GotBeforePage'
  BY <1>1, <1>7, <1>8, <1>9 DEF GotBeforePage, Increasing
<1>11. QED
  BY <1>1, <1>10, FetchStepKeeps

\* The reader saves what the fetch got, which dedupeById leaves as it is.
LEMMA PersistFacts ==
  ASSUME SourceInv, Persist
  PROVE  /\ call.phase = "done" /\ ~call.byLedger /\ Stands(call.page)
         /\ delivered' = delivered \o call.got /\ cursor' = call.page /\ call' = NoCall
         /\ UNCHANGED <<hasIndexer, log, latest, oldest, indexed>>
<1>1. /\ call.phase = "done" /\ delivered' = delivered \o DedupeById(call.got, log)
      /\ cursor' = call.page /\ call' = NoCall /\ UNCHANGED chainVars
  BY DEF Persist
<1>2. ~call.byLedger /\ Stands(call.page)
  BY <1>1 DEF SourceInv, GotBeforePage
<1> PICK g : g = call.got
  OBVIOUS
<1> PICK S : S = DOMAIN log
  OBVIOUS
<1>3. g \in Seq(S) /\ Increasing(g) /\ S \subseteq Nat
  BY LogFacts DEF SourceInv, GotBeforePage
<1>4. log \in [S -> Nat]
  BY LogFacts
<1>5. ASSUME NEW i \in DOMAIN g, NEW j \in DOMAIN g, i < j
      PROVE  g[i] # g[j] /\ log[g[i]] <= log[g[j]]
  <2>1. g[i] \in S /\ g[j] \in S
    BY <1>3, <1>5
  <2>2. g[i] < g[j]
    BY <1>3, <1>5 DEF Increasing
  <2>3. g[i] \in Nat /\ g[j] \in Nat
    BY <1>3, <2>1
  <2>4. log[g[i]] <= log[g[j]]
    BY <2>1, <2>2, <2>3 DEF SourceInv, ChainInOrder
  <2>5. QED
    BY <2>2, <2>3, <2>4
<1>6. DedupeById(g, log) = g
  BY <1>3, <1>4, <1>5, DedupeKeepsOrder
<1>7. UNCHANGED <<hasIndexer, log, latest, oldest, indexed>>
  BY <1>1, ChainStays
<1>8. QED
  BY <1>1, <1>2, <1>6, <1>7

\* Between two fetches there is nothing to say of the call.
LEMMA NoCallIsFine ==
  ASSUME SourceInv, UNCHANGED chainVars, call' = NoCall
  PROVE  GotBeforePage' /\ call' \in Call /\ Stands(NoCursor)'
<1>1. UNCHANGED <<log, latest>>
  BY ChainStays
<1>2. Stands(NoCursor)'
  BY <1>1, LogFacts, NoCallFacts DEF Stands
<1>3. call'.phase = "idle" /\ call'.got = <<>> /\ ~call'.byLedger /\ call'.page = NoCursor
  BY NoCallFacts
<1>4. Stands(call.page)'
  BY <1>2, <1>3 DEF Stands
<1>5. GotBeforePage'
  BY <1>3, <1>4 DEF GotBeforePage, Increasing
<1>6. QED
  BY <1>2, <1>5, NoCallFacts

LEMMA PersistKeepsSource ==
  ASSUME SourceInv, Persist
  PROVE  SourceInv'
<1>1. /\ Stands(call.page) /\ delivered' = delivered \o call.got /\ cursor' = call.page
      /\ call' = NoCall /\ UNCHANGED <<hasIndexer, log, latest, oldest, indexed>>
  BY PersistFacts
<1>2. UNCHANGED chainVars
  BY DEF Persist
<1>3. ChainInOrder' /\ WindowMoves'
  BY <1>2, ChainStays
<1>4. GotBeforePage' /\ call' \in Call
  BY <1>1, <1>2, NoCallIsFine
<1>5. cursor' \in Cursor /\ Stands(cursor)'
  BY <1>1 DEF Stands
<1>6. delivered' \in Seq(DOMAIN log)
  <2>1. delivered \in Seq(DOMAIN log) /\ call.got \in Seq(DOMAIN log)
    BY DEF SourceInv, TypeOK, GotBeforePage
  <2>2. QED
    BY <1>1, <2>1, JoinFacts
<1>7. stranded' \in BOOLEAN
  BY DEF Persist
<1>8. TypeOK'
  BY <1>1, <1>4, <1>5, <1>6, <1>7 DEF SourceInv, TypeOK
<1>9. QED
  BY <1>3, <1>4, <1>5, <1>8 DEF SourceInv

LEMMA AbandonKeepsSource ==
  ASSUME SourceInv, RejectPage \/ FailFetch
  PROVE  SourceInv'
<1>1. call' = NoCall /\ UNCHANGED <<chainVars, readerVars>>
  BY DEF RejectPage, FailFetch
<1>2. QED
  BY <1>1, NoCallIsFine, FetchStepKeeps

LEMMA StartOverKeepsSource ==
  ASSUME SourceInv, StartOver
  PROVE  SourceInv'
<1>1. /\ cursor' = NoCursor /\ delivered' = <<>> /\ stranded' = FALSE
      /\ UNCHANGED call /\ UNCHANGED chainVars
  BY DEF StartOver
<1>2. ChainInOrder' /\ WindowMoves' /\ UNCHANGED <<hasIndexer, log, latest, oldest, indexed>>
  BY <1>1, ChainStays
<1>3. Stands(cursor)'
  BY <1>1, <1>2, LogFacts, NoCallFacts DEF Stands
<1>4. TypeOK'
  <2>1. stranded' \in BOOLEAN
    BY Zenon, <1>1
  <2>2. cursor' \in Cursor /\ delivered' \in Seq(DOMAIN log)
    BY <1>1, NoCallFacts
  <2>3. QED
    BY <1>1, <1>2, <2>1, <2>2 DEF SourceInv, TypeOK
<1>5. GotBeforePage'
  BY <1>1, <1>2 DEF SourceInv, GotBeforePage, Stands
<1>6. QED
  BY <1>2, <1>3, <1>4, <1>5 DEF SourceInv

\* A ledger is added to the log, at its end.
LEMMA CloseLedgerFacts ==
  ASSUME SourceInv, CloseLedger
  PROVE  /\ latest' = latest + 1 /\ latest' <= MaxLedger
         /\ \E n \in PerLedger :
              /\ n \in Nat /\ Len(log') = Len(log) + n /\ Len(log') <= MaxEvents
              /\ log' \in Seq(1 .. MaxLedger) /\ DOMAIN log' = 1 .. Len(log) + n
              /\ \A e \in DOMAIN log : e \in DOMAIN log' /\ log'[e] = log[e]
              /\ \A e \in Len(log) + 1 .. Len(log) + n : log'[e] = latest + 1
         /\ UNCHANGED <<hasIndexer, oldest, indexed, cursor, delivered, stranded, call>>
<1>1. /\ latest < MaxLedger /\ latest' = latest + 1
      /\ UNCHANGED <<hasIndexer, oldest, indexed, cursor, delivered, stranded, call>>
  BY DEF CloseLedger, readerVars
<1>2. PICK n \in PerLedger :
        Len(log) + n <= MaxEvents /\ log' = log \o [i \in 1 .. n |-> latest + 1]
  BY DEF CloseLedger
<1>3. n \in Nat
  BY SourceAssumption
<1>4. PICK t : t = [i \in 1 .. n |-> latest + 1]
  OBVIOUS
<1>5. PICK S : S = 1 .. MaxLedger
  OBVIOUS
<1>6. latest + 1 \in S /\ latest + 1 <= MaxLedger
  BY <1>1, <1>5, LogFacts
<1>7. t \in Seq(S) /\ Len(t) = n
  BY <1>3, <1>4, <1>6
<1>8. log \in Seq(S)
  BY <1>5 DEF SourceInv, TypeOK
<1>9. log' = log \o t
  BY <1>2, <1>4
<1>10. /\ log' \in Seq(S) /\ Len(log') = Len(log) + n /\ DOMAIN log' = 1 .. Len(log) + n
       /\ DOMAIN log = 1 .. Len(log) /\ Len(log) \in Nat
       /\ \A e \in 1 .. Len(log) : log'[e] = log[e]
       /\ \A e \in Len(log) + 1 .. Len(log) + n : e - Len(log) \in 1 .. n /\ log'[e] = t[e - Len(log)]
  <2>1. PICK s : s = log
    OBVIOUS
  <2>2. s \in Seq(S) /\ t \in Seq(S)
    BY <1>7, <1>8, <2>1
  <2>3. /\ s \o t \in Seq(S) /\ Len(s \o t) = Len(s) + Len(t)
        /\ DOMAIN (s \o t) = 1 .. Len(s) + Len(t) /\ DOMAIN s = 1 .. Len(s) /\ Len(s) \in Nat
        /\ \A e \in 1 .. Len(s) : (s \o t)[e] = s[e]
        /\ \A e \in Len(s) + 1 .. Len(s) + Len(t) :
             e - Len(s) \in 1 .. Len(t) /\ (s \o t)[e] = t[e - Len(s)]
    BY <2>2, JoinFacts
  <2>4. Len(t) = n /\ log' = s \o t
    BY <1>7, <1>9, <2>1
  <2>5. QED
    BY <2>1, <2>3, <2>4
<1>11. \A e \in DOMAIN log : e \in DOMAIN log' /\ log'[e] = log[e]
  BY <1>3, <1>10
<1>12. \A e \in Len(log) + 1 .. Len(log) + n : log'[e] = latest + 1
  BY <1>4, <1>10
<1>13. QED
  BY <1>1, <1>2, <1>3, <1>5, <1>6, <1>10, <1>11, <1>12

LEMMA CloseLedgerKeepsSource ==
  ASSUME SourceInv, CloseLedger
  PROVE  SourceInv'
<1>1. PICK n \in Nat :
              /\ Len(log') = Len(log) + n /\ Len(log') <= MaxEvents
              /\ log' \in Seq(1 .. MaxLedger) /\ DOMAIN log' = 1 .. Len(log) + n
              /\ \A e \in DOMAIN log : e \in DOMAIN log' /\ log'[e] = log[e]
              /\ \A e \in Len(log) + 1 .. Len(log) + n : log'[e] = latest + 1
  BY CloseLedgerFacts
<1>2. /\ latest' = latest + 1
      /\ UNCHANGED <<hasIndexer, oldest, indexed, cursor, delivered, stranded, call>>
  BY CloseLedgerFacts
<1>3. /\ Len(log) \in Nat /\ DOMAIN log = 1 .. Len(log) /\ latest \in Nat /\ FromLedger \in Nat
      /\ \A e \in DOMAIN log : log[e] \in Nat /\ FromLedger < log[e] /\ log[e] <= latest
  BY LogFacts DEF SourceInv, ChainInOrder
<1>4. \A e \in DOMAIN log' : e \in DOMAIN log \/ e \in Len(log) + 1 .. Len(log) + n
  BY <1>1, <1>3
<1>5. WindowMoves' /\ FromLedger <= latest
  BY <1>2, LogFacts DEF SourceInv, WindowMoves
<1>6. ChainInOrder'
  <2>1. ASSUME NEW i \in DOMAIN log', NEW j \in DOMAIN log', i <= j
        PROVE  log'[i] <= log'[j]
    <3>1. CASE j \in DOMAIN log
      <4>1. i \in DOMAIN log
        BY <1>1, <1>3, <1>4, <2>1, <3>1
      <4>2. log[i] <= log[j]
        BY <2>1, <3>1, <4>1 DEF SourceInv, ChainInOrder
      <4>3. QED
        BY <1>1, <3>1, <4>1, <4>2
    <3>2. CASE j \in Len(log) + 1 .. Len(log) + n
      BY <1>1, <1>3, <1>4, <3>2
    <3>3. QED
      BY <1>4, <3>1, <3>2
  <2>2. ASSUME NEW e \in DOMAIN log'
        PROVE  FromLedger < log'[e] /\ log'[e] <= latest'
    <3>1. CASE e \in DOMAIN log
      BY <1>1, <1>2, <1>3, <3>1
    <3>2. CASE e \in Len(log) + 1 .. Len(log) + n
      BY <1>1, <1>2, <1>3, <1>5, <3>2
    <3>3. QED
      BY <1>4, <3>1, <3>2
  <2>3. QED
    BY <2>1, <2>2 DEF ChainInOrder
<1>7. ASSUME NEW c, Stands(c)
      PROVE  Stands(c)'
  <2>1. /\ c \in Cursor /\ c.ledger \in Nat /\ c.pos \in Nat /\ c.ledger <= latest /\ c.pos <= Len(log)
        /\ \A e \in DOMAIN log : /\ e <= c.pos => log[e] <= c.ledger
                                 /\ c.pos < e => c.ledger <= log[e]
    BY <1>7 DEF Stands, Cursor
  <2>2. c.ledger <= latest' /\ c.pos <= Len(log')
    BY <1>1, <1>2, <1>3, <2>1
  <2>3. ASSUME NEW e \in DOMAIN log'
        PROVE  (e <= c.pos => log'[e] <= c.ledger) /\ (c.pos < e => c.ledger <= log'[e])
    <3>1. CASE e \in DOMAIN log
      BY <1>1, <2>1, <3>1
    <3>2. CASE e \in Len(log) + 1 .. Len(log) + n
      BY <1>1, <1>3, <2>1, <3>2
    <3>3. QED
      BY <1>4, <3>1, <3>2
  <2>4. QED
    BY <2>1, <2>2, <2>3 DEF Stands
<1>8. DOMAIN log \subseteq DOMAIN log'
  BY <1>1
<1>9. TypeOK'
  <2>1. delivered' \in Seq(DOMAIN log')
    BY <1>2, <1>8, SeqWiden DEF SourceInv, TypeOK
  <2>2. {latest, oldest, indexed}' \subseteq Nat
    BY <1>2, LogFacts
  <2>3. QED
    BY <1>1, <1>2, <2>1, <2>2 DEF SourceInv, TypeOK
<1>10. GotBeforePage'
  <2>1. call'.got \in Seq(DOMAIN log') /\ Increasing(call'.got)
    BY <1>2, <1>8, SeqWiden DEF SourceInv, GotBeforePage
  <2>2. \A k \in DOMAIN call.got : call.got[k] \in DOMAIN log
    BY DEF SourceInv, GotBeforePage
  <2>3. ASSUME call.byLedger
        PROVE  \A k \in DOMAIN call.got : log'[call.got[k]] <= call.page.ledger
    BY <1>1, <2>2, <2>3 DEF SourceInv, GotBeforePage
  <2>4. ASSUME ~call.byLedger
        PROVE  Stands(call.page)' /\ \A k \in DOMAIN call.got : call.got[k] <= call.page.pos
    <3>1. Stands(call.page)
      BY <2>4 DEF SourceInv, GotBeforePage
    <3> PICK c : c = call.page
      OBVIOUS
    <3>2. Stands(c)'
      BY <1>7, <3>1
    <3>3. QED
      BY <1>2, <2>4, <3>2 DEF SourceInv, GotBeforePage, Stands
  <2>5. QED
    BY <1>2, <2>1, <2>3, <2>4 DEF SourceInv, GotBeforePage
<1>11. Stands(cursor)'
  <2> PICK c : c = cursor
    OBVIOUS
  <2>1. Stands(c)'
    BY <1>7 DEF SourceInv
  <2>2. QED
    BY <1>2, <2>1 DEF Stands
<1>12. QED
  BY <1>5, <1>6, <1>9, <1>10, <1>11 DEF SourceInv

LEMMA WindowKeepsSource ==
  ASSUME SourceInv, AgeOut \/ Index
  PROVE  SourceInv'
<1>1. UNCHANGED <<hasIndexer, log, latest, cursor, delivered, call>>
  BY DEF AgeOut, Index, readerVars
<1>2. WindowMoves'
  <2>1. /\ FromLedger <= latest /\ 1 <= oldest /\ oldest <= latest /\ indexed <= latest
        /\ hasIndexer /\ IndexerKeepsUp => oldest = 1 \/ oldest + Margin - 1 <= indexed
    BY DEF SourceInv, WindowMoves
  <2>2. CASE AgeOut
    BY <1>1, <2>1, <2>2, LogFacts DEF AgeOut, WindowMoves
  <2>3. CASE Index
    BY <1>1, <2>1, <2>3, LogFacts DEF Index, WindowMoves
  <2>4. QED
    BY <2>2, <2>3
<1>3. {oldest', indexed'} \subseteq Nat /\ stranded' \in BOOLEAN
  <2>1. {oldest', indexed'} \subseteq Nat
    BY LogFacts DEF AgeOut, Index
  <2>2. stranded \in BOOLEAN
    BY DEF SourceInv, TypeOK
  <2>3. CASE AgeOut
    <3>1. stranded' = (stranded \/ Strands(cursor, oldest + 1))
      BY <2>3 DEF AgeOut
    <3>2. stranded' \in BOOLEAN
      BY Zenon, <3>1
    <3>3. QED
      BY <2>1, <3>2
  <2>4. CASE Index
    <3>1. stranded' = stranded
      BY <2>4 DEF Index, readerVars
    <3>2. QED
      BY <2>1, <2>2, <3>1
  <2>5. QED
    BY <2>3, <2>4
<1>4. TypeOK'
  BY <1>1, <1>3 DEF SourceInv, TypeOK
<1>5. ChainInOrder' /\ Stands(cursor)' /\ GotBeforePage'
  BY <1>1 DEF SourceInv, ChainInOrder, Stands, GotBeforePage
<1>6. QED
  BY <1>2, <1>4, <1>5 DEF SourceInv

\* SourceInv is an invariant of every execution: types, a log in chain order,
\* a retention window inside the chain, cursors that stand where they say.
THEOREM SourceInvariance == Spec => []SourceInv
<1>1. Init => SourceInv
  BY InitSource
<1>2. SourceInv /\ [Next]_vars => SourceInv'
  <2> SUFFICES ASSUME SourceInv, [Next]_vars
               PROVE  SourceInv'
    OBVIOUS
  <2>1. CASE PlanFetch
    BY <2>1, PlanKeepsSource
  <2>2. CASE Backfill
    BY <2>2, BackfillKeepsSource
  <2>3. CASE GetPage
    BY <2>3, GetPageKeepsSource
  <2>4. CASE Persist
    BY <2>4, PersistKeepsSource
  <2>5. CASE RejectPage \/ FailFetch
    BY <2>5, AbandonKeepsSource
  <2>6. CASE StartOver
    BY <2>6, StartOverKeepsSource
  <2>7. CASE CloseLedger
    BY <2>7, CloseLedgerKeepsSource
  <2>8. CASE AgeOut \/ Index
    BY <2>8, WindowKeepsSource
  <2>9. CASE UNCHANGED vars
    <3>1. UNCHANGED <<hasIndexer, log, latest, oldest, indexed, cursor, delivered, stranded, call>>
      BY <2>9 DEF vars, chainVars, readerVars
    <3>2. QED
      BY <3>1 DEF SourceInv, TypeOK, ChainInOrder, WindowMoves, Stands, GotBeforePage
  <2>10. QED
    BY <2>1, <2>2, <2>3, <2>4, <2>5, <2>6, <2>7, <2>8, <2>9 DEF Next, Fetch
<1>3. QED
  BY <1>1, <1>2, PTL DEF Spec

\* Every variable keeps its type, with and without an indexer.
THEOREM SourceTypes == Spec => []TypeOK
<1>1. SourceInv => TypeOK
  BY DEF SourceInv
<1>2. QED
  BY <1>1, SourceInvariance, PTL

-----------------------------------------------------------------------------
(* GotIsInterval, if an indexer keeps up. *)

LEMMA PlaceFacts ==
  ASSUME SourceInv
  PROVE  /\ PageStart.pos \in 0 .. Len(log) /\ cursor.pos \in 0 .. Len(log)
         /\ cursor \in Cursor /\ cursor.ledger \in Nat /\ cursor.ledger <= latest
         /\ call.page.ledger \in Nat /\ call.next \in Nat /\ call.seam \in Nat
         /\ FirstNeeded \in Nat \ {0} /\ FirstNeeded - 1 <= latest
<1>1. /\ call.page \in Cursor /\ call.page.ledger \in Nat /\ call.next \in Nat /\ call.seam \in Nat
  BY DEF SourceInv, TypeOK, Call, Cursor
<1>2. /\ cursor \in Cursor /\ cursor.pos \in Nat /\ cursor.ledger \in Nat
      /\ cursor.ledger <= latest /\ cursor.pos <= Len(log)
  BY DEF SourceInv, Stands, Cursor
<1>3. PageStart.pos \in 0 .. Len(log)
  <2>1. CASE call.byLedger
    <3>1. PICK l \in Nat : l = call.page.ledger
      BY <1>1
    <3>2. PageStart.pos = EventsUpTo(l)
      BY <2>1, <3>1 DEF PageStart, EndOfLedger
    <3>3. QED
      BY <3>2, UpToFacts
  <2>2. CASE ~call.byLedger
    <3>1. Stands(call.page) /\ PageStart = call.page
      BY <2>2 DEF SourceInv, GotBeforePage, PageStart
    <3>2. QED
      BY <3>1, LogFacts DEF Stands, Cursor
  <2>3. QED
    BY <2>1, <2>2
<1>4. FirstNeeded \in Nat \ {0} /\ FirstNeeded - 1 <= latest
  BY <1>2, LogFacts DEF FirstNeeded, SourceInv, WindowMoves
<1>5. QED
  BY <1>1, <1>2, <1>3, <1>4, LogFacts

\* No event is in the ledgers up to the deployment.
LEMMA NoneBeforeDeployment ==
  ASSUME SourceInv, NEW l \in Int, l <= FromLedger
  PROVE  EventsUpTo(l) = 0
<1>1. EventsUpTo(l) \in 0 .. Len(log) /\ \A e \in DOMAIN log : log[e] <= l <=> e <= EventsUpTo(l)
  BY UpToFacts
<1>2. \A e \in DOMAIN log : FromLedger < log[e]
  BY DEF SourceInv, ChainInOrder
<1>3. 1 \in DOMAIN log => ~(1 <= EventsUpTo(l))
  BY <1>1, <1>2, LogFacts
<1>4. QED
  BY <1>1, <1>3, LogFacts

LEMMA UpToMonotone ==
  ASSUME SourceInv, NEW k \in Int, NEW l \in Int, k <= l
  PROVE  EventsUpTo(k) <= EventsUpTo(l)
<1>1. /\ EventsUpTo(k) \in 0 .. Len(log) /\ \A e \in DOMAIN log : log[e] <= k <=> e <= EventsUpTo(k)
      /\ EventsUpTo(l) \in 0 .. Len(log) /\ \A e \in DOMAIN log : log[e] <= l <=> e <= EventsUpTo(l)
  BY UpToFacts
<1>2. ASSUME EventsUpTo(k) > EventsUpTo(l)
      PROVE  FALSE
  <2> PICK e : e = EventsUpTo(k)
    OBVIOUS
  <2>1. e \in DOMAIN log /\ log[e] <= k /\ ~(log[e] <= l)
    BY <1>1, <1>2, LogFacts
  <2>2. QED
    BY <2>1, LogFacts
<1>3. QED
  BY <1>1, <1>2, LogFacts

\* A step that does not touch the log or the call keeps GotIsInterval.
LEMMA IntervalStays ==
  ASSUME SourceInv, GotIsInterval, UNCHANGED <<hasIndexer, log, cursor, call>>,
         latest' \in Nat, latest <= latest', oldest' \in Nat, oldest <= oldest',
         indexed' \in Nat, indexed <= indexed'
  PROVE  GotIsInterval'
<1>1. UNCHANGED <<PageStart, FirstNeeded>> /\ \A a : FirstGot(a)' <=> FirstGot(a)
  BY DEF PageStart, EndOfLedger, EventsUpTo, FirstNeeded, FirstGot
<1>2. call.phase # "idle" =>
        /\ call.page.ledger <= latest'
        /\ call.seam > 0 => hasIndexer /\ call.next = FirstNeeded /\ call.next < oldest'
  <2>1. ASSUME call.phase # "idle"
        PROVE  call.page.ledger <= latest'
    <3>1. call.page.ledger <= latest
      BY <2>1 DEF GotIsInterval
    <3>2. call.page.ledger \in Nat /\ latest \in Nat
      BY LogFacts, PlaceFacts
    <3>3. QED
      BY <3>1, <3>2
  <2>2. ASSUME call.phase # "idle", call.seam > 0
        PROVE  hasIndexer /\ call.next = FirstNeeded /\ call.next < oldest'
    <3>1. hasIndexer /\ call.next = FirstNeeded /\ call.next < oldest
      BY <2>2 DEF GotIsInterval
    <3>2. oldest \in Nat /\ call.next \in Nat
      BY LogFacts, PlaceFacts
    <3>3. call.next < oldest'
      BY <3>1, <3>2
    <3>4. QED
      BY <3>1, <3>3
  <2>3. QED
    BY <2>1, <2>2
<1>3. call.phase = "backfilling" => call.next < call.seam /\ call.seam - 1 <= indexed'
  BY LogFacts, PlaceFacts DEF GotIsInterval
<1>4. call.phase \in {"paging", "done"} =>
        \E a \in 0 .. PageStart.pos : call.got = Numbers(a, PageStart.pos) /\ FirstGot(a)
  BY DEF GotIsInterval
<1>5. call.phase \in {"paging", "done"} =>
        \E a \in 0 .. PageStart'.pos : call'.got = Numbers(a, PageStart'.pos) /\ FirstGot(a)'
  BY <1>1, <1>4
<1>6. QED
  BY <1>1, <1>2, <1>3, <1>5 DEF GotIsInterval, Numbers

LEMMA IdleInterval ==
  ASSUME call'.phase = "idle"
  PROVE  GotIsInterval'
BY DEF GotIsInterval

LEMMA PlanInterval ==
  ASSUME SourceInv, IndexerComplete, PlanFetch
  PROVE  GotIsInterval'
<1>1. PICK floor \in {0, oldest} : call' = PlanFrom(floor)
  BY DEF PlanFetch
<1>2. UNCHANGED <<hasIndexer, log, latest, oldest, indexed, cursor, delivered>>
  BY ChainStays DEF PlanFetch, readerVars
<1>3. UNCHANGED FirstNeeded /\ \A l : UNCHANGED EventsUpTo(l)
  BY <1>2 DEF FirstNeeded, EventsUpTo
<1>4. call'.got = <<>> /\ call'.next = FirstNeeded
  BY <1>1, PlanFacts
<1>5. CASE call'.phase = "backfilling"
  <2>1. /\ hasIndexer /\ floor > 0 /\ call'.seam = floor + Margin
        /\ call'.page.ledger = call'.seam - 1 /\ FirstNeeded < floor
    BY <1>1, <1>5, PlanFacts
  <2>2. floor = oldest /\ floor # 1
    <3>1. FirstNeeded \in Nat \ {0}
      BY PlaceFacts
    <3>2. floor # 0
      BY <2>1
    <3>3. floor = oldest
      BY <3>2
    <3>4. QED
      BY <2>1, <3>1, <3>3, LogFacts
  <2>3. floor + Margin - 1 <= indexed /\ indexed <= latest
    BY <2>1, <2>2 DEF IndexerComplete, SourceInv, WindowMoves
  <2>4. call'.next < call'.seam /\ call'.seam - 1 <= indexed /\ call'.page.ledger <= latest
    BY <1>4, <2>1, <2>2, <2>3, LogFacts, PlaceFacts
  <2>5. QED
    BY <1>2, <1>3, <1>4, <1>5, <2>1, <2>2, <2>4 DEF GotIsInterval
<1>6. CASE call'.phase = "paging" /\ ~call'.byLedger
  <2>1. call'.seam = 0 /\ call'.page = cursor /\ cursor # NoCursor
    BY <1>1, <1>6, PlanFacts
  <2>2. PageStart' = cursor
    BY <1>6, <2>1 DEF PageStart
  <2>3. cursor.pos \in Nat /\ cursor.ledger <= latest
    BY LogFacts, PlaceFacts
  <2>4. PICK n \in Nat : n = cursor.pos
    BY <2>3
  <2>5. call'.got = Numbers(n, n) /\ n \in 0 .. n
    BY <1>4, NumbersFacts
  <2>6. FirstGot(n)'
    BY <1>2, <2>1, <2>4 DEF FirstGot
  <2>7. \E a \in 0 .. PageStart'.pos : call'.got = Numbers(a, PageStart'.pos) /\ FirstGot(a)'
    BY <2>2, <2>4, <2>5, <2>6
  <2>8. QED
    BY <1>2, <1>6, <2>1, <2>3, <2>7 DEF GotIsInterval, Numbers
<1>7. CASE call'.phase = "paging" /\ call'.byLedger
  <2>1. /\ call'.seam = 0 /\ cursor = NoCursor /\ call'.page.ledger <= latest
        /\ hasIndexer => call'.page.ledger <= FromLedger
    BY <1>1, <1>7, PlanFacts
  <2> PICK l : l = call'.page.ledger
    OBVIOUS
  <2> PICK n : n = EventsUpTo(l)
    OBVIOUS
  <2>2. l \in Nat
    BY <1>1, PlanFacts DEF Call, Cursor
  <2>3. n \in Nat /\ (hasIndexer => n = 0)
    <3>1. EventsUpTo(l) \in 0 .. Len(log)
      BY <2>2, UpToFacts
    <3>2. hasIndexer => EventsUpTo(l) = 0
      BY <2>1, <2>2, NoneBeforeDeployment
    <3>3. QED
      BY <3>1, <3>2
  <2>4. PageStart'.pos = n
    BY <1>2, <1>7 DEF PageStart, EndOfLedger, EventsUpTo
  <2>5. call'.got = Numbers(n, n) /\ n \in 0 .. n
    BY <1>4, <2>3, NumbersFacts
  <2>6. FirstGot(n)'
    BY <1>2, <2>1, <2>3 DEF FirstGot
  <2>7. \E a \in 0 .. PageStart'.pos : call'.got = Numbers(a, PageStart'.pos) /\ FirstGot(a)'
    BY <2>4, <2>5, <2>6
  <2>8. QED
    BY <1>2, <1>7, <2>1, <2>7 DEF GotIsInterval, Numbers
<1>8. call'.phase \in {"backfilling", "paging"}
  BY <1>1, PlanFacts
<1>9. QED
  BY <1>5, <1>6, <1>7, <1>8

LEMMA BackfillInterval ==
  ASSUME SourceInv, GotIsInterval, Backfill
  PROVE  GotIsInterval'
<1>1. /\ call.phase = "backfilling" /\ call.byLedger /\ call.page.ledger = call.seam - 1
      /\ call.page.ledger <= latest /\ call.next < call.seam /\ call.seam - 1 <= indexed
      /\ call.seam > 0 => hasIndexer /\ call.next = FirstNeeded /\ call.next < oldest
      /\ call.next \in Nat /\ call.seam \in Nat
  BY PlaceFacts DEF SourceInv, GotBeforePage, GotIsInterval, Backfill
<1>2. UNCHANGED <<hasIndexer, log, latest, oldest, indexed, cursor, delivered>>
  BY ChainStays DEF Backfill, readerVars
<1>3. UNCHANGED FirstNeeded /\ \A l : UNCHANGED EventsUpTo(l)
  BY <1>2 DEF FirstNeeded, EventsUpTo
<1>4. PICK g : g = Numbers(EventsUpTo(call.next - 1), EventsUpTo(Least(call.seam - 1, indexed)))
  OBVIOUS
<1>5. call \in Call /\ call' = [call EXCEPT !.phase = "paging", !.got = g]
  BY <1>4 DEF Backfill, SourceInv, TypeOK
<1>6. /\ call'.got = g /\ call'.page = call.page /\ call'.phase = "paging"
      /\ call'.next = call.next /\ call'.seam = call.seam /\ call'.byLedger
  BY <1>1, <1>5 DEF Call
<1>7. PICK m, n : m = EventsUpTo(call.next - 1) /\ n = EventsUpTo(call.seam - 1)
  OBVIOUS
<1>8. Least(call.seam - 1, indexed) = call.seam - 1
  <2>1. call.seam - 1 \in Int /\ indexed \in Int /\ call.seam - 1 <= indexed
    BY <1>1, LogFacts
  <2>2. QED
    BY <2>1 DEF Least
<1>9. g = Numbers(m, n)
  BY <1>4, <1>7, <1>8
<1>10. m \in Nat /\ n \in Nat /\ m <= n
  <2>1. call.next - 1 \in Int /\ call.seam - 1 \in Int /\ call.next - 1 <= call.seam - 1
    BY <1>1
  <2>2. EventsUpTo(call.next - 1) <= EventsUpTo(call.seam - 1)
    BY <2>1, UpToMonotone
  <2>3. EventsUpTo(call.next - 1) \in 0 .. Len(log) /\ EventsUpTo(call.seam - 1) \in 0 .. Len(log)
    BY <2>1, UpToFacts
  <2>4. QED
    BY <1>7, <2>2, <2>3
<1>11. PageStart'.pos = n
  BY <1>1, <1>3, <1>6, <1>7 DEF PageStart, EndOfLedger
<1>12. FirstGot(m)'
  BY <1>1, <1>3, <1>6, <1>7 DEF FirstGot
<1>13. \E a \in 0 .. PageStart'.pos : call'.got = Numbers(a, PageStart'.pos) /\ FirstGot(a)'
  BY <1>6, <1>9, <1>10, <1>11, <1>12
<1>14. QED
  BY <1>1, <1>2, <1>3, <1>6, <1>13 DEF GotIsInterval, Numbers

LEMMA GetPageInterval ==
  ASSUME SourceInv, GotIsInterval, GetPage
  PROVE  GotIsInterval'
<1>1. PICK to, p : to = PageEnd(PageStart) /\ p = PageStart.pos
  OBVIOUS
<1>2. /\ call.phase = "paging" /\ Stands(to) /\ p \in Nat /\ to.pos \in Nat /\ p <= to.pos
      /\ call'.page = to /\ ~call'.byLedger /\ call'.got = call.got \o Numbers(p, to.pos)
      /\ call'.next = call.next /\ call'.seam = call.seam /\ call'.phase \in {"paging", "done"}
      /\ UNCHANGED <<hasIndexer, log, latest, oldest, indexed, cursor, delivered>>
  BY <1>1, GetPageFacts
<1>3. UNCHANGED FirstNeeded /\ \A l : UNCHANGED EventsUpTo(l)
  BY <1>2 DEF FirstNeeded, EventsUpTo
<1>4. PICK a \in 0 .. p : call.got = Numbers(a, p) /\ FirstGot(a)
  BY <1>1, <1>2 DEF GotIsInterval
<1>5. call'.got = Numbers(a, to.pos) /\ a \in 0 .. to.pos
  <2>1. PICK n \in Nat : n = to.pos
    BY <1>2
  <2>2. a \in Nat /\ a <= p /\ p <= n /\ p \in Nat
    BY <1>2, <2>1
  <2>3. Numbers(a, p) \o Numbers(p, n) = Numbers(a, n)
    BY <2>2, NumbersFacts
  <2>4. QED
    BY <1>2, <1>4, <2>1, <2>2, <2>3
<1>6. PageStart'.pos = to.pos
  BY <1>2 DEF PageStart
<1>7. FirstGot(a)'
  BY <1>2, <1>3, <1>4 DEF FirstGot
<1>8. \E b \in 0 .. PageStart'.pos : call'.got = Numbers(b, PageStart'.pos) /\ FirstGot(b)'
  BY <1>5, <1>6, <1>7
<1>9. call.seam > 0 => hasIndexer /\ call.next = FirstNeeded /\ call.next < oldest
  BY <1>2 DEF GotIsInterval
<1>10. call'.page.ledger <= latest
  BY <1>2 DEF Stands
<1>11. QED
  BY <1>2, <1>3, <1>8, <1>9, <1>10 DEF GotIsInterval, Numbers

\* A new ledger leaves alone how many events the ones before it have.
LEMMA CloseLedgerCounts ==
  ASSUME SourceInv, CloseLedger, NEW l \in Int, l <= latest
  PROVE  EventsUpTo(l)' = EventsUpTo(l)
<1>1. PICK n \in Nat :
              /\ DOMAIN log' = 1 .. Len(log) + n
              /\ \A e \in DOMAIN log : e \in DOMAIN log' /\ log'[e] = log[e]
              /\ \A e \in Len(log) + 1 .. Len(log) + n : log'[e] = latest + 1
  BY CloseLedgerFacts
<1>2. DOMAIN log = 1 .. Len(log) /\ Len(log) \in Nat /\ latest \in Nat
  BY LogFacts
<1>3. \A e \in DOMAIN log' : log'[e] <= l => e \in DOMAIN log
  BY <1>1, <1>2
<1>4. {e \in DOMAIN log' : log'[e] <= l} = {e \in DOMAIN log : log[e] <= l}
  BY <1>1, <1>3
<1>5. QED
  BY <1>4 DEF EventsUpTo

LEMMA CloseLedgerInterval ==
  ASSUME SourceInv, GotIsInterval, CloseLedger
  PROVE  GotIsInterval'
<1>1. latest' = latest + 1 /\ UNCHANGED <<hasIndexer, oldest, indexed, cursor, delivered, call>>
  BY CloseLedgerFacts
<1>2. UNCHANGED FirstNeeded
  BY <1>1 DEF FirstNeeded
<1>3. call.phase # "idle" =>
        /\ call.page.ledger <= latest'
        /\ call.seam > 0 => hasIndexer /\ call.next = FirstNeeded /\ call.next < oldest
  BY <1>1, LogFacts, PlaceFacts DEF GotIsInterval
<1>4. ASSUME call.phase \in {"paging", "done"}
      PROVE  \E a \in 0 .. PageStart'.pos : call'.got = Numbers(a, PageStart'.pos) /\ FirstGot(a)'
  <2>1. PICK a \in 0 .. PageStart.pos : call.got = Numbers(a, PageStart.pos) /\ FirstGot(a)
    BY <1>4 DEF GotIsInterval
  <2>2. call.page.ledger \in Int /\ call.page.ledger <= latest
    BY <1>4, PlaceFacts DEF GotIsInterval
  <2>3. EventsUpTo(call.page.ledger)' = EventsUpTo(call.page.ledger)
    <3>1. PICK l : l = call.page.ledger
      OBVIOUS
    <3>2. EventsUpTo(l)' = EventsUpTo(l)
      BY <2>2, <3>1, CloseLedgerCounts
    <3>3. QED
      BY <1>1, <3>1, <3>2 DEF EventsUpTo
  <2>4. PageStart'.pos = PageStart.pos
    BY <1>1, <2>3 DEF PageStart, EndOfLedger
  <2>5. FirstGot(a)'
    <3>1. CASE call.seam > 0
      <4>1. call.next - 1 \in Int /\ call.next - 1 <= latest
        BY <1>4, <3>1, PlaceFacts DEF GotIsInterval
      <4>2. PICK l : l = call.next - 1
        OBVIOUS
      <4>3. EventsUpTo(l)' = EventsUpTo(l)
        BY <4>1, <4>2, CloseLedgerCounts
      <4>4. EventsUpTo(call.next - 1)' = EventsUpTo(call.next - 1)
        BY <1>1, <4>2, <4>3 DEF EventsUpTo
      <4>5. QED
        BY <1>1, <2>1, <3>1, <4>4 DEF FirstGot
    <3>2. CASE ~(call.seam > 0)
      BY <1>1, <2>1, <3>2 DEF FirstGot
    <3>3. QED
      BY <3>1, <3>2
  <2>6. QED
    BY <1>1, <2>1, <2>4, <2>5
<1>5. QED
  BY <1>1, <1>2, <1>3, <1>4 DEF GotIsInterval, Numbers

LEMMA IntervalStep ==
  ASSUME SourceInv, IndexerComplete, GotIsInterval, [Next]_vars
  PROVE  GotIsInterval'
<1>1. CASE PlanFetch
  BY <1>1, PlanInterval
<1>2. CASE Backfill
  BY <1>2, BackfillInterval
<1>3. CASE GetPage
  BY <1>3, GetPageInterval
<1>4. CASE Persist \/ RejectPage \/ FailFetch \/ StartOver
  <2>1. call'.phase = "idle"
    BY <1>4, NoCallFacts DEF Persist, RejectPage, FailFetch, StartOver
  <2>2. QED
    BY <2>1, IdleInterval
<1>5. CASE CloseLedger
  BY <1>5, CloseLedgerInterval
<1>6. CASE AgeOut \/ Index \/ UNCHANGED vars
  <2>1. /\ UNCHANGED <<hasIndexer, log, latest, cursor, call>>
        /\ indexed' \in Nat /\ indexed <= indexed' /\ oldest' \in Nat /\ oldest <= oldest'
    BY <1>6, LogFacts DEF AgeOut, Index, vars, chainVars, readerVars
  <2>2. QED
    BY <2>1, LogFacts, IntervalStays
<1>7. QED
  BY <1>1, <1>2, <1>3, <1>4, <1>5, <1>6 DEF Next, Fetch

LEMMA IndexerStays ==
  ASSUME [Next]_vars
  PROVE  UNCHANGED hasIndexer
BY DEF Next, Fetch, PlanFetch, Backfill, GetPage, TakePage, Persist, RejectPage, FailFetch,
       StartOver, CloseLedger, AgeOut, Index, vars, chainVars

\* The seam (event-source.ts:45-46): if no ledger leaves the RPC node before
\* the indexer has it, a fetch leaves no event behind.
THEOREM SeamIsTight == Spec /\ IndexerComplete => []SeamLosesNothing
<1>1. Init => SourceInv /\ GotIsInterval
  BY InitSource, NoCallFacts DEF Init, GotIsInterval
<1>2. SourceInv /\ IndexerComplete /\ GotIsInterval /\ [Next]_vars
        => IndexerComplete' /\ GotIsInterval'
  BY IntervalStep, IndexerStays DEF IndexerComplete
<1>3. SourceInv /\ GotIsInterval => SeamLosesNothing
  <2> SUFFICES ASSUME SourceInv, GotIsInterval, call.phase = "done", call.seam > 0,
                      NEW e \in DOMAIN log, log[e] \in call.next .. call.page.ledger,
                      ~(e > call.page.pos)
               PROVE  e \in ToSet(call.got)
    BY DEF SeamLosesNothing
  <2>1. PageStart = call.page /\ call.page.pos \in Nat
    BY DEF SourceInv, GotBeforePage, PageStart, TypeOK, Call, Cursor
  <2>2. PICK a \in 0 .. call.page.pos : call.got = Numbers(a, call.page.pos) /\ FirstGot(a)
    BY <2>1 DEF GotIsInterval
  <2>3. a = EventsUpTo(call.next - 1) /\ call.next - 1 \in Int
    BY <2>2, PlaceFacts DEF FirstGot
  <2>4. ~(log[e] <= call.next - 1)
    BY LogFacts, PlaceFacts
  <2>5. ~(e <= a)
    BY <2>3, <2>4, UpToFacts
  <2>6. e \in Nat
    BY LogFacts
  <2>7. e - a \in 1 .. call.page.pos - a
    BY <2>1, <2>2, <2>5, <2>6
  <2>8. /\ \A i \in 1 .. call.page.pos - a : call.got[i] = a + i
        /\ DOMAIN call.got = 1 .. call.page.pos - a
    BY <2>1, <2>2, NumbersFacts DEF Numbers
  <2>9. e - a \in DOMAIN call.got /\ call.got[e - a] = e
    BY <2>2, <2>6, <2>7, <2>8
  <2>10. QED
    BY <2>9 DEF ToSet
<1>4. QED
  BY <1>1, <1>2, <1>3, SourceInvariance, PTL DEF Spec

-----------------------------------------------------------------------------
(* The feed: what has been applied reaches up to the cursor. *)

LEMMA FeedShape ==
  ASSUME SourceInv, FeedToCursor
  PROVE  FeedIsContiguous /\ CursorMatchesFeed
<1> SUFFICES ASSUME ~stranded PROVE FeedIsContiguous /\ CursorMatchesFeed
  BY DEF FeedIsContiguous, CursorMatchesFeed
<1>1. PICK n \in Nat : n = cursor.pos
  BY PlaceFacts, LogFacts
<1>2. PICK m \in 0 .. n : delivered = Numbers(m, n)
  BY <1>1 DEF FeedToCursor
<1>3. /\ Len(delivered) = n - m /\ n - m \in Nat
      /\ \A i \in 1 .. n - m : delivered[i] = m + i
  <2>1. m \in Nat /\ m <= n /\ n - m \in Nat
    BY <1>2
  <2>2. QED
    BY <1>2, <2>1, NumbersFacts
<1>4. FeedIsContiguous
  BY <1>3 DEF FeedIsContiguous
<1>5. ASSUME delivered # <<>>
      PROVE  cursor # NoCursor /\ cursor.pos = delivered[Len(delivered)]
  <2>1. m # n
    BY <1>2, <1>5, NumbersFacts
  <2>2. cursor # NoCursor
    BY <1>1, <1>2, <2>1, NoCallFacts
  <2>3. n - m \in 1 .. n - m /\ m + (n - m) = n
    BY <1>2, <2>1
  <2>4. QED
    BY <1>1, <1>3, <2>2, <2>3
<1>6. QED
  BY <1>4, <1>5 DEF CursorMatchesFeed

LEMMA EmptyNumbers == \A n \in Nat : Numbers(n, n) = <<>>
<1> TAKE n \in Nat
<1>1. n <= n
  OBVIOUS
<1>2. QED
  BY <1>1, NumbersFacts

\* Where the seam is, the ledger of the cursor has left the window: a reader that
\* is not stranded has had all of it.
LEMMA SeamAfterWholeLedger ==
  ASSUME SourceInv, GotIsInterval, GoneIsStranded, ~stranded,
         call.phase # "idle", call.seam > 0, cursor # NoCursor
  PROVE  cursor.pos = EventsUpTo(call.next - 1)
<1>1. hasIndexer /\ call.next = FirstNeeded /\ call.next < oldest
  BY DEF GotIsInterval
<1>2. call.next - 1 = cursor.ledger /\ cursor.ledger < oldest
  BY <1>1, PlaceFacts, LogFacts DEF FirstNeeded
<1>3. ~Inside(cursor)
  BY <1>1, <1>2 DEF GoneIsStranded, Strands
<1>4. QED
  BY <1>2, <1>3 DEF Inside

\* A save that does not strand the reader appends the events from the old cursor
\* to the new one.
Appends(m, k, n) ==
  /\ m <= k /\ k <= n
  /\ hasIndexer => m = 0
  /\ delivered = Numbers(m, k) /\ delivered' = Numbers(m, n)
  /\ cursor'.pos = n

LEMMA PersistFeed ==
  ASSUME SourceInv, GotIsInterval, GoneIsStranded, FeedToCursor, Persist, ~stranded'
  PROVE  /\ ~stranded /\ UNCHANGED <<hasIndexer, log>>
         /\ \E m, k, n \in 0 .. Len(log) : Appends(m, k, n)
<1>1. /\ call.phase = "done" /\ ~call.byLedger /\ Stands(call.page)
      /\ delivered' = delivered \o call.got /\ cursor' = call.page
      /\ UNCHANGED <<hasIndexer, log, latest, oldest, indexed>>
  BY PersistFacts
<1>2. ~stranded
  BY DEF Persist, SourceInv, TypeOK
<1>3. PageStart = call.page
  BY <1>1 DEF PageStart
<1>4. PICK c \in 0 .. Len(log), p \in 0 .. Len(log) : c = cursor.pos /\ p = call.page.pos
  BY <1>3, PlaceFacts, LogFacts
<1>5. PICK m \in 0 .. c : delivered = Numbers(m, c) /\ (hasIndexer => m = 0)
  BY <1>2, <1>4 DEF FeedToCursor
<1>6. PICK a \in 0 .. p : call.got = Numbers(a, p) /\ FirstGot(a)
  BY <1>1, <1>3, <1>4 DEF GotIsInterval
<1>7. Len(log) \in Nat /\ c \in Nat /\ p \in Nat /\ m \in Nat /\ a \in Nat
  BY <1>4, <1>5, <1>6, LogFacts
<1>8. CASE cursor # NoCursor
  <2>1. a = c
    <3>1. CASE call.seam > 0
      <4>1. a = EventsUpTo(call.next - 1)
        BY <1>6, <3>1 DEF FirstGot
      <4>2. QED
        BY <1>1, <1>2, <1>4, <1>8, <3>1, <4>1, SeamAfterWholeLedger
    <3>2. CASE ~(call.seam > 0)
      BY <1>4, <1>6, <1>8, <3>2 DEF FirstGot
    <3>3. QED
      BY <3>1, <3>2
  <2>2. delivered' = Numbers(m, p)
    <3>1. m <= a /\ a <= p
      BY <1>5, <1>6, <1>7, <2>1
    <3>2. Numbers(m, a) \o Numbers(a, p) = Numbers(m, p)
      BY <1>7, <3>1, NumbersFacts
    <3>3. QED
      BY <1>1, <1>5, <1>6, <2>1, <3>2
  <2>3. m <= c /\ c <= p /\ m \in 0 .. Len(log)
    BY <1>4, <1>5, <1>6, <1>7, <2>1
  <2>4. Appends(m, c, p)
    BY <1>1, <1>4, <1>5, <2>2, <2>3 DEF Appends
  <2>5. QED
    BY <1>1, <1>2, <1>4, <2>3, <2>4
<1>9. CASE cursor = NoCursor
  <2>1. c = 0 /\ delivered = <<>>
    <3>1. c = 0
      BY <1>4, <1>9, NoCallFacts
    <3>2. delivered = Numbers(0, 0)
      BY <1>5, <3>1
    <3>3. QED
      BY <3>1, <3>2, EmptyNumbers
  <2>2. delivered = Numbers(a, a) /\ delivered' = Numbers(a, p)
    <3>1. call.got \in Seq(DOMAIN log)
      BY DEF SourceInv, GotBeforePage
    <3>2. <<>> \o call.got = call.got
      BY <3>1
    <3>3. QED
      BY <1>1, <1>6, <1>7, <2>1, <3>2, EmptyNumbers
  <2>3. hasIndexer => a = 0
    <3>1. CASE call.seam > 0
      <4>1. a = EventsUpTo(call.next - 1) /\ call.next = FirstNeeded
        BY <1>1, <1>6, <3>1 DEF FirstGot, GotIsInterval
      <4>2. call.next - 1 = FromLedger - 1 /\ FromLedger - 1 \in Int /\ FromLedger - 1 <= FromLedger
        BY <1>9, <4>1, LogFacts DEF FirstNeeded
      <4>3. QED
        BY <4>1, <4>2, NoneBeforeDeployment
    <3>2. CASE ~(call.seam > 0)
      BY <1>6, <1>9, <3>2 DEF FirstGot
    <3>3. QED
      BY <3>1, <3>2
  <2>4. a <= a /\ a <= p /\ a \in 0 .. Len(log)
    BY <1>4, <1>6, <1>7
  <2>5. Appends(a, a, p)
    BY <1>1, <1>4, <2>2, <2>3, <2>4 DEF Appends
  <2>6. QED
    BY <1>1, <1>2, <1>4, <2>4, <2>5
<1>10. QED
  BY <1>8, <1>9

LEMMA PersistReaches ==
  ASSUME SourceInv, GotIsInterval, GoneIsStranded, FeedToCursor, Persist
  PROVE  FeedToCursor'
<1> SUFFICES ASSUME ~stranded' PROVE FeedToCursor'
  BY DEF FeedToCursor
<1>1. UNCHANGED hasIndexer /\ \E m, k, n \in 0 .. Len(log) : Appends(m, k, n)
  BY PersistFeed
<1>2. PICK m \in 0 .. Len(log), k \in 0 .. Len(log), n \in 0 .. Len(log) : Appends(m, k, n)
  BY <1>1
<1>3. m \in 0 .. n /\ delivered' = Numbers(m, n) /\ cursor'.pos = n /\ (hasIndexer => m = 0)
  BY <1>2, LogFacts DEF Appends
<1>4. QED
  BY <1>1, <1>3 DEF FeedToCursor, Numbers

LEMMA StartOverFeed ==
  ASSUME StartOver
  PROVE  FeedToCursor' /\ UNCHANGED <<hasIndexer, log>> /\ delivered' = <<>>
<1>1. cursor' = NoCursor /\ delivered' = <<>> /\ UNCHANGED <<hasIndexer, log>>
  BY DEF StartOver, chainVars
<1>2. cursor'.pos = 0
  BY <1>1, NoCallFacts
<1>3. delivered' = Numbers(0, 0) /\ 0 \in 0 .. 0
  BY <1>1, EmptyNumbers
<1>4. QED
  BY <1>1, <1>2, <1>3 DEF FeedToCursor

\* Nothing else moves the reader, but the window may strand it.
LEMMA ReaderStays ==
  ASSUME [Next]_vars, ~Persist, ~StartOver
  PROVE  /\ UNCHANGED <<hasIndexer, cursor, delivered>>
         /\ UNCHANGED stranded \/ AgeOut
BY DEF Next, Fetch, PlanFetch, Backfill, GetPage, TakePage, RejectPage, FailFetch,
       CloseLedger, AgeOut, Index, vars, chainVars, readerVars

\* Who is stranded stays so, but for a new start.
LEMMA StrandedStays ==
  ASSUME SourceInv, AgeOut, stranded
  PROVE  stranded'
BY DEF AgeOut

LEMMA GoneStep ==
  ASSUME SourceInv, GoneIsStranded, [Next]_vars
  PROVE  GoneIsStranded'
<1>1. CASE Persist
  <2>1. UNCHANGED <<hasIndexer, log, oldest>> /\ cursor' = call.page
    BY <1>1, PersistFacts
  <2>2. stranded' = (stranded \/ Strands(call.page, oldest))
    BY <1>1 DEF Persist
  <2>3. QED
    BY <2>1, <2>2 DEF GoneIsStranded, Strands, Inside, EventsUpTo
<1>2. CASE StartOver
  <2>1. cursor' = NoCursor /\ UNCHANGED log
    BY <1>2 DEF StartOver, chainVars
  <2>2. EventsUpTo(0) = 0
    BY LogFacts, NoneBeforeDeployment
  <2>3. EventsUpTo(0)' = 0
    BY <2>1, <2>2 DEF EventsUpTo
  <2>4. ~Inside(cursor)'
    BY <2>1, <2>3, NoCallFacts DEF Inside
  <2>5. QED
    BY <2>4 DEF GoneIsStranded, Strands
<1>3. CASE CloseLedger
  <2>1. UNCHANGED <<hasIndexer, oldest, cursor, stranded>>
    BY <1>3, CloseLedgerFacts
  <2>2. PICK l \in Int : l = cursor.ledger /\ l <= latest
    BY PlaceFacts
  <2>3. EventsUpTo(l)' = EventsUpTo(l)
    BY <1>3, <2>2, CloseLedgerCounts
  <2>4. Inside(cursor)' <=> Inside(cursor)
    BY <2>1, <2>2, <2>3 DEF Inside, EventsUpTo
  <2>5. QED
    BY <2>1, <2>4 DEF GoneIsStranded, Strands
<1>4. CASE AgeOut
  <2>1. /\ UNCHANGED <<hasIndexer, log, cursor>> /\ oldest' = oldest + 1
        /\ stranded' = (stranded \/ Strands(cursor, oldest + 1))
    BY <1>4 DEF AgeOut
  <2>2. QED
    BY <2>1 DEF GoneIsStranded, Strands, Inside, EventsUpTo
<1>5. CASE ~Persist /\ ~StartOver /\ ~CloseLedger /\ ~AgeOut
  <2>1. UNCHANGED <<hasIndexer, log, oldest, cursor, stranded>>
    BY <1>5 DEF Next, Fetch, PlanFetch, Backfill, GetPage, TakePage, RejectPage, FailFetch,
                Index, vars, chainVars, readerVars
  <2>2. QED
    BY <2>1 DEF GoneIsStranded, Strands, Inside, EventsUpTo
<1>6. QED
  BY <1>1, <1>2, <1>3, <1>4, <1>5

FeedInv ==
  SourceInv /\ IndexerComplete /\ GotIsInterval /\ GoneIsStranded /\ FeedToCursor

LEMMA FeedStep ==
  ASSUME FeedInv, SourceInv', [Next]_vars
  PROVE  FeedInv'
<1>1. IndexerComplete' /\ GotIsInterval'
  BY IntervalStep, IndexerStays DEF FeedInv, IndexerComplete
<1>2. FeedToCursor'
  <2>1. CASE Persist
    BY <2>1, PersistReaches DEF FeedInv
  <2>2. CASE StartOver
    BY <2>2, StartOverFeed
  <2>3. CASE ~Persist /\ ~StartOver
    <3>1. UNCHANGED <<hasIndexer, cursor, delivered>> /\ (stranded => stranded')
      BY <2>3, ReaderStays, StrandedStays DEF FeedInv
    <3>2. QED
      BY <3>1 DEF FeedInv, FeedToCursor, Numbers
  <2>4. QED
    BY <2>1, <2>2, <2>3
<1>3. GoneIsStranded'
  BY GoneStep DEF FeedInv
<1>4. QED
  BY <1>1, <1>2, <1>3 DEF FeedInv

LEMMA InitFeed ==
  ASSUME Init, IndexerComplete
  PROVE  FeedInv
<1>1. SourceInv /\ GotIsInterval
  BY InitSource, NoCallFacts DEF Init, GotIsInterval
<1>2. delivered = Numbers(0, 0) /\ cursor.pos = 0 /\ cursor.ledger = 0
  BY NoCallFacts, EmptyNumbers DEF Init
<1>3. EventsUpTo(0) = 0
  BY <1>1, LogFacts, NoneBeforeDeployment
<1>4. GoneIsStranded
  BY <1>2, <1>3 DEF GoneIsStranded, Strands, Inside
<1>5. QED
  BY <1>1, <1>2, <1>4 DEF FeedInv, FeedToCursor

LEMMA FeedInvariance == Spec /\ IndexerComplete => []FeedInv
<1>1. Init /\ IndexerComplete => FeedInv
  BY InitFeed
<1>2. FeedInv /\ SourceInv' /\ [Next]_vars => FeedInv'
  BY FeedStep
<1>3. QED
  BY <1>1, <1>2, SourceInvariance, PTL DEF Spec

\* Whatever moves between the requests of a fetch, and whatever fails: the events
\* applied are consecutive, unless there is an indexer that does not keep up, or
\* a saved cursor inside a ledger has been overtaken by the window
\* (event-source.ts:13-19, 50-65).
THEOREM FeedHasNoGaps == Spec /\ IndexerComplete => []FeedIsContiguous
<1>1. FeedInv => FeedIsContiguous
  BY FeedShape DEF FeedInv
<1>2. QED
  BY <1>1, FeedInvariance, PTL

\* Under the same conditions the saved cursor stands at the last event applied
\* (engine.ts:128-138).
THEOREM CursorIsExact == Spec /\ IndexerComplete => []CursorMatchesFeed
<1>1. FeedInv => CursorMatchesFeed
  BY FeedShape DEF FeedInv
<1>2. QED
  BY <1>1, FeedInvariance, PTL

-----------------------------------------------------------------------------
(* The abstract feed, step by step. *)

LEMMA StretchIsNumbers == \A m, n \in Nat : Feed!Stretch(m, n) = Numbers(m, n)
BY DEF Feed!Stretch, Numbers

\* To strand the reader is to make it start over.
LEMMA StrandingStartsOver ==
  ASSUME stranded', UNCHANGED <<hasIndexer, log>>
  PROVE  Feed!Next
<1>1. Feed!StartOver
  BY DEF Feed!StartOver
<1>2. QED
  BY <1>1 DEF Feed!Next

LEMMA FeedSimulation ==
  ASSUME FeedInv, [Next]_vars
  PROVE  [Feed!Next]_(Feed!feedVars)
<1>1. CASE Persist
  <2>1. UNCHANGED <<hasIndexer, log>>
    BY <1>1, PersistFacts DEF FeedInv
  <2>2. CASE stranded'
    BY <2>1, <2>2, StrandingStartsOver
  <2>3. CASE ~stranded'
    <3>1. ~stranded /\ \E m, k, n \in 0 .. Len(log) : Appends(m, k, n)
      BY <1>1, <2>3, PersistFeed DEF FeedInv
    <3>2. PICK m \in 0 .. Len(log), k \in 0 .. Len(log), n \in 0 .. Len(log) : Appends(m, k, n)
      BY <3>1
    <3>3. m \in Nat /\ k \in Nat /\ n \in Nat
      BY LogFacts DEF FeedInv
    <3>4. delivered = Feed!Stretch(m, k) /\ delivered' = Feed!Stretch(m, n)
      BY <3>2, <3>3, StretchIsNumbers DEF Appends
    <3>5. m <= k /\ k <= n /\ (hasIndexer => m = 0)
      BY <3>2 DEF Appends
    <3>6. Feed!Consume
      BY <2>1, <2>3, <3>1, <3>4, <3>5 DEF Feed!Consume
    <3>7. QED
      BY <3>6 DEF Feed!Next
  <2>4. QED
    BY <2>2, <2>3
<1>2. CASE StartOver
  <2>1. UNCHANGED <<hasIndexer, log>> /\ delivered' = <<>>
    BY <1>2, StartOverFeed
  <2>2. Feed!StartOver
    BY <2>1 DEF Feed!StartOver
  <2>3. QED
    BY <2>2 DEF Feed!Next
<1>3. CASE CloseLedger
  <2>1. UNCHANGED <<hasIndexer, delivered, stranded>>
    BY <1>3, CloseLedgerFacts DEF FeedInv
  <2>2. Len(log) \in Nat /\ \E n \in Nat : Len(log') = Len(log) + n
    BY <1>3, CloseLedgerFacts, LogFacts, SourceAssumption DEF FeedInv
  <2>3. CASE Len(log') = Len(log)
    BY <2>1, <2>3 DEF Feed!feedVars
  <2>4. CASE Len(log') > Len(log)
    <3>1. Feed!Publish
      BY <2>1, <2>4 DEF Feed!Publish
    <3>2. QED
      BY <3>1 DEF Feed!Next
  <2>5. QED
    BY <2>2, <2>3, <2>4
<1>4. CASE AgeOut
  <2>1. UNCHANGED <<hasIndexer, log, delivered>>
    BY <1>4 DEF AgeOut
  <2>2. CASE stranded'
    BY <2>1, <2>2, StrandingStartsOver
  <2>3. CASE ~stranded'
    <3>1. ~stranded
      BY <1>4, <2>3, StrandedStays DEF FeedInv
    <3>2. QED
      BY <2>1, <2>3, <3>1 DEF Feed!feedVars
  <2>4. QED
    BY <2>2, <2>3
<1>5. CASE ~Persist /\ ~StartOver /\ ~CloseLedger /\ ~AgeOut
  <2>1. UNCHANGED <<hasIndexer, log, delivered, stranded>>
    BY <1>5 DEF Next, Fetch, PlanFetch, Backfill, GetPage, TakePage, RejectPage, FailFetch,
                Index, vars, chainVars, readerVars
  <2>2. QED
    BY <2>1 DEF Feed!feedVars
<1>6. QED
  BY <1>1, <1>2, <1>3, <1>4, <1>5

\* EventSource implements EventFeed, without an indexer and with one that keeps
\* up: a reader is handed a stretch of the history that grows at its end only,
\* with an indexer from the first event on, unless it starts over or is stranded
\* (event-source.ts:1-28).
THEOREM SourceImplementsFeed == Spec /\ IndexerComplete => ImplementsFeed
<1>1. Init => Feed!Init
  <2>1. Init => hasIndexer \in BOOLEAN
    BY SourceAssumption DEF Init
  <2>2. QED
    BY <2>1 DEF Init, Feed!Init
<1>2. FeedInv /\ [Next]_vars => [Feed!Next]_(Feed!feedVars)
  BY FeedSimulation
<1>3. QED
  BY <1>1, <1>2, FeedInvariance, PTL DEF Spec, ImplementsFeed, Feed!Spec

=============================================================================
