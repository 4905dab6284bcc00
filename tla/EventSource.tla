------------------------------ MODULE EventSource ------------------------------
(***************************************************************************)
(* packages/sdk/src/chain/event-source.ts and fetchEvents of events.ts:    *)
(* how one reader gets the events of a contract from an RPC node that      *)
(* keeps the recent ledgers only and an optional indexer that keeps them   *)
(* all but lags.                                                           *)
(*                                                                         *)
(* Events are numbered in chain order; log[e] is the ledger event e is in. *)
(* A fetch makes several requests one after the other, and the chain, the  *)
(* RPC node's retention floor and the indexer move between any two.  The   *)
(* reader applies what a fetch returns and keeps its cursor in one save    *)
(* (StateEngine.sync), or keeps neither and starts over the next time      *)
(* (fetchAllEvents, the auditor and admin pages).                          *)
(***************************************************************************)
EXTENDS EventOrder, SequencesExt

CONSTANTS
  Configurations,     \* whether an indexer may be configured, and may not
  IndexerKeepsUp,     \* no ledger below the seam leaves the RPC before it is indexed
  FromLedger,         \* deployedAtLedger, read before the contract is deployed
  PageLimit,          \* events per page (limit of getEvents)
  ScanWindow,         \* ledgers the RPC scans for one page
  Margin,             \* RPC_SEAM_MARGIN
  Retention,          \* ledgers the RPC keeps at least
  PerLedger,          \* numbers of events a ledger may have
  MaxEvents,          \* bound on the number of events
  MaxLedger           \* bound on the number of ledgers

ASSUME SourceAssumption ==
  /\ Configurations \subseteq BOOLEAN /\ IndexerKeepsUp \in BOOLEAN
  /\ FromLedger \in Nat \ {0} /\ PageLimit \in Nat \ {0} /\ ScanWindow \in Nat \ {0}
  /\ Margin \in Nat /\ Retention \in Nat /\ Margin <= Retention
  /\ PerLedger \subseteq Nat /\ MaxEvents \in Nat /\ MaxLedger \in Nat

VARIABLES
  hasIndexer,         \* an indexer is configured
  log,                \* log[e]: the ledger of event e
  latest,             \* the RPC node's latest ledger
  oldest,             \* the oldest ledger it still has
  indexed,            \* the latest ledger the indexer has
  cursor,             \* the cursor the reader has saved, or NoCursor
  delivered,          \* the events the reader has applied, in order
  stranded,           \* history, for the properties: see Strands
  call                \* the fetch in progress

chainVars  == <<hasIndexer, log, latest, oldest, indexed>>
readerVars == <<cursor, delivered, stranded>>
vars == <<chainVars, readerVars, call>>

-----------------------------------------------------------------------------
(***************************************************************************)
(* A cursor stands right after event pos, in ledger; it is at a ledger     *)
(* boundary when pos is the last event of that ledger.                     *)
(***************************************************************************)
Cursor == [ledger : Nat, pos : Nat]

NoCursor == [ledger |-> 0, pos |-> 0]

\* The events of ledgers up to l are those numbered up to this.
EventsUpTo(l) == Cardinality({e \in DOMAIN log : log[e] <= l})

EndOfLedger(l) == [ledger |-> l, pos |-> EventsUpTo(l)]

\* Events of the cursor's own ledger come after it.
Inside(c) == c.pos # EventsUpTo(c.ledger)

(***************************************************************************)
(* A page may end inside the latest ledger; fetchEvents stops there all    *)
(* the same, and its cursor is saved.  The next fetch reads the rest of    *)
(* that ledger while the RPC node has it.  Once it has left the window     *)
(* (floor is the oldest ledger there) hybridFetchEvents takes the cursor's *)
(* ledger as read and goes on with the next one at the indexer: the rest   *)
(* of it is lost.  Its comment supposes that no such cursor is saved       *)
(* "unless a single ledger emits more than pageLimit (100) token events"   *)
(* (event-source.ts:90-94); it takes a full page that ends there.          *)
(***************************************************************************)
Strands(c, floor) == hasIndexer /\ Inside(c) /\ c.ledger < floor

Numbers(m, n) == [i \in 1 .. n - m |-> m + i]

Least(a, b) == IF a < b THEN a ELSE b

\* phase; the first ledger still needed; the seam between the indexer's part
\* and the RPC's (0: no indexer part); where the next page starts, and whether
\* that is a startLedger rather than a cursor; the events so far.
Call == [phase : {"idle", "backfilling", "paging", "done"}, next : Nat, seam : Nat,
         page : Cursor, byLedger : BOOLEAN, got : Seq(Nat)]

NoCall == [phase |-> "idle", next |-> 0, seam |-> 0, page |-> NoCursor,
           byLedger |-> FALSE, got |-> <<>>]

Init ==
  /\ hasIndexer \in Configurations
  /\ log = <<>>
  /\ latest = FromLedger
  /\ oldest = 1
  /\ indexed = 0
  /\ cursor = NoCursor
  /\ delivered = <<>>
  /\ stranded = FALSE
  /\ call = NoCall

-----------------------------------------------------------------------------
(* The plan of hybridFetchEvents. *)

FirstNeeded == IF cursor = NoCursor THEN FromLedger ELSE cursor.ledger + 1

ByLedger(l) == [NoCall EXCEPT !.phase = "paging", !.next = FirstNeeded,
                              !.page = [ledger |-> l - 1, pos |-> 0], !.byLedger = TRUE]

Resume == [NoCall EXCEPT !.phase = "paging", !.next = FirstNeeded, !.page = cursor]

BackfillTo(seam) ==
  [ByLedger(seam) EXCEPT !.phase = "backfilling", !.seam = seam]

\* Mutated: a start that forgets the deployment ledger.
ColdStartAtFloor(floor) == ByLedger(floor)

\* Clamped just inside the retention floor, if it is known.
ColdStart(floor) ==
  ByLedger(IF floor > 0 /\ floor + 1 > FromLedger THEN floor + 1 ELSE FromLedger)

\* Mutated: a saved cursor is resumed from even when it is out of the window.
ResumeAlways(floor) ==
  IF cursor # NoCursor THEN Resume
  ELSE IF hasIndexer /\ floor > 0 /\ FirstNeeded < floor THEN BackfillTo(floor + Margin)
  ELSE ColdStart(floor)

PlanFrom(floor) ==
  IF hasIndexer /\ floor > 0 /\ FirstNeeded < floor THEN BackfillTo(floor + Margin)
  ELSE IF cursor # NoCursor THEN Resume
  ELSE ColdStart(floor)

\* getHealth is asked unless the answer is not needed; a failure reads as 0.
PlanFetch ==
  /\ call.phase = "idle"
  /\ \E floor \in IF hasIndexer \/ cursor = NoCursor THEN {0, oldest} ELSE {0} :
       call' = PlanFrom(floor)
  /\ UNCHANGED <<chainVars, readerVars>>

\* The indexer returns what it has of the ledgers next .. seam - 1, in chain
\* order: IndexerQuery says when that is so.
Backfill ==
  /\ call.phase = "backfilling"
  /\ call' = [call EXCEPT !.phase = "paging",
                !.got = Numbers(EventsUpTo(call.next - 1),
                                EventsUpTo(Least(call.seam - 1, indexed)))]
  /\ UNCHANGED <<chainVars, readerVars>>

-----------------------------------------------------------------------------
(* The pages of fetchEvents. *)

\* A full page ends at its last event, a shorter one where the scan ended.
PageEnd(from) ==
  LET scanned == EndOfLedger(Least(from.ledger + ScanWindow, latest))
      full    == from.pos + PageLimit
  IN  IF full <= scanned.pos THEN [ledger |-> log[full], pos |-> full] ELSE scanned

\* The node does not have the ledgers asked for.  It may or may not still
\* accept a cursor at the end of the ledger before its oldest one, but not one
\* inside that ledger.
MayReject ==
  IF call.byLedger
    THEN call.page.ledger + 1 \notin oldest .. latest
    ELSE call.page.ledger < oldest

MustReject ==
  MayReject /\ (call.byLedger \/ call.page.ledger + 1 < oldest \/ Inside(call.page))

PageStart == IF call.byLedger THEN EndOfLedger(call.page.ledger) ELSE call.page

\* A page of the events up to `to`, after which the next one starts at `resume`.
TakePage(to, resume) ==
  /\ call.phase = "paging"
  /\ ~MustReject
  /\ LET last == to.ledger >= latest \/ (to = PageStart /\ ~call.byLedger)
     IN  call' = [call EXCEPT !.page = resume, !.byLedger = FALSE,
                    !.got = @ \o Numbers(PageStart.pos, to.pos),
                    !.phase = IF last THEN "done" ELSE "paging"]
  /\ UNCHANGED <<chainVars, readerVars>>

\* Mutated: the next page starts at the ledger after the last event's.
GetPageByLedger == LET to == PageEnd(PageStart) IN TakePage(to, EndOfLedger(to.ledger))

\* Paging goes on until a page reaches the latest ledger of its response.
GetPage == LET to == PageEnd(PageStart) IN TakePage(to, to)

\* The fetch throws, nothing is saved: the request is rejected, ...
RejectPage ==
  /\ call.phase = "paging"
  /\ MayReject
  /\ call' = NoCall
  /\ UNCHANGED <<chainVars, readerVars>>

\* Mutated: a failing indexer is treated as an empty one.
DegradeOrFail ==
  /\ call.phase # "idle"
  /\ call' = IF call.phase = "backfilling" THEN [call EXCEPT !.phase = "paging"] ELSE NoCall
  /\ UNCHANGED <<chainVars, readerVars>>

\* ... or the RPC, the indexer or the reader fails at any point.
FailFetch ==
  /\ call.phase # "idle"
  /\ call' = NoCall
  /\ UNCHANGED <<chainVars, readerVars>>

-----------------------------------------------------------------------------
(* The reader's save. *)

\* Mutated: the cursor is the latest ledger the fetch has seen.
PersistAtHead ==
  /\ call.phase = "done"
  /\ delivered' = delivered \o DedupeById(call.got, log)
  /\ cursor' = EndOfLedger(latest)
  /\ stranded' = (stranded \/ Strands(EndOfLedger(latest), oldest))
  /\ call' = NoCall
  /\ UNCHANGED chainVars

Persist ==
  /\ call.phase = "done"
  /\ delivered' = delivered \o DedupeById(call.got, log)
  /\ cursor' = call.page
  /\ stranded' = (stranded \/ Strands(call.page, oldest))
  /\ call' = NoCall
  /\ UNCHANGED chainVars

\* A new device, or a reader that keeps no cursor.
StartOver ==
  /\ call.phase = "idle"
  /\ cursor # NoCursor
  /\ cursor' = NoCursor
  /\ delivered' = <<>>
  /\ stranded' = FALSE
  /\ UNCHANGED <<chainVars, call>>

-----------------------------------------------------------------------------
(* The chain, the RPC node's window, the indexer. *)

CloseLedger ==
  /\ latest < MaxLedger
  /\ latest' = latest + 1
  /\ \E n \in PerLedger :
       /\ Len(log) + n <= MaxEvents
       /\ log' = log \o [i \in 1 .. n |-> latest + 1]
  /\ UNCHANGED <<hasIndexer, oldest, indexed, readerVars, call>>

AgeOut ==
  /\ oldest + 1 + Retention <= latest
  /\ hasIndexer /\ IndexerKeepsUp => oldest + Margin <= indexed
  /\ oldest' = oldest + 1
  /\ stranded' = (stranded \/ Strands(cursor, oldest + 1))
  /\ UNCHANGED <<hasIndexer, log, latest, indexed, cursor, delivered, call>>

Index ==
  /\ hasIndexer
  /\ indexed < latest
  /\ indexed' = indexed + 1
  /\ UNCHANGED <<hasIndexer, log, latest, oldest, readerVars, call>>

-----------------------------------------------------------------------------

Fetch == PlanFetch \/ Backfill \/ GetPage \/ Persist

Next ==
  \/ Fetch \/ RejectPage \/ FailFetch \/ StartOver
  \/ CloseLedger \/ AgeOut \/ Index

Spec == Init /\ [][Next]_vars

(***************************************************************************)
(* Fairness.  The reader keeps fetching; failures (getHealth's included)    *)
(* and restarts cease; and the RPC node does not refuse for ever what it   *)
(* may accept.                                                             *)
(***************************************************************************)
Disturbed ==
  \/ StartOver
  \/ FailFetch /\ ~(call.phase = "paging" /\ MayReject)
  \/ PlanFetch /\ call' # PlanFrom(oldest)

FairSpec ==
  /\ Spec
  /\ WF_vars(PlanFetch) /\ WF_vars(Backfill) /\ WF_vars(Persist)
  /\ SF_vars(GetPage)
  /\ WF_vars(RejectPage)
  /\ <>[][~Disturbed]_vars

-----------------------------------------------------------------------------
(* Properties. *)

TypeOK ==
  /\ hasIndexer \in Configurations
  /\ log \in Seq(1 .. MaxLedger) /\ Len(log) <= MaxEvents
  /\ {latest, oldest, indexed} \subseteq Nat
  /\ cursor \in Cursor
  /\ delivered \in Seq(DOMAIN log)
  /\ stranded \in BOOLEAN
  /\ call \in Call

\* Whatever moves between two requests, the events applied so far are
\* consecutive: none is left out, repeated or out of order.  Replay is not
\* idempotent and cannot leave an event out (event-source.ts:13-19, 50-65).
\* Always without an indexer; with one, until a saved cursor inside a ledger is
\* overtaken by the RPC node's window.
FeedIsContiguous ==
  ~stranded => \A i \in 1 .. Len(delivered) - 1 : delivered[i + 1] = delivered[i] + 1

\* The saved cursor stands exactly where the reader has got to, so that a
\* resumed fetch neither repeats nor skips (engine.ts:128-138), under the same
\* condition.
CursorMatchesFeed ==
  ~stranded /\ delivered # <<>> => cursor # NoCursor /\ cursor.pos = delivered[Len(delivered)]

\* A reader sees a part of the history that only grows at its end, and with an
\* indexer one that begins at the deployment, however late it starts and however
\* long it stays away (event-source.ts:1-28); unless, with an indexer, its saved
\* cursor stood inside a ledger and it stayed away until the RPC node had lost
\* that ledger.  Then it has to start over before anything is promised again.
Feed == INSTANCE EventFeed WITH published <- Len(log),
                                complete  <- hasIndexer,
                                consumed  <- IF stranded THEN <<>> ELSE delivered

ImplementsFeed == Feed!Spec

\* With an indexer a reader that keeps fetching catches up with the chain, under
\* the same condition: a cursor inside a ledger that is gone is refused.
FeedCatchesUp ==
  <>[](hasIndexer /\ ~stranded /\ Len(log) > 0 =>
         delivered # <<>> /\ delivered[Len(delivered)] = Len(log))

\* "The indexer covers everything below this seam, so the margin loses no
\* events" (event-source.ts:45-46): a fetch with an indexer part leaves no event
\* behind that the reader still needed.
SeamLosesNothing ==
  call.phase = "done" /\ call.seam > 0 =>
    \A e \in DOMAIN log : log[e] \in call.next .. call.page.ledger
                            => e \in ToSet(call.got) \/ e > call.page.pos

=============================================================================
