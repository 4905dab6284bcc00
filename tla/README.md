# Verification of the Stellar confidential token client

TLA+ models of the client of a confidential token on Stellar: the wallet that
spends from commitments it can open, the engine that replays contract events
into those openings, the event source that merges an RPC node that forgets with
an indexer that lags, the auditor's replay, selective disclosure, and the pages
around them: the wallet page and the console for a token of one's own. TLC checks
them on small instances; TLAPS proves their safety properties, and that the wallet and the
event source implement their abstract specifications, for every value of the constants.

## 1. The system

The contract keeps, per account, two Pedersen commitments: `spendable` and
`receiving`. Only the owner can open them. Incoming deposits and transfers are
added to `receiving`; `merge` moves `receiving` into `spendable`; `withdraw` and
`transfer` replace `spendable` by a new commitment, with a proof that refers to
the old one. The openings `(v, r)` are nowhere on chain. The client gets them by
replaying the events of the contract from the deployment on, and keeps them in
a browser store. If the local opening is wrong the funds cannot be spent.

| component | state | operations | talks to |
|---|---|---|---|
| State engine (`packages/sdk/src/state/engine.ts`) | `AccountState`: openings, registration flag, cursor | `sync`, `setSpendable`, `current`, `verifyAgainstChain`, `decryptIncoming` | store, event source, chain reads |
| Stores (`store.ts`, `browser-store.ts`, `json-store.ts`) | one entry per (contract, account) | `load`, `save` | localStorage, or one JSON file |
| Wallet (`packages/app/lib/wallet.ts`) | keys, engine, provers, the in-flight event fetch | `register`, `deposit`, `merge`, `transfer`, `withdraw`, `refresh`, event listings, disclosures | engine, chain client, prover, indexer |
| Chain client (`chain/client.ts`, `contract.ts`) | none | `invoke`: simulate, sign, send, poll; reads by simulation | RPC node |
| Event source (`chain/event-source.ts`, `events.ts`) | none; cursor and floor are passed in | `hybridFetchEvents`, `fetchEvents`, `dedupeById` | RPC node, indexer client |
| Indexer client (`chain/indexer.ts`) | none | `fetchEvents` (pages), `resolveEventRef` | indexer service |
| Indexer service (`packages/indexer/handler`) | a table of events, a watermark | `GET events` with keyset pages | the database a pipeline fills |
| Token contract (`contracts/token`, external library) | accounts, keys, supply | `register`, `deposit`, `merge`, `withdraw`, `transfer` | verifier and auditor registries |
| Compliance token and policies (`contracts/token_with_compliance`, `contracts/policies`) | frozen flags, allow and block lists | the token's, guarded; `freeze`, `set_policies`, `add`, `remove` | policies |
| Factory (`contracts/factory`) | none | deploys a token and its registries in one call | all contracts |
| Auditor (`auditor/decrypt.ts`, `app/auditor/page.tsx`) | replay of the whole history with the auditor's key | decrypt, accumulate balances | event source |
| Selective disclosure (`disclosure/*`, `app/verify/page.tsx`) | request nonces, bundles | request, prove, verify | event source, prover |
| Provers (`proving/prover.ts`, `lib/bb-loader.ts`) | one lazily made backend (a worker and its memory) each; caches of provers in the wallet and the verify page | `prove`, `verify`, `verificationKey`, `destroy` | bb.js |
| Pages (`packages/app/app/*`) | React state | load, switch deployment, run one operation | everything above |

Behaviours that are hard here:

- **Two copies of one truth.** The store changes by replay and, after a spend,
  by an optimistic overwrite (`setSpendable`) that runs ahead of the cursor.
  Load, network round trips and save are separate awaits, and two tabs of one
  browser share the store without a lock.
- **Replay is neither idempotent nor commutative.** One event dropped, repeated
  or reordered and the openings are wrong for good.
- **Two partial event sources.** The RPC node keeps about a week; the indexer
  keeps everything but lags. Both move during a fetch that makes many requests.
- **Transactions outlive the code that sent them.** Polling gives up before the
  transaction's time bounds end; a tab may close at any point.
- **Async functions outlive what they were called for.** Connect, operations, loads
  and deployments go on across a switch of the deployment and set React state when
  they end.
- **Stale reads.** Successive requests may be answered by nodes at different
  ledgers, one behind the other in either direction, and a read that fails reads
  as "not registered".
- **Resources without an owner.** A prover makes its worker after an await, and the wallet
  it belongs to may have been destroyed by then.

What makes each component correct:

- *engine*: its state is the account's state at the cursor, credits exactly, the
  spendable opening possibly that of a later spend of the owner;
- *wallet*: no proof is ever built from an opening the account has not had, and a
  mismatch between store and node always comes from where the two stand, never from
  a wrong state;
- *stores*: they end up at the chain state once the account is quiet;
- *event source*: what it hands over is a stretch of the history that only grows at its
  end, with an indexer from the first event on;
- *indexer*: a range it covers is answered in full, nothing twice, in order;
- *auditor*: the balances shown are those of the chain where everything can be
  read, and never more than those of the chain where it cannot;
- *disclosure*: what is shown as verified is true and was answered by the account
  named, to this request; an honest answer is not refused without a reason;
- *wallet page*: one operation at a time; balances and activity on display are
  those of the wallet on display; no list gives way to one that was read before it;
- *provers*: a worker is freed with what it was made for, and no call is handed one that is gone;
- *admin page, factory*: lists are what the contracts hold, an action is in the
  lists that follow it, nobody but the owner gets to act, and nothing of a new
  token's history lies before the ledger it is read from.

## 2. Modules

| module | models | role |
|---|---|---|
| `ConfidentialToken` | the contract as the client relies on it | log of events; which calls are accepted, what they do |
| `StateEngine` | `engine.ts` and the stores | extends `ConfidentialToken`; replay, `sync`, `setSpendable`, `verifyAgainstChain` |
| `Wallet` | `wallet.ts`, `client.ts` `invoke`, witness builders | extends `StateEngine`; the composed specification and its properties |
| `AccountReplica` | nothing of the code: the promise to the user | abstract specification `Wallet` implements |
| `MCWallet` | | values of the constants for TLC |
| `WalletProofs` | | theorems about `Wallet`: for sessions that share stores in any way, and then for sessions with stores of their own, the refinement among them |
| `EventOrder` | `dedupeById` | what a reader's events go through: the first of each id, by ledger, stable |
| `EventSource` | `event-source.ts`, `fetchEvents` | extends `EventOrder`; one reader, the RPC window, the indexer |
| `EventFeed` | nothing of the code: what the engine needs of a source | abstract specification `EventSource` implements |
| `IndexerQuery` | `queries.ts`, `routes/events.ts`, `IndexerClient.fetchEvents` | extends `EventOrder`; the table a pipeline fills, pages by id, one fetch |
| `AuditorReplay` (`MCAuditor`) | `auditor/page.tsx`, `decrypt.ts`, the registry contract | a token seen from the auditor; replay of a history or its tail |
| `Disclosure` (`MCDisclosure`) | `disclosure/*`, `verify/page.tsx`, both `resolveEventRef` | requests, holders, the receiver's page and its verification |
| `WalletPage` | `wallet/page.tsx`, `events-panel.tsx`, `active-deployment.tsx`, `fetchAllEvents` | connect, run and the panel as calls that go on across switches |
| `AdminConsole` (`MCAdmin`) | `admin/page.tsx`, `advanced/page.tsx`, `active-deployment.tsx`, `admin.ts`, `factory.ts`, the factory and compliance contracts | deploying a token of one's own and administering it |
| `Provers` (`MCProvers`) | `prover.ts`, `wallet.ts` `prover` and `destroy`, `verify/page.tsx` | who makes, uses and frees proving workers |
| `EventSourceProofs`, `IndexerQueryProofs`, `AuditorProofs`, `DisclosureProofs`, `WalletPageProofs`, `AdminProofs`, `ProversProofs` | | theorems about `EventSource` (the refinement of `EventFeed` among them), `IndexerQuery`, `AuditorReplay`, `Disclosure`, `WalletPage`, `AdminConsole` and `Provers` |

The modules meet at four contracts. `StateEngine` takes events from the cursor up
to some head the node has reached; `EventSource` is where that is checked, as
`ImplementsFeed`. `EventSource` takes the indexer's answer as the ordered events
of a range; `IndexerQuery` says when that is so. `AuditorReplay` takes a history
from the deployment on (with an indexer) or from anywhere (without), which is
what `EventSource` shows of a reader that keeps no cursor. `WalletPage` takes
operations and syncs as steps that succeed or throw; what they do is `Wallet`. `Provers` is one
wallet of `WalletPage`, or one verify page of `Disclosure`, from its beginning on, with the calls that
prove; it takes from `WalletPage` that the busy flag keeps operations apart.

## 3. State and actions against the code

**ConfidentialToken.** `log` holds the events of the contract with, for the model
only, the owner's account after each (`after`). A commitment is its opening
`[v, r]`, so "opens the commitment" is equality; blindings are numbers below
`GroupOrder`, derived from a nonce by two functions that are constants
(`DeriveSpendR`, `DeriveTxBlind`); what a function of this shape may do is all the
proofs assume. `AcceptsAt` is the contract's check of a call, the proof included: a
spend is accepted if and only if it was built from the spendable opening of the account,
which is the current one for a call that is executed (`Accepts`) and the one a node knows for a
call that is simulated.

**StateEngine.** `store[p]` is the entry of a browser profile; a *session* is one
page with its program counter `pc`, its copy `local` of the state, and the
operation `op` it runs. `sync` is `BeginSync` (load), `Fetch` (choose a head
between cursor and chain head: the node may lag), `ApplyEvent` one event at a
time, `SaveSync`. `setSpendable` is `PatchLoad` and `PatchSave`: two awaits, so
that another session on the profile may save in between.
`verifyAgainstChain` is `VerifyLoad` and then `ReportMatch` or `ReportMismatch`
against the account as the node that answers knows it, or `ReadFails`. Nothing in the code ties that
node to those the store was synced from, so it may be at any position of the log (`Known`), behind the
cursor or before the registration included. `SkipVerify` is a `refresh` that could not read the account. `pos`, the number of events applied, stands
for the cursor.

**Wallet.** `Start*` are the page's buttons. A spend syncs, builds its witness
(`BuildWitness`, `InsufficientBalance`), simulates and sends (`Submit`,
`SimulationFails`), polls (`Confirm`, `Rejected`, `ConfirmationTimesOut`), and goes on
to `setSpendable`, refresh and verification. `pool` holds what has been sent and
not yet executed; `Land`, `FailOnChain` and `Expire` are the network. Transactions in flight at
one time carry one sequence number, so the one that is included takes the others out of the pool
(`Settle`); their sessions poll on and give up. A transaction
whose session has given up or crashed stays in the pool. `Crash` closes the tab,
or is an awaited call that throws: both forget everything but the store.

**EventSource.** Events are numbers; `log[e]` is the ledger of event e. `call` is
one run of `hybridFetchEvents`: `PlanFetch` (getHealth and the choice of plan),
`Backfill` (the indexer's part), `GetPage` once per page, `Persist` (the reader's save
of events and cursor), or `FailFetch`/`RejectPage`, after which nothing is kept.
`CloseLedger`, `AgeOut` and `Index` move the chain, the RPC's floor and the
indexer between any two requests. Ledgers hold any number of events of `PerLedger`, so pages, and
with them saved cursors, end inside ledgers (`Inside`). The variable `stranded` is history: it turns
true when the window overtakes a saved cursor that is inside a ledger while there is an indexer (`Strands`), from
which time on the code loses the rest of that ledger (section 7, `events.ts:299`), and false when the reader starts over.

**EventFeed.** The promise: the events consumed are a stretch of the history that begins at the first event
if the feed is `complete` (there is an indexer) and grows at its end only, or starts over. `EventSource` implements
it with `consumed` empty while the reader is stranded: the promise does not extend to it.

**EventOrder.** A stable sort is written as a rank: the n-th element is the one with n - 1
others before it in a strict order. The order of `dedupeById` is by ledger and then by where an
event stands in the input; the database's `ORDER BY id` is the same operator with the order of ids.

**IndexerQuery.** A row's id is compared as text: by the decimal text of the
ledger, then by transaction hash, then by position. `CloseLedger` applies
transactions in any order (the events of one follow each other, `InSuccession`), `Ingest` stores rows of a ledger in any order, and a
fetch asks page by page.

**AuditorReplay.** Each event carries the keys its ciphertexts are for. `Load`
picks the events a load gets, `ReplayEvent` is one turn of `replay`'s loop. What
another key decrypts to is a number (`Garbage`) far above any amount: 1000 in the
run, an arbitrary field element in the code.

**Disclosure.** A proof is the statement it proves: its public inputs. A request is
known by its nonce; `minted[nu]` tells whether this receiver has the key. `check`
is the `verifyDisclosure` under way, one stage per await; bundle, request and token
are captured when the button is pressed, and the page's `request`, `stored` and
`active` go on changing. `Pasted` is what may be pasted: a bundle, or one with its
reference, circuit or ciphertext exchanged. `failed` records that a request on the
way threw, which the code reads as "no event".

**WalletPage.** A call of `connect` or `run` is a record in `calls` with its stage, the
deployment it captured and its wallet: `Opened`, `Acted`, `Synced`, `Shown`, or
`CallFails` at any await. `fetches` are the history fetches under way, each with the
callers that wait for it (`FetchAllEvents` joins a fetch if the wallet has one). What is
shown is the wallet it is of and when it was read: `asOf` counts the events the chain had by then, not those the
answer holds. A node may answer from behind, and without an indexer every load begins at the edge of the window
(`event-source.ts:127-134`; every load passes `deployedAtLedger`, `wallet.ts:291`), so events drop out of later lists when they
age out, as `wallet.ts:254-258` says. `SwitchDeployment` is the
selector and the effect that resets the page; `busy` and the calls are left as they
are, as in the code. `Remount` is a reload or a way out of the page and back.

**AdminConsole.** A token is its kind, owner and events, each event with the storage after
it; `deploys` are the calls of the wizard's `deploy`, between `BeginDeploy` (which reads the
ledger), `DeployLands` and `SaveAdvanced`. The admin page has `ownerReads` that have not been
cancelled, and `calls`: `connect`, `loadLists` and `runAction` with the deployment they captured.
A load is `Read` and `SetTokenLists`, then `Read` and `SetMembers` if there is a policy; an
action is `ActDone` followed by a load. `Rewire` is what the two effects of another active token do:
the reset, the new owner read, and a load when the last render said "admin".

**Provers.** `provers` and `backends` are the objects that were ever made; `cache[c]` is the prover
kept for circuit c. A call of a slot goes through `preparing` (the awaits of an operation before it
needs its prover), `solving`, `loading` (`#backendInstance` awaits the loader) and `proving`;
`Obtain` is the synchronous look into the cache. `Destroy` and `Clear` are the wallet's `destroy`
before and after its await, `Unmount` the verify page's clean-up, `Leave` the wallet page being left, which
runs nothing. `busy` is the page's flag; a row of the activity panel has one of its own.

## 4. Runs

| run | shows | bounds |
|---|---|---|
| `wallet_one_session` | one session from registration on, with a peer, a lagging node, timeouts, crashes, expiring transactions: types, credits exactly once, replay equals contract, the spendable opening is on the account's history, witnesses are grounded, a mismatch is explained by where store and node stand, a full sync reconciles, the store implements `AccountReplica`, and under `FairSpec` it ends up at the chain state | 4 events, 2 transactions in flight, 1 peer, amount 1 |
| `wallet_lost_merge` | *violated*: with two tabs on one store a full sync need not reconcile (finding 1) | 2 events |
| `source` | with or without an indexer: no gap after the first event, cursor and feed agree; the feed is a growing stretch, with an indexer that keeps up a growing prefix (`ImplementsFeed`), and a reader with one that goes on catches up; all of it until the reader is `stranded` | 7 ledgers, 4 events, ledgers of 0 to 3 events, pages of 2, retention 2, margin 1 |
| `source_lagging_indexer` | *violated*: an indexer behind the seam (finding 2) | 8 ledgers |
| `query_pages` | nothing twice, nothing missed, nothing out of range while numbers have one width, a transaction's events in order | ledgers 8 to 11 with the change of width at 10, 2 transactions of 2 events, pages of 2 |
| `query_two_txs` | *violated*: ledger order of two transactions (finding 3) | the same, without a change of width |
| `audit_replay` | exact where readable, never too much, heals, credits real under any keys | 5 events, 2 accounts, 2 ids of which one rotates, 2 keys |
| `disclose` | results true, answered by the party, honest bundles pass, what verifies opens, "not found" only if neither source can have it | 2 tokens, 2 accounts, 2 amounts, 2 events, 2 ledgers, 2 requests, 1 bundle |
| `wallet_page` | one operation at a time; wallet and balances disagree only under an error; the panel is the wallet's; no list is replaced by one of the same wallet that was read before it, but for recipients whose fetch fails | 2 deployments, 2 wallets, 1 event each |
| `page_switch` | *violated*: a connect that ends after a switch (finding 4) | 2 deployments, 1 wallet |
| `provers` | workers are lost in three ways only; no call is handed a destroyed one, except while `destroy` is awaited | circuits of an operation that prepares, one that does not, and a disclosure; 3 calls at a time |
| `admin_console` | lists are what storage held; only the owner acts; an action is in the lists that follow it | 2 accounts, the default token, one of one's own (allowlist) and one more (vanilla or compliance), 2 events, 2 ledgers, 2 calls of the page at a time |

Why the bounds are enough to meet the interesting cases. *Wallet:* four events are
what it takes to register, be paid, merge and spend, or to be paid between two
steps of a spend; the second transaction in flight is the one that was given up.
A store more than one spend ahead of a lagging cursor needs more events than that; like
several devices of one account, it is covered by the theorems of `WalletProofs`.
The blindings of the instance are the negatives of distinct powers of two: their sums
wrap around the group order, as half of those of the code do, and two different sums
never coincide. *Source:* retention 2 and seven ledgers let the floor pass
both a cold start and a saved cursor, twice; pages of 2 fill up and are continued.
Ledgers hold up to 3 events, so that pages end inside ledgers, at their ends, and twice in one; saved cursors
inside a ledger are resumed from, with and without an indexer, and overtaken by the window, which is when
`stranded` turns true. Without that condition in the properties TLC refutes `FeedIsContiguous` and `CursorMatchesFeed`
in this run. *Query:* 5 rows need three pages, the
third of which asks by cursor after a second that did. *Auditor:* five events are
the shortest way to be credited, merge, spend, be credited and merge again. *Disclosure:*
one bundle suffices because what may be pasted includes every part that another
bundle could contribute; accounts, tokens and amounts are only compared, so they
are interchangeable and the run uses that symmetry. Accounts of `AuditorReplay` are
interchangeable as well. *Wallet page:* two deployments, two wallets and one event each let a
call begin under one wallet and end under the next, and two fetches read before and after an event.
*Admin console:* the start has a token of one's own with an event, so that switching, redeploying and a
second token's deployment fit into three tokens; two more events are an action and one that
comes between two reads; accounts and the two slots for calls are interchangeable. *Provers:* two
calls suffice for two rows to load one backend each, and a third is an operation beside them.

Deadlock checking is off in every run: each instance stops at its bounds (no more
events, ledgers or requests), which is a stop of the instance and not of the system.

## 5. Fairness

`wallet_one_session` (`Wallet!FairSpec`): every await of a session that has begun an
operation returns or throws, so engine and wallet steps are weakly fair;
polling that finds nothing gives up (`client.ts:177-187`), the network executes or
drops what it was sent (time bounds); the node is up to date now and then while a
session fetches (strong fairness of `Fetch` up to the head); and the user comes back
to refresh (strong fairness, for an operation may be started instead). The safety
properties of the run do not depend on any of this. `StoresConverge` assumes that from some
time on no sync is cut short (`SyncsComplete`): a session that always crashes converges
to nothing. Crashes before that time, and later ones outside a sync, are allowed.

`source` (`EventSource!FairSpec`): the reader keeps fetching (wallet and
pages refetch after every action); failures and restarts cease in the end; the RPC node, which may
refuse a cursor at the edge of its window, does not do so for ever. The indexer
keeps up: `AgeOut` waits for it (`IndexerKeepsUp`), an assumption on operations
rather than on the code, which does not compare the two (finding 2).

The other runs check safety only.

## 6. What is proved

`WalletProofs` proves, for every number of sessions and profiles, every way of
sharing profiles among sessions (two tabs included), every log length, every set
of amounts and nonces and every pair of derivation functions into the blindings:

- `TypeCorrectness`: `Spec => []TypeOK`;
- `CreditsAreAppliedOnce`: `Spec => []CreditsAppliedOnce`;
- `ReplayFollowsContract`: `Spec => []LogIsReplayable`.

The assumptions are those of the modules: the group order is positive, the
derivations return blindings below it, the amounts and the bound on the log are naturals,
the account at the start is an account.

*The argument.* `CreditsAppliedOnce` says of every store and every session's copy
that its receiving opening and registration are those of the account at its
position. A save replaces a store by a copy for which this holds, whoever else has
saved meanwhile; so overwriting cannot lose a credit without moving the cursor
back too. That step is easy. The hard one is `ApplyEvent`: replaying event i on the
account before it must give the account after it, which is `LogIsReplayable`. The contract
computes the credit from the commitment in the transaction, the engine from the
nonce in the event and the owner's key, and the engine has to add openings modulo the
order of the group in which the contract adds points (`EngineAddsOpenings`); the two agree only if every transaction
that can reach the log was built by the wallet's own witness. So `CreditInv` adds
`TxsAreSigned` (transactions in the pool and in sessions about to submit carry the
credit and the blinding their nonce determines), `EventsCarryNonce` (so that the
engine can derive them again), and that no session's head is beyond the log. The lemma
`SignedTxReplays` is the heart: for each operation, what the engine does with the
event is what the contract did. `EmitGrowsLog` and `LogGrowth` keep all statements about earlier
positions when an event is appended; then there is one lemma per group of actions
(`StartKeeps`, `EngineStepKeeps`, `WalletStepKeeps`, `AbandonKeeps`, `NetworkStepKeeps`,
`PeerStepKeeps`).

`AuditorProofs` proves, for every set of accounts, auditor ids, keys and amounts and
any number of events: `ViewsAreExact` (`Spec => []ViewIsExact`), `ViewsNeverOverstate`,
`ViewsHeal` (`ExactOnceSettled`), `CreditsShownAreReal` and `AuditTypes`. Assumed are that
there is an auditor id, that amounts are naturals, and that a foreign key decrypts to a
number above any sum of amounts the log can hold.

*The argument.* `AuditInv` adds to the four properties what relates them to the contract.
`LogMovesAccounts` says of each event that the accounts it leaves behind are those before it
moved by what the event says (`Moves`), and that an account without a key has nothing, which
is why a view that starts at the deployment starts exact. Given that, one turn of `replay`
moves a view as the event moved the account, and `ViewIsExact`, `NeverOverstates` and
`CreditsAreReal` follow turn by turn. `ExactOnceSettled` does not: a checkpoint makes only the
spendable part exact. `MergedIsKnown` supplies the other: since a merge in the part replayed, the
receiving part is what the chain has, because both were zero then.

`DisclosureProofs` proves, for every chain, any number of receivers' requests and holders'
bundles: `ResultsAreTrue` (`Spec => []ResultIsTrue`), `ResultsAreAnswered`
(`AnsweredByParty`), `VerifiedOpens` (`WhatVerifiesOpens`), the action property
`HonestBundlesVerify` (`Spec => HonestBundlesPass`) and `RefusalsAreJustified`
(`Spec => NotFoundMeansGone`), and `DisclosureTypes`.

*The argument.* `DisclosureInv` adds what has to survive between button and result.
`SentIsTrue`: every bundle a holder has sent is about a transfer of the chain and proves
what the chain says of it. `CheckIsSound`: the verification under way carries a proof that
somebody sent, a request of this receiver's own, and from the resolution on the transfer the
bundle refers to. A verified proof equals the inputs rebuilt from these, hence names the account
and the amount of that transfer (`ProvedFacts`). Page switches, mints and reloads change
none of what the verification has captured; they are steps of `GrowthKeeps`. For the action
property `ShownWhenDone` is needed too: while a verification runs, no result is on display, so
a rejection on display after a step is of this step. `NotFoundMeansGone` relates two requests between which
the chain moves: `RpcMissed` keeps, while the indexer is asked, why the RPC node had no answer. It stays true
because a crowded ledger stays crowded (`CrowdStays`) and the window only moves on.

`WalletPageProofs` proves, for every set of deployments and any number of events and wallets:
`PageTypeOK` (`Spec => []TypeOK`), `OwnViewTheorem` (`OwnViewUnlessError`), `PanelTheorem`
(`PanelIsOfWallet`) and the action property `ListsTheorem` (`Spec => ListsNeverGoBack`).
Assumed is only that the bounds are naturals.

*The argument.* `PageInv` is about calls that outlive what they were started for. `OneCall`: the
buttons are disabled exactly while there is a call, a switch included, so calls never overlap;
and the call is of the wallet on display, if there is one. Hence what it shows at its end is either
of that wallet or shown to a page without one, and the next connect, which passes through a page
without a wallet, replaces it or ends in an error. `SingleFlight`: there is one fetch per wallet, and
what is on display of the wallet was read before the fetch read the chain (`ReadBefore`), so what takes its
place when the fetch settles was read later. `ReadOf`, that nothing on display is as of a time to come, is what makes this true of a
fetch that reads now. `JoinKeeps` proves it of callers that join a fetch under way; what a fetch waits
for is of the wallet on display, because a switch takes the panel out of all of them.

The second half of `WalletProofs` proves what fails when tabs share a store (finding 1), under the assumption that
they do not (`StoresAreOwn`), for any number of sessions, log lengths, amounts and transactions in
flight: `SpendableStaysOnHistory` (`SpendableIsOnHistory`), `WitnessesAreGrounded`
(`WitnessIsGrounded`), the action properties `MismatchesAreExplained` (`MismatchIsExplained`) and
`SyncAlwaysReconciles` (`SyncReconciles`), and the refinement `WalletImplementsReplica`
(`ImplementsReplica`). Each has the form `Spec /\ []SpendableNeverRecurs => ...`. The second
assumption says that no spendable opening the account has had comes back after another one. Nonces
are drawn fresh, and a commitment of a spend depends on its nonce; but that two derived blindings, or
two sums of them, never coincide is a matter of probability, true of the hash with overwhelming
probability and of an arbitrary function `DeriveSpendR` not at all. The run's blindings are chosen so that it holds.

*The argument.* `SpendInv` says of each session that what it remembers of its store is what the store
holds (nobody else writes it), that it spends the opening it remembers, and that after a
confirmed spend the store with the spend's new opening `TracksSpendable`: the opening is that of
its position or of a later one to which only spends of the owner have led. The heart is `SpendLandsAhead`:
a spend is accepted only if the opening it was built from is on chain now; since that opening has not
come back, nothing but spends lies between. A second transaction that takes the sequence number
of the first makes the difference between "sent" and "landed", which `Awaited` keeps track of.
`SyncAlwaysReconciles` follows because a copy at the end of the log has no later position to be ahead at.
For `MismatchesAreExplained` the node may be at any position. If it is the copy's own, the credits agree, and
`TracksSpendable` says that a spendable opening that differs is a later one; a node that has not seen the registration is behind
the chain because only an account known to it is compared (`ComparesRegistered`, `ReplayRegisters`). For the refinement, a save of such a copy is `Advance`, every growth of the log is `Grow`,
and everything else leaves both alone.

`AdminProofs` proves, for every set of accounts and any number of tokens, events, ledgers and calls:
`ListsAreStorage` (`ListsMatchStorage`), `OnlyTheOwnerActs` (`OnlyOwnerActs`), the action property
`ActionsAreListed` (`OwnActionIsListed`) and `AdminTypeCorrectness`. Assumed of the tokens at the start
(`StartsAssumption`) is that their storage is what their events tell, which for a log of any length is an
induction over data.

*The argument.* `AdminInv` carries through every await what the call took with it. `Faithful`: the
storage after each event is what the events up to it tell (`Listed`), which `Change` keeps because an event is
written exactly when the flag changes. `Reads`: a deployment that is saved, or captured by a call, begins at or before every
event of its token, because the wizard read the ledger before it deployed; so the
events a load reads are all there are. Hence what it replays is storage. `CallOK` says of an action that it was begun by the
owner of the token it captured, and once it has ended, that the load after it reads a log with the action in it.
`AccessOK` says that the owner on display is nobody or the owner of the active token, which survives a switch because the effect
cancels the reads of the token before and blanks the owner.

`ProversProofs` proves for any circuits and calls: `NoOtherWorkerIsLost` (`NoWorkerIsLost`),
`DestroyedStaysUncached` (`DestroyedIsUncached`) and `ProversTypeCorrectness`.

*The argument.* `ProversInv`: as long as the cache stands there is one prover a circuit (`HeapOK`), what the busy flag guards happens
once at a time (`OneAtATime`), hence a guarded circuit's prover makes one backend (`OneBackend`); so what `destroy` reaches through the
cache is every backend there is but those a row has replaced, and those made after it (`Freed`).

`EventSourceProofs` proves, for every retention period, margin, scan and page limit and any number of ledgers
and events, and any number of events in a ledger: `SourceTypes` (`Spec => []TypeOK`), `SeamIsTight` (`SeamLosesNothing`),
`FeedHasNoGaps` (`FeedIsContiguous`), `CursorIsExact` (`CursorMatchesFeed`) and `SourceImplementsFeed`
(`ImplementsFeed`). All but the first assume `IndexerComplete`: with an indexer, no ledger below the seam leaves the RPC
node before the indexer has it (finding 2). The last three say nothing of a reader that is `stranded`, as the
properties do; without an indexer nobody ever is, and they hold without any condition.

*The argument.* A cursor is a number of events and a ledger, and what a page holds is given by counting the events
up to a ledger, so the first part of the proof is about that count: in a log in chain order it is a position
(`UpToFacts`), and it moves for no ledger that is closed. `SourceInv` says that cursors stand where they say (`Stands`), and that what a
fetch has got increases and comes before the start of its next page, hence `dedupeById` leaves it as it is
(`DedupeKeepsOrder`). `GotIsInterval` is the promise of the two sources together: what a fetch has got are the
consecutive events from the first one needed up to the page, which for the indexer's part needs that `AgeOut`
waited for it. `FeedToCursor` is the same of what has been saved. A step of the feed is then
`Persist`, which appends an interval (`Appends`) that begins where the last one ended. That it does is plain for a fetch that resumes at
the cursor. A fetch with an indexer's part begins with the ledger after the cursor's, and only when that one has left the window
(`call.next < oldest`); so either the cursor was at its end, or the reader is stranded (`GoneIsStranded`,
`SeamAfterWholeLedger`). To strand a reader is `StartOver` of the abstract feed (`StrandingStartsOver`).

`IndexerQueryProofs` proves, for every page size, range, set of hashes and any number of ledgers, transactions and events:
`QueryTypes` (`TypeOK`), `NoRowTwice` (`NothingTwice`), `NoRowMissed` (`NothingMissed`), `NoRowOutOfRange`
(`NothingOutOfRange`) and `TransactionsStayInOrder` (`TransactionsInOrder`). Assumed are positive page sizes, and that an event's
place in its transaction has one digit. `LoneTransactionsKeepChainOrder` is the contrary of finding 3: where no ledger has two
transactions with events of the contract (`TxPerLedger <= 1`), a fetch is delivered in chain order (`DeliversChainOrder`).

*The argument.* Ids are totally ordered whatever the hashes are (`IdFacts`): no two events have the same ledger, transaction and
place, because a transaction's events are numbered in succession (`BlockInOrder`, which takes the first event that would break
it). `PageFacts`: a page holds the least of the rows that match, in order, and every other one comes after its last.
`FetchInv` adds this up. The rows got ascend; the cursor is the last of them; and every row of the range stored when the
fetch began is got or comes after the cursor, whatever `Ingest` has stored meanwhile. Rows that ascend are distinct, which
is `NothingTwice`; the first is not below the range, so none is as long as text order is the order of ledgers; and
the stable sort by ledger leaves two events of one transaction as they came (`ByLedgerFacts`).

Both proofs put positions in order by their rank, the number of elements before them, which for a total order is a
bijection from a finite set to its positions (`InOrderFacts` in `IndexerQueryProofs`). That is why `EventOrder` sorts by rank.

*Only model-checked:* `StoresConverge` and `FeedCatchesUp`.

*Out of the prover's reach:* these two (liveness under fairness), anything about ENABLED, and what
recursive definitions compute for every input. Where an argument is an induction on numbers it is made by a least
counterexample (`LeastNumber`, which follows from the well-founded order of finite sets).

## 7. Findings

1. **Two tabs, a lost merge** (`wallet_lost_merge`, `engine.ts:154`). `setSpendable`
   overwrites the spendable opening of whatever state it loads. If another tab on
   the same entry has already synced past this spend and a later merge, the merge
   is undone in the store, the cursor is past it, and no later sync repairs it.
   Spends then fail in simulation until the stored state is removed.
2. **An indexer behind the seam** (`source_lagging_indexer`, `event-source.ts:117`).
   The indexer's answer is taken as complete up to the seam; its `latestLedger` is
   never compared. Events it has not reached are skipped for good.
3. **Order of two transactions in a ledger** (`query_two_txs`, `queries.ts:75`). Rows
   come by id, and ids by transaction hash.
4. **A wallet of the deployment before** (`page_switch`, `wallet/page.tsx:91`). `connect`
   sets the wallet when `ConfidentialWallet.connect` returns, whichever deployment is
   active by then; the reset has come and gone.

Met while modelling, and described here without a run:

- `events.ts:299`: paging stops when a page's cursor is in the latest ledger, also if that page is full and
  ends between two of its events, and that cursor is saved; `event-source.ts:90-94` says this takes a single ledger with more events
  than a page. Three events in two ledgers and pages of two are enough. Resuming from such a cursor is right, and so is
  everything without an indexer; but a reader with one that returns after a retention period asks it from `cursorLedger + 1` on
  and skips the rest of that ledger. The properties of the run `source`, and the theorems about it, except a reader to whom
  this has happened (`stranded`) until it starts over; without the exception TLC shows the loss in `FeedIsContiguous` and `CursorMatchesFeed`.
- `event-source.ts:126`: without an indexer a saved cursor that has left the window is
  refused by every later fetch; lines 19-21 promise only that earlier history is missing.
- `indexer.ts:101`: pages after the first ask by cursor only. Where ledger numbers get a
  digit longer, text order is not numeric order and a page may hold rows from below the range.
- `events.ts:342`: `resolveEventRef` reads one page of 200 events of the ledger;
  lines 328-330 say null means there is no such event. `NotFoundMeansGone` has `Crowded` for it.
- `verify/page.tsx:118`: neither the page nor its storage records that a request has been
  answered, so a second bundle, or the same again, is accepted against it; `recipient.ts:36-38`
  leaves it to the receiver to accept one.
- `verify.ts:82-84` and `verify/page.tsx:127` say the indexer is asked first; `event-source.ts:161` asks the RPC first.

- `wallet/page.tsx:128`: a run that ends after a switch sets the balances of a wallet that is
  gone; they stay on display until the next view is set. `OwnViewUnlessError` says how far this goes.
  Recipients of a wallet that is gone may arrive late as well, and the chosen recipient survives a switch.
- `wallet.ts:285-288`: a reload after a transaction may join a fetch that began before it, and then lacks
  its event; "any later call re-fetches" holds only once that fetch has settled.
- A page that is left goes on with its calls. Coming back and connecting makes one tab two
  sessions on one store: finding 1 needs no second tab.
- `prover.ts:71-77`, `wallet.ts:420-424`, `wallet/page.tsx:104-117`: a prover created or loaded after
  `destroy` is never freed, nor is the first of two backends that two rows load at once, nor any of a wallet
  whose page is left: the clean-up runs on a switch of the deployment only. `NoWorkerIsLost` says that there is no other way.
- `engine.ts:159-170`: a mismatch is taken to mean that "the local state diverged (a missed event, an expired credit, or a
  bug)", but the account is read from whichever node answers. One behind the store's cursor gives a mismatch, and so does one that has not
  seen the registration. `MismatchIsExplained` lists every way a comparison can fail; a diverged state is not among them
  (in one tab: finding 1 is one).
- `engine.ts:166-167` with `client.ts:120`: a read of the account that fails, for whatever reason, is
  "not registered", so the page shows a mismatch though nothing was compared (`ReadFails`), or skips the verification.
- `client.ts:173`: only the status `ERROR` is looked at; a transaction the node refuses for the moment is
  polled for two minutes.
- `json-store.ts`: `JsonFileStore` is used nowhere (the scripts keep a `MemoryStore`). It rewrites the
  whole file from a copy read before.
- `admin/page.tsx:169-200`: a load of the deployment before that settles last leaves its lists under the new one
  (the lists carry their token in the model, not in the code; `active-deployment.tsx:9-12` says a switch
  rewires the whole app). `busy` is shared, so a call that ends enables the buttons while another is under way,
  and with two loads at a time lists can go back. A switch by a connected admin starts a load for the
  new token although that token's owner has not been read.
- `advanced/page.tsx:129-170`: a deployment that ends after the user has moved on switches the active deployment
  under them; one whose confirmation takes too long may land, and its address is lost.

Limits of what holds: `NothingOutOfRange` is for ledgers of one width. With rotated
keys or other auditors a withdrawal shows a number that means nothing, and spendable
may be too high after a transfer that could not be read; only `CreditsAreReal` is
claimed there.

## 8. What is not modelled, and the plan

Left out for good: encodings (XDR, JSON, hex), the curve and the hash (commitments are
their openings), the circuits' arithmetic (a proof is its statement), fees, rendering, the wallet extension, scripts.

Not modelled or only in part: `set_compliance_config` and transfers of ownership (nothing in the
app calls them), the compliance checks before operations other than a registration (the wallet's operations are
modelled on a token without them; a refusal shows as a failed simulation), `JsonFileStore` (used nowhere), the verifier registry
(written at deployment only, a thin wrapper of the library). Scripts drive the operations of `Wallet` one
after the other, with a store in memory, and add no behaviour to it.

Work was done in the order of what an error costs: the wallet and its engine, where it costs
funds; the event source and the indexer's pages, which the engine relies on; the auditor; disclosure; the pages;
the provers; and the theorems about each. What a next step would take:

1. **Composition**: a wallet page whose operations are `Wallet`'s, so that one tab with two sessions is a behaviour of
   the model rather than a remark.
2. **The auditor page's own race** of a load with a switch, which `page_switch` shows of the wallet page.
