-------------------------------- MODULE Wallet --------------------------------
(***************************************************************************)
(* The wallet (packages/app/lib/wallet.ts): every operation the user can   *)
(* start, run against the token contract through ChainClient.invoke and    *)
(* against the state engine.  It composes ConfidentialToken (the log) and  *)
(* StateEngine (store and sessions) and adds the transactions in flight.   *)
(*                                                                         *)
(* A page runs one operation at a time (its buttons are disabled while     *)
(* "busy"), so a session is sequential; several sessions interleave.       *)
(***************************************************************************)
EXTENDS StateEngine, FiniteSets

CONSTANTS
  NoSession,          \* stands for the session of an abandoned transaction
  MaxPool,            \* bound on the number of transactions in flight
  Crashes             \* whether a session may be cut short

ASSUME WalletAssumption ==
  /\ NoSession \notin Session
  /\ MaxPool \in Nat
  /\ Crashes \in BOOLEAN

VARIABLES
  pool,               \* transactions sent and not yet executed or expired
  outcome             \* outcome[t]: what polling will tell session t

vars == <<log, store, pc, local, head, op, pool, outcome>>

InFlight == [session : Session \cup {NoSession}, tx : Tx]

Outcome == {"none", "pending", "success", "failed"}

Init ==
  /\ log = <<>>
  /\ EngineInit
  /\ pool = {}
  /\ outcome = [t \in Session |-> "none"]

-----------------------------------------------------------------------------
(* Nonces are random: one that is in use anywhere is never drawn again. *)

UsedSigma ==
  {log[i].sigma : i \in DOMAIN log}
    \cup {e.tx.sigma : e \in pool} \cup {op[t].sigma : t \in Session}

FreshSigma == Sigma \ UsedSigma

\* Nonces are only told apart, so which of the fresh ones is drawn is fixed.
NextSigma == CHOOSE s \in FreshSigma : TRUE

-----------------------------------------------------------------------------
(* The user starts something. *)

\* refresh(), from the button or after a successful operation.
StartRefresh(t) ==
  /\ pc[t] \in {"idle", "refreshing"}
  /\ BeginSync(t, NoOp)
  /\ UNCHANGED <<pool, outcome>>

\* transfer() and withdraw() sync first; transfer() has read the recipient's
\* account by then and given up if there is none.
StartSpend(t, kind, to, a) ==
  /\ pc[t] = "idle"
  /\ kind = "withdraw" => to = Owner
  /\ kind = "transfer" /\ to = Owner => OnChain.registered
  /\ BeginSync(t, Draft(kind, to, a))
  /\ UNCHANGED <<pool, outcome>>

\* register(), deposit() and merge() do not look at the local state.
StartDirect(t, x) ==
  /\ Goto(t, "idle", "proving")
  /\ op' = [op EXCEPT ![t] = x]
  /\ UNCHANGED <<log, store, local, head, pool, outcome>>

-----------------------------------------------------------------------------
(* The witness of a withdraw or transfer, built from the synced state. *)

Witness(x, s, nonce) ==
  [x EXCEPT !.spent  = s.spendable,
            !.next   = [v |-> s.spendable.v - x.amount, r |-> DeriveSpendR(nonce)],
            !.credit = IF x.kind = "transfer"
                         THEN [v |-> x.amount, r |-> DeriveTxBlind(nonce)]
                         ELSE ZeroOpening,
            !.sigma  = nonce]

\* Mutated: the balance is not compared with the amount.
BuildAnyWitness(t) ==
  /\ FreshSigma # {}
  /\ Goto(t, "synced", "proving")
  /\ op' = [op EXCEPT ![t] = Witness(op[t], local[t], NextSigma)]
  /\ UNCHANGED <<log, store, local, head, pool, outcome>>

BuildWitness(t) ==
  /\ local[t].spendable.v >= op[t].amount
  /\ FreshSigma # {}
  /\ Goto(t, "synced", "proving")
  /\ op' = [op EXCEPT ![t] = Witness(op[t], local[t], NextSigma)]
  /\ UNCHANGED <<log, store, local, head, pool, outcome>>

InsufficientBalance(t) ==
  /\ pc[t] = "synced"
  /\ local[t].spendable.v < op[t].amount
  /\ Forget(t)
  /\ UNCHANGED <<log, store, pool, outcome>>

-----------------------------------------------------------------------------
(***************************************************************************)
(* invoke(): simulate, sign and send; the network executes or drops the    *)
(* transaction; the session polls for the outcome, or gives up.            *)
(*                                                                         *)
(* Every transaction takes the sequence number after the one the Owner's   *)
(* account has when it is built.  Those in flight at one time therefore    *)
(* carry the same number: once one of them is included, whether it         *)
(* succeeds or fails, the others never will be.  One that is refused only  *)
(* for now, or was built on a number already used, is polled for like any  *)
(* other (only the status "ERROR" is looked at): it expires at once.       *)
(***************************************************************************)
Submit(t) ==
  /\ \E acct \in Known : AcceptsAt(acct, op[t])
  /\ Cardinality(pool) < MaxPool
  /\ Goto(t, "proving", "polling")
  /\ pool' = pool \cup {[session |-> t, tx |-> op[t]]}
  /\ outcome' = [outcome EXCEPT ![t] = "pending"]
  /\ UNCHANGED <<log, store, local, head, op>>

SimulationFails(t) ==
  /\ pc[t] = "proving"
  /\ \E acct \in Known : ~AcceptsAt(acct, op[t])
  /\ Forget(t)
  /\ UNCHANGED <<log, store, pool, outcome>>

\* Transaction e is included and takes the sequence number with it: session
\* e.session, if there is still one, will see status st, any other nothing.
Settle(e, st) ==
  /\ pool' = {}
  /\ outcome' = [t \in Session |-> IF t = e.session THEN st ELSE outcome[t]]

Land(e) ==
  /\ e \in pool
  /\ Accepts(e.tx)
  /\ Execute(e.tx)
  /\ Settle(e, "success")
  /\ UNCHANGED engineVars

FailOnChain(e) ==
  /\ e \in pool
  /\ ~Accepts(e.tx)
  /\ Settle(e, "failed")
  /\ UNCHANGED <<log, engineVars>>

\* Never included, and past its time bounds: polling keeps finding nothing.
Expire(e) ==
  /\ e \in pool
  /\ pool' = pool \ {e}
  /\ UNCHANGED <<log, engineVars, outcome>>

\* A spend goes on to setSpendable, anything else to the page's refresh.
AfterConfirmation(t) ==
  /\ outcome' = [outcome EXCEPT ![t] = "none"]
  /\ IF op[t].kind \in SpendKind
       THEN Goto(t, "polling", "confirmed") /\ UNCHANGED <<local, op>>
       ELSE /\ Goto(t, "polling", "refreshing")
            /\ op' = [op EXCEPT ![t] = NoOp]
            /\ local' = [local EXCEPT ![t] = FreshState]
  /\ UNCHANGED <<log, store, head, pool>>

\* Mutated: included is taken for successful.
ConfirmIncluded(t) == outcome[t] \in {"success", "failed"} /\ AfterConfirmation(t)

Confirm(t) == outcome[t] = "success" /\ AfterConfirmation(t)

Rejected(t) ==
  /\ pc[t] = "polling"
  /\ outcome[t] = "failed"
  /\ outcome' = [outcome EXCEPT ![t] = "none"]
  /\ Forget(t)
  /\ UNCHANGED <<log, store, pool>>

\* Nobody waits for the transactions of t any more; they may still land.
Abandon(t) ==
  /\ pool' = {IF e.session = t THEN [e EXCEPT !.session = NoSession] ELSE e : e \in pool}
  /\ outcome' = [outcome EXCEPT ![t] = "none"]

ConfirmationTimesOut(t) ==
  /\ pc[t] = "polling"
  /\ outcome[t] = "pending"
  /\ Abandon(t)
  /\ Forget(t)
  /\ UNCHANGED <<log, store>>

\* The tab is closed or reloaded, or an awaited call throws.
Crash(t) ==
  /\ Crashes
  /\ pc[t] # "idle"
  /\ Abandon(t)
  /\ Forget(t)
  /\ UNCHANGED <<log, store>>

-----------------------------------------------------------------------------

EngineStep(t) ==
  /\ \/ \E n \in 0 .. Len(log) : Fetch(t, n)
     \/ ApplyEvent(t)
     \/ SaveSync(t)
     \/ PatchLoad(t)
     \/ PatchSave(t)
     \/ VerifyLoad(t)
     \/ SkipVerify(t)
     \/ ReportMatch(t)
     \/ ReportMismatch(t)
     \/ ReadFails(t)
  /\ UNCHANGED <<pool, outcome>>

Start(t) ==
  \/ StartRefresh(t)
  \/ \E kind \in SpendKind, to \in Party, a \in Amounts : StartSpend(t, kind, to, a)
  \/ StartDirect(t, Draft("register", Owner, 0))
  \/ StartDirect(t, Draft("merge", Owner, 0))
  \/ \E a \in Amounts :
       StartDirect(t, [Draft("deposit", Owner, a) EXCEPT !.credit = [v |-> a, r |-> 0]])

WalletStep(t) ==
  \/ BuildWitness(t)
  \/ InsufficientBalance(t)
  \/ Submit(t)
  \/ SimulationFails(t)
  \/ Confirm(t)
  \/ Rejected(t)

NetworkStep ==
  \E e \in pool : Land(e) \/ FailOnChain(e) \/ Expire(e)

PeerStep ==
  /\ \/ \E p \in Peers, a \in Amounts : PeerDeposit(p, a)
     \/ FreshSigma # {} /\ \E p \in Peers, a \in Amounts : PeerTransfer(p, a, NextSigma)
     \/ \E p, q \in Peers, type \in PeerOps : PeerEvent(p, q, type)
  /\ UNCHANGED <<engineVars, pool, outcome>>

Next ==
  \/ \E t \in Session :
       Start(t) \/ EngineStep(t) \/ WalletStep(t) \/ ConfirmationTimesOut(t) \/ Crash(t)
  \/ NetworkStep
  \/ PeerStep

Spec == Init /\ [][Next]_vars

(***************************************************************************)
(* Fairness.  Once an operation has begun nothing in the client holds it   *)
(* up: every await returns or throws.  The network executes or drops every *)
(* transaction, the RPC node catches up with the chain now and then, and   *)
(* the user comes back to refresh.                                         *)
(***************************************************************************)
Fairness ==
  /\ \A t \in Session :
       /\ WF_vars(EngineStep(t))
       /\ WF_vars(WalletStep(t))
       /\ WF_vars(ConfirmationTimesOut(t))
       /\ SF_vars(Fetch(t, Len(log)) /\ UNCHANGED <<pool, outcome>>)
       /\ SF_vars(StartRefresh(t))
  /\ WF_vars(NetworkStep)

FairSpec == Spec /\ Fairness

-----------------------------------------------------------------------------
(* Properties. *)

TypeOK ==
  /\ log \in Seq(Event) /\ Len(log) <= MaxLog
  /\ store \in [Profile -> AccountState]
  /\ pc \in [Session -> PC]
  /\ local \in [Session -> AccountState]
  /\ head \in [Session -> Nat]
  /\ op \in [Session -> Tx]
  /\ pool \subseteq InFlight
  /\ outcome \in [Session -> Outcome]

\* State s knows exactly what the first s.pos events say of the receiving
\* balance and the registration.
TracksCredits(s) ==
  /\ s.pos <= Len(log)
  /\ s.registered = AccountAt(s.pos).registered
  /\ s.receiving = AccountAt(s.pos).receiving

\* Whatever interleaving of tabs, crashes and lagging RPC nodes: no credit is
\* ever lost or applied twice, in any store or in any running sync.
\* (sync and setSpendable, engine.ts:124-157)
CreditsAppliedOnce ==
  /\ \A p \in Profile : TracksCredits(store[p])
  /\ \A t \in Session : TracksCredits(local[t])

StateOf(acct, n) ==
  [registered |-> acct.registered, spendable |-> acct.spendable,
   receiving |-> acct.receiving, pos |-> n]

\* The events alone carry enough: replaying one on the account before it gives
\* the account the contract left, for every operation of either party, the
\* self-transfer included (engine.ts:10-21, witness/transfer.ts:82-100).
LogIsReplayable ==
  \A i \in 1 .. Len(log) :
    Replay(StateOf(AccountAt(i - 1), i), log[i]) = StateOf(AccountAt(i), i)

OwnerSpend(i) == log[i].from = Owner /\ log[i].type \in SpendKind

\* State s holds the spendable opening of its own position, or of a later one
\* that only spends of the Owner have led to.  (More than one, if the node the
\* session syncs from lags behind the node its transactions are sent to.)
TracksSpendable(s) ==
  \E j \in s.pos .. Len(log) :
    /\ s.spendable = AccountAt(j).spendable
    /\ \A i \in s.pos + 1 .. j :
         OwnerSpend(i) \/ AccountAt(i).spendable = AccountAt(i - 1).spendable

\* A store used by one session at a time holds an opening the next proof can
\* be built from, optimistic overwrites included (engine.ts:147-157).
SpendableIsOnHistory == \A p \in Profile : TracksSpendable(store[p])

\* A proof is built only from an opening the account has had on chain at or
\* after the position the sync before it has read (wallet.ts:214-225).
WitnessIsGrounded ==
  \A t \in Session :
    pc[t] \in {"proving", "polling"} /\ op[t].kind \in SpendKind =>
      \E i \in local[t].pos .. Len(log) : op[t].spent = AccountAt(i).spendable

\* A mismatch found by comparing the store with the answer of a node at position
\* i (engine.ts:164-170) has one of four harmless explanations: the store is
\* behind the node, the node is behind the store's cursor, the node has not seen
\* the registration, or a spend has landed after both, and setSpendable has run
\* ahead to it (receiving, which it leaves alone, matches).  Between a store and
\* a node that are both up to date there is none: the state never "diverged"
\* (engine.ts:159-163).  (A read that fails is shown as a mismatch too; it
\* compares nothing, and is the action ReadFails.)
MismatchIsExplained ==
  [][\A t \in Session : \A i \in 0 .. Len(log) : ReportMismatchAt(t, i) =>
       \/ local[t].pos < i
       \/ i < local[t].pos
       \/ i < Len(log) /\ ~AccountAt(i).registered
       \/ /\ local[t].receiving = AccountAt(i).receiving
          /\ \E j \in i + 1 .. Len(log) :
               local[t].spendable = AccountAt(j).spendable]_vars

\* A sync that has reached the chain head leaves the opening of the on-chain
\* spendable commitment: "a later sync reconciles against the chain"
\* (engine.ts:147-151).
SyncReconciles ==
  [][\A t \in Session :
       SaveSync(t) /\ head[t] = Len(log) => local[t].spendable = OnChain.spendable]_vars

\* From some time on no sync is cut short.  (A crash at another point cannot be
\* told from an operation that ends there.)
SyncsComplete ==
  <>[][\A t \in Session : pc[t] \in {"fetching", "applying"} => ~Crash(t)]_vars

\* When the account falls quiet, every store ends up at the chain state: a store
\* that has run ahead of its cursor, or was left between the confirmation of a
\* spend and setSpendable, is brought back by refreshing (engine.ts:147-151).
StoresConverge ==
  SyncsComplete => <>[](\A p \in Profile : OpensOnChain(store[p]))

(***************************************************************************)
(* The invariant behind CreditsAppliedOnce: what is replayed is what the   *)
(* contract did, because every transaction that can reach the log carries  *)
(* the credit its event will announce.                                     *)
(***************************************************************************)
Signed(x) ==
  /\ x.kind \in TxKind
  /\ x.kind = "deposit" => x.credit = [v |-> x.amount, r |-> 0]
  /\ x.kind \in SpendKind =>
       x.sigma \in Sigma /\ x.next.r = DeriveSpendR(x.sigma)
  /\ x.kind = "transfer" =>
       x.credit = [v |-> x.amount, r |-> DeriveTxBlind(x.sigma)]

TxsAreSigned ==
  /\ \A e \in pool : Signed(e.tx)
  /\ \A t \in Session :
       /\ pc[t] \in {"proving", "polling", "confirmed", "patching"} => Signed(op[t])
       /\ pc[t] = "synced" => op[t].kind \in SpendKind
       /\ pc[t] \in {"fetching", "applying"} => op[t].kind \in SpendKind \cup {"refresh"}

EventsCarryNonce ==
  \A i \in 1 .. Len(log) :
    log[i].type \in SpendKind /\ Owner \in {log[i].from, log[i].to} =>
      log[i].sigma \in Sigma

CreditInv ==
  /\ TypeOK
  /\ CreditsAppliedOnce
  /\ LogIsReplayable
  /\ EventsCarryNonce
  /\ TxsAreSigned
  /\ \A t \in Session : head[t] <= Len(log)

(***************************************************************************)
(* The invariant behind SpendableIsOnHistory, for sessions that each have  *)
(* a store of their own: what a session remembers of its store is what the *)
(* store holds, and the opening a confirmed spend leaves has become part   *)
(* of the history.                                                         *)
(***************************************************************************)
StoresAreOwn ==
  \A t, u \in Session : ProfileOf[t] = ProfileOf[u] => t = u

\* No opening the account has had comes back after another: each spend leaves a
\* blinding derived from a new nonce (fresh sigma, witness/withdraw.ts:57-61).
\* What the derivations and sums of blindings guarantee only with overwhelming
\* probability is an assumption of the theorems.
SpendableNeverRecurs ==
  \A i, k, j \in 0 .. Len(log) :
    i < k /\ k < j /\ AccountAt(i).spendable = AccountAt(j).spendable
      => AccountAt(k).spendable = AccountAt(i).spendable

\* A session at c that runs x from its copy l of store s; out is its outcome.
Grounded(c, x, l, s, out) ==
  /\ TracksSpendable(l)
  /\ x.kind \in SpendKind =>
       /\ c \in {"synced", "proving", "polling", "confirmed", "patching"} => l = s
       /\ c \in {"proving", "polling"} => x.spent = l.spendable
       /\ (c = "polling" /\ out = "success") \/ c \in {"confirmed", "patching"} =>
            TracksSpendable([l EXCEPT !.spendable = x.next])
  /\ c \in {"confirmed", "patching"} => x.kind \in SpendKind
  /\ c \in {"fetching", "applying"} => s.pos <= l.pos

\* A transaction that somebody waits for is the one its session runs.
Awaited(e) ==
  e.session \in Session =>
    /\ pc[e.session] = "polling"
    /\ op[e.session] = e.tx
    /\ outcome[e.session] = "pending"

SpendInv ==
  /\ SpendableIsOnHistory
  /\ \A t \in Session :
       Grounded(pc[t], op[t], local[t], store[ProfileOf[t]], outcome[t])
  /\ \A e \in pool : Awaited(e)

\* Every store is a replica of the account in the sense of AccountReplica,
\* with the log's account states as the history.
Replica == INSTANCE AccountReplica WITH
  Origin  <- StartAccount,
  history <- [i \in 1 .. Len(log) |-> log[i].after],
  copy    <- store

ImplementsReplica == Replica!Spec

=============================================================================
