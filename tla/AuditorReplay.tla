---------------------------- MODULE AuditorReplay ----------------------------
(***************************************************************************)
(* The auditor console (packages/app/app/auditor/page.tsx): what replaying *)
(* the events with the auditor's secret says of every account's balances.  *)
(* Amounts of transfers and the sender's balance after a withdraw or       *)
(* transfer are encrypted to the auditor keys of the two parties; the rest *)
(* is public (packages/sdk/src/auditor/decrypt.ts).                        *)
(*                                                                         *)
(* The contracts are external and modelled by values: which key an event   *)
(* is encrypted to is decided when it is executed, from the registry       *)
(* (contracts/auditor), where an id may be given a new key.  Decryption    *)
(* under another key yields a number that means nothing, far above any     *)
(* amount.                                                                 *)
(*                                                                         *)
(* A load replays the events it has fetched one by one.  With an indexer   *)
(* they start at the deployment; without one, wherever the RPC node's      *)
(* window starts.                                                          *)
(***************************************************************************)
EXTENDS Integers, Sequences

CONSTANTS
  Account,            \* accounts of the token
  AuditorId,          \* ids an account may register under
  Key,                \* auditor keys
  MyKey,              \* the key whose secret the page has
  Rotating,           \* ids whose key the registry's manager replaces
  WholeHistory,       \* whether an indexer is configured
  Amounts,            \* amounts of deposits, withdrawals and transfers
  Garbage,            \* what decryption under another key yields
  MaxLog              \* bound on the number of events

ASSUME AuditorAssumption ==
  /\ MyKey \in Key
  /\ AuditorId # {} /\ Rotating \subseteq AuditorId
  /\ WholeHistory \in BOOLEAN
  /\ Amounts \subseteq Nat /\ MaxLog \in Nat
  /\ Garbage \in Nat /\ \A a \in Amounts : MaxLog * a < Garbage

VARIABLES
  registry,           \* registry[id]: the auditor key of id
  acct,               \* acct[p]: the account of p
  log,                \* the events, in chain order
  page,               \* the events the load replays: first + 1 .. upto, pos done
  view                \* view[p]: what the replay has found out about p

chainVars == <<registry, acct, log>>
vars == <<chainVars, page, view>>

-----------------------------------------------------------------------------
(* The token and the auditor registry. *)

Balances == [registered : BOOLEAN, id : AuditorId, spendable : Nat, receiving : Nat]

EventType == {"register", "deposit", "merge", "withdraw", "transfer"}

Event == [type : EventType, from : Account, to : Account, amount : Nat, balance : Nat,
          keyS : Key, keyR : Key, after : [Account -> Balances]]

NewAccount == [registered |-> FALSE, id |-> CHOOSE i \in AuditorId : TRUE,
               spendable |-> 0, receiving |-> 0]

Fresh == [p \in Account |-> NewAccount]

\* All accounts after the first i events.
At(i) == IF i = 0 THEN Fresh ELSE log[i].after

KeyOf(p) == registry[acct[p].id]

\* The event of a call: encrypted to the keys the parties' auditors have now.
Emitted(type, from, to, amount, after) ==
  [type |-> type, from |-> from, to |-> to, amount |-> amount,
   balance |-> after[from].spendable,
   keyS |-> KeyOf(from), keyR |-> KeyOf(to), after |-> after]

Execute(type, from, to, amount, after) ==
  /\ Len(log) < MaxLog
  /\ acct' = after
  /\ log' = Append(log, Emitted(type, from, to, amount, after))
  /\ UNCHANGED <<registry, page, view>>

Register(p, id) ==
  /\ ~acct[p].registered
  /\ Execute("register", p, p, 0,
             [acct EXCEPT ![p] = [registered |-> TRUE, id |-> id,
                                  spendable |-> 0, receiving |-> 0]])

Deposit(p, q, a) ==
  /\ acct[q].registered
  /\ Execute("deposit", p, q, a, [acct EXCEPT ![q].receiving = @ + a])

Merge(p) ==
  /\ acct[p].registered
  /\ Execute("merge", p, p, 0,
             [acct EXCEPT ![p].spendable = @ + acct[p].receiving, ![p].receiving = 0])

Withdraw(p, a) ==
  /\ acct[p].registered /\ a <= acct[p].spendable
  /\ Execute("withdraw", p, p, a, [acct EXCEPT ![p].spendable = @ - a])

Transfer(p, q, a) ==
  /\ acct[p].registered /\ acct[q].registered /\ a <= acct[p].spendable
  /\ LET spent == [acct EXCEPT ![p].spendable = @ - a]
     IN  Execute("transfer", p, q, a, [spent EXCEPT ![q].receiving = @ + a])

RotateKey(id, k) ==
  /\ id \in Rotating
  /\ registry' = [registry EXCEPT ![id] = k]
  /\ UNCHANGED <<acct, log, page, view>>

-----------------------------------------------------------------------------
(* decrypt.ts *)

Decrypt(key, plaintext) == IF key = MyKey THEN plaintext ELSE Garbage

\* The two channels of a transfer carry the same amount.
ChannelsAgree(ev) == ev.keyS = MyKey /\ ev.keyR = MyKey

-----------------------------------------------------------------------------
(* replay() *)

Unseen == -1

View == [spendable : Nat \cup {Unseen}, receiving : Nat]

NoView == [p \in Account |-> [spendable |-> Unseen, receiving |-> 0]]

\* Nothing is added to a balance that is not known.
Plus(balance, a) == IF balance \in Nat THEN balance + a ELSE balance

Checkpoint(v, p, balance) == [v EXCEPT ![p].spendable = balance]

Credit(v, p, a) == [v EXCEPT ![p].receiving = @ + a]

\* Mutated: merged, and kept.
FoldAndKeep(v, p) == [v EXCEPT ![p].spendable = Plus(@, v[p].receiving)]

Fold(v, p) ==
  [v EXCEPT ![p] = [spendable |-> Plus(v[p].spendable, v[p].receiving), receiving |-> 0]]

\* Mutated: the amount is subtracted from what is known.
SeeSubtraction(v, ev) ==
  Checkpoint(v, ev.from, Plus(v[ev.from].spendable, -ev.amount))

SeeWithdraw(v, ev) == Checkpoint(v, ev.from, Decrypt(ev.keyS, ev.balance))

\* Mutated: the two channels are not compared.
SeeUnchecked(v, ev) ==
  Credit(Checkpoint(v, ev.from, Decrypt(ev.keyS, ev.balance)),
         ev.to, Decrypt(ev.keyR, ev.amount))

\* Mutated: the sender's new balance overwrites the credit of a self-transfer.
SeeSenderLast(v, ev) ==
  IF ChannelsAgree(ev)
    THEN [Credit(v, ev.to, ev.amount) EXCEPT
            ![ev.from] = [spendable |-> ev.balance, receiving |-> v[ev.from].receiving]]
    ELSE v

SeeTransfer(v, ev) ==
  IF ChannelsAgree(ev)
    THEN Credit(Checkpoint(v, ev.from, ev.balance), ev.to, ev.amount)
    ELSE v

Replay(v, ev) ==
  CASE ev.type = "register" -> Checkpoint(v, ev.from, 0)
    [] ev.type = "deposit"  -> Credit(v, ev.to, ev.amount)
    [] ev.type = "merge"    -> Fold(v, ev.from)
    [] ev.type = "withdraw" -> SeeWithdraw(v, ev)
    [] ev.type = "transfer" -> SeeTransfer(v, ev)

-----------------------------------------------------------------------------
(* load() *)

Load ==
  /\ page.pos = page.upto
  /\ \E first \in 0 .. Len(log) :
       /\ WholeHistory => first = 0
       /\ page' = [first |-> first, pos |-> first, upto |-> Len(log)]
  /\ view' = NoView
  /\ UNCHANGED chainVars

\* Mutated: one event more than was fetched.
ReplayToHead ==
  /\ page.pos < Len(log)
  /\ page' = [page EXCEPT !.pos = @ + 1]
  /\ view' = Replay(view, log[page.pos + 1])
  /\ UNCHANGED chainVars

ReplayEvent ==
  /\ page.pos < page.upto
  /\ page' = [page EXCEPT !.pos = @ + 1]
  /\ view' = Replay(view, log[page.pos + 1])
  /\ UNCHANGED chainVars

-----------------------------------------------------------------------------

Init ==
  /\ registry = [id \in AuditorId |-> MyKey]
  /\ acct = Fresh
  /\ log = <<>>
  /\ page = [first |-> 0, pos |-> 0, upto |-> 0]
  /\ view = NoView

TokenStep ==
  \/ \E p \in Account, id \in AuditorId : Register(p, id)
  \/ \E p, q \in Account, a \in Amounts : Deposit(p, q, a) \/ Transfer(p, q, a)
  \/ \E p \in Account : Merge(p)
  \/ \E p \in Account, a \in Amounts : Withdraw(p, a)

Next ==
  \/ TokenStep
  \/ \E id \in AuditorId, k \in Key : RotateKey(id, k)
  \/ Load
  \/ ReplayEvent

Spec == Init /\ [][Next]_vars

-----------------------------------------------------------------------------
(* Properties. *)

TypeOK ==
  /\ registry \in [AuditorId -> Key]
  /\ acct \in [Account -> Balances]
  /\ log \in Seq(Event) /\ Len(log) <= MaxLog
  /\ page \in [first : Nat, pos : Nat, upto : Nat]
  /\ page.first <= page.pos /\ page.pos <= page.upto /\ page.upto <= Len(log)
  /\ view \in [Account -> View]

\* What has been replayed was all encrypted to this auditor: "the single-auditor
\* setup this demo deploys" (decrypt.ts:84-86).
Readable ==
  \A i \in page.first + 1 .. page.pos : log[i].keyS = MyKey /\ log[i].keyR = MyKey

\* With one key and the whole history the auditor knows every balance, self-
\* transfers and credits before a merge included (page.tsx:8-12).
ViewIsExact ==
  page.first = 0 /\ Readable =>
    \A p \in Account :
      view[p] = IF At(page.pos)[p].registered
                  THEN [spendable |-> At(page.pos)[p].spendable,
                        receiving |-> At(page.pos)[p].receiving]
                  ELSE NoView[p]

\* From any later start the auditor may know less than there is, never more:
\* "accounts with older history may be incomplete" (page.tsx:240).
NeverOverstates ==
  Readable =>
    \A p \in Account :
      /\ view[p].receiving <= At(page.pos)[p].receiving
      /\ view[p].spendable <= At(page.pos)[p].spendable

\* p has merged, and then withdrawn or sent, since the first event replayed.
Settled(p) ==
  \E i, j \in page.first + 1 .. page.pos :
    /\ i < j
    /\ log[i].from = p /\ log[i].type = "merge"
    /\ log[j].from = p /\ log[j].type \in {"withdraw", "transfer"}

\* A truncated history heals: the first checkpoint after a merge makes the view
\* of the account exact again (page.tsx:89-146).
ExactOnceSettled ==
  \A p \in Account :
    Readable /\ Settled(p) =>
      view[p] = [spendable |-> At(page.pos)[p].spendable,
                 receiving |-> At(page.pos)[p].receiving]

\* Keys may be replaced and parties may use other keys: what the auditor shows
\* as received has been received, whatever could not be read.  (The channels
\* of a transfer are compared for this, page.tsx:132-135.)
CreditsAreReal ==
  \A p \in Account : view[p].receiving <= At(page.pos)[p].receiving

(***************************************************************************)
(* The invariant behind the properties: the log says of each account how   *)
(* it has moved, and the replay is where its properties put it.            *)
(***************************************************************************)

\* ev moves the accounts from those of before to those it carries.
Moves(before, ev) ==
  LET now == ev.after
  IN  /\ ev.balance = now[ev.from].spendable
      /\ ev.type = "register" => ~before[ev.from].registered
      /\ ev.type \in {"deposit", "transfer"} => before[ev.to].registered
      /\ ev.type \in {"merge", "withdraw", "transfer"} => before[ev.from].registered
      /\ \A p \in Account :
           /\ now[p].registered =
                (before[p].registered \/ (ev.type = "register" /\ p = ev.from))
           /\ now[p].spendable =
                IF ev.type = "merge" /\ p = ev.from
                  THEN before[p].spendable + before[p].receiving
                ELSE IF ev.type \in {"withdraw", "transfer"} /\ p = ev.from
                  THEN before[p].spendable - ev.amount
                ELSE before[p].spendable
           /\ now[p].receiving =
                IF ev.type = "merge" /\ p = ev.from THEN 0
                ELSE IF ev.type \in {"deposit", "transfer"} /\ p = ev.to
                  THEN before[p].receiving + ev.amount
                ELSE before[p].receiving

\* An account that is not registered has nothing.
NothingUnregistered(a) ==
  \A p \in Account : ~a[p].registered => a[p].spendable = 0 /\ a[p].receiving = 0

LogMovesAccounts ==
  /\ acct = At(Len(log))
  /\ \A i \in 1 .. Len(log) : Moves(At(i - 1), log[i])
  /\ \A i \in 0 .. Len(log) : NothingUnregistered(At(i))

\* p has merged since the first event replayed.
HasMerged(p) ==
  \E i \in page.first + 1 .. page.pos : log[i].from = p /\ log[i].type = "merge"

\* From a merge on the receiving balance is known.
MergedIsKnown ==
  \A p \in Account :
    Readable /\ HasMerged(p) => view[p].receiving = At(page.pos)[p].receiving

AuditInv ==
  /\ TypeOK
  /\ LogMovesAccounts
  /\ CreditsAreReal
  /\ ViewIsExact
  /\ NeverOverstates
  /\ MergedIsKnown
  /\ ExactOnceSettled

=============================================================================
