-------------------------- MODULE ConfidentialToken --------------------------
(***************************************************************************)
(* The confidential token contract, as the client code under               *)
(* packages/sdk and packages/app uses it.  Its logic is an external Rust   *)
(* library; what is written here is what the client relies on: which calls *)
(* the contract accepts, what each one does to the account of one Owner,   *)
(* and which event it emits.                                               *)
(*                                                                         *)
(* A Pedersen commitment binds its opening, so an on-chain point is        *)
(* represented by the opening [v, r] it commits to, and "the commitments   *)
(* are equal" by "the openings are equal".  A ciphertext in an event is    *)
(* represented by its plaintext: only the holder of the keys, which is     *)
(* what the engine is given, ever looks at it.                             *)
(*                                                                         *)
(* Position i of the log is the i-th event of the contract in chain order; *)
(* each entry also records the Owner's account right after it.             *)
(***************************************************************************)
EXTENDS Integers, Sequences

CONSTANTS
  Owner,              \* the account whose client is modelled
  StartAccount,       \* its state at position 0 of the log
  Peers,              \* other accounts, registered beforehand
  PeerOps,            \* the kinds of events among Peers that are in the log
  Amounts,            \* amounts of deposits, withdrawals and transfers
  Sigma,              \* the nonces a witness builder may draw
  NoSigma,            \* the "nonce" of an event that carries none
  DeriveSpendR(_),    \* blinding of a spendable balance, from a nonce
  DeriveTxBlind(_),   \* blinding of a transferred amount, from a nonce
  GroupOrder,         \* the order p of the Grumpkin group
  MaxLog              \* bound on the number of events

ASSUME NamesAssumption ==
  /\ Owner \notin Peers
  /\ NoSigma \notin Sigma

ASSUME AmountsAssumption ==
  /\ Amounts \subseteq Nat
  /\ MaxLog \in Nat
  /\ PeerOps \subseteq {"register", "deposit", "merge", "withdraw", "transfer"}

ASSUME BlindingAssumption ==
  /\ GroupOrder \in Nat \ {0}
  /\ \A s \in Sigma : /\ DeriveSpendR(s) \in 1..(GroupOrder - 1)
                      /\ DeriveTxBlind(s) \in 1..(GroupOrder - 1)

VARIABLE log          \* the events of the contract, in chain order

-----------------------------------------------------------------------------

Party == {Owner} \cup Peers

Blinding == 0..(GroupOrder - 1)

Opening == [v : Nat, r : Blinding]

ZeroOpening == [v |-> 0, r |-> 0]

\* Adding two points adds what they commit to, blindings modulo the group order.
OpeningSum(o, c) == [v |-> o.v + c.v, r |-> (o.r + c.r) % GroupOrder]

Account == [registered : BOOLEAN, spendable : Opening, receiving : Opening]

NewAccount ==
  [registered |-> FALSE, spendable |-> ZeroOpening, receiving |-> ZeroOpening]

EventType == {"register", "deposit", "merge", "withdraw", "transfer"}

Event ==
  [type : EventType, from : Party, to : Party, amount : Nat, vNew : Nat,
   sigma : Sigma \cup {NoSigma}, after : Account]

\* The log starts at the deployment (StartAccount = NewAccount) or at a later
\* point of the account's life, up to which every client has been synced.
ASSUME StartAssumption == StartAccount \in Account

\* The Owner's account after the first i events, and now.
AccountAt(i) == IF i = 0 THEN StartAccount ELSE log[i].after

OnChain == AccountAt(Len(log))

-----------------------------------------------------------------------------
(***************************************************************************)
(* A transaction of the Owner.  A withdraw or transfer carries a proof     *)
(* whose public inputs are the commitment it spends, the one it leaves     *)
(* behind and, for a transfer, the one credited to the recipient.          *)
(***************************************************************************)
SpendKind == {"withdraw", "transfer"}

TxKind == SpendKind \cup {"register", "deposit", "merge"}

Tx == [kind : TxKind \cup {"refresh"}, to : Party, amount : Nat,
       spent : Opening, next : Opening, credit : Opening,
       sigma : Sigma \cup {NoSigma}]

Draft(kind, to, amount) ==
  [kind |-> kind, to |-> to, amount |-> amount, spent |-> ZeroOpening,
   next |-> ZeroOpening, credit |-> ZeroOpening, sigma |-> NoSigma]

\* Simulation and execution accept the same calls: the account exists (or,
\* for register, does not), and a proof verifies against the spendable
\* commitment of the account.  A node simulates on the account it knows.
AcceptsAt(acct, x) ==
  IF x.kind = "register"
    THEN ~acct.registered
    ELSE acct.registered /\ (x.kind \in SpendKind => x.spent = acct.spendable)

Accepts(x) == AcceptsAt(OnChain, x)

Credited(acct, x) ==
  IF x.to = Owner
    THEN [acct EXCEPT !.receiving = OpeningSum(@, x.credit)]
    ELSE acct

\* What an accepted call does to the Owner's account.
AfterTx(acct, x) ==
  CASE x.kind = "register" -> [acct EXCEPT !.registered = TRUE]
    [] x.kind = "deposit"  -> Credited(acct, x)
    [] x.kind = "merge"    ->
         [acct EXCEPT !.spendable = OpeningSum(acct.spendable, acct.receiving),
                      !.receiving = ZeroOpening]
    [] x.kind = "withdraw" -> [acct EXCEPT !.spendable = x.next]
    [] x.kind = "transfer" -> Credited([acct EXCEPT !.spendable = x.next], x)

Emit(type, from, to, amount, vNew, sigma, after) ==
  /\ Len(log) < MaxLog
  /\ log' = Append(log, [type |-> type, from |-> from, to |-> to,
                         amount |-> amount, vNew |-> vNew, sigma |-> sigma,
                         after |-> after])

\* The Owner's transaction x is executed.
Execute(x) ==
  Emit(x.kind, Owner, x.to, x.amount, x.next.v, x.sigma, AfterTx(OnChain, x))

-----------------------------------------------------------------------------
(* Transactions of the other accounts. *)

PeerDeposit(p, a) ==
  /\ OnChain.registered
  /\ Emit("deposit", p, Owner, a, 0, NoSigma,
          [OnChain EXCEPT !.receiving = OpeningSum(@, [v |-> a, r |-> 0])])

PeerTransfer(p, a, s) ==
  /\ OnChain.registered
  /\ Emit("transfer", p, Owner, a, 0, s,
          [OnChain EXCEPT !.receiving = OpeningSum(@, [v |-> a, r |-> DeriveTxBlind(s)])])

\* An event that does not concern the Owner: the engine must skip it.
PeerEvent(p, q, type) ==
  Emit(type, p, q, 0, 0, NoSigma, OnChain)

=============================================================================
