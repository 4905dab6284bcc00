----------------------------- MODULE WalletProofs -----------------------------
(***************************************************************************)
(* Theorems about Wallet, for every number of sessions and profiles, every *)
(* log length and every set of amounts and nonces: first what holds for    *)
(* every way of sharing profiles (credits), then what holds for sessions   *)
(* with stores of their own (the spendable opening, the refinement).       *)
(***************************************************************************)
EXTENDS Wallet, TLAPS

-----------------------------------------------------------------------------
(* Openings, accounts and the log. *)

\* The sum of two openings is an opening (blindings stay below the group order).
LEMMA OpeningSumType ==
  ASSUME NEW o \in Opening, NEW c \in Opening
  PROVE  OpeningSum(o, c) \in Opening
<1>1. GroupOrder \in Nat \ {0}
  BY BlindingAssumption
<1>2. o.v + c.v \in Nat
  BY DEF Opening
<1>3. o.r \in Nat /\ c.r \in Nat
  BY <1>1 DEF Opening, Blinding
<1>4. (o.r + c.r) % GroupOrder \in 0 .. (GroupOrder - 1)
  BY <1>1, <1>3
<1>5. QED
  BY <1>2, <1>4 DEF OpeningSum, Opening, Blinding

\* The engine adds openings as the contract adds points.
LEMMA EngineAddsOpenings == \A o, c : AddOpening(o, c) = OpeningSum(o, c)
BY DEF AddOpening, OpeningSum, FpAdd

LEMMA BasicOpenings ==
  /\ ZeroOpening \in Opening
  /\ \A a \in Nat : [v |-> a, r |-> 0] \in Opening
  /\ \A a \in Nat, s \in Sigma : /\ [v |-> a, r |-> DeriveTxBlind(s)] \in Opening
                                 /\ [v |-> a, r |-> DeriveSpendR(s)] \in Opening
BY BlindingAssumption DEF ZeroOpening, Opening, Blinding

LEMMA AccountAtType ==
  ASSUME log \in Seq(Event), NEW i \in 0 .. Len(log)
  PROVE  AccountAt(i) \in Account
<1>1. CASE i = 0
  BY <1>1, StartAssumption DEF AccountAt
<1>2. CASE i # 0
  <2>1. log[i] \in Event
    BY <1>2
  <2>2. log[i].after \in Account
    BY <2>1 DEF Event
  <2>3. QED
    BY <1>2, <2>2 DEF AccountAt
<1>3. QED
  BY <1>1, <1>2

\* Appending an event leaves the account at every earlier position alone.
LEMMA EmitGrowsLog ==
  ASSUME log \in Seq(Event), Len(log) <= MaxLog,
         NEW type \in EventType, NEW from \in Party, NEW to \in Party,
         NEW amount \in Nat, NEW vNew \in Nat,
         NEW sigma \in Sigma \cup {NoSigma}, NEW after \in Account,
         Emit(type, from, to, amount, vNew, sigma, after)
  PROVE  /\ log' \in Seq(Event)
         /\ Len(log') = Len(log) + 1
         /\ Len(log') <= MaxLog
         /\ \A i \in 1 .. Len(log) : log'[i] = log[i]
         /\ log'[Len(log) + 1] =
              [type |-> type, from |-> from, to |-> to, amount |-> amount,
               vNew |-> vNew, sigma |-> sigma, after |-> after]
<1> DEFINE ev == [type |-> type, from |-> from, to |-> to, amount |-> amount,
                  vNew |-> vNew, sigma |-> sigma, after |-> after]
<1>1. ev \in Event
  BY DEF Event
<1>2. log' = Append(log, ev) /\ Len(log) < MaxLog
  BY DEF Emit
<1>3. MaxLog \in Nat
  BY AmountsAssumption
<1> HIDE DEF ev
<1>4. /\ log' \in Seq(Event)
      /\ Len(log') = Len(log) + 1
      /\ \A i \in 1 .. Len(log) : log'[i] = log[i]
      /\ log'[Len(log) + 1] = ev
  BY <1>1, <1>2
<1>5. QED
  BY <1>2, <1>3, <1>4 DEF ev

-----------------------------------------------------------------------------
(* Replay of one event. *)

Concerns(ev) == Owner \in {ev.from, ev.to}

LEMMA ReplayType ==
  ASSUME NEW s \in AccountState, NEW ev \in Event,
         ev.type \in SpendKind /\ Concerns(ev) => ev.sigma \in Sigma
  PROVE  Replay(s, ev) \in AccountState
<1>1. /\ ev.amount \in Nat /\ ev.vNew \in Nat
      /\ ev.type \in EventType
  BY DEF Event
<1>2. s.receiving \in Opening /\ s.spendable \in Opening
  BY DEF AccountState
<1>3. CASE ev.type = "register"
  BY <1>3 DEF Replay, ApplyMerge, ApplyTransfer, AccountState
<1>4. CASE ev.type = "deposit"
  <2>1. OpeningSum(s.receiving, [v |-> ev.amount, r |-> 0]) \in Opening
    BY <1>1, <1>2, BasicOpenings, OpeningSumType
  <2>2. QED
    BY <1>4, <2>1, EngineAddsOpenings
       DEF Replay, ApplyMerge, ApplyTransfer, Receive, AccountState
<1>5. CASE ev.type = "merge"
  <2>1. OpeningSum(s.spendable, s.receiving) \in Opening
    BY <1>2, OpeningSumType
  <2>2. QED
    BY <1>5, <2>1, BasicOpenings, EngineAddsOpenings
       DEF Replay, ApplyMerge, ApplyTransfer, AccountState
<1>6. ASSUME ev.type \in SpendKind
      PROVE  Spend(s, ev) \in AccountState /\ Spend(s, ev).receiving = s.receiving
  <2>1. ev.from = Owner => OpenSpendable(ev) \in Opening
    BY <1>1, <1>6, BasicOpenings DEF OpenSpendable, Concerns
  <2>2. QED
    BY <2>1 DEF Spend, AccountState
<1>7. CASE ev.type = "withdraw"
  BY <1>6, <1>7 DEF Replay, ApplyMerge, ApplyTransfer, SpendKind
<1>8. CASE ev.type = "transfer"
  <2>1. Spend(s, ev) \in AccountState /\ Spend(s, ev).receiving \in Opening
    BY <1>2, <1>6, <1>8 DEF SpendKind
  <2>2. ev.to = Owner => DecryptIncoming(ev) \in Opening
    BY <1>1, <1>8, BasicOpenings DEF DecryptIncoming, Concerns, SpendKind
  <2>3. ev.to = Owner => OpeningSum(Spend(s, ev).receiving, DecryptIncoming(ev)) \in Opening
    BY <2>1, <2>2, OpeningSumType
  <2>4. Receive(Spend(s, ev), ev, DecryptIncoming(ev)) \in AccountState
    BY <2>1, <2>3, EngineAddsOpenings DEF Receive, AccountState
  <2>5. QED
    BY <1>8, <2>4 DEF Replay, ApplyMerge, ApplyTransfer
<1>9. QED
  BY <1>1, <1>3, <1>4, <1>5, <1>7, <1>8 DEF EventType

\* What an event does to the credits does not depend on the spendable opening.
LEMMA ReplayCredits ==
  ASSUME NEW s \in AccountState, NEW u \in AccountState, NEW ev \in Event,
         s.registered = u.registered, s.receiving = u.receiving
  PROVE  /\ Replay(s, ev).registered = Replay(u, ev).registered
         /\ Replay(s, ev).receiving = Replay(u, ev).receiving
<1>1. ev.type \in EventType
  BY DEF Event
<1>2. CASE ev.type = "register"
  BY <1>2 DEF Replay, ApplyMerge, ApplyTransfer, AccountState
<1>3. CASE ev.type = "deposit"
  BY <1>3 DEF Replay, ApplyMerge, ApplyTransfer, Receive, AccountState
<1>4. CASE ev.type = "merge"
  BY <1>4 DEF Replay, ApplyMerge, ApplyTransfer, AccountState
<1>5. CASE ev.type = "withdraw"
  BY <1>5 DEF Replay, ApplyMerge, ApplyTransfer, Spend, AccountState
<1>6. CASE ev.type = "transfer"
  BY <1>6 DEF Replay, ApplyMerge, ApplyTransfer, Spend, Receive, AccountState
<1>7. QED
  BY <1>1, <1>2, <1>3, <1>4, <1>5, <1>6 DEF EventType

-----------------------------------------------------------------------------
(* The contract. *)

LEMMA AfterTxType ==
  ASSUME NEW acct \in Account, NEW x \in Tx, x.kind \in TxKind
  PROVE  AfterTx(acct, x) \in Account
<1>1. /\ x.next \in Opening /\ x.credit \in Opening
      /\ acct.spendable \in Opening /\ acct.receiving \in Opening
  BY DEF Tx, Account
<1>2. /\ OpeningSum(acct.receiving, x.credit) \in Opening
      /\ OpeningSum(acct.spendable, acct.receiving) \in Opening
      /\ ZeroOpening \in Opening
  BY <1>1, OpeningSumType, BasicOpenings
<1>3. CASE x.kind = "register"
  BY <1>3 DEF AfterTx, Account
<1>4. CASE x.kind = "deposit"
  BY <1>2, <1>4 DEF AfterTx, Credited, Account
<1>5. CASE x.kind = "merge"
  BY <1>2, <1>5 DEF AfterTx, Account
<1>6. CASE x.kind = "withdraw"
  BY <1>1, <1>6 DEF AfterTx, Account
<1>7. CASE x.kind = "transfer"
  BY <1>1, <1>2, <1>7 DEF AfterTx, Credited, Account
<1>8. QED
  BY <1>3, <1>4, <1>5, <1>6, <1>7 DEF TxKind, SpendKind

\* The event a signed transaction leaves in the log.
TxEvent(acct, x) ==
  [type |-> x.kind, from |-> Owner, to |-> x.to, amount |-> x.amount,
   vNew |-> x.next.v, sigma |-> x.sigma, after |-> AfterTx(acct, x)]

\* Replaying it does what the contract did.
LEMMA SignedTxReplays ==
  ASSUME NEW acct \in Account, NEW x \in Tx, Signed(x), NEW n \in Nat
  PROVE  Replay(StateOf(acct, n), TxEvent(acct, x)) = StateOf(AfterTx(acct, x), n)
<1> DEFINE ev == TxEvent(acct, x)
           s  == StateOf(acct, n)
<1>1. /\ ev.type = x.kind /\ ev.from = Owner /\ ev.to = x.to
      /\ ev.amount = x.amount /\ ev.vNew = x.next.v /\ ev.sigma = x.sigma
  BY DEF TxEvent
<1>2. x.next = [v |-> x.next.v, r |-> x.next.r]
  BY DEF Tx, Opening
<1>3. CASE x.kind = "register"
  BY <1>1, <1>3 DEF Replay, ApplyMerge, ApplyTransfer, AfterTx, StateOf, Account
<1>4. CASE x.kind = "deposit"
  BY <1>1, <1>4, EngineAddsOpenings
     DEF Replay, ApplyMerge, ApplyTransfer, Receive, AfterTx, Credited, StateOf, Account, Signed
<1>5. CASE x.kind = "merge"
  BY <1>1, <1>5, EngineAddsOpenings
     DEF Replay, ApplyMerge, ApplyTransfer, AfterTx, StateOf, Account
<1>6. CASE x.kind \in SpendKind
  <2>1. OpenSpendable(ev) = x.next
    BY <1>1, <1>2, <1>6 DEF OpenSpendable, Signed
  <2>2. Spend(s, ev) = [s EXCEPT !.spendable = x.next]
    BY <1>1, <2>1 DEF Spend
  <2>3. CASE x.kind = "withdraw"
    BY <1>1, <2>2, <2>3 DEF Replay, ApplyMerge, ApplyTransfer, AfterTx, StateOf, Account
  <2>4. CASE x.kind = "transfer"
    <3>1. DecryptIncoming(ev) = x.credit
      BY <1>1, <2>4 DEF DecryptIncoming, Signed
    <3>2. Replay(s, ev) = Receive([s EXCEPT !.spendable = x.next], ev, x.credit)
      BY <1>1, <2>2, <2>4, <3>1 DEF Replay, ApplyMerge, ApplyTransfer
    <3>3. QED
      BY <1>1, <2>4, <3>2, EngineAddsOpenings DEF Receive, AfterTx, Credited, StateOf, Account
  <2>5. QED
    BY <1>6, <2>3, <2>4 DEF SpendKind
<1>7. QED
  BY <1>3, <1>4, <1>5, <1>6 DEF Signed, TxKind

-----------------------------------------------------------------------------
(* Steps that leave the log alone. *)

SessionFits(c, x) ==
  /\ c \in {"proving", "polling", "confirmed", "patching"} => Signed(x)
  /\ c = "synced" => x.kind \in SpendKind
  /\ c \in {"fetching", "applying"} => x.kind \in SpendKind \cup {"refresh"}

\* A step of one session that leaves the log alone keeps the invariant if the
\* session's new memory, the stores and the pool each do.
LEMMA SessionUpdate ==
  ASSUME CreditInv, UNCHANGED log,
         NEW t \in Session,
         NEW c \in PC, pc' = [pc EXCEPT ![t] = c],
         NEW l \in AccountState, local' = [local EXCEPT ![t] = l], TracksCredits(l),
         NEW h \in 0 .. Len(log), head' = [head EXCEPT ![t] = h],
         NEW x \in Tx, op' = [op EXCEPT ![t] = x], SessionFits(c, x),
         store' \in [Profile -> AccountState],
         \A p \in Profile : TracksCredits(store'[p]),
         pool' \subseteq InFlight, \A e \in pool' : Signed(e.tx),
         outcome' \in [Session -> Outcome]
  PROVE  CreditInv'
<1>1. TypeOK'
  <2>1. TypeOK
    BY DEF CreditInv
  <2>2. log' \in Seq(Event) /\ Len(log') <= MaxLog
    BY <2>1 DEF TypeOK
  <2>3. pc' \in [Session -> PC]
    BY <2>1 DEF TypeOK
  <2>4. local' \in [Session -> AccountState]
    BY <2>1 DEF TypeOK
  <2>5. op' \in [Session -> Tx]
    BY <2>1 DEF TypeOK
  <2>6. head' \in [Session -> Nat]
    BY <2>1 DEF TypeOK
  <2>7. QED
    BY <2>2, <2>3, <2>4, <2>5, <2>6 DEF TypeOK
<1>2. LogIsReplayable' /\ EventsCarryNonce'
  BY DEF CreditInv, LogIsReplayable, EventsCarryNonce, AccountAt
<1>3. \A s \in AccountState : TracksCredits(s) <=> /\ s.pos <= Len(log')
                                                  /\ s.registered = AccountAt(s.pos)'.registered
                                                  /\ s.receiving = AccountAt(s.pos)'.receiving
  BY DEF TracksCredits, AccountAt
<1>4. CreditsAppliedOnce'
  <2>1. ASSUME NEW p \in Profile PROVE TracksCredits(store[p])'
    BY DEF TracksCredits, AccountAt
  <2>2. ASSUME NEW u \in Session PROVE TracksCredits(local[u])'
    <3>1. local'[u] = IF u = t THEN l ELSE local[u]
      BY DEF CreditInv, TypeOK
    <3>2. TracksCredits(local[u])
      BY DEF CreditInv, CreditsAppliedOnce
    <3>3. CASE u = t
      BY <3>1, <3>3 DEF TracksCredits, AccountAt
    <3>4. CASE u # t
      BY <3>1, <3>2, <3>4 DEF TracksCredits, AccountAt
    <3>5. QED
      BY <3>3, <3>4
  <2>3. QED
    BY <2>1, <2>2 DEF CreditsAppliedOnce
<1>5. TxsAreSigned'
  <2>1. ASSUME NEW u \in Session PROVE SessionFits(pc'[u], op'[u])
    <3>1. pc \in [Session -> PC] /\ op \in [Session -> Tx]
      BY DEF CreditInv, TypeOK
    <3>2. SessionFits(pc[u], op[u])
      BY DEF CreditInv, TxsAreSigned, SessionFits
    <3>3. CASE u = t
      BY <3>1, <3>3
    <3>4. CASE u # t
      BY <3>1, <3>2, <3>4
    <3>5. QED
      BY <3>3, <3>4
  <2>2. QED
    BY <2>1 DEF TxsAreSigned, SessionFits, Signed
<1>6. \A u \in Session : head'[u] <= Len(log')
  BY DEF CreditInv, TypeOK
<1>7. QED
  BY <1>1, <1>2, <1>4, <1>5, <1>6 DEF CreditInv

\* What a session that is doing nothing, or has forgotten everything, holds.
LEMMA BlankMemory ==
  ASSUME log \in Seq(Event)
  PROVE  /\ FreshState \in AccountState
         /\ TracksCredits(FreshState)
         /\ NoOp \in Tx
         /\ \A kind \in TxKind \cup {"refresh"}, to \in Party, a \in Nat :
              Draft(kind, to, a) \in Tx
<1>1. FreshState \in AccountState
  BY StartAssumption DEF FreshState, AccountState, Account
<1>2. TracksCredits(FreshState)
  BY DEF TracksCredits, FreshState, AccountAt
<1>3. \A kind \in TxKind \cup {"refresh"}, to \in Party, a \in Nat :
        Draft(kind, to, a) \in Tx
  BY BasicOpenings DEF Draft, Tx, TxKind
<1>4. NoOp \in Tx
  BY <1>3 DEF NoOp, Party
<1>5. QED
  BY <1>1, <1>2, <1>3, <1>4

\* Ending the operation of a session, whatever becomes of the pool.
LEMMA ForgetKeeps ==
  ASSUME CreditInv, NEW t \in Session, Forget(t), UNCHANGED <<log, store>>,
         pool' \subseteq InFlight, \A e \in pool' : Signed(e.tx),
         outcome' \in [Session -> Outcome]
  PROVE  CreditInv'
<1>1. /\ FreshState \in AccountState /\ TracksCredits(FreshState) /\ NoOp \in Tx
      /\ 0 \in 0 .. Len(log)
  BY BlankMemory DEF CreditInv, TypeOK
<1>2. "idle" \in PC /\ SessionFits("idle", NoOp)
  BY DEF PC, SessionFits
<1>3. store' \in [Profile -> AccountState] /\ \A p \in Profile : TracksCredits(store'[p])
  BY DEF CreditInv, TypeOK, CreditsAppliedOnce
<1>4. QED
  BY <1>1, <1>2, <1>3, SessionUpdate DEF Forget

-----------------------------------------------------------------------------
(* Steps that append to the log. *)

\* An event whose replay does what the contract did keeps the invariant: the
\* account at every earlier position, hence what every copy tracks, stays.
LEMMA LogGrowth ==
  ASSUME CreditInv, UNCHANGED engineVars,
         NEW type \in EventType, NEW from \in Party, NEW to \in Party,
         NEW amount \in Nat, NEW vNew \in Nat,
         NEW sigma \in Sigma \cup {NoSigma}, NEW after \in Account,
         Emit(type, from, to, amount, vNew, sigma, after),
         NEW ev, ev = [type |-> type, from |-> from, to |-> to, amount |-> amount,
                       vNew |-> vNew, sigma |-> sigma, after |-> after],
         Replay(StateOf(OnChain, Len(log) + 1), ev) = StateOf(after, Len(log) + 1),
         type \in SpendKind /\ Owner \in {from, to} => sigma \in Sigma,
         pool' \subseteq InFlight, \A e \in pool' : Signed(e.tx),
         outcome' \in [Session -> Outcome]
  PROVE  CreditInv'
<1>0. log \in Seq(Event) /\ Len(log) <= MaxLog
  BY DEF CreditInv, TypeOK
<1> PICK n \in Nat : n = Len(log)
  BY <1>0
<1>1. /\ log' \in Seq(Event) /\ Len(log') = n + 1 /\ Len(log') <= MaxLog
      /\ \A i \in 1 .. n : log'[i] = log[i]
      /\ log'[n + 1] = ev
  BY <1>0, EmitGrowsLog
<1>2. \A i \in 0 .. n : AccountAt(i)' = AccountAt(i)
  BY <1>1 DEF AccountAt
<1>3. AccountAt(n + 1)' = after
  BY <1>1 DEF AccountAt
<1>4. TypeOK'
  BY <1>1 DEF CreditInv, TypeOK, engineVars
<1>5. ASSUME NEW s \in AccountState, TracksCredits(s)
      PROVE  TracksCredits(s)'
  <2>1. s.pos \in 0 .. n
    BY <1>1, <1>5 DEF AccountState, TracksCredits
  <2>2. AccountAt(s.pos)' = AccountAt(s.pos)
    BY <1>2, <2>1
  <2>3. s.pos <= Len(log')
    BY <1>1, <2>1
  <2>4. QED
    BY <1>5, <2>2, <2>3 DEF TracksCredits
<1>6. CreditsAppliedOnce'
  <2>1. ASSUME NEW p \in Profile PROVE TracksCredits(store[p])'
    <3>1. store'[p] = store[p] /\ store[p] \in AccountState /\ TracksCredits(store[p])
      BY DEF CreditInv, TypeOK, CreditsAppliedOnce, engineVars
    <3>2. QED
      BY <1>5, <3>1 DEF TracksCredits
  <2>2. ASSUME NEW t \in Session PROVE TracksCredits(local[t])'
    <3>1. local'[t] = local[t] /\ local[t] \in AccountState /\ TracksCredits(local[t])
      BY DEF CreditInv, TypeOK, CreditsAppliedOnce, engineVars
    <3>2. QED
      BY <1>5, <3>1 DEF TracksCredits
  <2>3. QED
    BY <2>1, <2>2 DEF CreditsAppliedOnce
<1>7. LogIsReplayable'
  <2>1. ASSUME NEW i \in 1 .. n + 1
        PROVE  Replay(StateOf(AccountAt(i - 1)', i), log'[i]) = StateOf(AccountAt(i)', i)
    <3>1. CASE i = n + 1
      <4>1. AccountAt(i - 1)' = OnChain
        BY <1>1, <1>2, <3>1 DEF OnChain
      <4>2. AccountAt(i)' = after /\ log'[i] = ev
        BY <1>1, <1>3, <3>1
      <4>3. QED
        BY <3>1, <4>1, <4>2
    <3>2. CASE i # n + 1
      <4>1. i \in 1 .. n
        BY <1>1, <3>2
      <4>2. Replay(StateOf(AccountAt(i - 1), i), log[i]) = StateOf(AccountAt(i), i)
        BY <4>1 DEF CreditInv, LogIsReplayable
      <4>3. /\ AccountAt(i - 1)' = AccountAt(i - 1)
            /\ AccountAt(i)' = AccountAt(i)
            /\ log'[i] = log[i]
        BY <1>1, <1>2, <4>1
      <4>4. QED
        BY <4>2, <4>3
    <3>3. QED
      BY <3>1, <3>2
  <2>2. QED
    BY <1>1, <2>1 DEF LogIsReplayable
<1>8. EventsCarryNonce'
  <2>1. ASSUME NEW i \in 1 .. n + 1,
               log'[i].type \in SpendKind, Owner \in {log'[i].from, log'[i].to}
        PROVE  log'[i].sigma \in Sigma
    <3>1. CASE i = n + 1
      BY <1>1, <2>1, <3>1
    <3>2. CASE i # n + 1
      BY <1>1, <2>1, <3>2 DEF CreditInv, EventsCarryNonce
    <3>3. QED
      BY <3>1, <3>2
  <2>2. QED
    BY <1>1, <2>1 DEF EventsCarryNonce
<1>9. TxsAreSigned'
  BY DEF CreditInv, TxsAreSigned, engineVars
<1>10. \A t \in Session : head'[t] <= Len(log')
  BY <1>1 DEF CreditInv, TypeOK, engineVars
<1>11. QED
  BY <1>4, <1>6, <1>7, <1>8, <1>9, <1>10 DEF CreditInv

-----------------------------------------------------------------------------
(* What the invariant says of one session, in the form the steps use. *)

LEMMA SessionFacts ==
  ASSUME CreditInv, NEW t \in Session
  PROVE  /\ pc[t] \in PC /\ pc = [pc EXCEPT ![t] = pc[t]]
         /\ local[t] \in AccountState /\ TracksCredits(local[t])
         /\ local = [local EXCEPT ![t] = local[t]]
         /\ head[t] \in 0 .. Len(log) /\ head = [head EXCEPT ![t] = head[t]]
         /\ op[t] \in Tx /\ op = [op EXCEPT ![t] = op[t]]
         /\ SessionFits(pc[t], op[t])
         /\ store[ProfileOf[t]] \in AccountState
         /\ TracksCredits(store[ProfileOf[t]])
         /\ log \in Seq(Event)
<1>1. TypeOK
  BY DEF CreditInv
<1>2. pc[t] \in PC /\ pc = [pc EXCEPT ![t] = pc[t]]
  BY <1>1 DEF TypeOK
<1>3. local[t] \in AccountState /\ local = [local EXCEPT ![t] = local[t]]
  BY <1>1 DEF TypeOK
<1>4. head[t] \in 0 .. Len(log) /\ head = [head EXCEPT ![t] = head[t]]
  <2>1. head[t] <= Len(log)
    BY DEF CreditInv
  <2>2. QED
    BY <1>1, <2>1 DEF TypeOK
<1>5. op[t] \in Tx /\ op = [op EXCEPT ![t] = op[t]]
  BY <1>1 DEF TypeOK
<1>6. SessionFits(pc[t], op[t])
  BY DEF CreditInv, TxsAreSigned, SessionFits
<1>7. ProfileOf[t] \in Profile
  BY ProfileAssumption
<1>8. store[ProfileOf[t]] \in AccountState /\ log \in Seq(Event)
  BY <1>1, <1>7 DEF TypeOK
<1>9. TracksCredits(local[t]) /\ TracksCredits(store[ProfileOf[t]])
  BY <1>7 DEF CreditInv, CreditsAppliedOnce
<1>10. QED
  BY <1>2, <1>3, <1>4, <1>5, <1>6, <1>8, <1>9

\* ... and of what the sessions share.
LEMMA SharedFacts ==
  ASSUME CreditInv
  PROVE  /\ store \in [Profile -> AccountState]
         /\ \A p \in Profile : TracksCredits(store[p])
         /\ pool \subseteq InFlight
         /\ \A e \in pool : Signed(e.tx)
         /\ outcome \in [Session -> Outcome]
BY DEF CreditInv, TypeOK, CreditsAppliedOnce, TxsAreSigned

\* Saving a state that tracks the credits.
LEMMA SaveKeeps ==
  ASSUME CreditInv, NEW t \in Session,
         NEW s \in AccountState, TracksCredits(s),
         store' = [store EXCEPT ![ProfileOf[t]] = s]
  PROVE  /\ store' \in [Profile -> AccountState]
         /\ \A p \in Profile : TracksCredits(store'[p])
<1>1. ASSUME NEW p \in Profile
      PROVE  store'[p] = s \/ store'[p] = store[p]
  BY SharedFacts
<1>2. QED
  BY <1>1, SharedFacts

-----------------------------------------------------------------------------
(* The steps of a session that start something. *)

LEMMA BeginSyncKeeps ==
  ASSUME CreditInv, NEW t \in Session, NEW x \in Tx,
         x.kind \in SpendKind \cup {"refresh"},
         BeginSync(t, x), UNCHANGED <<pool, outcome>>
  PROVE  CreditInv'
<1>1. "fetching" \in PC /\ SessionFits("fetching", x)
  BY DEF PC, SessionFits
<1>2. QED
  BY <1>1, SessionFacts, SharedFacts, SessionUpdate DEF BeginSync

LEMMA StartKeeps ==
  ASSUME CreditInv, NEW t \in Session, Start(t)
  PROVE  CreditInv'
<1>1. CASE StartRefresh(t)
  <2>1. NoOp \in Tx /\ NoOp.kind = "refresh"
    BY SessionFacts, BlankMemory DEF NoOp, Draft
  <2>2. QED
    BY <1>1, <2>1, BeginSyncKeeps DEF StartRefresh
<1>2. ASSUME NEW kind \in SpendKind, NEW to \in Party, NEW a \in Amounts,
             StartSpend(t, kind, to, a)
      PROVE  CreditInv'
  <2>1. Draft(kind, to, a) \in Tx
    BY SessionFacts, BlankMemory, AmountsAssumption DEF TxKind
  <2>2. Draft(kind, to, a).kind = kind
    BY DEF Draft
  <2>3. QED
    BY <1>2, <2>1, <2>2, BeginSyncKeeps DEF StartSpend
<1>3. ASSUME NEW x \in Tx, Signed(x), StartDirect(t, x)
      PROVE  CreditInv'
  <2>1. "proving" \in PC /\ SessionFits("proving", x)
    BY <1>3 DEF PC, SessionFits
  <2>2. QED
    BY <1>3, <2>1, SessionFacts, SharedFacts, SessionUpdate DEF StartDirect, Goto
<1>4. ASSUME NEW kind \in {"register", "merge"}
      PROVE  Draft(kind, Owner, 0) \in Tx /\ Signed(Draft(kind, Owner, 0))
  <2>1. Draft(kind, Owner, 0) \in Tx
    BY SessionFacts, BlankMemory DEF TxKind, Party
  <2>2. QED
    BY <2>1 DEF Draft, Signed, TxKind, SpendKind
<1>5. ASSUME NEW a \in Amounts
      PROVE  LET x == [Draft("deposit", Owner, a) EXCEPT !.credit = [v |-> a, r |-> 0]]
             IN  x \in Tx /\ Signed(x)
  <2>1. Draft("deposit", Owner, a) \in Tx /\ a \in Nat
    BY SessionFacts, BlankMemory, AmountsAssumption DEF TxKind, Party
  <2>2. [v |-> a, r |-> 0] \in Opening
    BY <2>1, BasicOpenings
  <2>3. QED
    BY <2>1, <2>2 DEF Draft, Signed, Tx, TxKind, SpendKind
<1>6. QED
  BY <1>1, <1>2, <1>3, <1>4, <1>5 DEF Start

-----------------------------------------------------------------------------
(* The steps of the engine. *)

\* A replayed event brings a copy from one position to the next.
LEMMA ReplayTracks ==
  ASSUME CreditInv, NEW s \in AccountState, TracksCredits(s), s.pos < Len(log),
         NEW r, r = [Replay(s, log[s.pos + 1]) EXCEPT !.pos = s.pos + 1]
  PROVE  r \in AccountState /\ TracksCredits(r)
<1>0. s.pos \in Nat
  BY DEF AccountState
<1> PICK i \in Nat : i = s.pos + 1
  BY <1>0
<1>1. log \in Seq(Event) /\ i \in 1 .. Len(log) /\ log[i] \in Event
  BY <1>0 DEF CreditInv, TypeOK
<1>2. log[i].type \in SpendKind /\ Concerns(log[i]) => log[i].sigma \in Sigma
  BY <1>1 DEF CreditInv, EventsCarryNonce, Concerns
<1>3. Replay(s, log[i]) \in AccountState
  BY <1>1, <1>2, ReplayType
<1>4. PICK u : u = StateOf(AccountAt(s.pos), i)
  OBVIOUS
<1>5. AccountAt(s.pos) \in Account
  <2>1. s.pos \in 0 .. Len(log)
    BY <1>0, <1>1
  <2>2. QED
    BY <1>1, <2>1, AccountAtType
<1>6. u \in AccountState /\ s.registered = u.registered /\ s.receiving = u.receiving
  BY <1>1, <1>4, <1>5 DEF StateOf, AccountState, Account, TracksCredits
<1>7. Replay(u, log[i]) = StateOf(AccountAt(i), i)
  <2>1. Replay(StateOf(AccountAt(i - 1), i), log[i]) = StateOf(AccountAt(i), i)
    BY <1>1 DEF CreditInv, LogIsReplayable
  <2>2. i - 1 = s.pos
    BY <1>0
  <2>3. QED
    BY <1>4, <2>1, <2>2
<1>8. /\ Replay(s, log[i]).registered = AccountAt(i).registered
      /\ Replay(s, log[i]).receiving = AccountAt(i).receiving
  <2>1. /\ Replay(s, log[i]).registered = Replay(u, log[i]).registered
        /\ Replay(s, log[i]).receiving = Replay(u, log[i]).receiving
    BY <1>1, <1>6, ReplayCredits
  <2>2. QED
    BY <1>7, <2>1 DEF StateOf
<1>9. /\ r \in AccountState /\ r.pos = i
      /\ r.registered = Replay(s, log[i]).registered
      /\ r.receiving = Replay(s, log[i]).receiving
  BY <1>1, <1>3 DEF AccountState
<1>10. QED
  BY <1>1, <1>8, <1>9 DEF TracksCredits

LEMMA EngineStepKeeps ==
  ASSUME CreditInv, NEW t \in Session, EngineStep(t)
  PROVE  CreditInv'
<1>0. 0 \in 0 .. Len(log)
  BY SessionFacts
<1>1. CASE \E n \in 0 .. Len(log) : Fetch(t, n)
  <2>1. PICK n \in 0 .. Len(log) : Fetch(t, n)
    BY <1>1
  <2>2. "applying" \in PC /\ SessionFits("applying", op[t])
    BY <2>1, SessionFacts DEF PC, SessionFits, Fetch, Goto
  <2>3. QED
    BY <2>1, <2>2, SessionFacts, SharedFacts, SessionUpdate DEF Fetch, Goto, EngineStep
<1>2. CASE ApplyEvent(t)
  <2>1. /\ local[t].pos < Len(log) /\ local[t] \in AccountState
        /\ TracksCredits(local[t])
    BY <1>2, SessionFacts DEF ApplyEvent, AccountState
  <2>2. PICK r : r = [Replay(local[t], log[local[t].pos + 1]) EXCEPT !.pos = local[t].pos + 1]
    OBVIOUS
  <2>3. r \in AccountState /\ TracksCredits(r)
    BY <2>1, <2>2, ReplayTracks
  <2>4. /\ local' = [local EXCEPT ![t] = r]
        /\ UNCHANGED <<log, store, pc, head, op, pool, outcome>>
    BY <1>2, <2>2 DEF ApplyEvent, EngineStep
  <2>5. QED
    BY <2>3, <2>4, SessionFacts, SharedFacts, SessionUpdate
<1>3. CASE SaveSync(t)
  <2>1. PICK c : c = IF op[t].kind = "refresh" THEN "verifying" ELSE "synced"
    OBVIOUS
  <2>2. c \in PC /\ SessionFits(c, op[t])
    BY <1>3, <2>1, SessionFacts DEF SaveSync, AfterSync, SessionFits, PC
  <2>3. /\ store' \in [Profile -> AccountState]
        /\ \A p \in Profile : TracksCredits(store'[p])
    BY <1>3, SessionFacts, SaveKeeps DEF SaveSync
  <2>4. QED
    BY <1>0, <1>3, <2>1, <2>2, <2>3, SessionFacts, SharedFacts, SessionUpdate
       DEF SaveSync, AfterSync, EngineStep
<1>4. CASE PatchLoad(t)
  <2>1. "patching" \in PC /\ SessionFits("patching", op[t])
    BY <1>4, SessionFacts DEF PatchLoad, Goto, PC, SessionFits
  <2>2. QED
    BY <1>4, <2>1, SessionFacts, SharedFacts, SessionUpdate DEF PatchLoad, Goto, EngineStep
<1>5. CASE PatchSave(t)
  <2>1. PICK s : s = [local[t] EXCEPT !.spendable = op[t].next]
    OBVIOUS
  <2>2. s \in AccountState /\ TracksCredits(s)
    BY <2>1, SessionFacts DEF AccountState, TracksCredits, Tx
  <2>3. /\ store' \in [Profile -> AccountState]
        /\ \A p \in Profile : TracksCredits(store'[p])
    BY <1>5, <2>1, <2>2, SaveKeeps DEF PatchSave, SavePatched
  <2>4. "refreshing" \in PC /\ SessionFits("refreshing", NoOp)
    BY DEF PC, SessionFits
  <2>5. FreshState \in AccountState /\ TracksCredits(FreshState) /\ NoOp \in Tx
    BY SessionFacts, BlankMemory
  <2>6. QED
    BY <1>5, <2>3, <2>4, <2>5, SessionFacts, SharedFacts, SessionUpdate
       DEF PatchSave, SavePatched, Goto, EngineStep
<1>6. CASE VerifyLoad(t)
  <2>1. "comparing" \in PC /\ SessionFits("comparing", op[t])
    BY DEF PC, SessionFits
  <2>2. QED
    BY <1>6, <2>1, SessionFacts, SharedFacts, SessionUpdate DEF VerifyLoad, Goto, EngineStep
<1>7. CASE SkipVerify(t) \/ ReportMatch(t) \/ ReportMismatch(t) \/ ReadFails(t)
  BY <1>7, SharedFacts, ForgetKeeps
     DEF SkipVerify, ReportMatch, ReportMismatch, ReportMismatchAt, ReadFails, EngineStep
<1>8. QED
  BY <1>1, <1>2, <1>3, <1>4, <1>5, <1>6, <1>7 DEF EngineStep

-----------------------------------------------------------------------------
(* The steps of the wallet. *)

\* A witness built from fresh state and a drawn nonce is a signed spend.
LEMMA WitnessIsSigned ==
  ASSUME NEW x \in Tx, x.kind \in SpendKind, NEW s \in AccountState,
         x.amount <= s.spendable.v, NEW nonce \in Sigma
  PROVE  Witness(x, s, nonce) \in Tx /\ Signed(Witness(x, s, nonce))
<1>1. s.spendable \in Opening /\ x.amount \in Nat
  BY DEF AccountState, Tx
<1>2. s.spendable.v - x.amount \in Nat
  BY <1>1 DEF Opening
<1>3. /\ [v |-> s.spendable.v - x.amount, r |-> DeriveSpendR(nonce)] \in Opening
      /\ [v |-> x.amount, r |-> DeriveTxBlind(nonce)] \in Opening
      /\ ZeroOpening \in Opening
  BY <1>1, <1>2, BasicOpenings
<1>4. Witness(x, s, nonce) \in Tx
  BY <1>1, <1>3 DEF Witness, Tx
<1>5. Signed(Witness(x, s, nonce))
  BY DEF Witness, Signed, Tx, TxKind, SpendKind
<1>6. QED
  BY <1>4, <1>5

LEMMA WalletStepKeeps ==
  ASSUME CreditInv, NEW t \in Session, WalletStep(t)
  PROVE  CreditInv'
<1>1. CASE BuildWitness(t)
  <2>1. NextSigma \in Sigma
    BY <1>1 DEF BuildWitness, NextSigma, FreshSigma
  <2>2. PICK x : x = Witness(op[t], local[t], NextSigma)
    OBVIOUS
  <2>3. op[t].kind \in SpendKind
    BY <1>1, SessionFacts DEF BuildWitness, Goto, SessionFits
  <2>4. op[t].amount <= local[t].spendable.v
    BY <1>1, SessionFacts DEF BuildWitness, Tx, AccountState, Opening
  <2>5. x \in Tx /\ Signed(x)
    BY <2>1, <2>2, <2>3, <2>4, SessionFacts, WitnessIsSigned
  <2>6. "proving" \in PC /\ SessionFits("proving", x)
    BY <2>5 DEF PC, SessionFits
  <2>7. QED
    BY <1>1, <2>2, <2>5, <2>6, SessionFacts, SharedFacts, SessionUpdate
       DEF BuildWitness, Goto
<1>2. CASE InsufficientBalance(t) \/ SimulationFails(t)
  BY <1>2, SharedFacts, ForgetKeeps DEF InsufficientBalance, SimulationFails
<1>3. CASE Submit(t)
  <2>1. Signed(op[t])
    BY <1>3, SessionFacts DEF Submit, Goto, SessionFits
  <2>2. [session |-> t, tx |-> op[t]] \in InFlight
    BY SessionFacts DEF InFlight
  <2>3. pool' \subseteq InFlight /\ \A e \in pool' : Signed(e.tx)
    BY <1>3, <2>1, <2>2, SharedFacts DEF Submit
  <2>4. outcome' \in [Session -> Outcome]
    BY <1>3, SharedFacts DEF Submit, Outcome
  <2>5. "polling" \in PC /\ SessionFits("polling", op[t])
    BY <2>1 DEF PC, SessionFits
  <2>6. QED
    BY <1>3, <2>3, <2>4, <2>5, SessionFacts, SharedFacts, SessionUpdate DEF Submit, Goto
<1>4. CASE Confirm(t)
  <2>1. outcome' \in [Session -> Outcome]
    BY <1>4, SharedFacts DEF Confirm, AfterConfirmation, Outcome
  <2>2. CASE op[t].kind \in SpendKind
    <3>1. "confirmed" \in PC /\ SessionFits("confirmed", op[t])
      BY <1>4, <2>2, SessionFacts DEF Confirm, AfterConfirmation, Goto, PC, SessionFits
    <3>2. QED
      BY <1>4, <2>1, <2>2, <3>1, SessionFacts, SharedFacts, SessionUpdate DEF Confirm, AfterConfirmation, Goto
  <2>3. CASE op[t].kind \notin SpendKind
    <3>1. "refreshing" \in PC /\ SessionFits("refreshing", NoOp)
      BY DEF PC, SessionFits
    <3>2. FreshState \in AccountState /\ TracksCredits(FreshState) /\ NoOp \in Tx
      BY SessionFacts, BlankMemory
    <3>3. QED
      BY <1>4, <2>1, <2>3, <3>1, <3>2, SessionFacts, SharedFacts, SessionUpdate
         DEF Confirm, AfterConfirmation, Goto
  <2>4. QED
    BY <2>2, <2>3
<1>5. CASE Rejected(t)
  <2>1. outcome' \in [Session -> Outcome]
    BY <1>5, SharedFacts DEF Rejected, Outcome
  <2>2. QED
    BY <1>5, <2>1, SharedFacts, ForgetKeeps DEF Rejected
<1>6. QED
  BY <1>1, <1>2, <1>3, <1>4, <1>5 DEF WalletStep

\* Giving up, or being cut short: what was sent stays as it was signed.
LEMMA AbandonKeeps ==
  ASSUME CreditInv, NEW t \in Session, ConfirmationTimesOut(t) \/ Crash(t)
  PROVE  CreditInv'
<1>1. Abandon(t) /\ Forget(t) /\ UNCHANGED <<log, store>>
  BY DEF ConfirmationTimesOut, Crash
<1>2. outcome' \in [Session -> Outcome]
  BY <1>1, SharedFacts DEF Abandon, Outcome
<1>3. ASSUME NEW e \in pool'
      PROVE  e \in InFlight /\ Signed(e.tx)
  <2>1. PICK d \in pool : e = IF d.session = t THEN [d EXCEPT !.session = NoSession] ELSE d
    BY <1>1 DEF Abandon
  <2>2. d \in InFlight /\ Signed(d.tx)
    BY SharedFacts
  <2>3. e \in InFlight /\ e.tx = d.tx
    BY <2>1, <2>2 DEF InFlight
  <2>4. QED
    BY <2>2, <2>3
<1>4. QED
  BY <1>1, <1>2, <1>3, ForgetKeeps

-----------------------------------------------------------------------------
(* The network and the other accounts. *)

\* What the position at the head of the log is.
LEMMA OnChainType ==
  ASSUME CreditInv
  PROVE  /\ OnChain \in Account
         /\ OnChain.spendable \in Opening /\ OnChain.receiving \in Opening
         /\ Len(log) \in Nat
<1>1. log \in Seq(Event)
  BY DEF CreditInv, TypeOK
<1>2. Len(log) \in 0 .. Len(log)
  BY <1>1
<1>3. OnChain \in Account
  BY <1>1, <1>2, AccountAtType DEF OnChain
<1>4. QED
  BY <1>1, <1>3 DEF Account

LEMMA NetworkStepKeeps ==
  ASSUME CreditInv, NetworkStep
  PROVE  CreditInv'
<1>1. PICK e \in pool : Land(e) \/ FailOnChain(e) \/ Expire(e)
  BY DEF NetworkStep
<1>2. e \in InFlight /\ Signed(e.tx)
  BY SharedFacts
<1>3. /\ pool' \subseteq InFlight
      /\ \A d \in pool' : Signed(d.tx)
      /\ outcome' \in [Session -> Outcome]
  BY <1>1, SharedFacts DEF Land, FailOnChain, Expire, Settle, Outcome
<1>4. CASE FailOnChain(e) \/ Expire(e)
  <2>1. UNCHANGED <<log, engineVars>>
    BY <1>4 DEF FailOnChain, Expire
  <2>2. QED
    BY <1>3, <2>1 DEF CreditInv, TypeOK, CreditsAppliedOnce, TracksCredits, AccountAt,
       LogIsReplayable, EventsCarryNonce, TxsAreSigned, engineVars
<1>5. CASE Land(e)
  <2>1. PICK x : x = e.tx
    OBVIOUS
  <2>2. /\ x \in Tx /\ Signed(x) /\ x.kind \in TxKind
        /\ x.next.v \in Nat /\ x.amount \in Nat /\ x.to \in Party
        /\ x.sigma \in Sigma \cup {NoSigma} /\ x.kind \in EventType
    BY <1>2, <2>1 DEF InFlight, Signed, Tx, TxKind, SpendKind, EventType, Opening
  <2>3. PICK after : after = AfterTx(OnChain, x)
    OBVIOUS
  <2>4. after \in Account
    BY <2>2, <2>3, OnChainType, AfterTxType
  <2>5. Emit(x.kind, Owner, x.to, x.amount, x.next.v, x.sigma, after)
    BY <1>5, <2>1, <2>3 DEF Land, Execute
  <2>6. PICK ev : ev = TxEvent(OnChain, x)
    OBVIOUS
  <2>7. Replay(StateOf(OnChain, Len(log) + 1), ev) = StateOf(after, Len(log) + 1)
    BY <2>2, <2>3, <2>6, OnChainType, SignedTxReplays
  <2>8. ev = [type |-> x.kind, from |-> Owner, to |-> x.to, amount |-> x.amount,
              vNew |-> x.next.v, sigma |-> x.sigma, after |-> after]
    BY <2>3, <2>6 DEF TxEvent
  <2>9. x.kind \in SpendKind => x.sigma \in Sigma
    BY <2>2 DEF Signed
  <2>10. Owner \in Party /\ UNCHANGED engineVars
    BY <1>5 DEF Party, Land
  <2>11. PICK type \in EventType, to \in Party, amount \in Nat, vNew \in Nat,
              sigma \in Sigma \cup {NoSigma} :
           /\ type = x.kind /\ to = x.to /\ amount = x.amount
           /\ vNew = x.next.v /\ sigma = x.sigma
    BY <2>2
  <2>12. /\ Emit(type, Owner, to, amount, vNew, sigma, after)
         /\ ev = [type |-> type, from |-> Owner, to |-> to, amount |-> amount,
                  vNew |-> vNew, sigma |-> sigma, after |-> after]
         /\ type \in SpendKind => sigma \in Sigma
    BY <2>5, <2>8, <2>9, <2>11
  <2>13. QED
    BY <1>3, <2>4, <2>7, <2>10, <2>12, LogGrowth
<1>6. QED
  BY <1>1, <1>4, <1>5

LEMMA PeerStepKeeps ==
  ASSUME CreditInv, PeerStep
  PROVE  CreditInv'
<1>1. /\ UNCHANGED engineVars
      /\ pool' \subseteq InFlight /\ \A e \in pool' : Signed(e.tx)
      /\ outcome' \in [Session -> Outcome]
  BY SharedFacts DEF PeerStep
<1>2. /\ OnChain \in Account /\ OnChain.receiving \in Opening /\ Len(log) \in Nat
      /\ Owner \in Party /\ \A p \in Peers : p \in Party /\ p # Owner
  BY OnChainType, NamesAssumption DEF Party
\* A credit of opening o, announced by an event that opens to o.
<1>3. ASSUME NEW type \in {"deposit", "transfer"}, NEW p \in Peers, NEW a \in Nat,
             NEW s \in Sigma \cup {NoSigma}, type = "transfer" => s \in Sigma,
             NEW o \in Opening,
             o = [v |-> a, r |-> IF type = "deposit" THEN 0 ELSE DeriveTxBlind(s)],
             Emit(type, p, Owner, a, 0, s,
                  [OnChain EXCEPT !.receiving = OpeningSum(@, o)])
      PROVE  CreditInv'
  <2>1. PICK after : after = [OnChain EXCEPT !.receiving = OpeningSum(@, o)]
    OBVIOUS
  <2>2. OpeningSum(OnChain.receiving, o) \in Opening
    BY <1>2, <1>3, OpeningSumType
  <2>3. after \in Account
    BY <1>2, <2>1, <2>2 DEF Account
  <2>4. PICK ev : ev = [type |-> type, from |-> p, to |-> Owner, amount |-> a,
                        vNew |-> 0, sigma |-> s, after |-> after]
    OBVIOUS
  <2>5. Replay(StateOf(OnChain, Len(log) + 1), ev) =
          [StateOf(OnChain, Len(log) + 1) EXCEPT !.receiving = OpeningSum(@, o)]
    <3>1. CASE type = "deposit"
      BY <1>3, <2>4, <3>1, EngineAddsOpenings DEF Replay, ApplyMerge, ApplyTransfer, Receive
    <3>2. CASE type = "transfer"
      <4>1. /\ DecryptIncoming(ev) = o /\ ev.from # Owner /\ ev.to = Owner
            /\ ev.type = "transfer"
        BY <1>2, <1>3, <2>4, <3>2 DEF DecryptIncoming
      <4>2. QED
        BY <4>1, EngineAddsOpenings DEF Replay, ApplyMerge, ApplyTransfer, Spend, Receive
    <3>3. QED
      BY <3>1, <3>2
  <2>6. Replay(StateOf(OnChain, Len(log) + 1), ev) = StateOf(after, Len(log) + 1)
    BY <1>2, <2>1, <2>5 DEF StateOf, Account
  <2>7. type \in EventType /\ 0 \in Nat /\ p \in Party
    BY <1>2 DEF EventType
  <2>8. type \in SpendKind /\ Owner \in {p, Owner} => s \in Sigma
    BY <1>3 DEF SpendKind
  <2>9. Emit(type, p, Owner, a, 0, s, after)
    BY <1>3, <2>1
  <2>10. QED
    BY <1>1, <1>2, <2>3, <2>4, <2>6, <2>7, <2>8, <2>9, LogGrowth
<1>4. ASSUME NEW p \in Peers, NEW a \in Amounts, PeerDeposit(p, a)
      PROVE  CreditInv'
  <2>1. [v |-> a, r |-> 0] \in Opening /\ a \in Nat
    BY AmountsAssumption, BasicOpenings
  <2>2. QED
    BY <1>3, <1>4, <2>1 DEF PeerDeposit
<1>5. ASSUME NEW p \in Peers, NEW a \in Amounts, FreshSigma # {},
             PeerTransfer(p, a, NextSigma)
      PROVE  CreditInv'
  <2>1. PICK s \in Sigma : s = NextSigma
    BY <1>5 DEF NextSigma, FreshSigma
  <2>2. [v |-> a, r |-> DeriveTxBlind(s)] \in Opening /\ a \in Nat
    BY AmountsAssumption, BasicOpenings
  <2>3. QED
    BY <1>3, <1>5, <2>1, <2>2 DEF PeerTransfer
<1>6. ASSUME NEW p \in Peers, NEW q \in Peers, NEW type \in PeerOps, PeerEvent(p, q, type)
      PROVE  CreditInv'
  <2>1. PICK ev : ev = [type |-> type, from |-> p, to |-> q, amount |-> 0,
                        vNew |-> 0, sigma |-> NoSigma, after |-> OnChain]
    OBVIOUS
  <2>2. type \in EventType /\ 0 \in Nat
    BY AmountsAssumption DEF EventType
  <2>3. Replay(StateOf(OnChain, Len(log) + 1), ev) = StateOf(OnChain, Len(log) + 1)
    BY <1>2, <2>1, <2>2
       DEF Replay, ApplyMerge, ApplyTransfer, Spend, Receive, EventType, StateOf, Account
  <2>4. QED
    BY <1>1, <1>2, <1>6, <2>1, <2>2, <2>3, LogGrowth DEF PeerEvent
<1>7. QED
  BY <1>4, <1>5, <1>6 DEF PeerStep

-----------------------------------------------------------------------------
(* The theorems. *)

LEMMA InitCreditInv == Init => CreditInv
<1> SUFFICES ASSUME Init PROVE CreditInv
  OBVIOUS
<1>1. log = <<>> /\ log \in Seq(Event) /\ Len(log) = 0 /\ MaxLog \in Nat
  BY AmountsAssumption DEF Init
<1>2. FreshState \in AccountState /\ TracksCredits(FreshState) /\ NoOp \in Tx
  BY <1>1, BlankMemory
<1>3. TypeOK
  BY <1>1, <1>2 DEF Init, EngineInit, TypeOK, PC, Outcome
<1>4. CreditsAppliedOnce
  BY <1>2 DEF Init, EngineInit, CreditsAppliedOnce
<1>5. LogIsReplayable /\ EventsCarryNonce
  <2>1. 1 .. Len(log) = {}
    BY <1>1
  <2>2. QED
    BY <2>1 DEF LogIsReplayable, EventsCarryNonce
<1>6. TxsAreSigned
  BY DEF Init, EngineInit, TxsAreSigned
<1>7. QED
  BY <1>1, <1>3, <1>4, <1>5, <1>6 DEF CreditInv, Init, EngineInit

LEMMA NextCreditInv == CreditInv /\ [Next]_vars => CreditInv'
<1> SUFFICES ASSUME CreditInv, [Next]_vars PROVE CreditInv'
  OBVIOUS
<1>1. ASSUME NEW t \in Session,
             Start(t) \/ EngineStep(t) \/ WalletStep(t)
               \/ ConfirmationTimesOut(t) \/ Crash(t)
      PROVE  CreditInv'
  BY <1>1, StartKeeps, EngineStepKeeps, WalletStepKeeps, AbandonKeeps
<1>2. CASE NetworkStep
  BY <1>2, NetworkStepKeeps
<1>3. CASE PeerStep
  BY <1>3, PeerStepKeeps
<1>4. CASE UNCHANGED vars
  BY <1>4 DEF CreditInv, TypeOK, CreditsAppliedOnce, TracksCredits, AccountAt,
     LogIsReplayable, EventsCarryNonce, TxsAreSigned, vars
<1>5. QED
  BY <1>1, <1>2, <1>3, <1>4 DEF Next

\* CreditInv holds in every reachable state of the wallet.
THEOREM CreditInvariance == Spec => []CreditInv
<1>1. QED
  BY InitCreditInv, NextCreditInv, PTL DEF Spec

\* Every variable keeps its type: log, stores, sessions, transactions in flight.
THEOREM TypeCorrectness == Spec => []TypeOK
<1>1. CreditInv => TypeOK
  BY DEF CreditInv
<1>2. QED
  BY <1>1, CreditInvariance, PTL

\* Replaying an event always does what the contract did, whoever made the
\* operation (apply, engine.ts:80-118, against the token contract).
THEOREM ReplayFollowsContract == Spec => []LogIsReplayable
<1>1. CreditInv => LogIsReplayable
  BY DEF CreditInv
<1>2. QED
  BY <1>1, CreditInvariance, PTL

\* No credit is lost or applied twice by any number of tabs and devices that
\* sync, spend, crash and overwrite each other's store (engine.ts:124-157).
THEOREM CreditsAreAppliedOnce == Spec => []CreditsAppliedOnce
<1>1. CreditInv => CreditsAppliedOnce
  BY DEF CreditInv
<1>2. QED
  BY <1>1, CreditInvariance, PTL

-----------------------------------------------------------------------------
(***************************************************************************)
(* The spendable opening, for any number of sessions that each have a      *)
(* store of their own (any number of devices of one account): it is on the *)
(* account's history, proofs are built from what the account has had, and  *)
(* Wallet implements AccountReplica.                                       *)
(*                                                                         *)
(* With a shared store none of this holds (wallet_lost_merge).             *)
(***************************************************************************)

-----------------------------------------------------------------------------
(* Sums of openings. *)

\* A blinding that addition modulo the group order leaves alone is zero.
LEMMA FpAddCancel ==
  ASSUME NEW G \in Nat \ {0}, NEW a \in 0 .. (G - 1), NEW b \in 0 .. (G - 1),
         (a + b) % G = a
  PROVE  b = 0
<1>1. CASE a + b < G
  <2>1. (a + b) % G = a + b
    BY <1>1
  <2>2. QED
    BY <2>1
<1>2. CASE a + b >= G
  <2>1. (a + b) % G = a + b - G
    BY <1>2
  <2>2. QED
    BY <2>1
<1>3. QED
  BY <1>1, <1>2

\* If adding c to one opening changes nothing, c is zero and changes no other.
LEMMA OpeningSumCancel ==
  ASSUME NEW o \in Opening, NEW c \in Opening, NEW s \in Opening,
         OpeningSum(o, c) = o
  PROVE  c = ZeroOpening /\ OpeningSum(s, c) = s
<1>1. GroupOrder \in Nat \ {0}
  BY BlindingAssumption
<1>2. /\ o.v \in Nat /\ c.v \in Nat /\ s.v \in Nat
      /\ o.r \in 0 .. (GroupOrder - 1) /\ c.r \in 0 .. (GroupOrder - 1)
      /\ s.r \in 0 .. (GroupOrder - 1)
      /\ c = [v |-> c.v, r |-> c.r] /\ s = [v |-> s.v, r |-> s.r]
  BY DEF Opening, Blinding
<1>3. o.v + c.v = o.v /\ (o.r + c.r) % GroupOrder = o.r
  BY DEF OpeningSum
<1>4. c.v = 0 /\ c.r = 0
  BY <1>1, <1>2, <1>3, FpAddCancel
<1>5. (s.r + 0) % GroupOrder = s.r
  BY <1>1, <1>2
<1>6. QED
  BY <1>2, <1>4, <1>5 DEF OpeningSum, ZeroOpening

-----------------------------------------------------------------------------
(* Replay of one event. *)

\* What an event does to the spendable opening depends on the two openings only.
LEMMA ReplaySpendable ==
  ASSUME NEW s \in AccountState, NEW u \in AccountState, NEW ev \in Event,
         s.spendable = u.spendable, s.receiving = u.receiving
  PROVE  Replay(s, ev).spendable = Replay(u, ev).spendable
<1>1. ev.type \in EventType
  BY DEF Event
<1>2. CASE ev.type = "register"
  BY <1>2 DEF Replay, ApplyMerge, ApplyTransfer, AccountState
<1>3. CASE ev.type = "deposit"
  BY <1>3 DEF Replay, ApplyMerge, ApplyTransfer, Receive, AccountState
<1>4. CASE ev.type = "merge"
  BY <1>4 DEF Replay, ApplyMerge, ApplyTransfer, AccountState
<1>5. CASE ev.type = "withdraw"
  BY <1>5 DEF Replay, ApplyMerge, ApplyTransfer, Spend, AccountState
<1>6. CASE ev.type = "transfer"
  BY <1>6 DEF Replay, ApplyMerge, ApplyTransfer, Spend, Receive, AccountState
<1>7. QED
  BY <1>1, <1>2, <1>3, <1>4, <1>5, <1>6 DEF EventType

IsSpend(ev) == ev.from = Owner /\ ev.type \in SpendKind

\* A spend of the Owner replaces the opening, whatever it was before.
LEMMA ReplaySpend ==
  ASSUME NEW s \in AccountState, NEW u \in AccountState, NEW ev \in Event, IsSpend(ev)
  PROVE  Replay(s, ev).spendable = Replay(u, ev).spendable
<1>1. CASE ev.type = "withdraw"
  BY <1>1 DEF IsSpend, Replay, ApplyMerge, ApplyTransfer, Spend, AccountState
<1>2. CASE ev.type = "transfer"
  BY <1>2 DEF IsSpend, Replay, ApplyMerge, ApplyTransfer, Spend, Receive, AccountState
<1>3. QED
  BY <1>1, <1>2 DEF IsSpend, SpendKind

\* An event that is no spend and leaves the opening of one state alone leaves
\* that of every state with the same receiving balance alone: if it is a merge,
\* there was nothing to merge.
LEMMA ReplayQuiet ==
  ASSUME NEW s \in AccountState, NEW u \in AccountState, NEW ev \in Event,
         s.receiving = u.receiving, ~IsSpend(ev),
         Replay(u, ev).spendable = u.spendable
  PROVE  Replay(s, ev).spendable = s.spendable
<1>1. ev.type \in EventType
  BY DEF Event
<1>2. CASE ev.type = "register"
  BY <1>2 DEF Replay, ApplyMerge, ApplyTransfer, AccountState
<1>3. CASE ev.type = "deposit"
  BY <1>3 DEF Replay, ApplyMerge, ApplyTransfer, Receive, AccountState
<1>4. CASE ev.type = "merge"
  <2>1. CASE ev.from # Owner
    BY <1>4, <2>1 DEF Replay, ApplyMerge, ApplyTransfer
  <2>2. CASE ev.from = Owner
    <3>1. /\ Replay(u, ev).spendable = OpeningSum(u.spendable, u.receiving)
          /\ Replay(s, ev).spendable = OpeningSum(s.spendable, s.receiving)
      BY <1>4, <2>2, EngineAddsOpenings DEF Replay, ApplyMerge, ApplyTransfer, AccountState
    <3>2. /\ s.spendable \in Opening /\ u.spendable \in Opening
          /\ u.receiving \in Opening
      BY DEF AccountState
    <3>3. QED
      BY <3>1, <3>2, OpeningSumCancel
  <2>3. QED
    BY <2>1, <2>2
<1>5. CASE ev.type = "withdraw"
  BY <1>5 DEF IsSpend, SpendKind, Replay, ApplyMerge, ApplyTransfer, Spend
<1>6. CASE ev.type = "transfer"
  BY <1>6 DEF IsSpend, SpendKind, Replay, ApplyMerge, ApplyTransfer, Spend, Receive, AccountState
<1>7. QED
  BY <1>1, <1>2, <1>3, <1>4, <1>5, <1>6 DEF EventType

-----------------------------------------------------------------------------
(* What tracks the spendable opening, and what keeps it so. *)

\* TracksSpendable for one witness position.
Shows(s, j) ==
  /\ s.spendable = AccountAt(j).spendable
  /\ \A i \in s.pos + 1 .. j :
       OwnerSpend(i) \/ AccountAt(i).spendable = AccountAt(i - 1).spendable

\* A replayed event brings a copy from one position to the next.
LEMMA ReplayTracksSpendable ==
  ASSUME CreditInv, NEW s \in AccountState, TracksCredits(s), TracksSpendable(s),
         s.pos < Len(log),
         NEW r, r = [Replay(s, log[s.pos + 1]) EXCEPT !.pos = s.pos + 1]
  PROVE  TracksSpendable(r) /\ r.pos = s.pos + 1
<1>0. s.pos \in Nat /\ log \in Seq(Event) /\ Len(log) \in Nat
  BY DEF AccountState, CreditInv, TypeOK
<1> PICK i \in 1 .. Len(log) : i = s.pos + 1
  BY <1>0
<1> PICK ev \in Event : ev = log[i]
  BY <1>0
<1>1. r \in AccountState /\ r.pos = i
  BY <1>0, ReplayTracks DEF AccountState
<1>2. r.spendable = Replay(s, ev).spendable
  <2>1. Replay(s, ev) \in AccountState
    <3>1. ev.type \in SpendKind /\ Concerns(ev) => ev.sigma \in Sigma
      BY DEF CreditInv, EventsCarryNonce, Concerns
    <3>2. QED
      BY <3>1, ReplayType
  <2>2. QED
    BY <2>1 DEF AccountState
<1>3. PICK u : u = StateOf(AccountAt(s.pos), i)
  OBVIOUS
<1>4. /\ u \in AccountState /\ u.receiving = s.receiving
      /\ u.spendable = AccountAt(s.pos).spendable
  <2>1. AccountAt(s.pos) \in Account
    BY <1>0, AccountAtType
  <2>2. QED
    BY <1>3, <2>1 DEF StateOf, AccountState, Account, TracksCredits
<1>5. Replay(u, ev).spendable = AccountAt(i).spendable
  <2>1. Replay(StateOf(AccountAt(i - 1), i), log[i]) = StateOf(AccountAt(i), i)
    BY DEF CreditInv, LogIsReplayable
  <2>2. i - 1 = s.pos
    BY <1>0
  <2>3. QED
    BY <1>3, <2>1, <2>2 DEF StateOf
<1>6. PICK j \in s.pos .. Len(log) : Shows(s, j)
  BY DEF TracksSpendable, Shows
<1>7. ASSUME r.spendable = AccountAt(i).spendable
      PROVE  TracksSpendable(r)
  <2>1. i + 1 .. i = {}
    OBVIOUS
  <2>2. i \in r.pos .. Len(log)
    BY <1>1
  <2>3. QED
    BY <1>1, <1>7, <2>1, <2>2 DEF TracksSpendable
<1>8. CASE j = s.pos
  <2>1. Replay(s, ev).spendable = Replay(u, ev).spendable
    BY <1>4, <1>6, <1>8, ReplaySpendable DEF Shows
  <2>2. QED
    BY <1>2, <1>5, <1>7, <2>1
<1>9. CASE IsSpend(ev)
  <2>1. Replay(s, ev).spendable = Replay(u, ev).spendable
    BY <1>4, <1>9, ReplaySpend
  <2>2. QED
    BY <1>2, <1>5, <1>7, <2>1
<1>10. CASE j # s.pos /\ ~IsSpend(ev)
  <2>1. j \in i .. Len(log)
    BY <1>0, <1>10
  <2>2. AccountAt(i).spendable = AccountAt(i - 1).spendable
    <3>1. ~OwnerSpend(i)
      BY <1>10 DEF OwnerSpend, IsSpend
    <3>2. i \in s.pos + 1 .. j
      BY <2>1
    <3>3. QED
      BY <1>6, <3>1, <3>2 DEF Shows
  <2>3. Replay(u, ev).spendable = u.spendable
    <3>1. i - 1 = s.pos
      BY <1>0
    <3>2. QED
      BY <1>4, <1>5, <2>2, <3>1
  <2>4. r.spendable = AccountAt(j).spendable
    BY <1>2, <1>4, <1>6, <1>10, <2>3, ReplayQuiet DEF Shows
  <2>5. \A k \in i + 1 .. j :
          OwnerSpend(k) \/ AccountAt(k).spendable = AccountAt(k - 1).spendable
    BY <1>6 DEF Shows
  <2>6. QED
    BY <1>1, <2>1, <2>4, <2>5 DEF TracksSpendable
<1>11. QED
  BY <1>1, <1>8, <1>9, <1>10

\* What has been said of the account's past stays said when the log grows.
LEMMA GrowthTracks ==
  ASSUME log \in Seq(Event), log' \in Seq(Event), Len(log') = Len(log) + 1,
         \A i \in 1 .. Len(log) : log'[i] = log[i]
  PROVE  \A s \in AccountState : TracksSpendable(s) => TracksSpendable(s)'
<1>1. \A i \in 0 .. Len(log) : AccountAt(i)' = AccountAt(i)
  BY DEF AccountAt
<1>2. \A i \in 1 .. Len(log) : OwnerSpend(i)' <=> OwnerSpend(i)
  BY DEF OwnerSpend
<1>3. ASSUME NEW s \in AccountState, TracksSpendable(s)
      PROVE  TracksSpendable(s)'
  <2>1. s.pos \in Nat /\ Len(log) \in Nat
    BY DEF AccountState
  <2>2. PICK j \in s.pos .. Len(log) : Shows(s, j)
    BY <1>3 DEF TracksSpendable, Shows
  <2>3. j \in s.pos .. Len(log') /\ s.spendable = AccountAt(j)'.spendable
    BY <1>1, <2>1, <2>2 DEF Shows
  <2>4. ASSUME NEW i \in s.pos + 1 .. j
        PROVE  OwnerSpend(i)' \/ AccountAt(i)'.spendable = AccountAt(i - 1)'.spendable
    <3>1. i \in 1 .. Len(log) /\ i - 1 \in 0 .. Len(log) /\ i \in 0 .. Len(log)
      BY <2>1
    <3>2. QED
      BY <1>1, <1>2, <2>2, <3>1 DEF Shows
  <2>5. QED
    BY <2>3, <2>4 DEF TracksSpendable
<1>4. QED
  BY <1>3

\* The heart: a spend that was built from the opening of s and is executed now
\* leaves an opening to which only spends have led from s.  The opening it was
\* built from is still (hence has been all along) the one on chain.
LEMMA SpendLandsAhead ==
  ASSUME CreditInv, SpendableNeverRecurs,
         NEW s \in AccountState, TracksSpendable(s),
         NEW x \in Tx, x.kind \in SpendKind, x.spent = s.spendable, Accepts(x),
         Execute(x), Len(log') = Len(log) + 1,
         \A i \in 1 .. Len(log) : log'[i] = log[i],
         log'[Len(log) + 1] = TxEvent(OnChain, x),
         log' \in Seq(Event),
         NEW r \in AccountState, r = [s EXCEPT !.spendable = x.next]
  PROVE  TracksSpendable(r)'
<1>1. log \in Seq(Event) /\ Len(log) \in Nat /\ s.pos \in Nat
  BY DEF CreditInv, TypeOK, AccountState
<1> PICK n \in Nat : n = Len(log)
  BY <1>1
<1>2. PICK j \in s.pos .. n : Shows(s, j)
  BY DEF TracksSpendable, Shows
<1>3. s.spendable = AccountAt(n).spendable
  BY DEF Accepts, AcceptsAt, OnChain, SpendKind
<1>4. \A k \in j .. n : AccountAt(k).spendable = s.spendable
  <2>1. ASSUME NEW k \in j .. n, k # j, k # n
        PROVE  AccountAt(k).spendable = AccountAt(j).spendable
    <3>1. j \in 0 .. n /\ k \in 0 .. n /\ n \in 0 .. n /\ j < k /\ k < n
      BY <1>1, <2>1
    <3>2. AccountAt(j).spendable = AccountAt(n).spendable
      BY <1>2, <1>3 DEF Shows
    <3>3. QED
      BY <3>1, <3>2 DEF SpendableNeverRecurs
  <2>2. QED
    BY <1>2, <1>3, <2>1 DEF Shows
<1>5. \A i \in 0 .. n : AccountAt(i)' = AccountAt(i)
  BY <1>1 DEF AccountAt
<1>6. AccountAt(n + 1)'.spendable = x.next
  <2>1. AccountAt(n + 1)' = AfterTx(OnChain, x)
    BY DEF AccountAt, TxEvent
  <2>2. OnChain \in Account
    BY OnChainType
  <2>3. CASE x.kind = "withdraw"
    BY <2>1, <2>2, <2>3 DEF AfterTx, Account
  <2>4. CASE x.kind = "transfer"
    BY <2>1, <2>2, <2>4 DEF AfterTx, Credited, Account
  <2>5. QED
    BY <2>3, <2>4 DEF SpendKind
<1>7. OwnerSpend(n + 1)'
  BY DEF OwnerSpend, TxEvent
<1>8. ASSUME NEW i \in s.pos + 1 .. n + 1
      PROVE  OwnerSpend(i)' \/ AccountAt(i)'.spendable = AccountAt(i - 1)'.spendable
  <2>1. CASE i = n + 1
    BY <1>7, <2>1
  <2>2. CASE i \in s.pos + 1 .. j
    <3>1. i \in 1 .. n /\ i \in 0 .. n /\ i - 1 \in 0 .. n
      BY <1>1, <2>2
    <3>2. OwnerSpend(i)' <=> OwnerSpend(i)
      BY <3>1 DEF OwnerSpend
    <3>3. QED
      BY <1>2, <1>5, <2>2, <3>1, <3>2 DEF Shows
  <2>3. CASE i \in j + 1 .. n
    <3>1. i \in 0 .. n /\ i - 1 \in 0 .. n /\ i \in j .. n /\ i - 1 \in j .. n
      BY <1>1, <2>3
    <3>2. QED
      BY <1>4, <1>5, <3>1
  <2>4. QED
    BY <1>1, <2>1, <2>2, <2>3
<1>9. r.spendable = x.next /\ r.pos = s.pos /\ n + 1 \in r.pos .. Len(log')
  BY <1>1 DEF AccountState
<1>10. QED
  BY <1>6, <1>8, <1>9 DEF TracksSpendable

-----------------------------------------------------------------------------
(* Steps that leave the log alone. *)

LEMMA TracksStable ==
  ASSUME UNCHANGED log
  PROVE  \A s \in AccountState : TracksSpendable(s)' <=> TracksSpendable(s)
<1>1. \A i : AccountAt(i)' = AccountAt(i)
  BY DEF AccountAt
<1>2. \A i : OwnerSpend(i)' <=> OwnerSpend(i)
  BY DEF OwnerSpend
<1>3. QED
  BY <1>1, <1>2 DEF TracksSpendable

\* What the invariant says of a session whose memory and store do not change.
LEMMA BystanderStays ==
  ASSUME CreditInv, SpendInv, NEW u \in Session,
         \A s \in AccountState : TracksSpendable(s) => TracksSpendable(s)',
         pc'[u] = pc[u], op'[u] = op[u], local'[u] = local[u],
         store'[ProfileOf[u]] = store[ProfileOf[u]],
         outcome'[u] = "success" => outcome[u] = "success"
  PROVE  Grounded(pc[u], op[u], local[u], store[ProfileOf[u]], outcome[u])'
<1>1. Grounded(pc[u], op[u], local[u], store[ProfileOf[u]], outcome[u])
  BY DEF SpendInv
<1>2. PICK l \in AccountState, x \in Tx : l = local[u] /\ x = op[u]
  BY SessionFacts
<1>3. PICK r \in AccountState : r = [l EXCEPT !.spendable = x.next]
  BY DEF AccountState, Tx
<1>4. TracksSpendable(l)'
  BY <1>1, <1>2 DEF Grounded
<1>5. TracksSpendable(r) => TracksSpendable(r)'
  OBVIOUS
<1>6. /\ TracksSpendable(local[u])' <=> TracksSpendable(l)'
      /\ TracksSpendable([local[u] EXCEPT !.spendable = op[u].next])' <=> TracksSpendable(r)'
      /\ TracksSpendable([local[u] EXCEPT !.spendable = op[u].next]) <=> TracksSpendable(r)
  BY <1>2, <1>3 DEF TracksSpendable
<1>7. QED
  BY <1>1, <1>4, <1>5, <1>6 DEF Grounded

\* Session t goes to c with copy l and operation x, its store to s.  Whatever it
\* has in flight it waits for.
StepTo(t, c, l, x, s, out) ==
  /\ UNCHANGED log
  /\ pc' = [pc EXCEPT ![t] = c]
  /\ local' = [local EXCEPT ![t] = l]
  /\ op' = [op EXCEPT ![t] = x]
  /\ store' = [store EXCEPT ![ProfileOf[t]] = s]
  /\ outcome' = [outcome EXCEPT ![t] = out]
  /\ \A e \in pool' : \/ e \in pool /\ e.session # t
                      \/ e.session \notin Session
                      \/ e.session = t /\ c = "polling" /\ x = e.tx /\ out = "pending"

\* A step of one session: its new memory and its new store are grounded.
LEMMA SpendUpdate ==
  ASSUME CreditInv, SpendInv, StoresAreOwn,
         NEW t \in Session, NEW c, NEW l \in AccountState, NEW x \in Tx,
         NEW s \in AccountState, NEW out, StepTo(t, c, l, x, s, out),
         TracksSpendable(s), Grounded(c, x, l, s, out)
  PROVE  SpendInv'
<1>0. /\ UNCHANGED log
      /\ pc' = [pc EXCEPT ![t] = c]
      /\ local' = [local EXCEPT ![t] = l]
      /\ op' = [op EXCEPT ![t] = x]
      /\ store' = [store EXCEPT ![ProfileOf[t]] = s]
      /\ outcome' = [outcome EXCEPT ![t] = out]
      /\ \A e \in pool' : \/ e \in pool /\ e.session # t
                          \/ e.session \notin Session
                          \/ e.session = t /\ c = "polling" /\ x = e.tx /\ out = "pending"
  BY DEF StepTo
<1>1. \A a \in AccountState : TracksSpendable(a)' <=> TracksSpendable(a)
  BY <1>0, TracksStable
<1>2. /\ pc \in [Session -> PC] /\ local \in [Session -> AccountState]
      /\ op \in [Session -> Tx] /\ store \in [Profile -> AccountState]
      /\ outcome \in [Session -> Outcome] /\ \A u \in Session : ProfileOf[u] \in Profile
  BY ProfileAssumption DEF CreditInv, TypeOK
<1>3. SpendableIsOnHistory'
  <2>1. ASSUME NEW p \in Profile PROVE TracksSpendable(store[p])'
    <3>1. PICK a \in AccountState : a = store'[p]
      BY <1>0, <1>2
    <3>2. a = s \/ a = store[p]
      BY <1>0, <1>2, <3>1
    <3>3. TracksSpendable(a)
      BY <3>2 DEF SpendInv, SpendableIsOnHistory
    <3>4. QED
      BY <1>1, <3>1, <3>3 DEF TracksSpendable
  <2>2. QED
    BY <2>1 DEF SpendableIsOnHistory
<1>4. ASSUME NEW u \in Session
      PROVE  Grounded(pc[u], op[u], local[u], store[ProfileOf[u]], outcome[u])'
  <2>1. CASE u = t
    <3>1. /\ pc'[u] = c /\ op'[u] = x /\ local'[u] = l /\ store'[ProfileOf[u]] = s
          /\ outcome'[u] = out
      BY <1>0, <1>2, <2>1
    <3>2. PICK r \in AccountState : r = [l EXCEPT !.spendable = x.next]
      BY DEF AccountState, Tx
    <3>3. /\ TracksSpendable(local[u])' <=> TracksSpendable(l)'
          /\ TracksSpendable([local[u] EXCEPT !.spendable = op[u].next])' <=> TracksSpendable(r)'
          /\ TracksSpendable([l EXCEPT !.spendable = x.next]) <=> TracksSpendable(r)
      BY <3>1, <3>2 DEF TracksSpendable
    <3>4. QED
      BY <1>1, <3>1, <3>3 DEF Grounded
  <2>2. CASE u # t
    <3>1. ProfileOf[u] # ProfileOf[t]
      BY <2>2 DEF StoresAreOwn
    <3>2. /\ pc'[u] = pc[u] /\ op'[u] = op[u] /\ local'[u] = local[u]
          /\ store'[ProfileOf[u]] = store[ProfileOf[u]] /\ outcome'[u] = outcome[u]
      BY <1>0, <1>2, <2>2, <3>1
    <3>3. QED
      BY <1>1, <3>2, BystanderStays
  <2>3. QED
    BY <2>1, <2>2
<1>5. ASSUME NEW e \in pool' PROVE Awaited(e)'
  <2>1. CASE e.session = t /\ c = "polling" /\ x = e.tx /\ out = "pending"
    BY <1>0, <1>2, <2>1 DEF Awaited
  <2>2. CASE e \in pool /\ e.session # t
    <3>1. Awaited(e)
      BY <2>2 DEF SpendInv
    <3>2. QED
      BY <1>0, <1>2, <2>2, <3>1 DEF Awaited
  <2>3. CASE e.session \notin Session
    BY <2>3 DEF Awaited
  <2>4. QED
    BY <1>0, <2>1, <2>2, <2>3
<1>6. QED
  BY <1>3, <1>4, <1>5 DEF SpendInv

\* What the invariant says of one session, in the form the steps use.
LEMMA SpendFacts ==
  ASSUME CreditInv, SpendInv, NEW t \in Session
  PROVE  /\ Grounded(pc[t], op[t], local[t], store[ProfileOf[t]], outcome[t])
         /\ TracksSpendable(local[t])
         /\ TracksSpendable(store[ProfileOf[t]])
         /\ store[ProfileOf[t]] \in AccountState
         /\ store = [store EXCEPT ![ProfileOf[t]] = store[ProfileOf[t]]]
         /\ outcome[t] \in Outcome
         /\ outcome = [outcome EXCEPT ![t] = outcome[t]]
         /\ pc[t] # "polling" \/ outcome[t] # "pending" =>
              \A e \in pool : e.session # t
<1>1. /\ Grounded(pc[t], op[t], local[t], store[ProfileOf[t]], outcome[t])
      /\ TracksSpendable(local[t])
  BY DEF SpendInv, Grounded
<1>2. TypeOK /\ ProfileOf[t] \in Profile
  BY ProfileAssumption DEF CreditInv
<1>3. /\ TracksSpendable(store[ProfileOf[t]])
      /\ store[ProfileOf[t]] \in AccountState
      /\ store = [store EXCEPT ![ProfileOf[t]] = store[ProfileOf[t]]]
  BY <1>2 DEF SpendInv, SpendableIsOnHistory, TypeOK
<1>4. outcome[t] \in Outcome /\ outcome = [outcome EXCEPT ![t] = outcome[t]]
  BY <1>2 DEF TypeOK
<1>5. ASSUME NEW e \in pool, e.session = t
      PROVE  pc[t] = "polling" /\ outcome[t] = "pending"
  BY <1>5 DEF SpendInv, Awaited
<1>6. QED
  BY <1>1, <1>3, <1>4, <1>5

LEMMA FreshIsGrounded ==
  ASSUME log \in Seq(Event)
  PROVE  /\ TracksSpendable(FreshState)
         /\ NoOp.kind \notin SpendKind
<1>1. FreshState.pos = 0 /\ FreshState.spendable = AccountAt(0).spendable
  BY DEF FreshState, AccountAt
<1>2. 0 \in 0 .. Len(log) /\ 0 + 1 .. 0 = {}
  OBVIOUS
<1>3. TracksSpendable(FreshState)
  BY <1>1, <1>2 DEF TracksSpendable
<1>4. QED
  BY <1>3 DEF NoOp, Draft, SpendKind

\* Ending the operation of a session that has nothing in flight it waits for.
LEMMA ForgetGrounds ==
  ASSUME CreditInv, SpendInv, StoresAreOwn, NEW t \in Session,
         Forget(t), UNCHANGED <<log, store>>,
         NEW out, outcome' = [outcome EXCEPT ![t] = out],
         \A e \in pool' : (e \in pool /\ e.session # t) \/ e.session \notin Session
  PROVE  SpendInv'
<1>1. /\ FreshState \in AccountState /\ NoOp \in Tx
      /\ TracksSpendable(FreshState) /\ NoOp.kind \notin SpendKind
  BY SessionFacts, BlankMemory, FreshIsGrounded
<1>2. PICK s \in AccountState : s = store[ProfileOf[t]]
  BY SpendFacts
<1>3. TracksSpendable(s) /\ store' = [store EXCEPT ![ProfileOf[t]] = s]
  BY <1>2, SpendFacts
<1>4. Grounded("idle", NoOp, FreshState, s, out)
  BY <1>1 DEF Grounded
<1>5. StepTo(t, "idle", FreshState, NoOp, s, out)
  BY <1>3 DEF Forget, StepTo
<1>6. QED
  BY <1>1, <1>3, <1>4, <1>5, SpendUpdate

-----------------------------------------------------------------------------
(* The steps of a session. *)

LEMMA StartGrounds ==
  ASSUME CreditInv, SpendInv, StoresAreOwn, NEW t \in Session, Start(t)
  PROVE  SpendInv'
<1> PICK s \in AccountState, out \in Outcome : s = store[ProfileOf[t]] /\ out = outcome[t]
  BY SpendFacts
<1>1. TracksSpendable(s) /\ store = [store EXCEPT ![ProfileOf[t]] = s]
      /\ outcome = [outcome EXCEPT ![t] = out]
  BY SpendFacts
<1>2. ASSUME NEW x \in Tx, BeginSync(t, x), pc[t] \in {"idle", "refreshing"},
             UNCHANGED <<pool, outcome>>
      PROVE  SpendInv'
  <2>1. Grounded("fetching", x, s, s, out)
    BY <1>1, SessionFacts DEF Grounded, AccountState
  <2>2. \A e \in pool : e.session # t
    BY <1>2, SpendFacts
  <2>3. StepTo(t, "fetching", s, x, s, out)
    BY <1>1, <1>2, <2>2 DEF BeginSync, StepTo
  <2>4. QED
    BY <1>1, <2>1, <2>3, SpendUpdate
<1>3. ASSUME NEW x \in Tx, x.kind \notin SpendKind, StartDirect(t, x)
      PROVE  SpendInv'
  <2>1. PICK l \in AccountState : l = local[t]
    BY SessionFacts
  <2>2. Grounded("proving", x, l, s, out)
    BY <1>3, <2>1, SpendFacts DEF Grounded
  <2>3. \A e \in pool : e.session # t
    BY <1>3, SpendFacts DEF StartDirect, Goto
  <2>4. local = [local EXCEPT ![t] = l]
    BY <2>1, SessionFacts
  <2>5. StepTo(t, "proving", l, x, s, out)
    BY <1>1, <1>3, <2>3, <2>4 DEF StartDirect, Goto, StepTo
  <2>6. QED
    BY <1>1, <2>2, <2>5, SpendUpdate
<1>4. /\ NoOp \in Tx
      /\ \A kind \in TxKind, to \in Party, a \in Nat :
           Draft(kind, to, a) \in Tx /\ Draft(kind, to, a).kind = kind
  BY SessionFacts, BlankMemory DEF Draft
<1>5. CASE StartRefresh(t)
  BY <1>2, <1>4, <1>5 DEF StartRefresh
<1>6. ASSUME NEW kind \in SpendKind, NEW to \in Party, NEW a \in Amounts,
             StartSpend(t, kind, to, a)
      PROVE  SpendInv'
  BY <1>2, <1>4, <1>6, AmountsAssumption DEF StartSpend, TxKind
<1>7. ASSUME NEW kind \in {"register", "merge"}, StartDirect(t, Draft(kind, Owner, 0))
      PROVE  SpendInv'
  BY <1>3, <1>4, <1>7 DEF TxKind, Party, SpendKind
<1>8. ASSUME NEW a \in Amounts,
             StartDirect(t, [Draft("deposit", Owner, a) EXCEPT !.credit = [v |-> a, r |-> 0]])
      PROVE  SpendInv'
  <2>1. PICK x : x = [Draft("deposit", Owner, a) EXCEPT !.credit = [v |-> a, r |-> 0]]
    OBVIOUS
  <2>2. a \in Nat /\ [v |-> a, r |-> 0] \in Opening
    BY AmountsAssumption, BasicOpenings
  <2>3. Draft("deposit", Owner, a) \in Tx /\ Draft("deposit", Owner, a).kind = "deposit"
    BY <1>4, <2>2 DEF TxKind, Party
  <2>4. x \in Tx /\ x.kind \notin SpendKind
    BY <2>1, <2>2, <2>3 DEF Tx, SpendKind
  <2>5. QED
    BY <1>3, <1>8, <2>1, <2>4
<1>9. QED
  BY <1>5, <1>6, <1>7, <1>8 DEF Start

LEMMA EngineStepGrounds ==
  ASSUME CreditInv, SpendInv, StoresAreOwn, NEW t \in Session, EngineStep(t)
  PROVE  SpendInv'
<1> PICK s \in AccountState, l \in AccountState, x \in Tx, out \in Outcome :
       s = store[ProfileOf[t]] /\ l = local[t] /\ x = op[t] /\ out = outcome[t]
  BY SpendFacts, SessionFacts
<1>1. /\ Grounded(pc[t], x, l, s, out)
      /\ TracksSpendable(s) /\ TracksSpendable(l)
      /\ store = [store EXCEPT ![ProfileOf[t]] = s]
      /\ local = [local EXCEPT ![t] = l]
      /\ op = [op EXCEPT ![t] = x]
      /\ UNCHANGED <<pool, outcome>>
      /\ outcome' = [outcome EXCEPT ![t] = out]
      /\ s.pos \in Nat /\ l.pos \in Nat
  BY SpendFacts, SessionFacts DEF EngineStep, AccountState
<1>2. pc[t] # "polling" => \A e \in pool : e.session # t
  BY SpendFacts
<1>4. ASSUME NEW n \in 0 .. Len(log), Fetch(t, n)
      PROVE  SpendInv'
  <2>1. Grounded("applying", x, l, s, out)
    BY <1>1, <1>4 DEF Fetch, Goto, Grounded
  <2>2. StepTo(t, "applying", l, x, s, out)
    BY <1>1, <1>2, <1>4 DEF Fetch, Goto, StepTo
  <2>3. QED
    BY <1>1, <2>1, <2>2, SpendUpdate
<1>5. CASE ApplyEvent(t)
  <2>1. PICK r : r = [Replay(l, log[l.pos + 1]) EXCEPT !.pos = l.pos + 1]
    OBVIOUS
  <2>2. TracksCredits(l) /\ l.pos < Len(log)
    BY <1>1, <1>5, SessionFacts DEF ApplyEvent
  <2>3. r \in AccountState /\ TracksSpendable(r) /\ r.pos = l.pos + 1
    BY <1>1, <2>1, <2>2, ReplayTracks, ReplayTracksSpendable
  <2>4. Grounded("applying", x, r, s, out)
    BY <1>1, <1>5, <2>3 DEF Grounded, ApplyEvent
  <2>5. local' = [local EXCEPT ![t] = r] /\ UNCHANGED <<log, store, pc, op>>
    BY <1>5, <2>1 DEF ApplyEvent
  <2>6. pc[t] = "applying" /\ pc' = [pc EXCEPT ![t] = "applying"]
    BY <1>5, <2>5, SessionFacts DEF ApplyEvent
  <2>7. StepTo(t, "applying", r, x, s, out)
    BY <1>1, <1>2, <2>5, <2>6 DEF StepTo
  <2>8. QED
    BY <1>1, <2>3, <2>4, <2>7, SpendUpdate
<1>6. CASE SaveSync(t)
  <2>1. PICK c : c = AfterSync(t)
    OBVIOUS
  <2>2. c \in {"verifying", "synced"}
    BY <2>1 DEF AfterSync
  <2>3. Grounded(c, x, l, l, out)
    BY <1>1, <2>2 DEF Grounded
  <2>4. /\ store' = [store EXCEPT ![ProfileOf[t]] = l]
        /\ pc' = [pc EXCEPT ![t] = c] /\ UNCHANGED <<local, op, log>>
        /\ pc[t] = "applying"
    BY <1>6, <2>1 DEF SaveSync
  <2>5. StepTo(t, c, l, x, l, out)
    BY <1>1, <1>2, <2>4 DEF StepTo
  <2>6. QED
    BY <1>1, <2>3, <2>5, SpendUpdate
<1>7. CASE PatchLoad(t)
  <2>1. Grounded("patching", x, s, s, out)
    BY <1>1, <1>7 DEF PatchLoad, Goto, Grounded
  <2>2. StepTo(t, "patching", s, x, s, out)
    BY <1>1, <1>2, <1>7 DEF PatchLoad, Goto, StepTo
  <2>3. QED
    BY <1>1, <2>1, <2>2, SpendUpdate
<1>8. CASE PatchSave(t)
  <2>1. PICK r : r = [l EXCEPT !.spendable = x.next]
    OBVIOUS
  <2>2. r \in AccountState /\ TracksSpendable(r)
    BY <1>1, <1>8, <2>1 DEF PatchSave, SavePatched, Goto, Grounded, AccountState, Tx
  <2>3. /\ FreshState \in AccountState /\ NoOp \in Tx
        /\ TracksSpendable(FreshState) /\ NoOp.kind \notin SpendKind
    BY SessionFacts, BlankMemory, FreshIsGrounded
  <2>4. Grounded("refreshing", NoOp, FreshState, r, out)
    BY <2>3 DEF Grounded
  <2>5. StepTo(t, "refreshing", FreshState, NoOp, r, out)
    BY <1>1, <1>2, <1>8, <2>1 DEF PatchSave, SavePatched, Goto, StepTo
  <2>6. QED
    BY <1>1, <2>2, <2>3, <2>4, <2>5, SpendUpdate
<1>9. CASE VerifyLoad(t)
  <2>1. Grounded("comparing", x, s, s, out)
    BY <1>1 DEF Grounded
  <2>2. StepTo(t, "comparing", s, x, s, out)
    BY <1>1, <1>2, <1>9 DEF VerifyLoad, Goto, StepTo
  <2>3. QED
    BY <1>1, <2>1, <2>2, SpendUpdate
<1>10. CASE SkipVerify(t) \/ ReportMatch(t) \/ ReportMismatch(t) \/ ReadFails(t)
  <2>1. Forget(t) /\ UNCHANGED <<log, store>> /\ pc[t] # "polling"
    BY <1>10 DEF SkipVerify, ReportMatch, ReportMismatch, ReportMismatchAt, ReadFails
  <2>2. QED
    BY <1>1, <1>2, <2>1, ForgetGrounds
<1>11. QED
  BY <1>4, <1>5, <1>6, <1>7, <1>8, <1>9, <1>10 DEF EngineStep

LEMMA WalletStepGrounds ==
  ASSUME CreditInv, SpendInv, StoresAreOwn, NEW t \in Session, WalletStep(t)
  PROVE  SpendInv'
<1> PICK s \in AccountState, l \in AccountState, x \in Tx, out \in Outcome :
       s = store[ProfileOf[t]] /\ l = local[t] /\ x = op[t] /\ out = outcome[t]
  BY SpendFacts, SessionFacts
<1>1. /\ Grounded(pc[t], x, l, s, out)
      /\ TracksSpendable(s) /\ TracksSpendable(l)
      /\ store = [store EXCEPT ![ProfileOf[t]] = s]
      /\ local = [local EXCEPT ![t] = l]
      /\ op = [op EXCEPT ![t] = x]
      /\ outcome = [outcome EXCEPT ![t] = out]
  BY SpendFacts, SessionFacts
<1>2. pc[t] # "polling" \/ out # "pending" => \A e \in pool : e.session # t
  BY SpendFacts
<1>3. CASE BuildWitness(t)
  <2>1. PICK w : w = Witness(x, l, NextSigma)
    OBVIOUS
  <2>2. x.kind \in SpendKind /\ x.amount <= l.spendable.v /\ NextSigma \in Sigma
    <3>1. NextSigma \in Sigma
      BY <1>3 DEF BuildWitness, NextSigma, FreshSigma
    <3>2. pc[t] = "synced" /\ l.spendable.v >= x.amount
      BY <1>3 DEF BuildWitness, Goto
    <3>3. l.spendable.v \in Nat /\ x.amount \in Nat
      BY DEF AccountState, Opening, Tx
    <3>4. x.kind \in SpendKind
      <4>1. SessionFits(pc[t], op[t])
        BY SessionFacts
      <4>2. QED
        BY <3>2, <4>1 DEF SessionFits
    <3>5. x.amount <= l.spendable.v
      BY <3>2, <3>3
    <3>6. QED
      BY <3>1, <3>4, <3>5
  <2>3. w \in Tx /\ w.spent = l.spendable
    <3>1. w \in Tx
      BY <2>1, <2>2, WitnessIsSigned
    <3>2. QED
      BY <2>1, <3>1 DEF Witness, Tx
  <2>4. Grounded("proving", w, l, s, out)
    <3>1. l = s
      BY <1>1, <1>3, <2>2 DEF BuildWitness, Goto, Grounded
    <3>2. QED
      BY <1>1, <2>3, <3>1 DEF Grounded
  <2>5. StepTo(t, "proving", l, w, s, out)
    BY <1>1, <1>2, <1>3, <2>1 DEF BuildWitness, Goto, StepTo
  <2>6. QED
    BY <1>1, <2>3, <2>4, <2>5, SpendUpdate
<1>4. CASE InsufficientBalance(t) \/ SimulationFails(t)
  <2>1. Forget(t) /\ UNCHANGED <<log, store, pool, outcome>> /\ pc[t] # "polling"
    BY <1>4 DEF InsufficientBalance, SimulationFails
  <2>2. QED
    BY <1>1, <1>2, <2>1, ForgetGrounds
<1>5. CASE Submit(t)
  <2>1. Grounded("polling", x, l, s, "pending")
    BY <1>1, <1>5 DEF Submit, Goto, Grounded
  <2>2. ASSUME NEW e \in pool'
        PROVE  \/ e \in pool /\ e.session # t
               \/ e.session = t /\ x = e.tx
    <3>1. pc[t] # "polling"
      BY <1>5 DEF Submit, Goto
    <3>2. pool' = pool \cup {[session |-> t, tx |-> x]}
      BY <1>5 DEF Submit
    <3>3. CASE e \in pool
      BY <1>2, <3>1, <3>3
    <3>4. CASE e = [session |-> t, tx |-> x]
      BY <3>4
    <3>5. QED
      BY <3>2, <3>3, <3>4
  <2>3. StepTo(t, "polling", l, x, s, "pending")
    BY <1>1, <1>5, <2>2 DEF Submit, Goto, StepTo
  <2>4. QED
    BY <1>1, <2>1, <2>3, SpendUpdate
<1>6. CASE Confirm(t)
  <2>1. out = "success" /\ \A e \in pool : e.session # t
    BY <1>2, <1>6 DEF Confirm
  <2>2. CASE x.kind \in SpendKind
    <3>1. Grounded("confirmed", x, l, s, "none")
      BY <1>1, <1>6, <2>1, <2>2 DEF Confirm, AfterConfirmation, Goto, Grounded
    <3>2. StepTo(t, "confirmed", l, x, s, "none")
      BY <1>1, <1>6, <2>1, <2>2 DEF Confirm, AfterConfirmation, Goto, StepTo
    <3>3. QED
      BY <1>1, <3>1, <3>2, SpendUpdate
  <2>3. CASE x.kind \notin SpendKind
    <3>1. /\ FreshState \in AccountState /\ NoOp \in Tx
          /\ TracksSpendable(FreshState) /\ NoOp.kind \notin SpendKind
      BY SessionFacts, BlankMemory, FreshIsGrounded
    <3>2. Grounded("refreshing", NoOp, FreshState, s, "none")
      BY <3>1 DEF Grounded
    <3>3. StepTo(t, "refreshing", FreshState, NoOp, s, "none")
      BY <1>1, <1>6, <2>1, <2>3 DEF Confirm, AfterConfirmation, Goto, StepTo
    <3>4. QED
      BY <1>1, <3>1, <3>2, <3>3, SpendUpdate
  <2>4. QED
    BY <2>2, <2>3
<1>7. CASE Rejected(t)
  <2>1. out # "pending" /\ \A e \in pool : e.session # t
    BY <1>2, <1>7 DEF Rejected
  <2>2. QED
    BY <1>7, <2>1, ForgetGrounds DEF Rejected
<1>8. QED
  BY <1>3, <1>4, <1>5, <1>6, <1>7 DEF WalletStep

LEMMA AbandonGrounds ==
  ASSUME CreditInv, SpendInv, StoresAreOwn, NEW t \in Session,
         ConfirmationTimesOut(t) \/ Crash(t)
  PROVE  SpendInv'
<1>1. Abandon(t) /\ Forget(t) /\ UNCHANGED <<log, store>>
  BY DEF ConfirmationTimesOut, Crash
<1>2. ASSUME NEW e \in pool'
      PROVE  (e \in pool /\ e.session # t) \/ e.session \notin Session
  <2>1. PICK d \in pool : e = IF d.session = t THEN [d EXCEPT !.session = NoSession] ELSE d
    BY <1>1 DEF Abandon
  <2>2. d \in InFlight
    BY SharedFacts
  <2>3. QED
    BY <2>1, <2>2, WalletAssumption DEF InFlight
<1>3. outcome' = [outcome EXCEPT ![t] = "none"]
  BY <1>1 DEF Abandon
<1>4. QED
  BY <1>1, <1>2, <1>3, ForgetGrounds

-----------------------------------------------------------------------------
(* The network and the other accounts. *)

\* A step that leaves the sessions alone: what the log says of the past stays,
\* and who has been told of a success has had its spend executed.
LEMMA NetworkGrounds ==
  ASSUME CreditInv, SpendInv, UNCHANGED engineVars,
         \A s \in AccountState : TracksSpendable(s) => TracksSpendable(s)',
         \A e \in pool' : e \in pool,
         \A e \in pool' : e.session \in Session => outcome'[e.session] = outcome[e.session],
         \A u \in Session :
           outcome'[u] = "success" /\ outcome[u] # "success" =>
             /\ pc[u] = "polling"
             /\ op[u].kind \in SpendKind =>
                  TracksSpendable([local[u] EXCEPT !.spendable = op[u].next])'
  PROVE  SpendInv'
<1>1. UNCHANGED <<store, pc, local, op>>
  BY DEF engineVars
<1>2. SpendableIsOnHistory'
  <2>1. ASSUME NEW p \in Profile PROVE TracksSpendable(store[p])'
    <3>1. PICK a \in AccountState : a = store[p]
      BY SharedFacts
    <3>2. TracksSpendable(a)'
      BY <3>1 DEF SpendInv, SpendableIsOnHistory
    <3>3. QED
      BY <1>1, <3>1, <3>2 DEF TracksSpendable
  <2>2. QED
    BY <2>1 DEF SpendableIsOnHistory
<1>3. ASSUME NEW u \in Session
      PROVE  Grounded(pc[u], op[u], local[u], store[ProfileOf[u]], outcome[u])'
  <2>1. CASE outcome'[u] = "success" => outcome[u] = "success"
    BY <1>1, <2>1, BystanderStays
  <2>2. CASE outcome'[u] = "success" /\ outcome[u] # "success"
    <3>1. Grounded(pc[u], op[u], local[u], store[ProfileOf[u]], outcome[u])
      BY DEF SpendInv
    <3>2. PICK l \in AccountState : l = local[u]
      BY SessionFacts
    <3>3. TracksSpendable(l)'
      BY <3>1, <3>2 DEF Grounded
    <3>4. TracksSpendable(local[u])'
      BY <1>1, <3>2, <3>3 DEF TracksSpendable
    <3>5. pc[u] = "polling"
          /\ (op[u].kind \in SpendKind =>
                TracksSpendable([local[u] EXCEPT !.spendable = op[u].next])')
      BY <2>2
    <3>6. QED
      BY <1>1, <3>1, <3>4, <3>5 DEF Grounded
  <2>3. QED
    BY <2>1, <2>2
<1>4. ASSUME NEW e \in pool' PROVE Awaited(e)'
  <2>1. Awaited(e)
    BY DEF SpendInv
  <2>2. QED
    BY <1>1, <2>1 DEF Awaited
<1>5. QED
  BY <1>2, <1>3, <1>4 DEF SpendInv

\* One event has been appended to the log.
Grows ==
  /\ log' \in Seq(Event)
  /\ Len(log') = Len(log) + 1
  /\ \A i \in 1 .. Len(log) : log'[i] = log[i]

LEMMA LandAppends ==
  ASSUME CreditInv, NEW e \in pool, Land(e)
  PROVE  e.tx \in Tx /\ Grows /\ log'[Len(log) + 1] = TxEvent(OnChain, e.tx)
<1> PICK x : x = e.tx
  OBVIOUS
<1>1. /\ x \in Tx /\ Signed(x)
      /\ x.kind \in EventType /\ x.next.v \in Nat /\ x.amount \in Nat
      /\ x.to \in Party /\ x.sigma \in Sigma \cup {NoSigma}
  <2>1. e \in InFlight /\ Signed(e.tx)
    BY SharedFacts
  <2>2. QED
    BY <2>1 DEF InFlight, Signed, Tx, TxKind, SpendKind, EventType, Opening
<1>2. AfterTx(OnChain, x) \in Account
  <2>1. x.kind \in TxKind
    BY <1>1 DEF Signed
  <2>2. QED
    BY <1>1, <2>1, OnChainType, AfterTxType
<1>3. log \in Seq(Event) /\ Len(log) <= MaxLog /\ Owner \in Party
  BY DEF CreditInv, TypeOK, Party
<1>4. Emit(x.kind, Owner, x.to, x.amount, x.next.v, x.sigma, AfterTx(OnChain, x))
  BY DEF Land, Execute
<1>5. PICK type \in EventType, to \in Party, amount \in Nat, vNew \in Nat,
           sigma \in Sigma \cup {NoSigma}, after \in Account :
        /\ type = x.kind /\ to = x.to /\ amount = x.amount
        /\ vNew = x.next.v /\ sigma = x.sigma /\ after = AfterTx(OnChain, x)
  BY <1>1, <1>2
<1>6. Emit(type, Owner, to, amount, vNew, sigma, after)
  BY <1>4, <1>5
<1>7. /\ Grows
      /\ log'[Len(log) + 1] =
           [type |-> type, from |-> Owner, to |-> to, amount |-> amount,
            vNew |-> vNew, sigma |-> sigma, after |-> after]
  BY <1>3, <1>6, EmitGrowsLog DEF Grows
<1>8. QED
  BY <1>1, <1>5, <1>7 DEF TxEvent

LEMMA NetworkStepGrounds ==
  ASSUME CreditInv, SpendInv, SpendableNeverRecurs, NetworkStep
  PROVE  SpendInv'
<1>1. PICK e \in pool : Land(e) \/ FailOnChain(e) \/ Expire(e)
  BY DEF NetworkStep
<1>2. UNCHANGED engineVars /\ pool' \subseteq pool
  BY <1>1 DEF Land, FailOnChain, Expire, Settle
<1>3. CASE Expire(e)
  <2>1. UNCHANGED <<log, outcome>>
    BY <1>3 DEF Expire
  <2>2. \A s \in AccountState : TracksSpendable(s) => TracksSpendable(s)'
    BY <2>1, TracksStable
  <2>3. QED
    BY <1>2, <2>1, <2>2, NetworkGrounds
<1>4. CASE FailOnChain(e)
  <2>1. UNCHANGED log /\ pool' = {}
        /\ outcome' = [t \in Session |-> IF t = e.session THEN "failed" ELSE outcome[t]]
    BY <1>4 DEF FailOnChain, Settle
  <2>2. \A s \in AccountState : TracksSpendable(s) => TracksSpendable(s)'
    BY <2>1, TracksStable
  <2>3. \A u \in Session : ~(outcome'[u] = "success" /\ outcome[u] # "success")
    BY <2>1
  <2>4. QED
    BY <1>2, <2>1, <2>2, <2>3, NetworkGrounds
<1>5. CASE Land(e)
  <2> PICK x : x = e.tx
    OBVIOUS
  <2>1. /\ Accepts(x) /\ Execute(x) /\ pool' = {}
        /\ outcome' = [t \in Session |-> IF t = e.session THEN "success" ELSE outcome[t]]
    BY <1>5 DEF Land, Settle
  <2>2. /\ x \in Tx /\ Grows
        /\ log'[Len(log) + 1] = TxEvent(OnChain, x)
    BY <1>5, LandAppends
  <2>3. \A s \in AccountState : TracksSpendable(s) => TracksSpendable(s)'
    BY <2>2, GrowthTracks DEF CreditInv, TypeOK, Grows
  <2>4. ASSUME NEW u \in Session, outcome'[u] = "success", outcome[u] # "success"
        PROVE  /\ pc[u] = "polling"
               /\ op[u].kind \in SpendKind =>
                    TracksSpendable([local[u] EXCEPT !.spendable = op[u].next])'
    <3>1. u = e.session
      BY <2>1, <2>4
    <3>2. pc[u] = "polling" /\ op[u] = x
      BY <3>1 DEF SpendInv, Awaited
    <3> PICK l \in AccountState, r \in AccountState :
           l = local[u] /\ r = [l EXCEPT !.spendable = x.next]
      BY <2>2, SessionFacts DEF AccountState, Tx
    <3>3. Grounded(pc[u], op[u], local[u], store[ProfileOf[u]], outcome[u])
      BY DEF SpendInv
    <3>4. ASSUME x.kind \in SpendKind
          PROVE  TracksSpendable(r)'
      <4>1. TracksSpendable(l) /\ x.spent = l.spendable
        BY <3>2, <3>3, <3>4 DEF Grounded
      <4>2. QED
        BY <2>1, <2>2, <3>4, <4>1, SpendLandsAhead DEF Grows
    <3>5. TracksSpendable([local[u] EXCEPT !.spendable = op[u].next])' <=> TracksSpendable(r)'
      BY <1>2, <3>2 DEF engineVars, TracksSpendable
    <3>6. QED
      BY <3>2, <3>4, <3>5
  <2>5. QED
    BY <1>2, <2>1, <2>3, <2>4, NetworkGrounds
<1>6. QED
  BY <1>1, <1>3, <1>4, <1>5

LEMMA PeerStepAppends ==
  ASSUME CreditInv, PeerStep
  PROVE  Grows
<1>1. /\ log \in Seq(Event) /\ Len(log) <= MaxLog /\ 0 \in Nat
      /\ OnChain \in Account /\ OnChain.receiving \in Opening
      /\ Owner \in Party /\ \A p \in Peers : p \in Party
      /\ NoSigma \in Sigma \cup {NoSigma}
  BY OnChainType DEF CreditInv, TypeOK, Party
<1>2. ASSUME NEW o \in Opening
      PROVE  [OnChain EXCEPT !.receiving = OpeningSum(@, o)] \in Account
  <2>1. OpeningSum(OnChain.receiving, o) \in Opening
    BY <1>1, OpeningSumType
  <2>2. QED
    BY <1>1, <2>1 DEF Account
<1>3. ASSUME NEW p \in Peers, NEW a \in Amounts, PeerDeposit(p, a)
      PROVE  Grows
  <2>1. a \in Nat /\ [v |-> a, r |-> 0] \in Opening /\ "deposit" \in EventType
    BY AmountsAssumption, BasicOpenings DEF EventType
  <2>2. [OnChain EXCEPT !.receiving = OpeningSum(@, [v |-> a, r |-> 0])] \in Account
    BY <1>2, <2>1
  <2>3. QED
    BY <1>1, <1>3, <2>1, <2>2, EmitGrowsLog DEF PeerDeposit, Grows
<1>4. ASSUME NEW p \in Peers, NEW a \in Amounts, FreshSigma # {},
             PeerTransfer(p, a, NextSigma)
      PROVE  Grows
  <2> PICK n \in Sigma : n = NextSigma
    BY <1>4 DEF NextSigma, FreshSigma
  <2>1. /\ a \in Nat /\ [v |-> a, r |-> DeriveTxBlind(n)] \in Opening
        /\ "transfer" \in EventType /\ n \in Sigma \cup {NoSigma}
    BY AmountsAssumption, BasicOpenings DEF EventType
  <2>2. [OnChain EXCEPT !.receiving = OpeningSum(@, [v |-> a, r |-> DeriveTxBlind(n)])]
          \in Account
    BY <1>2, <2>1
  <2>3. QED
    BY <1>1, <1>4, <2>1, <2>2, EmitGrowsLog DEF PeerTransfer, Grows
<1>5. ASSUME NEW p \in Peers, NEW q \in Peers, NEW type \in PeerOps, PeerEvent(p, q, type)
      PROVE  Grows
  <2>1. type \in EventType
    BY AmountsAssumption DEF EventType
  <2>2. QED
    BY <1>1, <1>5, <2>1, EmitGrowsLog DEF PeerEvent, Grows
<1>6. QED
  BY <1>3, <1>4, <1>5 DEF PeerStep

LEMMA PeerStepGrounds ==
  ASSUME CreditInv, SpendInv, PeerStep
  PROVE  SpendInv'
<1>1. UNCHANGED engineVars /\ UNCHANGED <<pool, outcome>>
  BY DEF PeerStep
<1>2. \A s \in AccountState : TracksSpendable(s) => TracksSpendable(s)'
  BY PeerStepAppends, GrowthTracks DEF CreditInv, TypeOK, Grows
<1>3. QED
  BY <1>1, <1>2, NetworkGrounds

-----------------------------------------------------------------------------
(* The invariant. *)

LEMMA InitSpendInv == Init => SpendInv
<1> SUFFICES ASSUME Init PROVE SpendInv
  OBVIOUS
<1>1. log \in Seq(Event) /\ FreshState.pos = 0
  BY DEF Init, FreshState
<1>2. TracksSpendable(FreshState) /\ NoOp.kind \notin SpendKind
  BY <1>1, FreshIsGrounded
<1>3. SpendableIsOnHistory
  BY <1>2 DEF Init, EngineInit, SpendableIsOnHistory
<1>4. ASSUME NEW t \in Session
      PROVE  Grounded(pc[t], op[t], local[t], store[ProfileOf[t]], outcome[t])
  BY <1>2 DEF Init, EngineInit, Grounded
<1>5. pool = {}
  BY DEF Init
<1>6. QED
  BY <1>3, <1>4, <1>5 DEF SpendInv

LEMMA NextSpendInv ==
  ASSUME StoresAreOwn, CreditInv, SpendInv, SpendableNeverRecurs, [Next]_vars
  PROVE  SpendInv'
<1>1. ASSUME NEW t \in Session,
             Start(t) \/ EngineStep(t) \/ WalletStep(t)
               \/ ConfirmationTimesOut(t) \/ Crash(t)
      PROVE  SpendInv'
  BY <1>1, StartGrounds, EngineStepGrounds, WalletStepGrounds, AbandonGrounds
<1>2. CASE NetworkStep
  BY <1>2, NetworkStepGrounds
<1>3. CASE PeerStep
  BY <1>3, PeerStepGrounds
<1>4. CASE UNCHANGED vars
  <2>1. \A s \in AccountState : TracksSpendable(s) => TracksSpendable(s)'
    BY <1>4, TracksStable DEF vars
  <2>2. QED
    BY <1>4, <2>1, NetworkGrounds DEF vars, engineVars
<1>5. QED
  BY <1>1, <1>2, <1>3, <1>4 DEF Next

\* Stores are not shared between sessions, and no opening comes back: then what
\* each session remembers is grounded in the history of the account.
THEOREM SpendInvariance ==
  ASSUME StoresAreOwn
  PROVE  Spec /\ []SpendableNeverRecurs => []SpendInv
<1>1. CreditInv /\ SpendInv /\ SpendableNeverRecurs /\ [Next]_vars => SpendInv'
  BY NextSpendInv
<1>2. QED
  BY <1>1, InitSpendInv, CreditInvariance, PTL DEF Spec

\* Every store holds a spendable opening the next proof can be built from, for
\* any number of devices (engine.ts:147-157).
THEOREM SpendableStaysOnHistory ==
  ASSUME StoresAreOwn
  PROVE  Spec /\ []SpendableNeverRecurs => []SpendableIsOnHistory
<1>1. SpendInv => SpendableIsOnHistory
  BY DEF SpendInv
<1>2. QED
  BY <1>1, SpendInvariance, PTL

\* Every proof under way is built from an opening the account has had since the
\* position its session has read (wallet.ts:214-225).
THEOREM WitnessesAreGrounded ==
  ASSUME StoresAreOwn
  PROVE  Spec /\ []SpendableNeverRecurs => []WitnessIsGrounded
<1>1. SpendInv => WitnessIsGrounded
  <2> SUFFICES ASSUME SpendInv, NEW t \in Session,
                      pc[t] \in {"proving", "polling"}, op[t].kind \in SpendKind
               PROVE  \E i \in local[t].pos .. Len(log) :
                        op[t].spent = AccountAt(i).spendable
    BY DEF WitnessIsGrounded
  <2>1. TracksSpendable(local[t]) /\ op[t].spent = local[t].spendable
    BY DEF SpendInv, Grounded
  <2>2. QED
    BY <2>1 DEF TracksSpendable
<1>2. QED
  BY <1>1, SpendInvariance, PTL

\* A copy that has reached the end of the log opens both commitments on chain.
LEMMA CaughtUpOpens ==
  ASSUME CreditInv, NEW s \in AccountState, TracksCredits(s), TracksSpendable(s),
         s.pos = Len(log)
  PROVE  OpensOnChain(s) /\ s.spendable = OnChain.spendable
<1>1. Len(log) \in Nat
  BY OnChainType
<1>2. PICK j \in s.pos .. Len(log) : s.spendable = AccountAt(j).spendable
  BY DEF TracksSpendable
<1>3. j = Len(log)
  BY <1>1
<1>4. s.spendable = OnChain.spendable
  BY <1>2, <1>3 DEF OnChain
<1>5. s.receiving = OnChain.receiving
  BY DEF TracksCredits, OnChain
<1>6. QED
  BY <1>4, <1>5 DEF OpensOnChain, Opens

\* An account that is registered stays registered.
LEMMA ReplayRegisters ==
  ASSUME NEW s \in AccountState, NEW ev \in Event, s.registered
  PROVE  Replay(s, ev).registered
<1>1. ev.type \in EventType
  BY DEF Event
<1>2. CASE ev.type = "register"
  BY <1>2 DEF Replay, ApplyMerge, ApplyTransfer, AccountState
<1>3. CASE ev.type = "deposit"
  BY <1>3 DEF Replay, ApplyMerge, ApplyTransfer, Receive, AccountState
<1>4. CASE ev.type = "merge"
  BY <1>4 DEF Replay, ApplyMerge, ApplyTransfer, AccountState
<1>5. CASE ev.type = "withdraw"
  BY <1>5 DEF Replay, ApplyMerge, ApplyTransfer, Spend, AccountState
<1>6. CASE ev.type = "transfer"
  BY <1>6 DEF Replay, ApplyMerge, ApplyTransfer, Spend, Receive, AccountState
<1>7. QED
  BY <1>1, <1>2, <1>3, <1>4, <1>5, <1>6 DEF EventType

LEMMA RegistrationStays ==
  ASSUME CreditInv, CreditInv', Grows, OnChain.registered
  PROVE  OnChain.registered'
<1> PICK n \in Nat : n = Len(log)
  BY OnChainType
<1>1. /\ log' \in Seq(Event) /\ Len(log') = n + 1
      /\ \A i \in 1 .. n : log'[i] = log[i]
  BY DEF Grows
<1>2. PICK acct \in Account : acct = OnChain
  BY OnChainType
<1>3. AccountAt(n)' = acct
  BY <1>1, <1>2 DEF AccountAt, OnChain
<1>4. PICK ev \in Event : ev = log'[n + 1]
  BY <1>1
<1>5. Replay(StateOf(acct, n + 1), ev) = StateOf(AccountAt(n + 1)', n + 1)
  <2>1. \A i \in 1 .. Len(log') :
          Replay(StateOf(AccountAt(i - 1)', i), log'[i]) = StateOf(AccountAt(i)', i)
    BY DEF CreditInv, LogIsReplayable
  <2>2. n + 1 \in 1 .. Len(log') /\ (n + 1) - 1 = n
    BY <1>1
  <2>3. QED
    BY <1>3, <1>4, <2>1, <2>2
<1>6. StateOf(acct, n + 1) \in AccountState /\ StateOf(acct, n + 1).registered
  BY <1>2 DEF StateOf, Account, AccountState
<1>7. AccountAt(n + 1)'.registered
  BY <1>5, <1>6, ReplayRegisters DEF StateOf
<1>8. QED
  BY <1>1, <1>7 DEF OnChain

\* What is compared is the state of an account that the chain knows.
ComparesRegistered ==
  \A t \in Session : pc[t] = "comparing" => OnChain.registered

LEMMA NextComparesRegistered ==
  ASSUME CreditInv, CreditInv', ComparesRegistered, [Next]_vars
  PROVE  ComparesRegistered'
<1>1. ASSUME NEW t \in Session, EngineStep(t)
      PROVE  ComparesRegistered'
  <2>1. UNCHANGED log /\ (OnChain.registered' <=> OnChain.registered)
    BY <1>1 DEF EngineStep, Fetch, ApplyEvent, SaveSync, PatchLoad, PatchSave,
       SavePatched, VerifyLoad, SkipVerify, ReportMatch, ReportMismatch,
       ReportMismatchAt, ReadFails, OnChain, AccountAt
  <2>2. CASE VerifyLoad(t)
    BY <2>1, <2>2 DEF VerifyLoad, ComparesRegistered
  <2>3. CASE ~VerifyLoad(t)
    <3>1. pc \in [Session -> PC]
      BY DEF CreditInv, TypeOK
    <3>2. pc' = pc \/ \E c \in PC \ {"comparing"} : pc' = [pc EXCEPT ![t] = c]
      BY <1>1, <2>3 DEF EngineStep, Fetch, ApplyEvent, SaveSync, AfterSync,
         PatchLoad, PatchSave, SavePatched, SkipVerify, ReportMatch, ReportMismatch,
         ReportMismatchAt, ReadFails, Goto, Forget, PC
    <3>3. QED
      BY <2>1, <3>1, <3>2 DEF ComparesRegistered
  <2>4. QED
    BY <2>2, <2>3
<1>2. ASSUME NEW t \in Session,
             Start(t) \/ WalletStep(t) \/ ConfirmationTimesOut(t) \/ Crash(t)
      PROVE  ComparesRegistered'
  <2>1. UNCHANGED log /\ (OnChain.registered' <=> OnChain.registered)
    BY <1>2 DEF Start, StartRefresh, StartSpend, StartDirect, BeginSync, WalletStep,
       BuildWitness, InsufficientBalance, Submit, SimulationFails, Confirm,
       AfterConfirmation, Rejected, ConfirmationTimesOut, Crash, OnChain, AccountAt
  <2>2. pc \in [Session -> PC]
    BY DEF CreditInv, TypeOK
  <2>3. \E c \in PC \ {"comparing"} : pc' = [pc EXCEPT ![t] = c]
    BY <1>2 DEF Start, StartRefresh, StartSpend, StartDirect, BeginSync, WalletStep,
       BuildWitness, InsufficientBalance, Submit, SimulationFails, Confirm,
       AfterConfirmation, Rejected, ConfirmationTimesOut, Crash, Goto, Forget, PC
  <2>4. QED
    BY <2>1, <2>2, <2>3 DEF ComparesRegistered
<1>3. CASE NetworkStep
  <2>1. PICK e \in pool : Land(e) \/ FailOnChain(e) \/ Expire(e)
    BY <1>3 DEF NetworkStep
  <2>2. pc' = pc /\ (UNCHANGED log \/ Grows)
    BY <2>1, LandAppends DEF Land, FailOnChain, Expire, engineVars
  <2>3. OnChain.registered => OnChain.registered'
    BY <2>2, RegistrationStays DEF OnChain, AccountAt
  <2>4. QED
    BY <2>2, <2>3 DEF ComparesRegistered
<1>4. CASE PeerStep
  <2>1. pc' = pc /\ Grows
    BY <1>4, PeerStepAppends DEF PeerStep, engineVars
  <2>2. QED
    BY <2>1, RegistrationStays DEF ComparesRegistered
<1>5. CASE UNCHANGED vars
  BY <1>5 DEF vars, ComparesRegistered, OnChain, AccountAt
<1>6. QED
  BY <1>1, <1>2, <1>3, <1>4, <1>5 DEF Next

LEMMA OnlyRegisteredCompared == Spec => []ComparesRegistered
<1>1. Init => ComparesRegistered
  BY DEF Init, EngineInit, ComparesRegistered
<1>2. CreditInv /\ CreditInv' /\ ComparesRegistered /\ [Next]_vars => ComparesRegistered'
  BY NextComparesRegistered
<1>3. QED
  BY <1>1, <1>2, CreditInvariance, PTL DEF Spec

\* Wherever the node that answers is, "mismatch" from a comparison is explained
\* by where store and node stand: the state itself is never wrong
\* (engine.ts:159-170).
THEOREM MismatchesAreExplained ==
  ASSUME StoresAreOwn
  PROVE  Spec /\ []SpendableNeverRecurs => MismatchIsExplained
<1>1. ASSUME CreditInv, SpendInv, ComparesRegistered,
             NEW t \in Session, NEW i \in 0 .. Len(log), ReportMismatchAt(t, i)
      PROVE  \/ local[t].pos < i
             \/ i < local[t].pos
             \/ i < Len(log) /\ ~AccountAt(i).registered
             \/ /\ local[t].receiving = AccountAt(i).receiving
                /\ \E j \in i + 1 .. Len(log) :
                     local[t].spendable = AccountAt(j).spendable
  <2>1. PICK s \in AccountState : s = local[t] /\ TracksCredits(s) /\ TracksSpendable(s)
    BY <1>1, SessionFacts, SpendFacts
  <2>2. s.pos \in Nat /\ Len(log) \in Nat /\ s.pos <= Len(log)
    BY <1>1, <2>1, OnChainType DEF AccountState, TracksCredits
  <2>3. SUFFICES ASSUME s.pos = i, AccountAt(i).registered
                 PROVE  /\ s.receiving = AccountAt(i).receiving
                        /\ \E j \in i + 1 .. Len(log) :
                             s.spendable = AccountAt(j).spendable
    <3>1. i = Len(log) => AccountAt(i).registered
      BY <1>1 DEF ReportMismatchAt, ComparesRegistered, OnChain
    <3>2. QED
      BY <2>1, <2>2, <2>3, <3>1
  <2>4. s.receiving = AccountAt(i).receiving
    BY <2>1, <2>3 DEF TracksCredits
  <2>5. s.spendable # AccountAt(i).spendable
    BY <1>1, <2>1, <2>3, <2>4 DEF ReportMismatchAt, Matches, Opens
  <2>6. PICK j \in s.pos .. Len(log) : s.spendable = AccountAt(j).spendable
    BY <2>1 DEF TracksSpendable
  <2>7. j \in i + 1 .. Len(log)
    BY <2>2, <2>3, <2>5, <2>6
  <2>8. QED
    BY <2>4, <2>6, <2>7
<1>2. CreditInv /\ SpendInv /\ ComparesRegistered =>
        [\A t \in Session : \A i \in 0 .. Len(log) : ReportMismatchAt(t, i) =>
           \/ local[t].pos < i
           \/ i < local[t].pos
           \/ i < Len(log) /\ ~AccountAt(i).registered
           \/ /\ local[t].receiving = AccountAt(i).receiving
              /\ \E j \in i + 1 .. Len(log) :
                   local[t].spendable = AccountAt(j).spendable]_vars
  BY <1>1
<1>3. QED
  BY <1>2, CreditInvariance, SpendInvariance, OnlyRegisteredCompared, PTL
     DEF MismatchIsExplained

\* A sync that reads to the end of the chain leaves the opening of the spendable
\* commitment there, whatever was overwritten before (engine.ts:147-151).
THEOREM SyncAlwaysReconciles ==
  ASSUME StoresAreOwn
  PROVE  Spec /\ []SpendableNeverRecurs => SyncReconciles
<1>1. ASSUME CreditInv, SpendInv, NEW t \in Session, SaveSync(t), head[t] = Len(log)
      PROVE  local[t].spendable = OnChain.spendable
  <2>1. PICK s \in AccountState : s = local[t] /\ TracksCredits(s) /\ TracksSpendable(s)
    BY <1>1, SessionFacts, SpendFacts
  <2>2. s.pos = Len(log)
    BY <1>1, <2>1 DEF SaveSync
  <2>3. QED
    BY <1>1, <2>1, <2>2, CaughtUpOpens
<1>2. CreditInv /\ SpendInv =>
        [\A t \in Session :
           SaveSync(t) /\ head[t] = Len(log) => local[t].spendable = OnChain.spendable]_vars
  BY <1>1
<1>3. QED
  BY <1>2, CreditInvariance, SpendInvariance, PTL DEF SyncReconciles

-----------------------------------------------------------------------------
(* Wallet implements AccountReplica. *)

History == [i \in 1 .. Len(log) |-> log[i].after]

LEMMA EventsCarryAccounts ==
  ASSUME NEW q \in Seq(Event)
  PROVE  \A i \in 1 .. Len(q) : q[i].after \in Account
<1>1. ASSUME NEW i \in 1 .. Len(q) PROVE q[i].after \in Account
  <2>1. q[i] \in Event
    OBVIOUS
  <2>2. QED
    BY <2>1 DEF Event
<1>2. QED
  BY <1>1

LEMMA HistoryIsSequence ==
  ASSUME log \in Seq(Event)
  PROVE  /\ History \in Seq(Account) /\ Len(History) = Len(log)
         /\ \A i \in 0 .. Len(log) : Replica!At(i) = AccountAt(i)
<1>1. \A i \in 1 .. Len(log) : log[i].after \in Account
  BY EventsCarryAccounts
<1>2. Len(log) \in Nat
  OBVIOUS
<1>3. History \in Seq(Account) /\ Len(History) = Len(log)
  BY <1>1, <1>2 DEF History
<1>4. \A i \in 0 .. Len(log) : Replica!At(i) = AccountAt(i)
  BY DEF Replica!At, AccountAt
<1>5. QED
  BY <1>3, <1>4

\* A state that tracks credits and spendable is a copy in the replica's sense.
LEMMA TrackedIsCopy ==
  ASSUME log \in Seq(Event), NEW s \in AccountState,
         TracksCredits(s), TracksSpendable(s)
  PROVE  s.pos \in 0 .. Len(log)
         /\ \E m \in s.pos .. Len(log) : s = Replica!CopyAt(s.pos, m)
<1>1. s.pos \in 0 .. Len(log)
  BY DEF AccountState, TracksCredits
<1>2. PICK m \in s.pos .. Len(log) : s.spendable = AccountAt(m).spendable
  BY DEF TracksSpendable
<1>3. m \in 0 .. Len(log)
  BY <1>1
<1>4. Replica!At(s.pos) = AccountAt(s.pos) /\ Replica!At(m) = AccountAt(m)
  BY <1>1, <1>3, HistoryIsSequence
<1>5. s = [registered |-> s.registered, receiving |-> s.receiving,
           spendable |-> s.spendable, pos |-> s.pos]
  BY DEF AccountState
<1>6. s = Replica!CopyAt(s.pos, m)
  BY <1>2, <1>4, <1>5 DEF Replica!CopyAt, TracksCredits
<1>7. QED
  BY <1>1, <1>6

\* A session saves s, which is no older than what the store holds.
LEMMA SaveAdvances ==
  ASSUME log \in Seq(Event), UNCHANGED log, NEW p \in Profile,
         NEW s \in AccountState, TracksCredits(s), TracksSpendable(s),
         store[p].pos \in Nat, store[p].pos <= s.pos,
         store' = [store EXCEPT ![p] = s]
  PROVE  Replica!Next
<1>1. PICK m \in s.pos .. Len(log) : s = Replica!CopyAt(s.pos, m)
  BY TrackedIsCopy
<1>2. s.pos \in store[p].pos .. Len(log)
  BY TrackedIsCopy
<1>3. Len(History) = Len(log) /\ UNCHANGED History
  BY HistoryIsSequence DEF History
<1>4. Replica!Advance(p)
  BY <1>1, <1>2, <1>3 DEF Replica!Advance, History
<1>5. QED
  BY <1>4 DEF Replica!Next

\* The log grows and no store changes.
LEMMA GrowthGrows ==
  ASSUME log \in Seq(Event), Grows, UNCHANGED store
  PROVE  Replica!Next
<1>1. /\ Len(log) \in Nat /\ log' \in Seq(Event) /\ Len(log') = Len(log) + 1
      /\ \A i \in 1 .. Len(log) : log'[i] = log[i]
  BY DEF Grows
<1>2. /\ History \in Seq(Account) /\ Len(History) = Len(log)
      /\ History' \in Seq(Account) /\ Len(History') = Len(log) + 1
  <2>1. \A i \in 1 .. Len(log) : log[i].after \in Account
    BY EventsCarryAccounts
  <2>2. \A i \in 1 .. Len(log') : log'[i].after \in Account
    BY <1>1, EventsCarryAccounts
  <2>3. QED
    BY <1>1, <2>1, <2>2 DEF History
<1>3. \A i \in 1 .. Len(log) : History'[i] = History[i]
  BY <1>1 DEF History
<1>4. SubSeq(History', 1, Len(History)) = History
  BY <1>1, <1>2, <1>3
<1>5. Replica!Grow
  BY <1>2, <1>4 DEF Replica!Grow, History
<1>6. QED
  BY <1>5 DEF Replica!Next

LEMMA SessionStepReplicates ==
  ASSUME StoresAreOwn, CreditInv, SpendInv, NEW t \in Session,
         Start(t) \/ EngineStep(t) \/ WalletStep(t)
           \/ ConfirmationTimesOut(t) \/ Crash(t)
  PROVE  Replica!Next \/ UNCHANGED <<log, store>>
<1> PICK s \in AccountState, l \in AccountState, x \in Tx, p \in Profile :
       s = store[p] /\ l = local[t] /\ x = op[t] /\ p = ProfileOf[t]
  BY SessionFacts, ProfileAssumption
<1>1. /\ log \in Seq(Event) /\ s.pos \in Nat /\ l.pos \in Nat
      /\ TracksCredits(s) /\ TracksCredits(l) /\ TracksSpendable(l)
      /\ Grounded(pc[t], x, l, s, outcome[t])
  BY SessionFacts, SpendFacts DEF AccountState
<1>2. CASE SaveSync(t)
  <2>1. s.pos <= l.pos
    BY <1>1, <1>2 DEF SaveSync, Grounded
  <2>2. UNCHANGED log /\ store' = [store EXCEPT ![p] = l]
    BY <1>2 DEF SaveSync
  <2>3. QED
    BY <1>1, <2>1, <2>2, SaveAdvances
<1>3. CASE PatchSave(t)
  <2>1. PICK r \in AccountState : r = [l EXCEPT !.spendable = x.next]
    BY DEF AccountState, Tx
  <2>2. l = s /\ TracksSpendable(r)
    BY <1>1, <1>3, <2>1 DEF PatchSave, SavePatched, Goto, Grounded
  <2>3. TracksCredits(r) /\ s.pos <= r.pos
    BY <1>1, <2>1, <2>2 DEF TracksCredits, AccountState
  <2>4. UNCHANGED log /\ store' = [store EXCEPT ![p] = r]
    BY <1>3, <2>1 DEF PatchSave, SavePatched
  <2>5. QED
    BY <1>1, <2>2, <2>3, <2>4, SaveAdvances
<1>4. CASE EngineStep(t) /\ ~SaveSync(t) /\ ~PatchSave(t)
  BY <1>4 DEF EngineStep, Fetch, ApplyEvent, PatchLoad, VerifyLoad, SkipVerify,
     ReportMatch, ReportMismatch, ReportMismatchAt, ReadFails
<1>5. CASE Start(t)
  BY <1>5 DEF Start, StartRefresh, StartSpend, StartDirect, BeginSync
<1>6. CASE WalletStep(t)
  BY <1>6 DEF WalletStep, BuildWitness, InsufficientBalance, Submit, SimulationFails,
     Confirm, AfterConfirmation, Rejected
<1>7. CASE ConfirmationTimesOut(t) \/ Crash(t)
  BY <1>7 DEF ConfirmationTimesOut, Crash
<1>8. QED
  BY <1>2, <1>3, <1>4, <1>5, <1>6, <1>7

\* Each device's store is a copy of the account as it was, that moves only
\* forward and whose spendable opening alone may be ahead (engine.ts:10-21).
THEOREM WalletImplementsReplica ==
  ASSUME StoresAreOwn
  PROVE  Spec /\ []SpendableNeverRecurs => ImplementsReplica
<1>1. Init => Replica!Init
  <2> SUFFICES ASSUME Init PROVE Replica!Init
    OBVIOUS
  <2>1. 1 .. Len(log) = {} /\ log \in Seq(Event) /\ Len(log) = 0
    BY DEF Init
  <2>2. History = <<>>
    BY <2>1 DEF History
  <2>3. Replica!At(0) = StartAccount
    BY DEF Replica!At
  <2>4. FreshState = Replica!CopyAt(0, 0)
    BY <2>3 DEF FreshState, Replica!CopyAt
  <2>5. store = [p \in Profile |-> Replica!CopyAt(0, 0)]
    BY <2>4 DEF Init, EngineInit
  <2>6. QED
    BY <2>2, <2>5 DEF Replica!Init, History
<1>2. ASSUME CreditInv, SpendInv, [Next]_vars
      PROVE  [Replica!Next]_<<History, store>>
  <2>1. UNCHANGED <<log, store>> => UNCHANGED <<History, store>>
    BY DEF History
  <2>2. log \in Seq(Event)
    BY <1>2 DEF CreditInv, TypeOK
  <2>3. ASSUME NEW t \in Session,
               Start(t) \/ EngineStep(t) \/ WalletStep(t)
                 \/ ConfirmationTimesOut(t) \/ Crash(t)
        PROVE  [Replica!Next]_<<History, store>>
    BY <1>2, <2>1, <2>3, SessionStepReplicates
  <2>4. CASE NetworkStep
    <3>1. PICK e \in pool : Land(e) \/ FailOnChain(e) \/ Expire(e)
      BY <2>4 DEF NetworkStep
    <3>2. CASE Land(e)
      <4>1. UNCHANGED store
        BY <3>2 DEF Land, engineVars
      <4>2. Grows
        BY <1>2, <3>2, LandAppends
      <4>3. QED
        BY <2>2, <4>1, <4>2, GrowthGrows
    <3>3. CASE FailOnChain(e) \/ Expire(e)
      BY <2>1, <3>3 DEF FailOnChain, Expire, engineVars
    <3>4. QED
      BY <3>1, <3>2, <3>3
  <2>5. CASE PeerStep
    <3>1. UNCHANGED store
      BY <2>5 DEF PeerStep, engineVars
    <3>2. Grows
      BY <1>2, <2>5, PeerStepAppends
    <3>3. QED
      BY <2>2, <3>1, <3>2, GrowthGrows
  <2>6. CASE UNCHANGED vars
    BY <2>1, <2>6 DEF vars, engineVars
  <2>7. QED
    BY <1>2, <2>3, <2>4, <2>5, <2>6 DEF Next
<1>3. [Replica!Next]_<<History, store>> => [Replica!Next]_Replica!replicaVars
  BY DEF Replica!replicaVars, History
<1>4. CreditInv /\ SpendInv /\ [Next]_vars => [Replica!Next]_Replica!replicaVars
  BY <1>2, <1>3
<1>5. QED
  BY <1>1, <1>4, CreditInvariance, SpendInvariance, PTL
     DEF Spec, ImplementsReplica, Replica!Spec

=============================================================================
