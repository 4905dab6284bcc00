---------------------------- MODULE AuditorProofs ----------------------------
(***************************************************************************)
(* Theorems about AuditorReplay, for every set of accounts, auditors, keys *)
(* and amounts, every history and every point at which a load starts.      *)
(***************************************************************************)
EXTENDS AuditorReplay, TLAPS

-----------------------------------------------------------------------------
(* Accounts and the log. *)

LEMMA NewAccountType == NewAccount \in Balances /\ Fresh \in [Account -> Balances]
<1>1. (CHOOSE i \in AuditorId : TRUE) \in AuditorId
  BY AuditorAssumption
<1>2. QED
  BY <1>1 DEF NewAccount, Fresh, Balances

LEMMA AtType ==
  ASSUME log \in Seq(Event), NEW i \in 0 .. Len(log)
  PROVE  At(i) \in [Account -> Balances]
<1>1. CASE i = 0
  BY <1>1, NewAccountType DEF At
<1>2. CASE i # 0
  <2>1. log[i] \in Event
    BY <1>2
  <2>2. QED
    BY <1>2, <2>1 DEF At, Event
<1>3. QED
  BY <1>1, <1>2

\* Appending an event leaves the accounts at every earlier position alone.
LEMMA LogGrowth ==
  ASSUME log \in Seq(Event), NEW ev \in Event, log' = Append(log, ev)
  PROVE  /\ log' \in Seq(Event)
         /\ Len(log') = Len(log) + 1
         /\ \A i \in 1 .. Len(log) : log'[i] = log[i]
         /\ log'[Len(log) + 1] = ev
         /\ \A i \in 0 .. Len(log) : At(i)' = At(i)
         /\ \A i \in Nat : i = Len(log) + 1 => At(i)' = ev.after
<1>1. /\ log' \in Seq(Event)
      /\ Len(log') = Len(log) + 1
      /\ \A i \in 1 .. Len(log) : log'[i] = log[i]
      /\ log'[Len(log) + 1] = ev
  OBVIOUS
<1>2. \A i \in 0 .. Len(log) : At(i)' = At(i)
  BY <1>1 DEF At
<1>3. Len(log) + 1 # 0
  OBVIOUS
<1>4. \A i \in Nat : i = Len(log) + 1 => At(i)' = ev.after
  BY <1>1, <1>3 DEF At
<1>5. QED
  BY <1>1, <1>2, <1>4

-----------------------------------------------------------------------------
(* Replay of one event. *)

\* What replay makes of one event, account by account.
LEMMA ReplayEffect ==
  ASSUME NEW v \in [Account -> View], NEW ev \in Event
  PROVE  /\ Replay(v, ev) \in [Account -> View]
         /\ \A p \in Account :
              /\ Replay(v, ev)[p].receiving =
                   IF ev.type = "merge" /\ p = ev.from THEN 0
                   ELSE IF p = ev.to /\ (ev.type = "deposit" \/ (ev.type = "transfer" /\ ChannelsAgree(ev)))
                     THEN v[p].receiving + ev.amount
                   ELSE v[p].receiving
              /\ Replay(v, ev)[p].spendable =
                   IF p # ev.from THEN v[p].spendable
                   ELSE IF ev.type = "register" THEN 0
                   ELSE IF ev.type = "merge" THEN Plus(v[p].spendable, v[p].receiving)
                   ELSE IF ev.type = "withdraw" THEN Decrypt(ev.keyS, ev.balance)
                   ELSE IF ev.type = "transfer" /\ ChannelsAgree(ev) THEN ev.balance
                   ELSE v[p].spendable
<1>1. /\ ev.type \in EventType /\ ev.from \in Account /\ ev.to \in Account
      /\ ev.amount \in Nat /\ ev.balance \in Nat
  BY DEF Event
<1>2. \A p \in Account : v[p].spendable \in Nat \cup {Unseen} /\ v[p].receiving \in Nat
  BY DEF View
<1>3. CASE ev.type = "register"
  BY <1>1, <1>2, <1>3 DEF Replay, Checkpoint, View
<1>4. CASE ev.type = "deposit"
  BY <1>1, <1>2, <1>4 DEF Replay, Credit, View
<1>5. CASE ev.type = "merge"
  <2>1. Plus(v[ev.from].spendable, v[ev.from].receiving) \in Nat \cup {Unseen}
    BY <1>1, <1>2 DEF Plus
  <2>2. QED
    BY <1>1, <1>2, <1>5, <2>1 DEF Replay, Fold, View
<1>6. CASE ev.type = "withdraw"
  <2>1. Decrypt(ev.keyS, ev.balance) \in Nat
    BY <1>1, AuditorAssumption DEF Decrypt
  <2>2. QED
    BY <1>1, <1>2, <1>6, <2>1 DEF Replay, SeeWithdraw, Checkpoint, View
<1>7. CASE ev.type = "transfer"
  <2>1. CASE ChannelsAgree(ev)
    BY <1>1, <1>2, <1>7, <2>1 DEF Replay, SeeTransfer, Credit, Checkpoint, View
  <2>2. CASE ~ChannelsAgree(ev)
    BY <1>1, <1>2, <1>7, <2>2 DEF Replay, SeeTransfer, View
  <2>3. QED
    BY <2>1, <2>2
<1>8. QED
  BY <1>1, <1>3, <1>4, <1>5, <1>6, <1>7 DEF EventType

-----------------------------------------------------------------------------
(* Steps of the token: the log grows, the view stays. *)

\* The part of the invariant about the replay.
ViewInv ==
  /\ CreditsAreReal
  /\ ViewIsExact
  /\ NeverOverstates
  /\ MergedIsKnown
  /\ ExactOnceSettled

\* Nothing is said of events beyond those replayed.
LEMMA ViewInvKeeps ==
  ASSUME TypeOK, ViewInv, UNCHANGED <<page, view>>,
         \A i \in 1 .. Len(log) : log'[i] = log[i],
         \A i \in 0 .. Len(log) : At(i)' = At(i)
  PROVE  ViewInv'
<1>1. /\ page.first \in Nat /\ page.pos \in Nat /\ page.upto \in Nat
      /\ page.first <= page.pos /\ page.pos <= page.upto /\ page.upto <= Len(log)
      /\ Len(log) \in Nat
  BY DEF TypeOK
<1>2. \A i \in page.first + 1 .. page.pos : i \in 1 .. Len(log) /\ log'[i] = log[i]
  BY <1>1
<1>3. At(page.pos)' = At(page.pos)
  BY <1>1
<1>4. Readable' = Readable
  BY <1>2 DEF Readable
<1>5. \A p \in Account : HasMerged(p)' = HasMerged(p)
  BY <1>2 DEF HasMerged
<1>6. \A p \in Account : Settled(p)' = Settled(p)
  BY <1>2 DEF Settled
<1>7. CreditsAreReal'
  BY <1>3 DEF ViewInv, CreditsAreReal
<1>8. ViewIsExact'
  BY <1>3, <1>4 DEF ViewInv, ViewIsExact
<1>9. NeverOverstates'
  BY <1>3, <1>4 DEF ViewInv, NeverOverstates
<1>10. MergedIsKnown'
  BY <1>3, <1>4, <1>5 DEF ViewInv, MergedIsKnown
<1>11. ExactOnceSettled'
  BY <1>3, <1>4, <1>6 DEF ViewInv, ExactOnceSettled
<1>12. QED
  BY <1>7, <1>8, <1>9, <1>10, <1>11 DEF ViewInv

LEMMA EmittedType ==
  ASSUME TypeOK,
         NEW type \in EventType, NEW from \in Account, NEW to \in Account,
         NEW amount \in Nat, NEW after \in [Account -> Balances]
  PROVE  Emitted(type, from, to, amount, after) \in Event
<1>1. KeyOf(from) \in Key /\ KeyOf(to) \in Key
  BY DEF TypeOK, KeyOf, Balances
<1>2. after[from].spendable \in Nat
  BY DEF Balances
<1>3. QED
  BY <1>1, <1>2 DEF Emitted, Event

\* A call whose event tells how the accounts have moved keeps the invariant.
LEMMA ExecuteKeeps ==
  ASSUME AuditInv,
         NEW type \in EventType, NEW from \in Account, NEW to \in Account,
         NEW amount \in Nat, NEW after \in [Account -> Balances],
         Execute(type, from, to, amount, after),
         Moves(acct, Emitted(type, from, to, amount, after)),
         NothingUnregistered(after)
  PROVE  AuditInv'
<1> DEFINE ev == Emitted(type, from, to, amount, after)
<1>1. TypeOK /\ LogMovesAccounts /\ ViewInv
  BY DEF AuditInv, ViewInv
<1>2. ev \in Event /\ ev.after = after
  BY <1>1, EmittedType DEF Emitted
<1>3. /\ log' = Append(log, ev) /\ Len(log) < MaxLog
      /\ acct' = after /\ UNCHANGED <<registry, page, view>>
  BY DEF Execute
<1> HIDE DEF ev
<1>4. log \in Seq(Event) /\ Len(log) \in Nat /\ MaxLog \in Nat
  BY <1>1, AuditorAssumption DEF TypeOK
<1>5. /\ log' \in Seq(Event)
      /\ Len(log') = Len(log) + 1
      /\ \A i \in 1 .. Len(log) : log'[i] = log[i]
      /\ log'[Len(log) + 1] = ev
      /\ \A i \in 0 .. Len(log) : At(i)' = At(i)
      /\ \A i \in Nat : i = Len(log) + 1 => At(i)' = ev.after
  BY <1>2, <1>3, <1>4, LogGrowth
<1>6. TypeOK'
  BY <1>1, <1>3, <1>4, <1>5 DEF TypeOK
<1>7. LogMovesAccounts'
  <2>1. acct' = At(Len(log))'
    BY <1>2, <1>3, <1>4, <1>5
  <2>2. ASSUME NEW i \in 1 .. Len(log')
        PROVE  Moves(At(i - 1)', log'[i])
    <3>1. CASE i \in 1 .. Len(log)
      <4>1. Moves(At(i - 1), log[i])
        BY <1>1, <3>1 DEF LogMovesAccounts
      <4>2. At(i - 1)' = At(i - 1) /\ log'[i] = log[i]
        BY <1>4, <1>5, <3>1
      <4>3. QED
        BY <4>1, <4>2
    <3>2. CASE i = Len(log) + 1
      <4>1. At(i - 1)' = At(Len(log))
        BY <1>4, <1>5, <3>2
      <4>2. At(Len(log)) = acct
        BY <1>1 DEF LogMovesAccounts
      <4>3. Moves(acct, ev)
        BY DEF ev
      <4>4. log'[i] = ev
        BY <1>5, <3>2
      <4>5. QED
        BY <4>1, <4>2, <4>3, <4>4
    <3>3. QED
      BY <1>4, <1>5, <3>1, <3>2
  <2>3. ASSUME NEW i \in 0 .. Len(log')
        PROVE  NothingUnregistered(At(i)')
    <3>1. CASE i \in 0 .. Len(log)
      <4>1. NothingUnregistered(At(i))
        BY <1>1, <3>1 DEF LogMovesAccounts
      <4>2. QED
        BY <1>5, <3>1, <4>1
    <3>2. CASE i = Len(log) + 1
      BY <1>2, <1>4, <1>5, <3>2
    <3>3. QED
      BY <1>4, <1>5, <3>1, <3>2
  <2>4. QED
    BY <2>1, <2>2, <2>3 DEF LogMovesAccounts, Moves, NothingUnregistered
<1>8. ViewInv'
  BY <1>1, <1>3, <1>5, ViewInvKeeps
<1>9. QED
  BY <1>6, <1>7, <1>8 DEF AuditInv, ViewInv

\* Each call of the token tells in its event how it has moved the accounts.
LEMMA TokenStepKeeps ==
  ASSUME AuditInv, TokenStep
  PROVE  AuditInv'
<1>1. acct \in [Account -> Balances] /\ NothingUnregistered(acct)
  <2>1. log \in Seq(Event) /\ acct \in [Account -> Balances] /\ Len(log) \in 0 .. Len(log)
    BY DEF AuditInv, TypeOK
  <2>2. QED
    BY <2>1 DEF AuditInv, LogMovesAccounts
<1>2. \A p \in Account : /\ acct[p].spendable \in Nat /\ acct[p].receiving \in Nat
                          /\ acct[p].registered \in BOOLEAN
  BY <1>1 DEF Balances
<1>3. ASSUME NEW p \in Account, NEW id \in AuditorId, Register(p, id)
      PROVE  AuditInv'
  <2> DEFINE after == [acct EXCEPT ![p] = [registered |-> TRUE, id |-> id,
                                           spendable |-> 0, receiving |-> 0]]
  <2>1. ~acct[p].registered /\ Execute("register", p, p, 0, after)
    BY <1>3 DEF Register
  <2>3. after \in [Account -> Balances]
    BY <1>1 DEF Balances
  <2>4. \A q \in Account :
          /\ after[q].registered = (acct[q].registered \/ q = p)
          /\ after[q].spendable = acct[q].spendable
          /\ after[q].receiving = acct[q].receiving
    BY <1>1, <1>2, <2>1 DEF NothingUnregistered
  <2> HIDE DEF after
  <2>5. Moves(acct, Emitted("register", p, p, 0, after))
    BY <2>1, <2>4 DEF Moves, Emitted
  <2>6. NothingUnregistered(after)
    BY <1>1, <2>4 DEF NothingUnregistered
  <2>7. QED
    BY <2>1, <2>3, <2>5, <2>6, ExecuteKeeps DEF EventType
<1>4. ASSUME NEW p \in Account, NEW q \in Account, NEW a \in Amounts, Deposit(p, q, a)
      PROVE  AuditInv'
  <2> DEFINE after == [acct EXCEPT ![q].receiving = @ + a]
  <2>1. acct[q].registered /\ Execute("deposit", p, q, a, after) /\ a \in Nat
    BY <1>4, AuditorAssumption DEF Deposit
  <2>2. after \in [Account -> Balances]
    BY <1>1, <1>2, <2>1 DEF Balances
  <2>3. \A r \in Account :
          /\ after[r].registered = acct[r].registered
          /\ after[r].spendable = acct[r].spendable
          /\ after[r].receiving = IF r = q THEN acct[r].receiving + a ELSE acct[r].receiving
    BY <1>1 DEF Balances
  <2> HIDE DEF after
  <2>4. Moves(acct, Emitted("deposit", p, q, a, after))
    BY <1>2, <2>1, <2>3 DEF Moves, Emitted
  <2>5. NothingUnregistered(after)
    BY <1>1, <2>1, <2>3 DEF NothingUnregistered
  <2>6. QED
    BY <2>1, <2>2, <2>4, <2>5, ExecuteKeeps DEF EventType
<1>5. ASSUME NEW p \in Account, Merge(p)
      PROVE  AuditInv'
  <2> DEFINE after == [acct EXCEPT ![p].spendable = @ + acct[p].receiving,
                                   ![p].receiving = 0]
  <2>1. acct[p].registered /\ Execute("merge", p, p, 0, after)
    BY <1>5 DEF Merge
  <2>2. after \in [Account -> Balances]
    <3> DEFINE sum == [acct EXCEPT ![p].spendable = @ + acct[p].receiving]
    <3>1. sum \in [Account -> Balances]
      BY <1>1, <1>2 DEF Balances
    <3>2. after = [sum EXCEPT ![p].receiving = 0]
      BY <1>1
    <3> HIDE DEF sum
    <3>3. [sum EXCEPT ![p].receiving = 0] \in [Account -> Balances]
      BY <3>1 DEF Balances
    <3>4. QED
      BY <3>2, <3>3
  <2>3. \A r \in Account :
          /\ after[r].registered = acct[r].registered
          /\ after[r].spendable = IF r = p THEN acct[r].spendable + acct[r].receiving
                                          ELSE acct[r].spendable
          /\ after[r].receiving = IF r = p THEN 0 ELSE acct[r].receiving
    BY <1>1 DEF Balances
  <2> HIDE DEF after
  <2>4. Moves(acct, Emitted("merge", p, p, 0, after))
    BY <1>2, <2>1, <2>3 DEF Moves, Emitted
  <2>5. NothingUnregistered(after)
    BY <1>1, <2>1, <2>3 DEF NothingUnregistered
  <2>6. QED
    BY <2>1, <2>2, <2>4, <2>5, ExecuteKeeps DEF EventType
<1>6. ASSUME NEW p \in Account, NEW a \in Amounts, Withdraw(p, a)
      PROVE  AuditInv'
  <2> DEFINE after == [acct EXCEPT ![p].spendable = @ - a]
  <2>1. /\ acct[p].registered /\ a \in Nat /\ a <= acct[p].spendable
        /\ Execute("withdraw", p, p, a, after)
    BY <1>6, AuditorAssumption DEF Withdraw
  <2>2. after \in [Account -> Balances]
    BY <1>1, <1>2, <2>1 DEF Balances
  <2>3. \A r \in Account :
          /\ after[r].registered = acct[r].registered
          /\ after[r].spendable = IF r = p THEN acct[r].spendable - a ELSE acct[r].spendable
          /\ after[r].receiving = acct[r].receiving
    BY <1>1 DEF Balances
  <2> HIDE DEF after
  <2>4. Moves(acct, Emitted("withdraw", p, p, a, after))
    BY <1>2, <2>1, <2>3 DEF Moves, Emitted
  <2>5. NothingUnregistered(after)
    BY <1>1, <2>1, <2>3 DEF NothingUnregistered
  <2>6. QED
    BY <2>1, <2>2, <2>4, <2>5, ExecuteKeeps DEF EventType
<1>7. ASSUME NEW p \in Account, NEW q \in Account, NEW a \in Amounts, Transfer(p, q, a)
      PROVE  AuditInv'
  <2> DEFINE spent == [acct EXCEPT ![p].spendable = @ - a]
             after == [spent EXCEPT ![q].receiving = @ + a]
  <2>1. /\ acct[p].registered /\ acct[q].registered /\ a \in Nat /\ a <= acct[p].spendable
        /\ Execute("transfer", p, q, a, after)
    BY <1>7, AuditorAssumption DEF Transfer
  <2>2. spent \in [Account -> Balances]
    BY <1>1, <1>2, <2>1 DEF Balances
  <2>3. \A r \in Account :
          /\ spent[r].registered = acct[r].registered
          /\ spent[r].spendable = IF r = p THEN acct[r].spendable - a ELSE acct[r].spendable
          /\ spent[r].receiving = acct[r].receiving
    BY <1>1 DEF Balances
  <2> HIDE DEF spent
  <2>4. after \in [Account -> Balances]
    BY <1>2, <2>1, <2>2, <2>3 DEF Balances
  <2>5. \A r \in Account :
          /\ after[r].registered = spent[r].registered
          /\ after[r].spendable = spent[r].spendable
          /\ after[r].receiving = IF r = q THEN spent[r].receiving + a ELSE spent[r].receiving
    BY <2>2 DEF Balances
  <2> HIDE DEF after
  <2>6. Moves(acct, Emitted("transfer", p, q, a, after))
    BY <1>2, <2>1, <2>3, <2>5 DEF Moves, Emitted
  <2>7. NothingUnregistered(after)
    BY <1>1, <2>1, <2>3, <2>5 DEF NothingUnregistered
  <2>8. QED
    BY <2>1, <2>4, <2>6, <2>7, ExecuteKeeps DEF EventType
<1>8. QED
  BY <1>3, <1>4, <1>5, <1>6, <1>7 DEF TokenStep

-----------------------------------------------------------------------------
(* Steps of the page. *)

LEMMA LoadKeeps ==
  ASSUME AuditInv, Load
  PROVE  AuditInv'
<1>1. /\ TypeOK /\ LogMovesAccounts
      /\ UNCHANGED chainVars /\ view' = NoView
      /\ log \in Seq(Event) /\ Len(log) \in Nat
  BY DEF AuditInv, Load, TypeOK
<1>2. PICK first \in 0 .. Len(log) :
        page' = [first |-> first, pos |-> first, upto |-> Len(log)]
  BY DEF Load
<1>3. UNCHANGED <<registry, acct, log>>
  BY <1>1 DEF chainVars
<1>4. NoView \in [Account -> View]
  BY DEF NoView, View
<1>5. TypeOK'
  BY <1>1, <1>2, <1>3, <1>4 DEF TypeOK
<1>6. LogMovesAccounts'
  <2>1. \A i : At(i)' = At(i)
    BY <1>3 DEF At
  <2>2. QED
    BY <1>1, <1>3, <2>1 DEF LogMovesAccounts
<1>7. At(page.pos)' \in [Account -> Balances] /\ page'.pos \in 0 .. Len(log)
  <2>1. At(first) \in [Account -> Balances]
    BY <1>1, AtType
  <2>2. At(page.pos)' = At(first)
    BY <1>2, <1>3 DEF At
  <2>3. QED
    BY <1>2, <2>1, <2>2
<1>8. \A p \in Account : /\ At(page.pos)'[p].receiving \in Nat
                          /\ At(page.pos)'[p].spendable \in Nat
  BY <1>7 DEF Balances
<1>9. \A p \in Account : view'[p] = [spendable |-> Unseen, receiving |-> 0]
  BY <1>1 DEF NoView
<1>10. CreditsAreReal' /\ NeverOverstates'
  BY <1>8, <1>9 DEF CreditsAreReal, NeverOverstates, Unseen
<1>11. ViewIsExact'
  <2>1. ASSUME page'.first = 0, NEW p \in Account
        PROVE  ~At(page.pos)'[p].registered
    BY <1>2, <2>1 DEF At, Fresh, NewAccount
  <2>2. QED
    BY <1>1, <2>1 DEF ViewIsExact
<1>12. \A p \in Account : ~HasMerged(p)' /\ ~Settled(p)'
  BY <1>2 DEF HasMerged, Settled
<1>13. QED
  BY <1>5, <1>6, <1>10, <1>11, <1>12 DEF AuditInv, MergedIsKnown, ExactOnceSettled

\* The heart of the matter: what replay makes of an event is what it did.
LEMMA ReplayEventKeeps ==
  ASSUME AuditInv, ReplayEvent
  PROVE  AuditInv'
<1> DEFINE n == page.pos + 1
           ev == log[n]
           before == At(page.pos)
           now == ev.after
<1>1. /\ TypeOK /\ LogMovesAccounts /\ ViewInv
      /\ UNCHANGED chainVars /\ view' = Replay(view, ev)
      /\ page' = [page EXCEPT !.pos = n] /\ page.pos < page.upto
  BY DEF AuditInv, ViewInv, ReplayEvent
<1>2. /\ log \in Seq(Event) /\ Len(log) \in Nat
      /\ view \in [Account -> View]
      /\ page \in [first : Nat, pos : Nat, upto : Nat]
      /\ page.first <= page.pos /\ page.upto <= Len(log)
  BY <1>1 DEF TypeOK
<1>3. /\ page'.first = page.first /\ page'.pos = n /\ page'.upto = page.upto
      /\ n \in 1 .. Len(log) /\ page.pos \in 0 .. Len(log) /\ page.pos = n - 1
      /\ page.first \in Nat /\ page.pos \in Nat /\ page.first <= page.pos
  BY <1>1, <1>2
<1>4. UNCHANGED <<registry, acct, log>>
  BY <1>1 DEF chainVars
<1>5. ev \in Event
  BY <1>2, <1>3
<1>6. before \in [Account -> Balances] /\ now \in [Account -> Balances]
  BY <1>2, <1>3, <1>5, AtType DEF Event
<1>7. Moves(before, ev) /\ NothingUnregistered(before)
  BY <1>1, <1>3 DEF LogMovesAccounts
<1>8. At(page.pos)' = now
  BY <1>3, <1>4 DEF At
<1>9. /\ view' \in [Account -> View]
      /\ \A p \in Account :
           /\ view'[p].receiving =
                IF ev.type = "merge" /\ p = ev.from THEN 0
                ELSE IF p = ev.to /\ (ev.type = "deposit" \/ (ev.type = "transfer" /\ ChannelsAgree(ev)))
                  THEN view[p].receiving + ev.amount
                ELSE view[p].receiving
           /\ view'[p].spendable =
                IF p # ev.from THEN view[p].spendable
                ELSE IF ev.type = "register" THEN 0
                ELSE IF ev.type = "merge" THEN Plus(view[p].spendable, view[p].receiving)
                ELSE IF ev.type = "withdraw" THEN Decrypt(ev.keyS, ev.balance)
                ELSE IF ev.type = "transfer" /\ ChannelsAgree(ev) THEN ev.balance
                ELSE view[p].spendable
  BY <1>1, <1>2, <1>5, ReplayEffect
<1> HIDE DEF n, ev, before, now
<1>10. TypeOK'
  BY <1>1, <1>2, <1>3, <1>4, <1>9 DEF TypeOK
<1>11. LogMovesAccounts'
  <2>1. \A i : At(i)' = At(i)
    BY <1>4 DEF At
  <2>2. QED
    BY <1>1, <1>4, <2>1 DEF LogMovesAccounts
<1>12. /\ ev.type \in EventType /\ ev.from \in Account /\ ev.to \in Account
       /\ ev.amount \in Nat /\ ev.balance \in Nat
  BY <1>5 DEF Event
<1>13. \A p \in Account :
         /\ before[p].spendable \in Nat /\ before[p].receiving \in Nat
         /\ now[p].spendable \in Nat /\ now[p].receiving \in Nat
         /\ before[p].registered \in BOOLEAN /\ now[p].registered \in BOOLEAN
         /\ view[p].spendable \in Nat \cup {Unseen} /\ view[p].receiving \in Nat
         /\ view'[p].spendable \in Nat \cup {Unseen} /\ view'[p].receiving \in Nat
  BY <1>2, <1>6, <1>9 DEF Balances, View
<1>14. /\ ev.balance = now[ev.from].spendable
       /\ ev.type = "register" => ~before[ev.from].registered
       /\ ev.type \in {"deposit", "transfer"} => before[ev.to].registered
       /\ ev.type \in {"merge", "withdraw", "transfer"} => before[ev.from].registered
       /\ \A p \in Account :
            /\ now[p].registered = (before[p].registered \/ (ev.type = "register" /\ p = ev.from))
            /\ now[p].spendable =
                 IF ev.type = "merge" /\ p = ev.from
                   THEN before[p].spendable + before[p].receiving
                 ELSE IF ev.type \in {"withdraw", "transfer"} /\ p = ev.from
                   THEN before[p].spendable - ev.amount
                 ELSE before[p].spendable
            /\ now[p].receiving =
                 IF ev.type = "merge" /\ p = ev.from THEN 0
                 ELSE IF ev.type \in {"deposit", "transfer"} /\ p = ev.to
                   THEN before[p].receiving + ev.amount
                 ELSE before[p].receiving
  BY <1>7 DEF Moves, now
<1>15. \A p \in Account : ~before[p].registered =>
         before[p].spendable = 0 /\ before[p].receiving = 0
  BY <1>7 DEF NothingUnregistered
<1>16. CreditsAreReal'
  <2>1. SUFFICES ASSUME NEW p \in Account
                 PROVE  view'[p].receiving <= now[p].receiving
    BY <1>8 DEF CreditsAreReal
  <2>2. view[p].receiving <= before[p].receiving
    BY <1>1 DEF ViewInv, CreditsAreReal, before
  <2>3. QED
    BY <1>9, <1>12, <1>13, <1>14, <2>2
\* What is readable now was readable before, and so is the event.
<1>17. ASSUME Readable'
       PROVE  /\ Readable
              /\ ChannelsAgree(ev) /\ Decrypt(ev.keyS, ev.balance) = ev.balance
  <2>1. \A i \in page.first + 1 .. n : log[i].keyS = MyKey /\ log[i].keyR = MyKey
    BY <1>3, <1>4, <1>17 DEF Readable
  <2>2. Readable
    BY <1>3, <2>1 DEF Readable
  <2>3. ev.keyS = MyKey /\ ev.keyR = MyKey
    BY <1>3, <2>1 DEF ev
  <2>4. QED
    BY <2>2, <2>3 DEF ChannelsAgree, Decrypt
<1>18. NeverOverstates'
  <2>1. SUFFICES ASSUME Readable', NEW p \in Account
                 PROVE  /\ view'[p].receiving <= now[p].receiving
                        /\ view'[p].spendable <= now[p].spendable
    BY <1>8 DEF NeverOverstates
  <2>2. view[p].receiving <= before[p].receiving /\ view[p].spendable <= before[p].spendable
    BY <1>1, <1>17, <2>1 DEF ViewInv, NeverOverstates, before
  <2>3. view'[p].receiving <= now[p].receiving
    BY <1>9, <1>12, <1>13, <1>14, <2>2
  <2>4. view'[p].spendable <= now[p].spendable
    BY <1>9, <1>12, <1>13, <1>14, <1>17, <2>1, <2>2 DEF Plus, EventType, Unseen
  <2>5. QED
    BY <2>3, <2>4
\* A known balance stays known.
<1>19. ASSUME Readable', NEW p \in Account, view[p].receiving = before[p].receiving
       PROVE  view'[p].receiving = now[p].receiving
  BY <1>9, <1>12, <1>13, <1>14, <1>17, <1>19
<1>20. ASSUME Readable', NEW p \in Account,
              view[p].receiving = before[p].receiving, view[p].spendable = before[p].spendable
       PROVE  view'[p].spendable = now[p].spendable
  BY <1>9, <1>12, <1>13, <1>14, <1>15, <1>17, <1>20 DEF Plus, EventType
<1>21. \A p \in Account :
         view'[p] = [spendable |-> view'[p].spendable, receiving |-> view'[p].receiving]
  BY <1>9 DEF View
<1>22. ViewIsExact'
  <2>1. SUFFICES ASSUME page.first = 0, Readable', NEW p \in Account
                 PROVE  view'[p] = IF now[p].registered
                                     THEN [spendable |-> now[p].spendable,
                                           receiving |-> now[p].receiving]
                                     ELSE NoView[p]
    BY <1>3, <1>8 DEF ViewIsExact
  <2>2. view[p] = IF before[p].registered
                    THEN [spendable |-> before[p].spendable,
                          receiving |-> before[p].receiving]
                    ELSE NoView[p]
    BY <1>1, <1>17, <2>1 DEF ViewInv, ViewIsExact, before
  <2>3. CASE before[p].registered
    <3>1. view[p].receiving = before[p].receiving /\ view[p].spendable = before[p].spendable
      BY <2>2, <2>3
    <3>2. view'[p].receiving = now[p].receiving /\ view'[p].spendable = now[p].spendable
      BY <1>19, <1>20, <2>1, <3>1
    <3>3. now[p].registered
      BY <1>14, <2>3
    <3>4. QED
      BY <1>21, <3>2, <3>3
  <2>4. CASE ~before[p].registered
    <3>1. view[p].spendable = Unseen /\ view[p].receiving = 0
      BY <2>2, <2>4 DEF NoView
    <3>2. CASE ev.type = "register" /\ p = ev.from
      <4>1. view'[p].spendable = 0 /\ view'[p].receiving = 0
        BY <1>9, <3>1, <3>2
      <4>2. now[p].registered /\ now[p].spendable = 0 /\ now[p].receiving = 0
        BY <1>14, <1>15, <2>4, <3>2
      <4>3. QED
        BY <1>21, <4>1, <4>2
    <3>3. CASE ~(ev.type = "register" /\ p = ev.from)
      <4>1. ~now[p].registered
        BY <1>14, <2>4, <3>3
      <4>2. /\ ev.type \in {"deposit", "transfer"} => p # ev.to
            /\ ev.type \in {"merge", "withdraw", "transfer"} => p # ev.from
        BY <1>14, <2>4
      <4>3. view'[p].spendable = Unseen /\ view'[p].receiving = 0
        BY <1>9, <1>12, <3>1, <3>3, <4>2 DEF EventType
      <4>4. QED
        BY <1>21, <4>1, <4>3 DEF NoView
    <3>4. QED
      BY <3>2, <3>3
  <2>5. QED
    BY <2>3, <2>4
<1>23. MergedIsKnown'
  <2>1. SUFFICES ASSUME Readable', NEW p \in Account, HasMerged(p)'
                 PROVE  view'[p].receiving = now[p].receiving
    BY <1>8 DEF MergedIsKnown
  <2>2. PICK i \in page.first + 1 .. n : log[i].from = p /\ log[i].type = "merge"
    BY <1>3, <1>4, <2>1 DEF HasMerged
  <2>3. CASE i = n
    BY <1>9, <1>14, <2>2, <2>3 DEF ev
  <2>4. CASE i # n
    <3>1. HasMerged(p)
      BY <1>3, <2>2, <2>4 DEF HasMerged
    <3>2. view[p].receiving = before[p].receiving
      BY <1>1, <1>17, <2>1, <3>1 DEF ViewInv, MergedIsKnown, before
    <3>3. QED
      BY <1>19, <2>1, <3>2
  <2>5. QED
    BY <2>3, <2>4
<1>24. ExactOnceSettled'
  <2>1. SUFFICES ASSUME Readable', NEW p \in Account, Settled(p)'
                 PROVE  /\ view'[p].spendable = now[p].spendable
                        /\ view'[p].receiving = now[p].receiving
    BY <1>8, <1>21 DEF ExactOnceSettled
  <2>2. PICK i \in page.first + 1 .. n, j \in page.first + 1 .. n :
          /\ i < j
          /\ log[i].from = p /\ log[i].type = "merge"
          /\ log[j].from = p /\ log[j].type \in {"withdraw", "transfer"}
    BY <1>3, <1>4, <2>1 DEF Settled
  <2>3. HasMerged(p)
    BY <1>3, <2>2 DEF HasMerged
  <2>4. view[p].receiving = before[p].receiving
    BY <1>1, <1>17, <2>1, <2>3 DEF ViewInv, MergedIsKnown, before
  <2>5. CASE j = n
    <3>1. view'[p].spendable = now[p].spendable
      BY <1>9, <1>14, <1>17, <2>1, <2>2, <2>5 DEF ev
    <3>2. QED
      BY <1>19, <2>1, <2>4, <3>1
  <2>6. CASE j # n
    <3>1. Settled(p)
      BY <1>3, <2>2, <2>6 DEF Settled
    <3>2. view[p].spendable = before[p].spendable
      <4>1. view[p] = [spendable |-> before[p].spendable, receiving |-> before[p].receiving]
        BY <1>1, <1>17, <2>1, <3>1 DEF ViewInv, ExactOnceSettled, before
      <4>2. QED
        BY <4>1
    <3>3. QED
      BY <1>19, <1>20, <2>1, <2>4, <3>2
  <2>7. QED
    BY <2>5, <2>6
<1>25. QED
  BY <1>10, <1>11, <1>16, <1>18, <1>22, <1>23, <1>24 DEF AuditInv

-----------------------------------------------------------------------------

LEMMA InitAuditInv == Init => AuditInv
<1> SUFFICES ASSUME Init PROVE AuditInv
  OBVIOUS
<1>1. /\ log = <<>> /\ Len(log) = 0 /\ acct = Fresh
      /\ page = [first |-> 0, pos |-> 0, upto |-> 0] /\ view = NoView
      /\ registry = [id \in AuditorId |-> MyKey]
  BY DEF Init
<1>2. At(0) = Fresh
  BY DEF At
<1>3. TypeOK
  BY <1>1, NewAccountType, AuditorAssumption DEF TypeOK, NoView, View
<1>4. LogMovesAccounts
  BY <1>1, <1>2 DEF LogMovesAccounts, NothingUnregistered, Fresh, NewAccount
<1>5. \A p \in Account : /\ At(page.pos)[p].receiving = 0 /\ At(page.pos)[p].spendable = 0
                          /\ ~At(page.pos)[p].registered
                          /\ view[p] = [spendable |-> Unseen, receiving |-> 0]
                          /\ view[p] = NoView[p]
  <2>1. At(page.pos) = Fresh
    BY <1>1 DEF At
  <2>2. \A p \in Account : Fresh[p] = NewAccount
    BY DEF Fresh
  <2>3. NewAccount.receiving = 0 /\ NewAccount.spendable = 0 /\ ~NewAccount.registered
    BY DEF NewAccount
  <2>4. \A p \in Account : NoView[p] = [spendable |-> Unseen, receiving |-> 0]
    BY DEF NoView
  <2>5. QED
    BY <1>1, <2>1, <2>2, <2>3, <2>4
<1>6. CreditsAreReal /\ NeverOverstates /\ ViewIsExact
  BY <1>5 DEF CreditsAreReal, NeverOverstates, ViewIsExact, Unseen
<1>7. \A p \in Account : ~HasMerged(p) /\ ~Settled(p)
  BY <1>1 DEF HasMerged, Settled
<1>8. QED
  BY <1>3, <1>4, <1>6, <1>7 DEF AuditInv, MergedIsKnown, ExactOnceSettled

LEMMA RotateKeyKeeps ==
  ASSUME AuditInv, NEW id \in AuditorId, NEW k \in Key, RotateKey(id, k)
  PROVE  AuditInv'
<1>1. registry' \in [AuditorId -> Key] /\ UNCHANGED <<acct, log, page, view>>
  BY DEF AuditInv, TypeOK, RotateKey
<1>2. TypeOK'
  BY <1>1 DEF AuditInv, TypeOK
<1>3. LogMovesAccounts'
  BY <1>1 DEF AuditInv, LogMovesAccounts, Moves, NothingUnregistered, At
<1>4. \A i \in 0 .. Len(log) : At(i)' = At(i)
  BY <1>1 DEF At
<1>5. ViewInv'
  BY <1>1, <1>4, ViewInvKeeps DEF AuditInv, ViewInv
<1>6. QED
  BY <1>2, <1>3, <1>5 DEF AuditInv, ViewInv

LEMMA StutterKeeps ==
  ASSUME AuditInv, UNCHANGED vars
  PROVE  AuditInv'
<1>1. UNCHANGED <<registry, acct, log, page, view>>
  BY DEF vars, chainVars
<1>2. TypeOK'
  BY <1>1 DEF AuditInv, TypeOK
<1>3. LogMovesAccounts'
  BY <1>1 DEF AuditInv, LogMovesAccounts, Moves, NothingUnregistered, At
<1>4. \A i \in 0 .. Len(log) : At(i)' = At(i)
  BY <1>1 DEF At
<1>5. ViewInv'
  BY <1>1, <1>4, ViewInvKeeps DEF AuditInv, ViewInv
<1>6. QED
  BY <1>2, <1>3, <1>5 DEF AuditInv, ViewInv

LEMMA NextAuditInv == AuditInv /\ [Next]_vars => AuditInv'
<1> SUFFICES ASSUME AuditInv, [Next]_vars PROVE AuditInv'
  OBVIOUS
<1>1. CASE TokenStep
  BY <1>1, TokenStepKeeps
<1>2. ASSUME NEW id \in AuditorId, NEW k \in Key, RotateKey(id, k)
      PROVE  AuditInv'
  BY <1>2, RotateKeyKeeps
<1>3. CASE Load
  BY <1>3, LoadKeeps
<1>4. CASE ReplayEvent
  BY <1>4, ReplayEventKeeps
<1>5. CASE UNCHANGED vars
  BY <1>5, StutterKeeps
<1>6. QED
  BY <1>1, <1>2, <1>3, <1>4, <1>5 DEF Next

\* The inductive invariant of the auditor's replay holds in every reachable
\* state (page.tsx:62-154).
THEOREM AuditInvariance == Spec => []AuditInv
BY InitAuditInv, NextAuditInv, PTL DEF Spec

\* Every variable keeps its type; in particular no account is ever overdrawn
\* and a load replays nothing it has not fetched.
THEOREM AuditTypes == Spec => []TypeOK
<1>1. AuditInv => TypeOK
  BY DEF AuditInv
<1>2. QED
  BY <1>1, AuditInvariance, PTL

\* A replay from the deployment on, of events this auditor can read, shows the
\* balances of every account exactly (page.tsx:8-12).
THEOREM ViewsAreExact == Spec => []ViewIsExact
<1>1. AuditInv => ViewIsExact
  BY DEF AuditInv
<1>2. QED
  BY <1>1, AuditInvariance, PTL

\* A replay from any later point never shows more than there is (page.tsx:240).
THEOREM ViewsNeverOverstate == Spec => []NeverOverstates
<1>1. AuditInv => NeverOverstates
  BY DEF AuditInv
<1>2. QED
  BY <1>1, AuditInvariance, PTL

\* Such a replay is exact again once the account has merged and then spent
\* (page.tsx:89-146).
THEOREM ViewsHeal == Spec => []ExactOnceSettled
<1>1. AuditInv => ExactOnceSettled
  BY DEF AuditInv
<1>2. QED
  BY <1>1, AuditInvariance, PTL

\* Whatever keys are replaced and whatever keys the parties use, a credit shown
\* has been received (page.tsx:132-135).
THEOREM CreditsShownAreReal == Spec => []CreditsAreReal
<1>1. AuditInv => CreditsAreReal
  BY DEF AuditInv
<1>2. QED
  BY <1>1, AuditInvariance, PTL

=============================================================================
