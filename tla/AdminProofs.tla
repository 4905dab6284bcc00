------------------------------ MODULE AdminProofs ------------------------------
(***************************************************************************)
(* Theorems about AdminConsole, for any accounts, any number of tokens,    *)
(* events and ledgers, and any number of calls at a time.                  *)
(***************************************************************************)
EXTENDS AdminConsole, TLAPS

\* The tokens, and what their events say of their storage.
ChainOK ==
  /\ ledger \in 1 .. MaxLedger
  /\ tokens \in Seq(Token) /\ Len(tokens) \in 1 .. MaxTokens
  /\ \A t \in 1 .. Len(tokens) : Faithful(tokens[t].log)

\* Read from d.from on, the token of d has its whole history.
Reads(d) ==
  /\ d.token \in 1 .. Len(tokens)
  /\ d.from <= ledger
  /\ \A i \in 1 .. Len(tokens[d.token].log) : d.from <= tokens[d.token].log[i].ledger

DeployOK(d) == d.from <= ledger /\ (d.token # 0 => Reads(d))

SlotOK ==
  /\ deploys \subseteq DeployCall /\ \A d \in deploys : DeployOK(d)
  /\ advanced \in Deployment /\ (advanced = None \/ Reads(advanced))
  /\ which \in {"default", "advanced"}

\* Who is connected, and whose token the active one is taken to be.
AccessOK ==
  /\ onPage \in BOOLEAN /\ ownerLoaded \in BOOLEAN
  /\ signer \in Account \cup {NoAccount}
  /\ owner \in {NoAccount, tokens[Active.token].owner}
  /\ ownerReads \subseteq {Active.token}
  /\ ~onPage => owner = NoAccount /\ ownerReads = {}

\* A load reads a whole history; an action was begun by the owner, and the load
\* that follows it has read it.
CallOK(c) ==
  /\ c.stage # "calling" => c.job \in {"load", "act"}
  /\ c.job \in {"load", "act"} => Reads(c.dep) /\ c.seen <= Len(tokens[c.dep.token].log)
  /\ c.job = "act" =>
       /\ c.by = tokens[c.dep.token].owner
       /\ c.stage = "calling" => c.change.who \in Account
       /\ c.stage # "calling" => c.at <= Len(tokens[c.dep.token].log)
       /\ c.stage \in {"tokenRead", "policy", "policyRead"} => c.at <= c.seen

CallsOK == calls \in [Slot -> Call] /\ busy \in BOOLEAN /\ \A k \in Slot : CallOK(calls[k])

ListOK(l, x) ==
  x.token # 0 =>
    /\ x.token \in 1 .. Len(tokens)
    /\ x.seen <= Len(tokens[x.token].log)
    /\ x.who = Storage(x.token, x.seen)[l]

ListsOK == lists \in [ListName -> Shown] /\ \A l \in ListName : ListOK(l, lists[l])

AdminInv == ChainOK /\ SlotOK /\ AccessOK /\ CallsOK /\ ListsOK

\* Tokens are added, and events to their logs, of the present ledger.
Grows ==
  /\ ledger <= ledger' /\ Len(tokens) <= Len(tokens')
  /\ \A t \in 1 .. Len(tokens) :
       /\ tokens'[t].kind = tokens[t].kind /\ tokens'[t].owner = tokens[t].owner
       /\ Len(tokens[t].log) <= Len(tokens'[t].log)
       /\ \A i \in 1 .. Len(tokens'[t].log) :
            IF i <= Len(tokens[t].log) THEN tokens'[t].log[i] = tokens[t].log[i]
                                       ELSE tokens'[t].log[i].ledger = ledger

-----------------------------------------------------------------------------
(* The contracts. *)

LEMMA TokenFacts ==
  ASSUME ChainOK, NEW t \in 1 .. Len(tokens)
  PROVE  /\ tokens[t] \in Token
         /\ tokens[t].log \in Seq(Event) /\ Len(tokens[t].log) \in Nat
         /\ tokens[t].owner \in Account \cup {NoAccount} /\ tokens[t].kind \in CtKind
         /\ Faithful(tokens[t].log)
<1>1. tokens[t] \in Token
  BY DEF ChainOK
<1>2. tokens[t].log \in Seq(Event)
  BY <1>1 DEF Token
<1>3. QED
  BY <1>1, <1>2 DEF ChainOK, Token

LEMMA StorageFacts ==
  ASSUME ChainOK, NEW t \in 1 .. Len(tokens), NEW n \in 0 .. Len(tokens[t].log)
  PROVE  /\ Storage(t, n) \in [ListName -> SUBSET Account]
         /\ \A l \in ListName : Storage(t, n)[l] = Listed(tokens[t].log, l, n)
<1>1. tokens[t].log \in Seq(Event) /\ Faithful(tokens[t].log)
  BY TokenFacts
<1>2. CASE n = 0
  <2>1. Storage(t, n) = NoMembers
    BY <1>2 DEF Storage
  <2>2. \A l \in ListName : Listed(tokens[t].log, l, n) = {}
    BY <1>2 DEF Listed
  <2>3. QED
    BY <2>1, <2>2 DEF NoMembers
<1>3. CASE n # 0
  <2>1. n \in 1 .. Len(tokens[t].log) /\ Storage(t, n) = tokens[t].log[n].after
    BY <1>1, <1>3 DEF Storage
  <2>2. tokens[t].log[n] \in Event
    BY <1>1, <2>1
  <2>3. tokens[t].log[n].after \in [ListName -> SUBSET Account]
    BY <2>2 DEF Event
  <2>4. QED
    BY <1>1, <2>1, <2>3 DEF Faithful
<1>4. QED
  BY <1>2, <1>3

\* What replaySet makes of the events it has read is what the contract had.
LEMMA ReplayIsStorage ==
  ASSUME ChainOK, NEW d, Reads(d), NEW l \in ListName,
         NEW n \in 0 .. Len(tokens[d.token].log)
  PROVE  ReplaySet(l, d, n) = Storage(d.token, n)[l]
<1> DEFINE log == tokens[d.token].log
<1>1. d.token \in 1 .. Len(tokens) /\ \A i \in 1 .. n : log[i].ledger >= d.from
  <2>1. d.token \in 1 .. Len(tokens) /\ Len(log) \in Nat
    BY TokenFacts DEF Reads
  <2>2. \A i \in 1 .. n : i \in 1 .. Len(log)
    BY <2>1
  <2>3. QED
    BY <2>1, <2>2 DEF Reads
<1>2. Concerning(l, d, n) = {i \in 1 .. n : log[i].list = l}
  BY <1>1 DEF Concerning
<1>3. ReplaySet(l, d, n) = Listed(log, l, n)
  BY <1>2 DEF ReplaySet, Listed
<1>4. QED
  BY <1>1, <1>3, StorageFacts

\* An event moves one account into a list or out of it.
TellsOneMore(log, e, l) ==
  /\ \A n \in 0 .. Len(log) : Listed(Append(log, e), l, n) = Listed(log, l, n)
  /\ Listed(Append(log, e), l, Len(log) + 1) =
       IF e.list # l THEN Listed(log, l, Len(log))
       ELSE IF e.on THEN Listed(log, l, Len(log)) \cup {e.who}
                    ELSE Listed(log, l, Len(log)) \ {e.who}

LEMMA AppendListed ==
  ASSUME NEW log \in Seq(Event), NEW e \in Event, NEW l \in ListName
  PROVE  TellsOneMore(log, e, l)
<1> PICK m : m = Len(log)
  OBVIOUS
<1> PICK new : new = Append(log, e)
  OBVIOUS
<1>1. /\ m \in Nat /\ Len(new) = m + 1 /\ new[m + 1] = e
      /\ \A i \in 1 .. m : new[i] = log[i]
      /\ e.who \in Account
  BY DEF Event
<1>2. \A n \in 0 .. m : Listed(new, l, n) = Listed(log, l, n)
  <2>1. SUFFICES ASSUME NEW n \in 0 .. m PROVE Listed(new, l, n) = Listed(log, l, n)
    OBVIOUS
  <2>2. \A i \in 1 .. n : new[i] = log[i]
    BY <1>1
  <2>3. QED
    BY <2>2 DEF Listed
<1>3. ASSUME e.list # l
      PROVE  Listed(new, l, m + 1) = Listed(log, l, m)
  <2>1. \A i \in 1 .. m + 1 : new[i].list = l => i \in 1 .. m
    BY <1>1, <1>3
  <2>2. QED
    BY <1>1, <2>1 DEF Listed
<1>4. ASSUME e.list = l, NEW a \in Account, a # e.who
      PROVE  a \in Listed(new, l, m + 1) <=> a \in Listed(log, l, m)
  <2>1. \A i \in 1 .. m + 1 : new[i].who = a => i \in 1 .. m
    BY <1>1, <1>4
  <2>2. QED
    BY <1>1, <2>1 DEF Listed
<1>5. ASSUME e.list = l
      PROVE  e.who \in Listed(new, l, m + 1) <=> e.on
  <2>1. \A i \in 1 .. m + 1 : (m + 1 <= i) => i = m + 1
    BY <1>1
  <2>2. m + 1 \in 1 .. m + 1 /\ \A j \in 1 .. m + 1 : j <= m + 1
    BY <1>1
  <2>3. QED
    BY <1>1, <1>5, <2>1, <2>2 DEF Listed
<1>6. Listed(new, l, m + 1) \subseteq Account /\ Listed(log, l, m) \subseteq Account
  BY DEF Listed
<1>7. Listed(new, l, m + 1) = IF e.list # l THEN Listed(log, l, m)
                              ELSE IF e.on THEN Listed(log, l, m) \cup {e.who}
                                           ELSE Listed(log, l, m) \ {e.who}
  <2>1. CASE e.list # l
    BY <1>3, <2>1
  <2>2. CASE e.list = l /\ e.on
    BY <1>1, <1>4, <1>5, <1>6, <2>2
  <2>3. CASE e.list = l /\ ~e.on
    BY <1>1, <1>4, <1>5, <1>6, <2>3
  <2>4. QED
    BY <2>1, <2>2, <2>3
<1>8. QED
  BY <1>2, <1>7 DEF TellsOneMore

\* The storage after e is what log tells, changed by e.
ChangedBy(log, e) ==
  \A m \in ListName :
    e.after[m] = IF e.list # m THEN Listed(log, m, Len(log))
                 ELSE IF e.on THEN Listed(log, m, Len(log)) \cup {e.who}
                              ELSE Listed(log, m, Len(log)) \ {e.who}

LEMMA AppendFaithful ==
  ASSUME NEW log \in Seq(Event), NEW e \in Event, Faithful(log), e.ledger >= 1,
         ChangedBy(log, e)
  PROVE  Faithful(Append(log, e))
<1>1. \A m \in ListName :
        /\ \A n \in 0 .. Len(log) : Listed(Append(log, e), m, n) = Listed(log, m, n)
        /\ Listed(Append(log, e), m, Len(log) + 1) = e.after[m]
  <2> SUFFICES ASSUME NEW m \in ListName
               PROVE  /\ \A n \in 0 .. Len(log) : Listed(Append(log, e), m, n) = Listed(log, m, n)
                      /\ Listed(Append(log, e), m, Len(log) + 1) = e.after[m]
    OBVIOUS
  <2>1. TellsOneMore(log, e, m)
    BY AppendListed
  <2>2. QED
    BY <2>1 DEF TellsOneMore, ChangedBy
<1> PICK new : new = Append(log, e)
  OBVIOUS
<1>2. /\ Len(log) \in Nat /\ Len(new) = Len(log) + 1 /\ new[Len(log) + 1] = e
      /\ \A i \in 1 .. Len(log) : new[i] = log[i]
  OBVIOUS
<1>3. SUFFICES ASSUME NEW n \in 1 .. Len(new)
               PROVE  /\ new[n].ledger >= 1
                      /\ \A m \in ListName : new[n].after[m] = Listed(new, m, n)
  BY DEF Faithful
<1>4. CASE n = Len(log) + 1
  BY <1>1, <1>2, <1>4
<1>5. CASE n # Len(log) + 1
  <2>1. n \in 1 .. Len(log) /\ n \in 0 .. Len(log)
    BY <1>2, <1>5
  <2>2. \A m \in ListName : Listed(new, m, n) = Listed(log, m, n)
    BY <1>1, <2>1
  <2>3. new[n] = log[n] /\ log[n].ledger >= 1
    BY <1>2, <2>1 DEF Faithful
  <2>4. \A m \in ListName : log[n].after[m] = Listed(log, m, n)
    BY <2>1 DEF Faithful
  <2>5. QED
    BY <2>2, <2>3, <2>4
<1>6. QED
  BY <1>4, <1>5

LEMMA ChainUnchanged ==
  ASSUME ChainOK, UNCHANGED chainVars
  PROVE  ChainOK' /\ Grows
<1>1. ChainOK'
  BY DEF ChainOK, chainVars
<1>2. ledger <= ledger' /\ Len(tokens) <= Len(tokens')
  BY DEF ChainOK, chainVars
<1>3. \A t \in 1 .. Len(tokens) : Len(tokens[t].log) \in Nat
  BY TokenFacts
<1>4. QED
  BY <1>1, <1>2, <1>3 DEF Grows, chainVars

\* A flag is set or cleared, or was so before.
LEMMA ChangeGrows ==
  ASSUME ChainOK, NEW t \in 1 .. Len(tokens), NEW l \in ListName, NEW on \in BOOLEAN,
         NEW a \in Account, Change(t, l, on, a), UNCHANGED ledger
  PROVE  ChainOK' /\ Grows
<1> PICK log : log = tokens[t].log
  OBVIOUS
<1> PICK after : after = [Current(t) EXCEPT ![l] = IF on THEN @ \cup {a} ELSE @ \ {a}]
  OBVIOUS
<1> PICK e : e = [ledger |-> ledger, list |-> l, on |-> on, who |-> a, after |-> after]
  OBVIOUS
<1>1. /\ log \in Seq(Event) /\ Len(log) \in Nat /\ Faithful(log)
      /\ tokens[t] \in Token /\ tokens \in Seq(Token)
      /\ ledger \in Nat /\ ledger >= 1 /\ ledger \in 1 .. MaxLedger
  BY TokenFacts, AdminAssumption DEF ChainOK
<1>2. CASE UNCHANGED tokens
  BY <1>2, ChainUnchanged DEF chainVars
<1>3. CASE tokens' = [tokens EXCEPT ![t].log = Append(@, e)]
  <2>1. /\ Current(t) \in [ListName -> SUBSET Account]
        /\ \A m \in ListName : Current(t)[m] = Listed(log, m, Len(log))
    BY <1>1, StorageFacts DEF Current
  <2>2. after \in [ListName -> SUBSET Account]
    BY <2>1
  <2>3. e \in Event
    BY <1>1, <2>2 DEF Event
  <2> PICK new : new = Append(log, e)
    OBVIOUS
  <2>4. /\ new \in Seq(Event) /\ Len(new) = Len(log) + 1 /\ new[Len(log) + 1] = e
        /\ \A i \in 1 .. Len(log) : new[i] = log[i]
    BY <1>1, <2>3
  <2>5. ChangedBy(log, e)
    <3>1. \A m \in ListName : after[m] = IF m # l THEN Current(t)[m]
                                         ELSE IF on THEN Current(t)[m] \cup {a}
                                                    ELSE Current(t)[m] \ {a}
      BY <2>1
    <3>2. e.list = l /\ e.on = on /\ e.who = a /\ e.after = after
      OBVIOUS
    <3>3. QED
      BY <2>1, <3>1, <3>2 DEF ChangedBy
  <2>6. Faithful(new)
    <3>1. e.ledger >= 1
      BY <1>1
    <3>2. Faithful(Append(log, e))
      BY <1>1, <2>3, <2>5, <3>1, AppendFaithful
    <3>3. QED
      BY <3>2
  <2> PICK token : token = [tokens[t] EXCEPT !.log = new]
    OBVIOUS
  <2>7. /\ token \in Token /\ token.log = new
        /\ token.kind = tokens[t].kind /\ token.owner = tokens[t].owner
    BY <1>1, <2>4 DEF Token
  <2>8. tokens' = [tokens EXCEPT ![t] = token]
    BY <1>3
  <2>9. /\ tokens' \in Seq(Token) /\ Len(tokens') = Len(tokens)
        /\ \A u \in 1 .. Len(tokens) : tokens'[u] = IF u = t THEN token ELSE tokens[u]
    BY <1>1, <2>7, <2>8
  <2>10. ChainOK'
    BY <1>1, <2>6, <2>7, <2>9 DEF ChainOK
  <2>11. \A u \in 1 .. Len(tokens) :
           /\ tokens'[u].kind = tokens[u].kind /\ tokens'[u].owner = tokens[u].owner
           /\ Len(tokens[u].log) <= Len(tokens'[u].log)
           /\ \A i \in 1 .. Len(tokens'[u].log) :
                IF i <= Len(tokens[u].log) THEN tokens'[u].log[i] = tokens[u].log[i]
                                           ELSE tokens'[u].log[i].ledger = ledger
    <3>1. SUFFICES ASSUME NEW u \in 1 .. Len(tokens)
                   PROVE  /\ tokens'[u].kind = tokens[u].kind
                          /\ tokens'[u].owner = tokens[u].owner
                          /\ Len(tokens[u].log) <= Len(tokens'[u].log)
                          /\ \A i \in 1 .. Len(tokens'[u].log) :
                               IF i <= Len(tokens[u].log)
                                 THEN tokens'[u].log[i] = tokens[u].log[i]
                                 ELSE tokens'[u].log[i].ledger = ledger
      OBVIOUS
    <3>2. CASE u = t
      <4>1. \A i \in 1 .. Len(new) : IF i <= Len(log) THEN new[i] = log[i]
                                                      ELSE new[i].ledger = ledger
        <5>1. e.ledger = ledger
          OBVIOUS
        <5>2. QED
          BY <1>1, <2>4, <5>1
      <4>2. tokens'[u] = token
        BY <2>9, <3>2
      <4>3. QED
        BY <1>1, <2>4, <2>7, <3>2, <4>1, <4>2
    <3>3. CASE u # t
      <4>1. Len(tokens[u].log) \in Nat
        BY TokenFacts
      <4>2. QED
        BY <2>9, <3>3, <4>1
    <3>4. QED
      BY <3>2, <3>3
  <2>12. QED
    BY <1>1, <2>9, <2>10, <2>11 DEF Grows
<1>4. QED
  BY <1>2, <1>3 DEF Change

-----------------------------------------------------------------------------
(* What grows keeps what was said of it. *)

LEMMA GrowthKeepsReads ==
  ASSUME ChainOK, ChainOK', Grows, NEW d, d.from \in Nat, Reads(d)
  PROVE  Reads(d)'
<1> PICK t : t = d.token
  OBVIOUS
<1>1. /\ t \in 1 .. Len(tokens) /\ t \in 1 .. Len(tokens')
      /\ ledger \in Nat /\ ledger' \in Nat /\ d.from <= ledger /\ ledger <= ledger'
  BY DEF ChainOK, Grows, Reads
<1>2. Len(tokens[t].log) \in Nat /\ Len(tokens'[t].log) \in Nat
  <2>1. Len(tokens[t].log) \in Nat
    BY <1>1, TokenFacts
  <2>2. tokens'[t] \in Token
    BY <1>1 DEF ChainOK
  <2>3. QED
    BY <2>1, <2>2 DEF Token
<1>3. ASSUME NEW i \in 1 .. Len(tokens'[t].log)
      PROVE  d.from <= tokens'[t].log[i].ledger
  <2>1. /\ i <= Len(tokens[t].log) => tokens'[t].log[i] = tokens[t].log[i]
        /\ ~(i <= Len(tokens[t].log)) => tokens'[t].log[i].ledger = ledger
    BY <1>1 DEF Grows
  <2>2. CASE i <= Len(tokens[t].log)
    <3>1. i \in 1 .. Len(tokens[t].log)
      BY <1>2, <2>2
    <3>2. d.from <= tokens[t].log[i].ledger
      BY <3>1 DEF Reads
    <3>3. QED
      BY <2>1, <2>2, <3>2
  <2>3. CASE ~(i <= Len(tokens[t].log))
    BY <1>1, <2>1, <2>3
  <2>4. QED
    BY <2>2, <2>3
<1>4. QED
  BY <1>1, <1>3 DEF Reads

LEMMA GrowthKeepsStorage ==
  ASSUME ChainOK, ChainOK', Grows, NEW t \in 1 .. Len(tokens), NEW n \in Nat,
         n <= Len(tokens[t].log)
  PROVE  /\ t \in 1 .. Len(tokens') /\ n <= Len(tokens'[t].log)
         /\ Len(tokens'[t].log) \in Nat
         /\ Storage(t, n)' = Storage(t, n)
<1>1. t \in 1 .. Len(tokens') /\ Len(tokens[t].log) <= Len(tokens'[t].log)
  BY DEF ChainOK, Grows
<1>2. Len(tokens[t].log) \in Nat /\ Len(tokens'[t].log) \in Nat
  <2>1. Len(tokens[t].log) \in Nat
    BY <1>1, TokenFacts
  <2>2. tokens'[t] \in Token
    BY <1>1 DEF ChainOK
  <2>3. QED
    BY <2>1, <2>2 DEF Token
<1>3. n # 0 => tokens'[t].log[n] = tokens[t].log[n]
  <2>1. SUFFICES ASSUME n # 0 PROVE tokens'[t].log[n] = tokens[t].log[n]
    OBVIOUS
  <2>2. n \in 1 .. Len(tokens'[t].log)
    BY <1>1, <1>2, <2>1
  <2>3. QED
    BY <2>2 DEF Grows
<1>4. Storage(t, n)' = Storage(t, n)
  BY <1>3 DEF Storage
<1>5. QED
  BY <1>1, <1>2, <1>4

LEMMA GrowthKeepsCall ==
  ASSUME ChainOK, ChainOK', Grows, NEW c \in Call, CallOK(c)
  PROVE  CallOK(c)'
<1>1. c.dep.from \in Nat /\ c.seen \in Nat /\ c.at \in Nat
  BY DEF Call, Deployment
<1> PICK t : t = c.dep.token
  OBVIOUS
<1>2. c.job \in {"load", "act"} =>
        /\ Reads(c.dep)' /\ t \in 1 .. Len(tokens)
        /\ c.seen <= Len(tokens'[t].log)
        /\ tokens'[t].owner = tokens[t].owner
        /\ c.at <= Len(tokens[t].log) => c.at <= Len(tokens'[t].log)
  <2> SUFFICES ASSUME c.job \in {"load", "act"}
               PROVE  /\ Reads(c.dep)' /\ t \in 1 .. Len(tokens)
                      /\ c.seen <= Len(tokens'[t].log)
                      /\ tokens'[t].owner = tokens[t].owner
                      /\ c.at <= Len(tokens[t].log) => c.at <= Len(tokens'[t].log)
    OBVIOUS
  <2>1. Reads(c.dep) /\ c.seen <= Len(tokens[t].log) /\ t \in 1 .. Len(tokens)
    BY DEF CallOK, Reads
  <2>2. Reads(c.dep)'
    BY <1>1, <2>1, GrowthKeepsReads
  <2>3. c.seen <= Len(tokens'[t].log)
    BY <1>1, <2>1, GrowthKeepsStorage
  <2>4. c.at <= Len(tokens[t].log) => c.at <= Len(tokens'[t].log)
    BY <1>1, <2>1, GrowthKeepsStorage
  <2>5. QED
    BY <2>1, <2>2, <2>3, <2>4 DEF Grows
<1>3. QED
  BY <1>2 DEF CallOK

LEMMA GrowthKeepsCalls ==
  ASSUME ChainOK, ChainOK', Grows, CallsOK, UNCHANGED calls, busy' \in BOOLEAN
  PROVE  CallsOK'
<1>1. \A k \in Slot : CallOK(calls[k])'
  <2> SUFFICES ASSUME NEW k \in Slot PROVE CallOK(calls[k])'
    OBVIOUS
  <2> PICK c : c = calls[k]
    OBVIOUS
  <2>1. c \in Call /\ CallOK(c) /\ calls'[k] = c
    BY DEF CallsOK
  <2>2. CallOK(c)'
    BY <2>1, GrowthKeepsCall
  <2>3. QED
    BY <2>1, <2>2 DEF CallOK, Reads
<1>2. QED
  BY <1>1 DEF CallsOK

LEMMA GrowthKeepsLists ==
  ASSUME ChainOK, ChainOK', Grows, ListsOK, UNCHANGED lists
  PROVE  ListsOK'
<1>1. ASSUME NEW l \in ListName
      PROVE  ListOK(l, lists[l])'
  <2> PICK x : x = lists[l]
    OBVIOUS
  <2>1. x \in Shown /\ ListOK(l, x) /\ lists'[l] = x
    BY DEF ListsOK
  <2>2. x.seen \in Nat
    BY <2>1 DEF Shown
  <2>3. x.token # 0 =>
          /\ x.token \in 1 .. Len(tokens') /\ x.seen <= Len(tokens'[x.token].log)
          /\ Storage(x.token, x.seen)' = Storage(x.token, x.seen)
    BY <2>1, <2>2, GrowthKeepsStorage DEF ListOK
  <2>4. QED
    BY <2>1, <2>3 DEF ListOK
<1>2. QED
  BY <1>1 DEF ListsOK

LEMMA DefaultIsRead ==
  ASSUME ChainOK
  PROVE  Default \in Deployment /\ Reads(Default)
<1>1. 1 \in 1 .. Len(tokens) /\ ledger \in Nat /\ 1 <= ledger
  BY AdminAssumption DEF ChainOK
<1>2. \A i \in 1 .. Len(tokens[1].log) : 1 <= tokens[1].log[i].ledger
  <2>1. /\ Faithful(tokens[1].log)
        /\ tokens[1].log \in Seq(Event)
    BY <1>1, TokenFacts
  <2>2. SUFFICES ASSUME NEW i \in 1 .. Len(tokens[1].log)
                 PROVE  1 <= tokens[1].log[i].ledger
    OBVIOUS
  <2>3. tokens[1].log[i] \in Event
    BY <2>1
  <2>4. tokens[1].log[i].ledger \in Nat /\ tokens[1].log[i].ledger >= 1
    BY <2>1, <2>3 DEF Event, Faithful
  <2>5. QED
    BY <2>4
<1>3. QED
  BY <1>1, <1>2 DEF Default, Deployment, Reads

LEMMA ServedIsRead ==
  ASSUME ChainOK, NEW adv \in Deployment, adv = None \/ Reads(adv), NEW wh
  PROVE  Serving(adv, wh) \in Deployment /\ Reads(Serving(adv, wh))
BY DefaultIsRead DEF Serving

LEMMA ActiveIsRead ==
  ASSUME ChainOK, SlotOK
  PROVE  /\ Active \in Deployment /\ Reads(Active)
         /\ Active.token \in 1 .. Len(tokens)
         /\ tokens[Active.token].owner \in Account \cup {NoAccount}
<1>1. Active \in Deployment /\ Reads(Active)
  BY ServedIsRead DEF Active, SlotOK
<1>2. QED
  BY <1>1, TokenFacts DEF Reads

LEMMA GrowthKeepsSlot ==
  ASSUME ChainOK, ChainOK', Grows, SlotOK, UNCHANGED slotVars
  PROVE  SlotOK'
<1>1. ledger \in Nat /\ ledger' \in Nat /\ ledger <= ledger'
  BY DEF ChainOK, Grows
<1>2. ASSUME NEW d \in deploys
      PROVE  DeployOK(d)'
  <2>1. d.from \in Nat /\ DeployOK(d)
    BY DEF SlotOK, DeployCall
  <2>2. d.token # 0 => Reads(d)'
    BY <2>1, GrowthKeepsReads DEF DeployOK
  <2>3. QED
    BY <1>1, <2>1, <2>2 DEF DeployOK
<1> PICK a : a = advanced
  OBVIOUS
<1>3. a = None \/ Reads(a)'
  <2>1. a.from \in Nat /\ (a = None \/ Reads(a))
    BY DEF SlotOK, Deployment
  <2>2. QED
    BY <2>1, GrowthKeepsReads
<1>4. QED
  BY <1>2, <1>3 DEF SlotOK, slotVars, DeployOK, Reads

LEMMA GrowthKeepsAccess ==
  ASSUME ChainOK, Grows, SlotOK, AccessOK, UNCHANGED <<advanced, which, onPage, accessVars>>
  PROVE  AccessOK'
<1>1. Active' = Active /\ Active.token \in 1 .. Len(tokens)
  BY ActiveIsRead DEF Active
<1>2. tokens'[Active.token].owner = tokens[Active.token].owner
  BY <1>1 DEF Grows
<1>3. QED
  BY <1>1, <1>2 DEF AccessOK, accessVars

-----------------------------------------------------------------------------
(* What the page does when the deployment changes, or the page does. *)

LEMMA BlankLists ==
  ASSUME Blank
  PROVE  ListsOK'
<1>1. NoList \in Shown /\ NoList.token = 0
  BY DEF NoList, Shown
<1>2. QED
  BY <1>1 DEF Blank, ListsOK, ListOK

LEMMA NoCallIsOK == NoCall \in Call /\ CallOK(NoCall) /\ CallOK(NoCall)'
<1>1. NoCall \in Call
  BY DEF NoCall, Call, None, Deployment, NoChange, ListName
<1>2. NoCall.stage = "calling" /\ NoCall.job = "none"
  BY DEF NoCall
<1>3. QED
  BY <1>1, <1>2 DEF CallOK

\* A slot takes another call.
LEMMA AdvanceKeeps ==
  ASSUME ChainOK, ChainOK', Grows, CallsOK, NEW k \in Slot, NEW c \in Call, CallOK(c)',
         Advance(k, c), busy' \in BOOLEAN
  PROVE  CallsOK'
<1>1. calls' \in [Slot -> Call] /\ \A j \in Slot : calls'[j] = IF j = k THEN c ELSE calls[j]
  BY DEF Advance, CallsOK
<1>2. ASSUME NEW j \in Slot
      PROVE  CallOK(calls[j])'
  <2> PICK x : x = calls'[j]
    OBVIOUS
  <2>1. CallOK(x)'
    <3>1. CASE j = k
      BY <1>1, <3>1
    <3>2. CASE j # k
      <4>1. x \in Call /\ CallOK(x)
        BY <1>1, <3>2 DEF CallsOK
      <4>2. QED
        BY <4>1, GrowthKeepsCall
    <3>3. QED
      BY <3>1, <3>2
  <2>2. QED
    BY <2>1 DEF CallOK, Reads
<1>3. QED
  BY <1>1, <1>2 DEF CallsOK

LEMMA EndKeeps ==
  ASSUME ChainOK, ChainOK', Grows, CallsOK, NEW k \in Slot, End(k)
  PROVE  CallsOK'
BY AdvanceKeeps, NoCallIsOK DEF End

LEMMA BeginKeeps ==
  ASSUME ChainOK, ChainOK', Grows, CallsOK, NEW c \in Call, CallOK(c)', Begin(c)
  PROVE  CallsOK'
<1>1. PICK k \in Slot : Advance(k, c)
  BY DEF Begin, Advance, Free
<1>2. busy' \in BOOLEAN
  BY DEF Begin
<1>3. QED
  BY <1>1, <1>2, AdvanceKeeps

LEMMA LoadIsOK ==
  ASSUME ChainOK, ChainOK', Grows, NEW d \in Deployment, Reads(d)
  PROVE  Load(d) \in Call /\ CallOK(Load(d))'
<1> PICK c : c = Load(d)
  OBVIOUS
<1>1. c \in Call
  BY NoCallIsOK DEF Load, NoCall, Call
<1>2. c.job = "load" /\ c.dep = d /\ c.seen = 0 /\ c.stage = "token"
  BY DEF Load, NoCall
<1>3. 0 <= Len(tokens[d.token].log)
  BY TokenFacts DEF Reads
<1>4. CallOK(c)
  BY <1>2, <1>3 DEF CallOK
<1>5. QED
  BY <1>1, <1>4, GrowthKeepsCall

LEMMA NoCallsLeft ==
  ASSUME calls' = [k \in Slot |-> NoCall], busy' = FALSE
  PROVE  CallsOK'
<1>1. calls' \in [Slot -> Call] /\ \A k \in Slot : calls'[k] = NoCall
  BY NoCallIsOK
<1>2. CallOK(NoCall)'
  BY NoCallIsOK
<1>3. QED
  BY <1>1, <1>2 DEF CallsOK, CallOK, Reads

LEMMA UnmountKeeps ==
  ASSUME Unmount
  PROVE  AccessOK' /\ CallsOK' /\ ListsOK'
<1>1. ListsOK' /\ CallsOK'
  BY BlankLists, NoCallsLeft DEF Unmount
<1>2. AccessOK'
  BY DEF Unmount, Blank, AccessOK
<1>3. QED
  BY <1>1, <1>2

LEMMA MountKeeps ==
  ASSUME NEW d, Active' = d, Mount(d)
  PROVE  AccessOK' /\ CallsOK' /\ ListsOK'
<1>1. ListsOK' /\ CallsOK'
  BY BlankLists, NoCallsLeft DEF Mount
<1>2. AccessOK'
  BY DEF Mount, Blank, ReadOwner, AccessOK
<1>3. QED
  BY <1>1, <1>2

LEMMA RewireKeeps ==
  ASSUME AdminInv, UNCHANGED chainVars, NEW d \in Deployment, Reads(d), Active' = d,
         onPage, Rewire(d)
  PROVE  AccessOK' /\ CallsOK' /\ ListsOK'
<1>1. ChainOK /\ ChainOK' /\ Grows /\ CallsOK /\ AccessOK
  BY ChainUnchanged DEF AdminInv
<1>2. ListsOK'
  BY BlankLists DEF Rewire
<1>3. CallsOK'
  <2>1. CASE Begin(Load(d))
    BY <1>1, <2>1, BeginKeeps, LoadIsOK
  <2>2. CASE UNCHANGED <<busy, calls>>
    BY <1>1, <2>2, GrowthKeepsCalls DEF CallsOK
  <2>3. QED
    BY <2>1, <2>2 DEF Rewire
<1>4. AccessOK'
  BY <1>1 DEF Rewire, Blank, ReadOwner, AccessOK
<1>5. QED
  BY <1>2, <1>3, <1>4

-----------------------------------------------------------------------------
(* The steps of the contracts and of the wizard. *)

LEMMA ChainStepKeeps ==
  ASSUME AdminInv, ChainStep
  PROVE  AdminInv'
<1>1. ChainOK /\ SlotOK /\ AccessOK /\ CallsOK /\ ListsOK /\ UNCHANGED <<slotVars, pageVars>>
  BY DEF AdminInv, ChainStep, CloseLedger, Register, OwnerActs
<1>2. ChainOK' /\ Grows
  <2>1. CASE CloseLedger
    <3>1. ledger' \in 1 .. MaxLedger /\ ledger <= ledger' /\ UNCHANGED tokens
      BY <1>1, <2>1, AdminAssumption DEF CloseLedger, ChainOK
    <3>2. \A t \in 1 .. Len(tokens) : Len(tokens[t].log) \in Nat
      BY <1>1, TokenFacts
    <3>3. QED
      BY <1>1, <3>1, <3>2 DEF ChainOK, Grows
  <2>2. ASSUME NEW t \in 1 .. Len(tokens), NEW a \in Account, Register(t, a)
        PROVE  ChainOK' /\ Grows
    <3>1. "registered" \in ListName
      BY DEF ListName
    <3>2. QED
      BY <1>1, <2>2, <3>1, ChangeGrows DEF Register
  <2>3. ASSUME NEW t \in 1 .. Len(tokens), NEW a \in Account, NEW l \in ListName,
               NEW on \in BOOLEAN, OwnerActs(t, l, on, a)
        PROVE  ChainOK' /\ Grows
    BY <1>1, <2>3, ChangeGrows DEF OwnerActs
  <2>4. QED
    BY <2>1, <2>2, <2>3 DEF ChainStep
<1>3. SlotOK' /\ AccessOK'
  BY <1>1, <1>2, GrowthKeepsSlot, GrowthKeepsAccess DEF slotVars, pageVars
<1>4. CallsOK' /\ ListsOK'
  BY <1>1, <1>2, GrowthKeepsCalls, GrowthKeepsLists DEF pageVars, CallsOK
<1>5. QED
  BY <1>2, <1>3, <1>4 DEF AdminInv

\* The deployments under way change, the page does not.
LEMMA DeployKeeps ==
  ASSUME AdminInv, NEW d, \/ \E kind \in Kind, a \in Account : BeginDeploy(kind, a)
                          \/ d \in deploys /\ DeployLands(d)
                          \/ d \in deploys /\ DeployFails(d)
  PROVE  AdminInv'
<1>1. /\ ChainOK /\ SlotOK /\ AccessOK /\ CallsOK /\ ListsOK
      /\ UNCHANGED <<ledger, advanced, which, pageVars>>
      /\ ledger \in Nat
  BY DEF AdminInv, BeginDeploy, DeployLands, DeployFails, chainVars, ChainOK
<1>2. CASE \E kind \in Kind, a \in Account : BeginDeploy(kind, a)
  <2> PICK kind \in Kind, a \in Account : BeginDeploy(kind, a)
    BY <1>2
  <2> PICK n : n = [from |-> ledger, kind |-> kind, token |-> 0,
                    owner |-> IF kind = "vanilla" THEN NoAccount ELSE a]
    OBVIOUS
  <2>1. deploys' = deploys \cup {n} /\ UNCHANGED chainVars
    BY DEF BeginDeploy
  <2>2. ChainOK' /\ Grows
    BY <1>1, <2>1, ChainUnchanged
  <2>3. n \in DeployCall /\ n.from = ledger /\ n.token = 0
    BY <1>1, AdminAssumption DEF DeployCall
  <2>4. DeployOK(n)'
    BY <1>1, <2>3 DEF DeployOK
  <2>5. SlotOK'
    BY <1>1, <2>1, <2>3, <2>4 DEF SlotOK, DeployOK, Reads, chainVars
  <2>6. AccessOK' /\ CallsOK' /\ ListsOK'
    BY <1>1, <2>2, GrowthKeepsAccess, GrowthKeepsCalls, GrowthKeepsLists DEF pageVars, CallsOK
  <2>7. QED
    BY <2>2, <2>5, <2>6 DEF AdminInv
<1>3. CASE d \in deploys /\ DeployFails(d)
  <2>1. deploys' = deploys \ {d} /\ UNCHANGED chainVars
    BY <1>3 DEF DeployFails
  <2>2. ChainOK' /\ Grows
    BY <1>1, <2>1, ChainUnchanged
  <2>3. SlotOK'
    BY <1>1, <2>1 DEF SlotOK, DeployOK, Reads, chainVars
  <2>4. AccessOK' /\ CallsOK' /\ ListsOK'
    BY <1>1, <2>2, GrowthKeepsAccess, GrowthKeepsCalls, GrowthKeepsLists DEF pageVars, CallsOK
  <2>5. QED
    BY <2>2, <2>3, <2>4 DEF AdminInv
<1>4. CASE d \in deploys /\ DeployLands(d)
  <2> PICK new : new = [kind |-> d.kind, owner |-> d.owner, log |-> <<>>]
    OBVIOUS
  <2> PICK n : n = [d EXCEPT !.token = Len(tokens) + 1]
    OBVIOUS
  <2>1. /\ d \in DeployCall /\ d.from \in Nat /\ d.from <= ledger
        /\ tokens' = Append(tokens, new) /\ Len(tokens) < MaxTokens
        /\ deploys' = (deploys \ {d}) \cup {n}
        /\ tokens \in Seq(Token) /\ Len(tokens) \in Nat /\ Len(tokens) >= 1
    BY <1>1, <1>4 DEF DeployLands, SlotOK, DeployOK, DeployCall, ChainOK
  <2>2. new \in Token /\ Len(new.log) = 0
    BY <2>1 DEF Token, DeployCall
  <2>3. /\ tokens' \in Seq(Token) /\ Len(tokens') = Len(tokens) + 1
        /\ tokens'[Len(tokens) + 1] = new
        /\ \A t \in 1 .. Len(tokens) : tokens'[t] = tokens[t]
    BY <2>1, <2>2
  <2>4. Faithful(new.log)
    BY <2>2 DEF Faithful
  <2>5. ChainOK'
    <3>1. \A t \in 1 .. Len(tokens') : Faithful(tokens'[t].log)
      BY <1>1, <2>1, <2>3, <2>4 DEF ChainOK
    <3>2. Len(tokens') \in 1 .. MaxTokens
      BY <2>1, <2>3, AdminAssumption
    <3>3. QED
      BY <1>1, <2>3, <3>1, <3>2 DEF ChainOK
  <2>6. Grows
    <3>1. \A t \in 1 .. Len(tokens) : Len(tokens[t].log) \in Nat
      BY <1>1, TokenFacts
    <3>2. QED
      BY <1>1, <2>1, <2>3, <3>1 DEF Grows
  <2>7. n \in DeployCall /\ DeployOK(n)'
    <3>1. n \in DeployCall /\ n.from = d.from /\ n.token = Len(tokens) + 1
      BY <2>1 DEF DeployCall
    <3>2. Reads(n)'
      BY <1>1, <2>1, <2>2, <2>3, <3>1 DEF Reads
    <3>3. QED
      BY <1>1, <2>1, <3>1, <3>2 DEF DeployOK
  <2>8. ASSUME NEW e \in deploys
        PROVE  DeployOK(e)'
    <3>1. e.from \in Nat /\ DeployOK(e)
      BY <1>1 DEF SlotOK, DeployCall
    <3>2. e.token # 0 => Reads(e)'
      BY <1>1, <2>5, <2>6, <3>1, GrowthKeepsReads DEF DeployOK
    <3>3. QED
      BY <1>1, <3>1, <3>2 DEF DeployOK
  <2>9. advanced = None \/ Reads(advanced)'
    <3> PICK a : a = advanced
      OBVIOUS
    <3>1. a.from \in Nat /\ (a = None \/ Reads(a)) /\ advanced' = a
      BY <1>1 DEF SlotOK, Deployment
    <3>2. a = None \/ Reads(a)'
      BY <1>1, <2>5, <2>6, <3>1, GrowthKeepsReads
    <3>3. QED
      BY <3>1, <3>2 DEF Reads
  <2>10. SlotOK'
    BY <1>1, <2>1, <2>7, <2>8, <2>9 DEF SlotOK
  <2>11. AccessOK' /\ CallsOK' /\ ListsOK'
    BY <1>1, <2>5, <2>6, GrowthKeepsAccess, GrowthKeepsCalls, GrowthKeepsLists
      DEF pageVars, CallsOK
  <2>12. QED
    BY <2>5, <2>10, <2>11 DEF AdminInv
<1>5. QED
  BY <1>2, <1>3, <1>4

\* Saving a deployment makes it the active one, and resets the page to it.
LEMMA SaveKeeps ==
  ASSUME AdminInv, NEW d \in deploys, SaveAdvanced(d)
  PROVE  AdminInv'
<1> PICK new : new = [token |-> d.token, from |-> d.from]
  OBVIOUS
<1>1. /\ ChainOK /\ SlotOK /\ d.token # 0 /\ d \in DeployCall /\ DeployOK(d)
      /\ advanced' = new /\ which' = "advanced" /\ deploys' = deploys \ {d}
      /\ UNCHANGED chainVars
      /\ IF d.kind = "vanilla" THEN Unmount ELSE IF onPage THEN Rewire(new) ELSE Mount(new)
  BY DEF AdminInv, SlotOK, SaveAdvanced, Saved
<1>2. ChainOK' /\ Grows
  BY <1>1, ChainUnchanged
<1>3. new \in Deployment /\ Reads(new) /\ new # None
  BY <1>1 DEF DeployOK, Reads, DeployCall, Deployment, None
<1>4. SlotOK'
  BY <1>1, <1>3 DEF SlotOK, DeployOK, Reads, chainVars
<1>5. Active' = new
  BY <1>1, <1>3 DEF Active, Serving
<1>6. AccessOK' /\ CallsOK' /\ ListsOK'
  BY <1>1, <1>3, <1>5, UnmountKeeps, MountKeeps, RewireKeeps
<1>7. QED
  BY <1>2, <1>4, <1>6 DEF AdminInv

LEMMA SetWhichKeeps ==
  ASSUME AdminInv, NEW wh \in {"default", "advanced"}, SetWhich(wh)
  PROVE  AdminInv'
<1>1. /\ ChainOK /\ SlotOK /\ AccessOK /\ CallsOK /\ ListsOK
      /\ which' = wh /\ UNCHANGED <<chainVars, deploys, advanced>>
      /\ IF onPage THEN Rewire(Serving(advanced, wh)) ELSE UNCHANGED pageVars
  BY DEF AdminInv, SetWhich
<1>2. ChainOK' /\ Grows
  BY <1>1, ChainUnchanged
<1>3. SlotOK'
  BY <1>1 DEF SlotOK, DeployOK, Reads, chainVars
<1> PICK d : d = Serving(advanced, wh)
  OBVIOUS
<1>4. Active' = d /\ d \in Deployment /\ Reads(d)
  <2>1. Active' = d
    BY <1>1 DEF Active
  <2>2. advanced \in Deployment /\ (advanced = None \/ Reads(advanced))
    BY <1>1 DEF SlotOK
  <2>3. QED
    BY <1>1, <2>1, <2>2, ServedIsRead
<1>5. CASE onPage
  <2>1. AccessOK' /\ CallsOK' /\ ListsOK'
    BY <1>1, <1>4, <1>5, RewireKeeps
  <2>2. QED
    BY <1>2, <1>3, <2>1 DEF AdminInv
<1>6. CASE ~onPage
  <2>1. UNCHANGED pageVars
    BY <1>1, <1>6
  <2>2. CallsOK' /\ ListsOK'
    BY <1>1, <1>2, <2>1, GrowthKeepsCalls, GrowthKeepsLists DEF pageVars, CallsOK
  <2>3. AccessOK'
    BY <1>1, <1>6, <2>1 DEF AccessOK, pageVars, accessVars
  <2>4. QED
    BY <1>2, <1>3, <2>2, <2>3 DEF AdminInv
<1>7. QED
  BY <1>5, <1>6

LEMMA EnterLeaveKeeps ==
  ASSUME AdminInv, Enter \/ Leave \/ Redeploy
  PROVE  AdminInv'
<1>1. /\ ChainOK /\ SlotOK /\ UNCHANGED <<chainVars, deploys>>
  BY DEF AdminInv, Enter, Leave, Redeploy, slotVars
<1>2. ChainOK' /\ Grows
  BY <1>1, ChainUnchanged
<1>3. CASE Enter
  <2>1. UNCHANGED slotVars /\ Mount(Active)
    BY <1>3 DEF Enter
  <2>2. SlotOK' /\ Active' = Active
    BY <1>1, <1>2, <2>1, GrowthKeepsSlot DEF slotVars, Active
  <2>3. AccessOK' /\ CallsOK' /\ ListsOK'
    BY <2>1, <2>2, MountKeeps
  <2>4. QED
    BY <1>2, <2>2, <2>3 DEF AdminInv
<1>4. CASE Leave \/ Redeploy
  <2>1. /\ Unmount
        /\ \/ UNCHANGED <<advanced, which>>
           \/ advanced' = None /\ which' = "default"
    BY <1>4 DEF Leave, Redeploy, slotVars
  <2>2. SlotOK'
    <3>1. None \in Deployment
      BY DEF None, Deployment
    <3>2. QED
      BY <1>1, <2>1, <3>1 DEF SlotOK, DeployOK, Reads, chainVars
  <2>3. AccessOK' /\ CallsOK' /\ ListsOK'
    BY <2>1, UnmountKeeps
  <2>4. QED
    BY <1>2, <2>2, <2>3 DEF AdminInv
<1>5. QED
  BY <1>3, <1>4

-----------------------------------------------------------------------------
(* The steps of the admin page. *)

\* An effect begins a load, or nothing.
LEMMA LoadOnceKeeps ==
  ASSUME AdminInv, UNCHANGED chainVars, Begin(Load(Active)) \/ UNCHANGED <<busy, calls>>
  PROVE  CallsOK'
<1>1. ChainOK /\ ChainOK' /\ Grows /\ CallsOK /\ SlotOK
  BY ChainUnchanged DEF AdminInv
<1>2. CASE Begin(Load(Active))
  <2> PICK d : d = Active
    OBVIOUS
  <2>1. d \in Deployment /\ Reads(d)
    BY <1>1, ActiveIsRead
  <2>2. Load(d) \in Call /\ CallOK(Load(d))'
    BY <1>1, <2>1, LoadIsOK
  <2>3. QED
    BY <1>1, <1>2, <2>2, BeginKeeps
<1>3. CASE UNCHANGED <<busy, calls>>
  BY <1>1, <1>3, GrowthKeepsCalls DEF CallsOK
<1>4. QED
  BY <1>2, <1>3

LEMMA OwnerReadKeeps ==
  ASSUME AdminInv, NEW t \in ownerReads, OwnerIsRead(t)
  PROVE  AdminInv'
<1>1. /\ ChainOK /\ SlotOK /\ AccessOK /\ ListsOK
      /\ UNCHANGED <<chainVars, slotVars, onPage, signer, lists>>
      /\ ownerReads' = ownerReads \ {t} /\ ownerLoaded' = TRUE
      /\ owner' \in {tokens[t].owner, NoAccount}
      /\ Begin(Load(Active)) \/ UNCHANGED <<busy, calls>>
  BY DEF AdminInv, OwnerIsRead, LoadOnceAdmin
<1>2. ChainOK' /\ Grows
  BY <1>1, ChainUnchanged
<1>3. SlotOK' /\ ListsOK' /\ CallsOK'
  BY <1>1, <1>2, GrowthKeepsSlot, GrowthKeepsLists, LoadOnceKeeps
<1>4. AccessOK'
  <2>1. t = Active.token /\ Active' = Active /\ tokens' = tokens /\ onPage
    BY <1>1 DEF AccessOK, Active, slotVars, chainVars
  <2>2. QED
    BY <1>1, <2>1 DEF AccessOK
<1>5. QED
  BY <1>2, <1>3, <1>4 DEF AdminInv

\* A button begins a call.
LEMMA ButtonKeeps ==
  ASSUME AdminInv,
         \/ Connect
         \/ Reload
         \/ \E l \in ListName, on \in BOOLEAN, a \in Account : Act(l, on, a)
  PROVE  AdminInv'
<1>1. /\ ChainOK /\ SlotOK /\ AccessOK /\ CallsOK /\ ListsOK
      /\ UNCHANGED <<chainVars, slotVars, onPage, accessVars, lists>>
  BY DEF AdminInv, Connect, Reload, Act
<1>2. ChainOK' /\ Grows
  BY <1>1, ChainUnchanged
<1>3. SlotOK' /\ ListsOK' /\ AccessOK'
  BY <1>1, <1>2, GrowthKeepsSlot, GrowthKeepsLists, GrowthKeepsAccess DEF slotVars
<1>4. CallsOK'
  <2>1. CASE Connect
    <3> PICK c : c = [NoCall EXCEPT !.job = "connect"]
      OBVIOUS
    <3>1. c \in Call
      BY NoCallIsOK DEF NoCall, Call
    <3>2. CallOK(c)'
      BY DEF NoCall, CallOK
    <3>3. QED
      BY <1>1, <1>2, <2>1, <3>1, <3>2, BeginKeeps DEF Connect
  <2>2. CASE Reload
    BY <1>1, <2>2, LoadOnceKeeps DEF Reload
  <2>3. ASSUME NEW l \in ListName, NEW on \in BOOLEAN, NEW a \in Account, Act(l, on, a)
        PROVE  CallsOK'
    <3> PICK d : d = Active
      OBVIOUS
    <3> PICK c : c = [NoCall EXCEPT !.job = "act", !.dep = d, !.by = signer,
                                    !.change = [list |-> l, on |-> on, who |-> a]]
      OBVIOUS
    <3>1. /\ d \in Deployment /\ Reads(d) /\ d.token \in 1 .. Len(tokens)
          /\ signer \in Account \cup {NoAccount}
      BY <1>1, ActiveIsRead DEF AccessOK
    <3>2. signer = tokens[d.token].owner
      BY <1>1, <2>3 DEF Act, Dashboard, IsAdmin, AccessOK
    <3>3. c \in Call
      BY <3>1, NoCallIsOK DEF NoCall, Call
    <3>4. CallOK(c)
      <4>1. /\ c.job = "act" /\ c.dep = d /\ c.by = signer /\ c.seen = 0
            /\ c.stage = "calling" /\ c.change.who = a
        BY DEF NoCall
      <4>2. 0 <= Len(tokens[d.token].log)
        BY <1>1, <3>1, TokenFacts
      <4>3. QED
        BY <3>1, <3>2, <4>1, <4>2 DEF CallOK
    <3>5. CallOK(c)'
      BY <1>1, <1>2, <3>3, <3>4, GrowthKeepsCall
    <3>6. QED
      BY <1>1, <1>2, <2>3, <3>3, <3>5, BeginKeeps DEF Act
  <2>4. QED
    BY <2>1, <2>2, <2>3
<1>5. QED
  BY <1>2, <1>3, <1>4 DEF AdminInv

LEMMA ConnectedKeeps ==
  ASSUME AdminInv, NEW k \in Slot, NEW a \in Account, Connected(k, a)
  PROVE  AdminInv'
<1>1. /\ ChainOK /\ SlotOK /\ AccessOK /\ CallsOK /\ ListsOK
      /\ UNCHANGED <<chainVars, slotVars, onPage, owner, ownerLoaded, ownerReads, lists>>
      /\ signer' = a
      /\ (Advance(k, Load(Active)) /\ busy' = TRUE) \/ End(k)
  BY DEF AdminInv, Connected
<1>2. ChainOK' /\ Grows
  BY <1>1, ChainUnchanged
<1>3. SlotOK' /\ ListsOK'
  BY <1>1, <1>2, GrowthKeepsSlot, GrowthKeepsLists
<1>4. AccessOK'
  BY <1>1 DEF AccessOK, Active, slotVars, chainVars
<1>5. CallsOK'
  <2>1. CASE End(k)
    BY <1>1, <1>2, <2>1, EndKeeps
  <2>2. CASE Advance(k, Load(Active)) /\ busy' = TRUE
    <3> PICK d : d = Active
      OBVIOUS
    <3>1. d \in Deployment /\ Reads(d)
      BY <1>1, ActiveIsRead
    <3>2. Load(d) \in Call /\ CallOK(Load(d))'
      BY <1>1, <1>2, <3>1, LoadIsOK
    <3>3. QED
      BY <1>1, <1>2, <2>2, <3>2, AdvanceKeeps
  <2>3. QED
    BY <1>1, <2>1, <2>2
<1>6. QED
  BY <1>2, <1>3, <1>4, <1>5 DEF AdminInv

\* The action is confirmed, and what it did is among the token's events.
LEMMA ActDoneKeeps ==
  ASSUME AdminInv, NEW k \in Slot, ActDone(k)
  PROVE  AdminInv'
<1> PICK c : c = calls[k]
  OBVIOUS
<1> PICK t : t = c.dep.token
  OBVIOUS
<1> PICK r : r = [c EXCEPT !.stage = "token", !.change = [NoChange EXCEPT !.list = c.change.list],
                           !.at = Len(tokens'[t].log)]
  OBVIOUS
<1>1. /\ ChainOK /\ SlotOK /\ AccessOK /\ CallsOK /\ ListsOK
      /\ UNCHANGED <<ledger, slotVars, onPage, accessVars, lists>>
      /\ c.job = "act" /\ c.stage = "calling"
      /\ Change(t, c.change.list, c.change.on, c.change.who)
      /\ Advance(k, r) /\ busy' = TRUE
  BY DEF AdminInv, ActDone
<1>2. c \in Call /\ CallOK(c) /\ Reads(c.dep) /\ t \in 1 .. Len(tokens)
  BY <1>1 DEF CallsOK, CallOK, Reads
<1>3. c.change.list \in ListName /\ c.change.on \in BOOLEAN /\ c.change.who \in Account
  BY <1>1, <1>2 DEF CallOK, Call
<1>4. ChainOK' /\ Grows
  BY <1>1, <1>2, <1>3, ChangeGrows
<1>5. SlotOK' /\ AccessOK' /\ ListsOK'
  BY <1>1, <1>4, GrowthKeepsSlot, GrowthKeepsAccess, GrowthKeepsLists DEF slotVars
<1>6. Len(tokens'[t].log) \in Nat
  <2>1. 0 <= Len(tokens[t].log)
    BY <1>1, <1>2, TokenFacts
  <2>2. QED
    BY <1>1, <1>2, <1>4, <2>1, GrowthKeepsStorage
<1>7. /\ r \in Call
      /\ r.job = c.job /\ r.dep = c.dep /\ r.by = c.by /\ r.seen = c.seen
      /\ r.stage = "token" /\ r.at = Len(tokens'[t].log)
  BY <1>2, <1>3, <1>6 DEF Call, NoChange
<1>8. CallOK(r)'
  <2>1. CallOK(c)'
    BY <1>1, <1>2, <1>4, GrowthKeepsCall
  <2>2. QED
    BY <1>1, <1>6, <1>7, <2>1 DEF CallOK
<1>9. CallsOK'
  BY <1>1, <1>4, <1>7, <1>8, AdvanceKeeps
<1>10. QED
  BY <1>4, <1>5, <1>9 DEF AdminInv

\* What a call past its beginning has read, is what the storage was.
LEMMA LoadFacts ==
  ASSUME ChainOK, CallsOK, NEW k \in Slot, calls[k].stage # "calling"
  PROVE  /\ calls[k] \in Call /\ CallOK(calls[k])
         /\ Reads(calls[k].dep) /\ calls[k].dep.token \in 1 .. Len(tokens)
         /\ calls[k].dep.token \in Nat /\ calls[k].seen \in Nat
         /\ calls[k].seen <= Len(tokens[calls[k].dep.token].log)
         /\ Len(tokens[calls[k].dep.token].log) \in Nat
<1> PICK c : c = calls[k]
  OBVIOUS
<1>1. c \in Call /\ CallOK(c)
  BY DEF CallsOK
<1>2. Reads(c.dep) /\ c.seen <= Len(tokens[c.dep.token].log) /\ c.dep.token \in 1 .. Len(tokens)
  BY <1>1 DEF CallOK, Reads
<1>3. c.dep.token \in Nat /\ c.seen \in Nat
  BY <1>1 DEF Call, Deployment
<1>4. Len(tokens[c.dep.token].log) \in Nat
  BY <1>2, TokenFacts
<1>5. QED
  BY <1>1, <1>2, <1>3, <1>4

LEMMA ReplayedIsOK ==
  ASSUME ChainOK, CallsOK, NEW k \in Slot, calls[k].stage # "calling", NEW l \in ListName
  PROVE  Replayed(l, calls[k]) \in Shown /\ ListOK(l, Replayed(l, calls[k]))
<1> PICK c : c = calls[k]
  OBVIOUS
<1>1. /\ Reads(c.dep) /\ c.dep.token \in 1 .. Len(tokens) /\ c.dep.token \in Nat
      /\ c.seen \in Nat /\ c.seen <= Len(tokens[c.dep.token].log)
      /\ c.seen \in 0 .. Len(tokens[c.dep.token].log)
  BY LoadFacts
<1> PICK x : x = Replayed(l, c)
  OBVIOUS
<1>2. x = [token |-> c.dep.token, seen |-> c.seen, who |-> ReplaySet(l, c.dep, c.seen)]
  BY DEF Replayed
<1> PICK d : d = c.dep
  OBVIOUS
<1> PICK n : n = c.seen
  OBVIOUS
<1>3. ReplaySet(l, d, n) = Storage(d.token, n)[l]
  BY <1>1, ReplayIsStorage
<1>4. ReplaySet(l, d, n) \subseteq Account
  BY DEF ReplaySet
<1>5. x \in Shown
  BY <1>1, <1>2, <1>4 DEF Shown
<1>6. ListOK(l, x)
  BY <1>1, <1>2, <1>3 DEF ListOK
<1>7. QED
  BY <1>5, <1>6

\* The next step of a load: events are read, or set, or it is over.
LEMMA LoadStepKeeps ==
  ASSUME AdminInv, NEW k \in Slot, Read(k) \/ SetTokenLists(k) \/ SetMembers(k) \/ CallFails(k)
  PROVE  AdminInv'
<1> PICK c : c = calls[k]
  OBVIOUS
<1>1. /\ ChainOK /\ SlotOK /\ AccessOK /\ CallsOK /\ ListsOK
      /\ UNCHANGED <<chainVars, slotVars, onPage, accessVars>>
  BY DEF AdminInv, Read, SetTokenLists, SetMembers, CallFails
<1>2. ChainOK' /\ Grows
  BY <1>1, ChainUnchanged
<1>3. SlotOK' /\ AccessOK'
  BY <1>1, <1>2, GrowthKeepsSlot, GrowthKeepsAccess DEF slotVars
<1>4. CASE Read(k)
  <2> PICK n : n = Len(tokens[c.dep.token].log)
    OBVIOUS
  <2> PICK r : r = [c EXCEPT !.stage = IF @ = "token" THEN "tokenRead" ELSE "policyRead",
                             !.seen = n]
    OBVIOUS
  <2>1. c.stage \in {"token", "policy"} /\ Advance(k, r) /\ UNCHANGED <<lists, busy>>
    BY <1>4 DEF Read
  <2>2. c \in Call /\ CallOK(c) /\ Reads(c.dep) /\ n \in Nat
    BY <1>1, <2>1, LoadFacts
  <2>3. /\ r \in Call
        /\ r.job = c.job /\ r.dep = c.dep /\ r.by = c.by /\ r.at = c.at /\ r.seen = n
        /\ r.stage \in {"tokenRead", "policyRead"} /\ c.stage # "calling"
    BY <2>1, <2>2 DEF Call
  <2>4. CallOK(r)
    BY <2>2, <2>3 DEF CallOK
  <2>5. CallOK(r)'
    BY <1>1, <1>2, <2>3, <2>4, GrowthKeepsCall
  <2>6. CallsOK' /\ ListsOK'
    BY <1>1, <1>2, <2>1, <2>3, <2>5, AdvanceKeeps, GrowthKeepsLists DEF CallsOK
  <2>7. QED
    BY <1>2, <1>3, <2>6 DEF AdminInv
<1>5. CASE SetTokenLists(k)
  <2> PICK x : x = Replayed("registered", c)
    OBVIOUS
  <2> PICK y : y = Replayed("frozen", c)
    OBVIOUS
  <2>1. /\ c.stage = "tokenRead"
        /\ lists' = [lists EXCEPT !["registered"] = x, !["frozen"] = y]
        /\ \/ Advance(k, [c EXCEPT !.stage = "policy"]) /\ UNCHANGED busy
           \/ End(k)
    BY <1>5 DEF SetTokenLists
  <2>2. x \in Shown /\ y \in Shown /\ ListOK("registered", x) /\ ListOK("frozen", y)
    BY <1>1, <2>1, ReplayedIsOK DEF ListName
  <2>3. ListsOK'
    <3>1. \A l \in ListName :
            lists'[l] = IF l = "registered" THEN x ELSE IF l = "frozen" THEN y ELSE lists[l]
      BY <1>1, <2>1 DEF ListsOK
    <3>2. \A l \in ListName : lists'[l] \in Shown /\ ListOK(l, lists'[l])
      BY <1>1, <2>2, <3>1 DEF ListsOK
    <3>3. lists' \in [ListName -> Shown]
      BY <1>1, <2>1, <2>2 DEF ListsOK
    <3>4. QED
      BY <1>1, <3>2, <3>3 DEF ListsOK, ListOK, Storage, chainVars
  <2>4. CallsOK'
    <3>1. CASE End(k)
      BY <1>1, <1>2, <3>1, EndKeeps
    <3>2. CASE Advance(k, [c EXCEPT !.stage = "policy"]) /\ UNCHANGED busy
      <4> PICK r : r = [c EXCEPT !.stage = "policy"]
        OBVIOUS
      <4>1. c \in Call /\ CallOK(c)
        BY <1>1, <2>1, LoadFacts
      <4>2. /\ r \in Call
            /\ r.job = c.job /\ r.dep = c.dep /\ r.by = c.by /\ r.at = c.at /\ r.seen = c.seen
            /\ r.stage = "policy"
        BY <4>1 DEF Call
      <4>3. CallOK(r)
        BY <2>1, <4>1, <4>2 DEF CallOK
      <4>4. CallOK(r)'
        BY <1>1, <1>2, <4>2, <4>3, GrowthKeepsCall
      <4>5. QED
        BY <1>1, <1>2, <3>2, <4>2, <4>4, AdvanceKeeps DEF CallsOK
    <3>3. QED
      BY <2>1, <3>1, <3>2
  <2>5. QED
    BY <1>2, <1>3, <2>3, <2>4 DEF AdminInv
<1>6. CASE SetMembers(k)
  <2> PICK x : x = Replayed("members", c)
    OBVIOUS
  <2>1. c.stage = "policyRead" /\ lists' = [lists EXCEPT !["members"] = x] /\ End(k)
    BY <1>6 DEF SetMembers
  <2>2. x \in Shown /\ ListOK("members", x)
    BY <1>1, <2>1, ReplayedIsOK DEF ListName
  <2>3. ListsOK'
    <3>1. \A l \in ListName : lists'[l] = IF l = "members" THEN x ELSE lists[l]
      BY <1>1, <2>1 DEF ListsOK
    <3>2. \A l \in ListName : lists'[l] \in Shown /\ ListOK(l, lists'[l])
      BY <1>1, <2>2, <3>1 DEF ListsOK
    <3>3. lists' \in [ListName -> Shown]
      BY <1>1, <2>1, <2>2 DEF ListsOK
    <3>4. QED
      BY <1>1, <3>2, <3>3 DEF ListsOK, ListOK, Storage, chainVars
  <2>4. CallsOK'
    BY <1>1, <1>2, <2>1, EndKeeps
  <2>5. QED
    BY <1>2, <1>3, <2>3, <2>4 DEF AdminInv
<1>7. CASE CallFails(k)
  <2>1. End(k) /\ UNCHANGED lists
    BY <1>7 DEF CallFails
  <2>2. CallsOK' /\ ListsOK'
    BY <1>1, <1>2, <2>1, EndKeeps, GrowthKeepsLists
  <2>3. QED
    BY <1>2, <1>3, <2>2 DEF AdminInv
<1>8. QED
  BY <1>4, <1>5, <1>6, <1>7

-----------------------------------------------------------------------------
(* The theorems. *)

LEMMA AdminInvInit ==
  ASSUME Init
  PROVE  AdminInv
<1>1. ChainOK
  BY StartsAssumption, AdminAssumption DEF Init, ChainOK
<1>2. SlotOK
  <2>1. None \in Deployment
    BY DEF None, Deployment
  <2>2. CASE Len(tokens) = 1
    BY <2>1, <2>2 DEF Init, SlotOK
  <2>3. CASE Len(tokens) # 1
    <3> PICK a : a = [token |-> 2, from |-> 1]
      OBVIOUS
    <3>1. advanced = a /\ a \in Deployment
      BY <2>3 DEF Init, Deployment
    <3>2. 2 \in 1 .. Len(tokens) /\ ledger = 1
      <4>1. ledger = 1
        BY DEF Init
      <4>2. Len(tokens) \in 1 .. MaxTokens /\ MaxTokens \in Nat
        BY <1>1, AdminAssumption DEF ChainOK
      <4>3. 2 \in 1 .. Len(tokens)
        <5> PICK n : n = Len(tokens)
          OBVIOUS
        <5>1. n \in Nat /\ n >= 1 /\ n # 1
          BY <2>3, <4>2
        <5>2. QED
          BY <5>1
      <4>4. QED
        BY <4>1, <4>3
    <3>3. tokens[2].log \in Seq(Event) /\ Faithful(tokens[2].log)
      BY <1>1, <3>2, TokenFacts
    <3>4. \A i \in 1 .. Len(tokens[2].log) : 1 <= tokens[2].log[i].ledger
      <4>1. SUFFICES ASSUME NEW i \in 1 .. Len(tokens[2].log)
                     PROVE  1 <= tokens[2].log[i].ledger
        OBVIOUS
      <4>2. tokens[2].log[i] \in Event
        BY <3>3
      <4>3. tokens[2].log[i].ledger \in Nat /\ tokens[2].log[i].ledger >= 1
        BY <3>3, <4>2 DEF Event, Faithful
      <4>4. QED
        BY <4>3
    <3>5. Reads(a)
      BY <3>2, <3>4 DEF Reads
    <3>6. QED
      BY <3>1, <3>5 DEF Init, SlotOK
  <2>4. QED
    BY <2>2, <2>3
<1>3. AccessOK
  BY DEF Init, AccessOK
<1>4. CallsOK
  BY NoCallIsOK DEF Init, CallsOK
<1>5. ListsOK
  <2>1. NoList \in Shown /\ NoList.token = 0
    BY DEF NoList, Shown
  <2>2. QED
    BY <2>1 DEF Init, ListsOK, ListOK
<1>6. QED
  BY <1>1, <1>2, <1>3, <1>4, <1>5 DEF AdminInv

LEMMA AdminInvStep ==
  ASSUME AdminInv, [Next]_vars
  PROVE  AdminInv'
<1>1. CASE ChainStep
  BY <1>1, ChainStepKeeps
<1>2. CASE WizardStep
  <2>1. CASE \E kind \in Kind, a \in Account : BeginDeploy(kind, a)
    BY <2>1, DeployKeeps
  <2>2. CASE \E d \in deploys : DeployLands(d) \/ DeployFails(d)
    BY <2>2, DeployKeeps
  <2>3. CASE \E d \in deploys : SaveAdvanced(d)
    BY <2>3, SaveKeeps
  <2>4. QED
    BY <1>2, <2>1, <2>2, <2>3 DEF WizardStep
<1>3. CASE PageStep
  <2>1. CASE Enter \/ Leave \/ Redeploy
    BY <2>1, EnterLeaveKeeps
  <2>2. CASE Connect \/ Reload
    BY <2>2, ButtonKeeps
  <2>3. CASE \E wh \in {"default", "advanced"} : SetWhich(wh)
    BY <2>3, SetWhichKeeps
  <2>4. CASE \E t \in ownerReads : OwnerIsRead(t)
    BY <2>4, OwnerReadKeeps
  <2>5. CASE \E l \in ListName, on \in BOOLEAN, a \in Account : Act(l, on, a)
    BY <2>5, ButtonKeeps
  <2>6. CASE \E k \in Slot, a \in Account : Connected(k, a)
    BY <2>6, ConnectedKeeps
  <2>7. CASE \E k \in Slot : ActDone(k)
    BY <2>7, ActDoneKeeps
  <2>8. CASE \E k \in Slot : Read(k) \/ SetTokenLists(k) \/ SetMembers(k) \/ CallFails(k)
    BY <2>8, LoadStepKeeps
  <2>9. QED
    BY <1>3, <2>1, <2>2, <2>3, <2>4, <2>5, <2>6, <2>7, <2>8 DEF PageStep
<1>4. CASE UNCHANGED vars
  <2>1. /\ ChainOK /\ SlotOK /\ AccessOK /\ CallsOK /\ ListsOK
        /\ UNCHANGED <<chainVars, slotVars, pageVars>>
    BY <1>4 DEF AdminInv, vars
  <2>2. ChainOK' /\ Grows
    BY <2>1, ChainUnchanged
  <2>3. SlotOK' /\ AccessOK' /\ CallsOK' /\ ListsOK'
    BY <2>1, <2>2, GrowthKeepsSlot, GrowthKeepsAccess, GrowthKeepsCalls, GrowthKeepsLists
      DEF slotVars, pageVars, CallsOK
  <2>4. QED
    BY <2>2, <2>3 DEF AdminInv
<1>5. QED
  BY <1>1, <1>2, <1>3, <1>4 DEF Next

\* The tokens' histories, the deployments they are read from, the calls of the page
\* and its lists agree, for any number of tokens and calls (admin/page.tsx:143-234,
\* advanced/page.tsx:106-177).
THEOREM AdminInvariance == Spec => []AdminInv
<1>1. Init => AdminInv
  BY AdminInvInit
<1>2. AdminInv /\ [Next]_vars => AdminInv'
  BY AdminInvStep
<1>3. QED
  BY <1>1, <1>2, PTL DEF Spec

\* The state keeps its type; in particular an owner is read for the active token only.
THEOREM AdminTypeCorrectness == Spec => []TypeOK
<1>1. AdminInv => TypeOK
  <2> SUFFICES ASSUME AdminInv PROVE TypeOK
    OBVIOUS
  <2>1. ChainOK /\ SlotOK /\ AccessOK /\ CallsOK /\ ListsOK
    BY DEF AdminInv
  <2>2. tokens \in Seq(Token) /\ Len(tokens) <= MaxTokens /\ Len(tokens) \in Nat
    BY <2>1, AdminAssumption DEF ChainOK
  <2>3. advanced.token <= Len(tokens)
    BY <2>1, <2>2 DEF SlotOK, Reads, None
  <2>4. owner \in Account \cup {NoAccount}
    BY <2>1, ActiveIsRead DEF AccessOK
  <2>5. QED
    BY <2>1, <2>2, <2>3, <2>4 DEF TypeOK, ChainOK, SlotOK, AccessOK, CallsOK, ListsOK
<1>2. QED
  BY <1>1, AdminInvariance, PTL

\* Whatever is switched, deployed and loaded at the same time, a list on display is
\* what the contract held (advanced/page.tsx:121-123, admin/page.tsx:72-84).
THEOREM ListsAreStorage == Spec => []ListsMatchStorage
<1>1. AdminInv => ListsMatchStorage
  BY DEF AdminInv, ListsOK, ListOK, ListsMatchStorage
<1>2. QED
  BY <1>1, AdminInvariance, PTL

\* However owner reads and switches interleave, nobody but the owner of the active
\* token is shown its dashboard, and every action was begun by the owner of the
\* token it is for (admin/page.tsx:143-167).
THEOREM OnlyTheOwnerActs == Spec => []OnlyOwnerActs
<1>1. AdminInv => OnlyOwnerActs
  <2> SUFFICES ASSUME AdminInv PROVE OnlyOwnerActs
    OBVIOUS
  <2>1. AccessOK /\ CallsOK
    BY DEF AdminInv
  <2>2. Dashboard => signer = tokens[Active.token].owner
    BY <2>1 DEF Dashboard, IsAdmin, AccessOK
  <2>3. \A k \in Slot : calls[k].job = "act" => calls[k].by = tokens[calls[k].dep.token].owner
    BY <2>1 DEF CallsOK, CallOK
  <2>4. QED
    BY <2>2, <2>3 DEF OnlyOwnerActs
<1>2. QED
  BY <1>1, AdminInvariance, PTL

\* In every step: the lists that follow an action hold it (admin/page.tsx:219-234).
THEOREM ActionsAreListed == Spec => OwnActionIsListed
<1> DEFINE Listing ==
      \A k \in Slot :
        LET c == calls[k]
            l == c.change.list
        IN  /\ c.job = "act"
            /\ (SetTokenLists(k) /\ l = "frozen") \/ (SetMembers(k) /\ l = "members")
            => lists'[l].token = c.dep.token /\ lists'[l].seen >= c.at
<1>1. AdminInv /\ [Next]_vars => [Listing]_vars
  <2> SUFFICES ASSUME AdminInv, NEW k \in Slot, NEW c, c = calls[k], c.job = "act",
                      NEW l, l = c.change.list,
                      (SetTokenLists(k) /\ l = "frozen") \/ (SetMembers(k) /\ l = "members")
               PROVE  lists'[l].token = c.dep.token /\ lists'[l].seen >= c.at
    OBVIOUS
  <2>1. /\ CallsOK /\ ListsOK /\ ChainOK
        /\ c.stage \in {"tokenRead", "policyRead"}
    BY DEF AdminInv, SetTokenLists, SetMembers
  <2>2. c.at <= c.seen /\ c.at \in Nat /\ c.seen \in Nat
    BY <2>1 DEF CallsOK, CallOK, Call
  <2>3. lists'[l] = Replayed(l, c)
    BY <2>1 DEF ListsOK, ListName, SetTokenLists, SetMembers
  <2>4. QED
    BY <2>2, <2>3 DEF Replayed
<1>2. QED
  BY <1>1, AdminInvariance, PTL DEF Spec, OwnActionIsListed

=============================================================================
