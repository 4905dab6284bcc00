--------------------------- MODULE DisclosureProofs ---------------------------
(***************************************************************************)
(* Theorems about Disclosure, for every set of accounts, tokens and        *)
(* amounts, every chain, and any number of requests and bundles.           *)
(***************************************************************************)
EXTENDS Disclosure, FiniteSetTheorems, TLAPS

-----------------------------------------------------------------------------
(* What holds of every bundle that may be pasted. *)

LEMMA PastedFacts ==
  ASSUME DisclosureInv, NEW b \in Pasted
  PROVE  /\ b \in Bundle
         /\ b.ref \in DOMAIN log
         /\ \E c \in sent : c.proof = b.proof
<1>1. /\ sent \subseteq Bundle /\ \A c \in sent : c.ref \in DOMAIN log
      /\ log \in Seq(Event) /\ minted \in Seq(BOOLEAN)
  BY DEF DisclosureInv, TypeOK, SentIsTrue
<1>2. CASE b \in sent
  BY <1>1, <1>2
<1>3. ASSUME NEW c \in sent, NEW i \in DOMAIN log, b = [c EXCEPT !.ref = i]
      PROVE  b \in Bundle /\ b.ref \in DOMAIN log /\ b.proof = c.proof
  BY <1>1, <1>3 DEF Bundle
<1>4. ASSUME NEW c \in sent, NEW circuit \in Circuit, b = [c EXCEPT !.circuit = circuit]
      PROVE  b \in Bundle /\ b.ref \in DOMAIN log /\ b.proof = c.proof
  BY <1>1, <1>4 DEF Bundle
<1>5. ASSUME NEW c \in sent, NEW nu \in DOMAIN minted, NEW a \in Amounts,
             b = [c EXCEPT !.sealed = [nu |-> nu, amount |-> a]]
      PROVE  b \in Bundle /\ b.ref \in DOMAIN log /\ b.proof = c.proof
  <2>1. [nu |-> nu, amount |-> a] \in Sealed
    BY <1>1 DEF Sealed
  <2>2. c \in Bundle /\ c.ref \in DOMAIN log
    BY <1>1
  <2> HIDE DEF Sealed
  <2>3. QED
    BY <1>5, <2>1, <2>2 DEF Bundle
<1>6. QED
  BY <1>2, <1>3, <1>4, <1>5 DEF Pasted

\* What was true of the log stays true when it grows.
LEMMA TruthKeeps ==
  ASSUME SentIsTrue, log \in Seq(Event), log' \in Seq(Event), Len(log) <= Len(log'),
         \A i \in DOMAIN log : log'[i] = log[i]
  PROVE  \A b \in sent :
           /\ b.ref \in DOMAIN log' /\ log'[b.ref].type = "transfer"
           /\ b.sealed.amount = log'[b.ref].amount
           /\ b.proof = Proof(Subject(b.circuit, b.ref), b.circuit, b.ref, b.sealed.nu, b.sealed)'
<1> SUFFICES ASSUME NEW b \in sent
             PROVE  /\ b.ref \in DOMAIN log' /\ log'[b.ref].type = "transfer"
                    /\ b.sealed.amount = log'[b.ref].amount
                    /\ b.proof = Proof(Subject(b.circuit, b.ref), b.circuit, b.ref,
                                       b.sealed.nu, b.sealed)'
  OBVIOUS
<1>1. /\ b.ref \in DOMAIN log /\ log[b.ref].type = "transfer"
      /\ b.sealed.amount = log[b.ref].amount
      /\ b.proof = Proof(Subject(b.circuit, b.ref), b.circuit, b.ref, b.sealed.nu, b.sealed)
  BY DEF SentIsTrue
<1>2. b.ref \in DOMAIN log' /\ log'[b.ref] = log[b.ref]
  BY <1>1
<1>3. QED
  BY <1>1, <1>2 DEF Proof, Subject

\* The chain, the requests and the bundles only grow; whatever drops the
\* verification or its result without a new one keeps the invariant.
LEMMA GrowthKeeps ==
  ASSUME DisclosureInv, TypeOK', SentIsTrue', RequestsAreOwn',
         Len(log) <= Len(log'), \A i \in DOMAIN log : log'[i] = log[i],
         Len(minted) <= Len(minted'), \A nu \in DOMAIN minted : minted'[nu] = minted[nu],
         sent \subseteq sent',
         check' \in {check, NoCheck}, outcome' \in {outcome, NoOutcome}
  PROVE  DisclosureInv'
<1>1. /\ log \in Seq(Event) /\ log' \in Seq(Event)
      /\ minted \in Seq(BOOLEAN) /\ minted' \in Seq(BOOLEAN)
  BY DEF DisclosureInv, TypeOK
<1>2. DOMAIN log \subseteq DOMAIN log' /\ DOMAIN minted \subseteq DOMAIN minted'
  BY <1>1
<1>3. CheckIsSound'
  <2>1. SUFFICES ASSUME check' = check, check # NoCheck
                 PROVE  CheckIsSound'
    BY DEF CheckIsSound
  <2>2. /\ check.nu \in DOMAIN minted /\ minted[check.nu]
        /\ check.bundle.ref \in DOMAIN log
        /\ \E b \in sent : b.proof = check.bundle.proof
        /\ check.stage \in {"account", "proof"} =>
             /\ check.event = check.bundle.ref
             /\ log[check.event].type = "transfer" /\ log[check.event].token = check.token
    BY <2>1 DEF DisclosureInv, CheckIsSound
  <2>3. QED
    BY <1>2, <2>1, <2>2 DEF CheckIsSound
<1>4. NoOutcome.kind # "verified" /\ NoOutcome.kind # "rejected"
  BY DEF NoOutcome
<1>5. CASE outcome' = NoOutcome
  BY <1>3, <1>4, <1>5 DEF DisclosureInv, ResultIsOld, ResultIsTrue, AnsweredByParty,
     WhatVerifiesOpens, Verified, Rejected
<1>6. CASE outcome' = outcome
  <2>1. ResultIsOld'
    BY <1>2, <1>6 DEF DisclosureInv, ResultIsOld, Verified
  <2>2. ResultIsTrue'
    BY <1>2, <1>6 DEF DisclosureInv, ResultIsOld, ResultIsTrue, Verified
  <2>3. AnsweredByParty'
    BY <1>2, <1>6 DEF DisclosureInv, ResultIsOld, AnsweredByParty, Verified
  <2>4. WhatVerifiesOpens'
    BY <1>6 DEF DisclosureInv, WhatVerifiesOpens, Rejected
  <2>5. QED
    BY <1>3, <2>1, <2>2, <2>3, <2>4 DEF DisclosureInv
<1>7. QED
  BY <1>5, <1>6

-----------------------------------------------------------------------------
(* The chain, the requests, the holders. *)

LEMMA BoundsAreNatural ==
  /\ MaxPerLedger \in Nat /\ MaxLedger \in Nat \ {0} /\ MaxEvents \in Nat
  /\ MaxRequests \in Nat /\ MaxBundles \in Nat /\ ResolveLimit \in Nat
BY DisclosureAssumption

LEMMA EmitKeeps ==
  ASSUME DisclosureInv, Emit
  PROVE  DisclosureInv'
<1>1. /\ TypeOK /\ SentIsTrue /\ RequestsAreOwn
      /\ UNCHANGED <<latest, oldest, indexed, minted, sent, pageVars>> /\ Len(log) < MaxEvents
  BY DEF Emit, DisclosureInv
<1>2. UNCHANGED <<latest, oldest, indexed, minted, sent, active, request, stored, check,
                  outcome>>
  BY <1>1 DEF pageVars
<1>3. PICK e \in Event : log' = Append(log, e)
  <2>1. latest \in Nat
    BY <1>1 DEF TypeOK
  <2>2. \A t \in Token, p \in Account, q \in Account, a \in Amounts, d \in BOOLEAN :
          /\ Happened(t, "transfer", p, q, a, d) \in Event
          /\ Happened(t, "deposit", p, p, a, TRUE) \in Event
    BY <2>1 DEF Happened, Event
  <2>3. \A p, q \in Account : \A d \in IF p = q THEN {TRUE} ELSE BOOLEAN : d \in BOOLEAN
    OBVIOUS
  <2>4. QED
    BY <2>2, <2>3 DEF Emit
<1>4. log \in Seq(Event) /\ MaxEvents \in Nat
  BY <1>1, BoundsAreNatural DEF TypeOK
<1>5. /\ log' \in Seq(Event) /\ Len(log') = Len(log) + 1 /\ Len(log) \in Nat
      /\ \A i \in DOMAIN log : log'[i] = log[i]
  BY <1>3, <1>4
<1>6. DOMAIN log \subseteq DOMAIN log'
  BY <1>4, <1>5
<1>7. TypeOK'
  BY <1>1, <1>2, <1>4, <1>5, <1>6 DEF TypeOK
<1>8. SentIsTrue'
  BY <1>1, <1>2, <1>4, <1>5, TruthKeeps DEF SentIsTrue
<1>9. RequestsAreOwn'
  BY <1>1, <1>2 DEF RequestsAreOwn
<1>10. Len(minted) <= Len(minted')
  BY <1>1, <1>2 DEF TypeOK
<1>11. QED
  BY <1>2, <1>5, <1>7, <1>8, <1>9, <1>10, GrowthKeeps

\* Steps that move the RPC node's window or the indexer.
LEMMA WindowKeeps ==
  ASSUME DisclosureInv, CloseLedger \/ AgeOut \/ Index
  PROVE  DisclosureInv'
<1>1. /\ TypeOK /\ SentIsTrue /\ RequestsAreOwn
      /\ UNCHANGED <<log, minted, sent, active, request, stored, check, outcome>>
  BY DEF DisclosureInv, CloseLedger, AgeOut, Index, pageVars
<1>2. latest' \in 1 .. MaxLedger /\ oldest' \in 1 .. latest' /\ indexed' \in 0 .. latest'
  BY <1>1, BoundsAreNatural DEF TypeOK, CloseLedger, AgeOut, Index
<1>3. TypeOK'
  BY <1>1, <1>2 DEF TypeOK
<1>4. SentIsTrue'
  BY <1>1 DEF SentIsTrue, Proof, Subject
<1>5. RequestsAreOwn'
  BY <1>1 DEF RequestsAreOwn
<1>6. Len(log) <= Len(log') /\ Len(minted) <= Len(minted')
  BY <1>1 DEF TypeOK
<1>7. QED
  BY <1>1, <1>3, <1>4, <1>5, <1>6, GrowthKeeps

LEMMA RequestsKeep ==
  ASSUME DisclosureInv, MintRequest \/ OtherTabMints \/ OtherReceiverMints
  PROVE  DisclosureInv'
<1>1. /\ TypeOK /\ SentIsTrue /\ RequestsAreOwn
      /\ UNCHANGED <<log, latest, oldest, indexed, sent, active, check>>
      /\ outcome' \in {outcome, NoOutcome}
  BY DEF DisclosureInv, MintRequest, OtherTabMints, OtherReceiverMints, chainVars, pageVars
<1>2. PICK here \in BOOLEAN :
        /\ Len(minted) < MaxRequests /\ minted' = Append(minted, here)
        /\ request' \in {request} \cup IF here THEN {Len(minted')} ELSE {}
        /\ stored' \in {stored} \cup IF here THEN {Len(minted')} ELSE {}
  BY DEF MintRequest, OtherTabMints, OtherReceiverMints, NewRequest, pageVars
<1>3. /\ minted \in Seq(BOOLEAN) /\ Len(minted) \in Nat /\ MaxRequests \in Nat
      /\ request \in 0 .. Len(minted) /\ stored \in 0 .. Len(minted)
  BY <1>1, BoundsAreNatural DEF TypeOK
<1>4. /\ minted' \in Seq(BOOLEAN) /\ Len(minted') = Len(minted) + 1
      /\ \A nu \in DOMAIN minted : minted'[nu] = minted[nu]
      /\ minted'[Len(minted')] = here
      /\ DOMAIN minted \subseteq DOMAIN minted'
  BY <1>2, <1>3
<1>5. NoOutcome \in Outcomes
  BY DEF Outcomes
<1>6. TypeOK'
  BY <1>1, <1>2, <1>3, <1>4, <1>5 DEF TypeOK
<1>7. SentIsTrue'
  BY <1>1 DEF SentIsTrue, Proof, Subject
<1>8. RequestsAreOwn'
  BY <1>1, <1>2, <1>3, <1>4 DEF RequestsAreOwn, None
<1>9. Len(log) <= Len(log')
  BY <1>1 DEF TypeOK
<1>10. QED
  BY <1>1, <1>3, <1>4, <1>6, <1>7, <1>8, <1>9, GrowthKeeps

LEMMA DiscloseKeeps ==
  ASSUME DisclosureInv, NEW p \in Account, NEW i \in DOMAIN log, NEW nu \in DOMAIN minted,
         Disclose(p, i, nu)
  PROVE  DisclosureInv'
<1>1. /\ TypeOK /\ SentIsTrue /\ RequestsAreOwn
      /\ UNCHANGED <<log, latest, oldest, indexed, minted, active, request, stored, check,
                     outcome>>
  BY DEF DisclosureInv, Disclose, chainVars, pageVars
<1> DEFINE sealed == [nu |-> nu, amount |-> log[i].amount]
           bundle(circuit) == [circuit |-> circuit, ref |-> i, sealed |-> sealed,
                               proof |-> Proof(p, circuit, i, nu, sealed)]
<1>2. PICK circuit \in Role(p, log[i]) : sent' = sent \cup {bundle(circuit)}
  BY DEF Disclose
<1>3. /\ log \in Seq(Event) /\ log[i] \in Event /\ i \in Nat
      /\ nu \in Nat /\ minted \in Seq(BOOLEAN)
  BY <1>1 DEF TypeOK
<1>4. /\ circuit \in Circuit
      /\ log[i].type = "transfer" /\ p = Subject(circuit, i)
  <2>1. log[i].type = "transfer"
    BY DEF Role
  <2>2. CASE log[i].to = p
    BY <2>1, <2>2 DEF Role, Subject, Circuit, Recipient, Sender
  <2>3. CASE log[i].to # p
    BY <2>1, <2>3 DEF Role, Subject, Circuit, Recipient, Sender
  <2>4. QED
    BY <2>2, <2>3
<1>5. sealed \in Sealed
  BY <1>3 DEF Sealed, Event
<1>6. Proof(p, circuit, i, nu, sealed) \in Statement
  <2>1. log[i].token \in Token /\ log[i].to \in Account
    BY <1>3 DEF Event
  <2> HIDE DEF sealed
  <2>2. QED
    BY <1>3, <1>4, <1>5, <2>1 DEF Proof, Statement
<1>7. bundle(circuit) \in Bundle
  <2> HIDE DEF sealed
  <2>1. QED
    BY <1>3, <1>4, <1>5, <1>6 DEF Bundle
<1>8. TypeOK'
  BY <1>1, <1>2, <1>7 DEF TypeOK
<1>9. SentIsTrue'
  <2>1. SUFFICES ASSUME NEW b \in sent'
                 PROVE  /\ b.ref \in DOMAIN log /\ log[b.ref].type = "transfer"
                        /\ b.sealed.amount = log[b.ref].amount
                        /\ b.proof = Proof(Subject(b.circuit, b.ref), b.circuit, b.ref,
                                           b.sealed.nu, b.sealed)
    BY <1>1 DEF SentIsTrue, Proof, Subject
  <2>2. CASE b \in sent
    BY <1>1, <2>2 DEF SentIsTrue
  <2>3. CASE b = bundle(circuit)
    <3>1. /\ b.ref = i /\ b.circuit = circuit /\ b.sealed = sealed
          /\ b.sealed.nu = nu /\ b.sealed.amount = log[i].amount
          /\ b.proof = Proof(p, circuit, i, nu, sealed)
      BY <2>3
    <3> HIDE DEF sealed, bundle
    <3>2. QED
      BY <1>4, <3>1
  <2>4. QED
    BY <1>2, <2>2, <2>3
<1>10. RequestsAreOwn'
  BY <1>1 DEF RequestsAreOwn
<1>11. /\ Len(log) <= Len(log') /\ Len(minted) <= Len(minted')
       /\ sent \subseteq sent'
  BY <1>1, <1>2 DEF TypeOK
<1>12. QED
  BY <1>1, <1>8, <1>9, <1>10, <1>11, GrowthKeeps

-----------------------------------------------------------------------------
(* The page drops or shows something else. *)

LEMMA PageKeeps ==
  ASSUME DisclosureInv, Reload \/ \E t \in Token : SwitchDeployment(t)
  PROVE  DisclosureInv'
<1>1. /\ TypeOK /\ SentIsTrue /\ RequestsAreOwn
      /\ UNCHANGED <<log, latest, oldest, indexed, minted, sent, stored>>
      /\ active' \in Token /\ request' \in {request, stored}
      /\ check' \in {check, NoCheck} /\ outcome' \in {outcome, NoOutcome}
  BY DEF DisclosureInv, Reload, SwitchDeployment, chainVars, TypeOK
<1>2. TypeOK'
  <2>1. NoCheck \in Checks /\ NoOutcome \in Outcomes
    BY DEF Checks, Outcomes
  <2>2. NoCheck.stage \notin {"account", "proof"}
    BY DEF NoCheck
  <2>3. QED
    BY <1>1, <2>1, <2>2 DEF TypeOK
<1>3. SentIsTrue'
  BY <1>1 DEF SentIsTrue, Proof, Subject
<1>4. RequestsAreOwn'
  BY <1>1 DEF RequestsAreOwn
<1>5. Len(log) <= Len(log') /\ Len(minted) <= Len(minted')
  BY <1>1 DEF TypeOK
<1>6. QED
  BY <1>1, <1>2, <1>3, <1>4, <1>5, GrowthKeeps

-----------------------------------------------------------------------------
(* The verification. *)

\* A step of a verification leaves the chain, the requests and bundles alone:
\* what is left to show is that the check and its result are sound.
LEMMA CheckStepKeeps ==
  ASSUME DisclosureInv,
         UNCHANGED <<log, latest, oldest, indexed, minted, sent, active, request, stored>>,
         check' \in Checks, outcome' \in Outcomes,
         CheckIsSound', ResultIsOld', ResultIsTrue', AnsweredByParty', WhatVerifiesOpens'
  PROVE  DisclosureInv'
<1>1. TypeOK /\ SentIsTrue /\ RequestsAreOwn
  BY DEF DisclosureInv
<1>2. check'.stage \in {"account", "proof"} => check'.event \in DOMAIN log
  <2>1. NoCheck.stage \notin {"account", "proof"}
    BY DEF NoCheck
  <2>2. QED
    BY <2>1 DEF CheckIsSound
<1>3. TypeOK'
  BY <1>1, <1>2 DEF TypeOK
<1>4. SentIsTrue' /\ RequestsAreOwn'
  BY <1>1 DEF SentIsTrue, RequestsAreOwn, Proof, Subject
<1>5. QED
  BY <1>3, <1>4 DEF DisclosureInv

\* No result, and no claim.
LEMMA NoResult ==
  ASSUME outcome'.kind # "verified", ~Rejected("decrypt")'
  PROVE  ResultIsOld' /\ ResultIsTrue' /\ AnsweredByParty' /\ WhatVerifiesOpens'
BY DEF ResultIsOld, ResultIsTrue, AnsweredByParty, WhatVerifiesOpens, Verified

LEMMA VerifyKeeps ==
  ASSUME DisclosureInv, NEW b \in Pasted, Verify(b)
  PROVE  DisclosureInv'
<1>1. /\ TypeOK /\ RequestsAreOwn
      /\ UNCHANGED <<log, latest, oldest, indexed, minted, sent, active, request, stored>>
      /\ request # None /\ outcome' = NoOutcome
      /\ check' = [stage |-> "rpc", bundle |-> b, nu |-> request, token |-> active,
                   event |-> None, failed |-> FALSE]
  BY DEF DisclosureInv, Verify, chainVars
<1>2. b \in Bundle /\ b.ref \in DOMAIN log /\ \E c \in sent : c.proof = b.proof
  BY PastedFacts
<1>3. /\ request \in Nat /\ request \in DOMAIN minted /\ minted[request]
      /\ active \in Token
  BY <1>1 DEF TypeOK, RequestsAreOwn, None
<1>4. check' \in Checks
  BY <1>1, <1>2, <1>3 DEF Checks, None
<1>5. outcome' \in Outcomes /\ outcome'.kind = "none"
  BY <1>1 DEF Outcomes, NoOutcome
<1>6. CheckIsSound'
  BY <1>1, <1>2, <1>3 DEF CheckIsSound
<1>7. ResultIsOld' /\ ResultIsTrue' /\ AnsweredByParty' /\ WhatVerifiesOpens'
  BY <1>5, NoResult DEF Rejected
<1>8. QED
  BY <1>1, <1>3, <1>4, <1>5, <1>6, <1>7, CheckStepKeeps

\* A verification under way: what it was given, and where it is.
Underway ==
  [stage : {"rpc", "indexer", "account", "proof"}, bundle : Bundle,
   nu : Nat \ {None}, token : Token, event : Nat, failed : BOOLEAN]

LEMMA UnderwayFacts ==
  ASSUME DisclosureInv, check.stage # "idle"
  PROVE  /\ check \in Underway /\ check # NoCheck
         /\ check.nu \in DOMAIN minted /\ minted[check.nu]
         /\ check.bundle.ref \in DOMAIN log
<1>1. NoCheck.stage = "idle"
  BY DEF NoCheck
<1>2. check # NoCheck
  BY <1>1
<1>3. QED
  BY <1>2 DEF DisclosureInv, TypeOK, Checks, Underway, CheckIsSound

\* A rejection claims nothing.
LEMMA RejectKeeps ==
  ASSUME DisclosureInv,
         UNCHANGED <<chainVars, minted, sent, active, request, stored>>,
         NEW stage \in {"resolve-event", "input", "verify-proof"}, NEW failed \in BOOLEAN,
         check' = NoCheck,
         outcome' = [kind |-> "rejected", stage |-> stage, failed |-> failed]
  PROVE  DisclosureInv'
<1>1. UNCHANGED <<log, latest, oldest, indexed, minted, sent, active, request, stored>>
  BY DEF chainVars
<1>2. check' \in Checks /\ outcome' \in Outcomes
  BY DEF Checks, Outcomes
<1>3. CheckIsSound'
  BY DEF CheckIsSound
<1>4. outcome'.kind # "verified" /\ ~Rejected("decrypt")'
  BY DEF Rejected
<1>5. QED
  BY <1>1, <1>2, <1>3, <1>4, NoResult, CheckStepKeeps

\* A verification that goes on keeps what it was given; once it has an event, that
\* is the transfer the bundle refers to.
LEMMA AdvanceKeeps ==
  ASSUME DisclosureInv, check.stage # "idle",
         UNCHANGED <<chainVars, minted, sent, active, request, stored, outcome>>,
         NEW stage \in {"indexer", "account", "proof"}, NEW event \in Nat, NEW failed \in BOOLEAN,
         check' = [check EXCEPT !.stage = stage, !.event = event, !.failed = failed],
         stage \in {"account", "proof"} =>
           /\ event = check.bundle.ref
           /\ log[event].type = "transfer" /\ log[event].token = check.token
  PROVE  DisclosureInv'
<1>1. UNCHANGED <<log, latest, oldest, indexed, minted, sent, active, request, stored>>
  BY DEF chainVars
<1>2. outcome' \in Outcomes
  BY DEF DisclosureInv, TypeOK
<1>3. check \in Underway /\ check # NoCheck
  BY UnderwayFacts
<1>4. /\ check' \in Underway
      /\ check'.stage = stage /\ check'.event = event
      /\ check'.bundle = check.bundle /\ check'.nu = check.nu /\ check'.token = check.token
  BY <1>3 DEF Underway
<1>5. check' \in Checks
  BY <1>4 DEF Checks, Underway
<1>6. CheckIsSound'
  <2>1. \E b \in sent : b.proof = check.bundle.proof
    BY <1>3 DEF DisclosureInv, CheckIsSound
  <2>2. QED
    BY <1>1, <1>4, <2>1, UnderwayFacts DEF CheckIsSound
<1>7. ResultIsOld' /\ ResultIsTrue' /\ AnsweredByParty' /\ WhatVerifiesOpens'
  BY <1>1 DEF DisclosureInv, ResultIsOld, ResultIsTrue, AnsweredByParty,
     WhatVerifiesOpens, Verified, Rejected
<1>8. QED
  BY <1>1, <1>2, <1>5, <1>6, <1>7, CheckStepKeeps

\* Either source answers with the transfer the bundle refers to, of the token
\* asked for, or with nothing.
LEMMA AnswersFacts ==
  ASSUME DisclosureInv, check.stage # "idle", NEW i, i # None,
         i \in RpcAnswers(check.bundle.ref) \/ i \in IndexerAnswers(check.bundle.ref)
  PROVE  i = check.bundle.ref /\ i \in Nat /\ log[i].token = check.token
<1>1. check.bundle.ref \in DOMAIN log /\ log \in Seq(Event)
  BY UnderwayFacts DEF DisclosureInv, TypeOK
<1>2. i = check.bundle.ref /\ log[i].token = check.token
  BY DEF RpcAnswers, IndexerAnswers
<1>3. QED
  BY <1>1, <1>2

LEMMA ResolvedKeeps ==
  ASSUME DisclosureInv, check.stage # "idle", UNCHANGED <<chainVars, minted, sent>>,
         NEW i, i # None, Resolved(i),
         i \in RpcAnswers(check.bundle.ref) \/ i \in IndexerAnswers(check.bundle.ref)
  PROVE  DisclosureInv'
<1>1. i = check.bundle.ref /\ i \in Nat /\ log[i].token = check.token
  BY AnswersFacts
<1>2. check \in Underway /\ check.failed \in BOOLEAN
  BY UnderwayFacts DEF Underway
<1>3. CASE log[i].type = "transfer"
  <2>1. /\ check' = [check EXCEPT !.stage = "account", !.event = i]
        /\ UNCHANGED <<active, request, stored, outcome>>
    BY <1>3 DEF Resolved
  <2>2. check' = [check EXCEPT !.stage = "account", !.event = i, !.failed = check.failed]
    BY <1>2, <2>1 DEF Underway
  <2>3. QED
    BY <1>1, <1>2, <1>3, <2>1, <2>2, AdvanceKeeps
<1>4. CASE log[i].type # "transfer"
  BY <1>2, <1>4, RejectKeeps DEF Resolved, Reject
<1>5. QED
  BY <1>3, <1>4

LEMMA ResolveAtRpcKeeps ==
  ASSUME DisclosureInv, ResolveAtRpc
  PROVE  DisclosureInv'
<1>1. check.stage # "idle" /\ UNCHANGED <<chainVars, minted, sent>>
  BY DEF ResolveAtRpc
<1>2. check \in Underway /\ check.failed \in BOOLEAN /\ check.event \in Nat
  BY <1>1, UnderwayFacts DEF Underway
<1>3. ASSUME NEW failed \in BOOLEAN, NotAtRpc(failed)
      PROVE  DisclosureInv'
  <2>1. CASE HasIndexer
    <3>1. /\ check' = [check EXCEPT !.stage = "indexer", !.failed = @ \/ failed]
          /\ UNCHANGED <<active, request, stored, outcome>>
      BY <1>3, <2>1 DEF NotAtRpc, Proceed
    <3>2. check' = [check EXCEPT !.stage = "indexer", !.event = check.event,
                                 !.failed = check.failed \/ failed]
      BY <1>2, <3>1 DEF Underway
    <3>3. (check.failed \/ failed) \in BOOLEAN
      OBVIOUS
    <3>4. QED
      BY <1>1, <1>2, <3>1, <3>2, <3>3, AdvanceKeeps
  <2>2. CASE ~HasIndexer
    BY <1>1, <1>2, <1>3, <2>2, RejectKeeps DEF NotAtRpc, Reject
  <2>3. QED
    BY <2>1, <2>2
<1>4. ASSUME NEW i \in RpcAnswers(check.bundle.ref), i # None, Resolved(i)
      PROVE  DisclosureInv'
  BY <1>1, <1>4, ResolvedKeeps
<1>5. QED
  BY <1>3, <1>4 DEF ResolveAtRpc

LEMMA ResolveAtIndexerKeeps ==
  ASSUME DisclosureInv, ResolveAtIndexer
  PROVE  DisclosureInv'
<1>1. check.stage # "idle" /\ UNCHANGED <<chainVars, minted, sent>>
  BY DEF ResolveAtIndexer
<1>2. check.failed \in BOOLEAN
  BY <1>1, UnderwayFacts DEF Underway
<1>3. ASSUME NEW i \in IndexerAnswers(check.bundle.ref), i # None, Resolved(i)
      PROVE  DisclosureInv'
  BY <1>1, <1>3, ResolvedKeeps
<1>4. CASE Reject("resolve-event")
  BY <1>1, <1>2, <1>4, RejectKeeps DEF Reject
<1>5. QED
  BY <1>3, <1>4 DEF ResolveAtIndexer

LEMMA LoseResolutionKeeps ==
  ASSUME DisclosureInv, LoseResolution
  PROVE  DisclosureInv'
BY RejectKeeps DEF LoseResolution

LEMMA ReadAccountsKeeps ==
  ASSUME DisclosureInv, ReadAccounts
  PROVE  DisclosureInv'
<1>1. check.stage = "account" /\ UNCHANGED <<chainVars, minted, sent>>
  BY DEF ReadAccounts
<1>2. check \in Underway /\ check # NoCheck /\ check.failed \in BOOLEAN /\ check.event \in Nat
  BY <1>1, UnderwayFacts DEF Underway
<1>3. CASE Proceed("proof", FALSE)
  <2>1. /\ check' = [check EXCEPT !.stage = "proof", !.failed = @ \/ FALSE]
        /\ UNCHANGED <<active, request, stored, outcome>>
    BY <1>3 DEF Proceed
  <2>2. check' = [check EXCEPT !.stage = "proof", !.event = check.event,
                               !.failed = check.failed]
    BY <1>2, <2>1 DEF Underway
  <2>3. /\ check.event = check.bundle.ref
        /\ log[check.event].type = "transfer" /\ log[check.event].token = check.token
    BY <1>1, <1>2 DEF DisclosureInv, CheckIsSound
  <2>4. QED
    BY <1>1, <1>2, <2>1, <2>2, <2>3, AdvanceKeeps
<1>4. CASE Reject("input")
  BY <1>1, <1>2, <1>4, RejectKeeps DEF Reject
<1>5. QED
  BY <1>3, <1>4 DEF ReadAccounts

\* A proof of the rebuilt inputs is one that a party of the transfer made, under
\* the receiver's request, for the amount sealed beside it.
LEMMA ProvedFacts ==
  ASSUME DisclosureInv, check.stage = "proof", check.bundle.proof = PublicInputs(check.bundle)
  PROVE  \E c \in sent : /\ c.ref = check.event
                         /\ c.proof.pvkA = Subject(check.bundle.circuit, check.event)
                         /\ c.proof.nu = check.nu
                         /\ check.bundle.sealed.nu = check.nu
                         /\ check.bundle.sealed.amount = log[check.event].amount
<1>1. check # NoCheck
  BY UnderwayFacts
<1>2. PICK c \in sent : c.proof = check.bundle.proof
  BY <1>1 DEF DisclosureInv, CheckIsSound
<1>3. /\ c.sealed.amount = log[c.ref].amount
      /\ c.proof = Proof(Subject(c.circuit, c.ref), c.circuit, c.ref, c.sealed.nu, c.sealed)
  BY DEF DisclosureInv, SentIsTrue
<1>4. /\ c.proof.event = c.ref /\ c.proof.sealed = c.sealed /\ c.proof.nu = c.sealed.nu
  BY <1>3 DEF Proof
<1>5. /\ c.proof.event = check.event /\ c.proof.sealed = check.bundle.sealed
      /\ c.proof.nu = check.nu
      /\ c.proof.pvkA = Subject(check.bundle.circuit, check.event)
  BY <1>2 DEF PublicInputs
<1>6. QED
  BY <1>3, <1>4, <1>5

LEMMA AcceptKeeps ==
  ASSUME DisclosureInv, check.stage = "proof", UNCHANGED <<chainVars, minted, sent>>,
         check.bundle.proof = PublicInputs(check.bundle), Accept(check.bundle)
  PROVE  DisclosureInv'
<1>1. /\ UNCHANGED <<log, latest, oldest, indexed, minted, sent, active, request, stored>>
      /\ check' = NoCheck
      /\ outcome' = [kind |-> "verified", role |-> check.bundle.circuit, event |-> check.event,
                     account |-> Subject(check.bundle.circuit, check.event),
                     amount |-> check.bundle.sealed.amount,
                     nu |-> check.nu, token |-> check.token]
  BY DEF Accept, chainVars
<1>2. /\ check \in Underway /\ check # NoCheck /\ check.bundle.ref \in DOMAIN log
      /\ check.nu \in DOMAIN minted /\ minted[check.nu]
      /\ log \in Seq(Event)
  BY UnderwayFacts DEF DisclosureInv, TypeOK
<1>3. /\ check.event \in DOMAIN log /\ log[check.event] \in Event
      /\ log[check.event].type = "transfer" /\ log[check.event].token = check.token
  BY <1>2 DEF DisclosureInv, CheckIsSound
<1>4. PICK c \in sent : /\ c.ref = check.event
                        /\ c.proof.pvkA = Subject(check.bundle.circuit, check.event)
                        /\ c.proof.nu = check.nu
                        /\ check.bundle.sealed.amount = log[check.event].amount
  BY ProvedFacts
<1>5. /\ check.bundle \in Bundle /\ check.nu \in Nat /\ check.token \in Token
      /\ check.event \in Nat
  BY <1>2 DEF Underway
<1>6. check.bundle.circuit \in Circuit
  BY <1>5 DEF Bundle
<1>7. /\ Subject(check.bundle.circuit, check.event) \in Account
      /\ check.bundle.sealed.amount \in Amounts
  BY <1>3, <1>4 DEF Event, Subject
<1>8. outcome' \in Outcomes
  BY <1>1, <1>5, <1>6, <1>7 DEF Outcomes
<1>9. check' \in Checks /\ CheckIsSound'
  BY <1>1, <1>2 DEF Checks, CheckIsSound
<1>10. /\ outcome'.kind = "verified" /\ outcome'.event = check.event /\ outcome'.nu = check.nu
       /\ outcome'.token = check.token /\ outcome'.role = check.bundle.circuit
       /\ outcome'.account = Subject(check.bundle.circuit, check.event)
       /\ outcome'.amount = check.bundle.sealed.amount
  BY <1>1
<1>11. ResultIsOld' /\ ResultIsTrue'
  BY <1>1, <1>2, <1>3, <1>4, <1>10 DEF ResultIsOld, ResultIsTrue, Verified, Subject
<1>12. AnsweredByParty' /\ WhatVerifiesOpens'
  BY <1>1, <1>2, <1>4, <1>10 DEF AnsweredByParty, WhatVerifiesOpens, Verified, Rejected
<1>13. QED
  BY <1>1, <1>8, <1>9, <1>11, <1>12, CheckStepKeeps

LEMMA CheckProofKeeps ==
  ASSUME DisclosureInv, CheckProof
  PROVE  DisclosureInv'
<1>1. check.stage = "proof" /\ UNCHANGED <<chainVars, minted, sent>>
  BY DEF CheckProof
<1>2. check.failed \in BOOLEAN
  BY <1>1, UnderwayFacts DEF Underway
<1>3. CASE check.bundle.proof # PublicInputs(check.bundle)
  <2>1. Reject("verify-proof")
    BY <1>3 DEF CheckProof
  <2>2. QED
    BY <1>1, <1>2, <2>1, RejectKeeps DEF Reject
<1>4. CASE check.bundle.proof = PublicInputs(check.bundle)
  <2>1. Opens(check.bundle.sealed)
    BY <1>1, <1>4, ProvedFacts, UnderwayFacts DEF Opens
  <2>2. Accept(check.bundle)
    BY <1>4, <2>1 DEF CheckProof
  <2>3. QED
    BY <1>1, <1>4, <2>2, AcceptKeeps
<1>5. QED
  BY <1>3, <1>4

LEMMA StutterKeeps ==
  ASSUME DisclosureInv, UNCHANGED vars
  PROVE  DisclosureInv'
<1>1. UNCHANGED <<log, latest, oldest, indexed, minted, sent, active, request, stored, check,
                  outcome>>
  BY DEF vars, chainVars, pageVars
<1>2. TypeOK' /\ SentIsTrue' /\ RequestsAreOwn'
  BY <1>1 DEF DisclosureInv, TypeOK, SentIsTrue, RequestsAreOwn, Proof, Subject
<1>3. Len(log) <= Len(log') /\ Len(minted) <= Len(minted')
  BY <1>1 DEF DisclosureInv, TypeOK
<1>4. QED
  BY <1>1, <1>2, <1>3, GrowthKeeps

-----------------------------------------------------------------------------
(* The theorems. *)

LEMMA InitDisclosureInv ==
  ASSUME Init
  PROVE  DisclosureInv
<1>1. /\ log = <<>> /\ minted = <<>> /\ Len(<<>>) = 0 /\ DOMAIN log = {}
      /\ check = NoCheck /\ outcome = NoOutcome
  BY DEF Init
<1>2. /\ check \in Checks /\ outcome \in Outcomes
      /\ check.stage = "idle" /\ outcome.kind = "none"
  BY <1>1 DEF Checks, Outcomes, NoCheck, NoOutcome
<1>3. TypeOK
  BY <1>1, <1>2, BoundsAreNatural DEF Init, TypeOK, None
<1>4. SentIsTrue /\ RequestsAreOwn /\ CheckIsSound
  BY <1>1 DEF Init, SentIsTrue, RequestsAreOwn, CheckIsSound
<1>5. ResultIsOld /\ ResultIsTrue /\ AnsweredByParty /\ WhatVerifiesOpens
  BY <1>2 DEF ResultIsOld, ResultIsTrue, AnsweredByParty, WhatVerifiesOpens, Verified, Rejected
<1>6. QED
  BY <1>3, <1>4, <1>5 DEF DisclosureInv

LEMMA NextDisclosureInv ==
  ASSUME DisclosureInv, [Next]_vars
  PROVE  DisclosureInv'
<1>1. CASE ChainStep
  BY <1>1, EmitKeeps, WindowKeeps DEF ChainStep
<1>2. CASE MintRequest \/ OtherTabMints \/ OtherReceiverMints
  BY <1>2, RequestsKeep
<1>3. ASSUME NEW p \in Account, NEW i \in DOMAIN log, NEW nu \in DOMAIN minted,
             Disclose(p, i, nu)
      PROVE  DisclosureInv'
  BY <1>3, DiscloseKeeps
<1>4. ASSUME NEW b \in Pasted, Verify(b)
      PROVE  DisclosureInv'
  BY <1>4, VerifyKeeps
<1>5. CASE VerifyStep
  BY <1>5, ResolveAtRpcKeeps, ResolveAtIndexerKeeps, LoseResolutionKeeps, ReadAccountsKeeps,
     CheckProofKeeps DEF VerifyStep
<1>6. CASE Reload \/ \E t \in Token \ {active} : SwitchDeployment(t)
  BY <1>6, PageKeeps
<1>7. CASE UNCHANGED vars
  BY <1>7, StutterKeeps
<1>8. QED
  BY <1>1, <1>2, <1>3, <1>4, <1>5, <1>6, <1>7 DEF Next

\* Every reachable state satisfies the inductive invariant: holders have sent true
\* statements only, and each stage of a verification is about one of them.
THEOREM DisclosureInvariance == Spec => []DisclosureInv
<1>1. Init => DisclosureInv
  BY InitDisclosureInv
<1>2. DisclosureInv /\ [Next]_vars => DisclosureInv'
  BY NextDisclosureInv
<1>3. QED
  BY <1>1, <1>2, PTL DEF Spec

\* Type correctness: in particular the event a verification has resolved exists.
THEOREM DisclosureTypes == Spec => []TypeOK
<1>1. DisclosureInv => TypeOK
  BY DEF DisclosureInv
<1>2. QED
  BY <1>1, DisclosureInvariance, PTL

\* An amount the page shows as verified is that of the transfer (verify.ts:52-63),
\* whatever the bundle pasted and whatever happened to the page meanwhile.
THEOREM ResultsAreTrue == Spec => []ResultIsTrue
<1>1. DisclosureInv => ResultIsTrue
  BY DEF DisclosureInv
<1>2. QED
  BY <1>1, DisclosureInvariance, PTL

\* The account the page names has answered this receiver's own request
\* (verify.ts:5-14).
THEOREM ResultsAreAnswered == Spec => []AnsweredByParty
<1>1. DisclosureInv => AnsweredByParty
  BY DEF DisclosureInv
<1>2. QED
  BY <1>1, DisclosureInvariance, PTL

\* What verifies opens: the page never rejects an amount whose proof it has
\* accepted (verify.ts:189-198).
THEOREM VerifiedOpens == Spec => []WhatVerifiesOpens
<1>1. DisclosureInv => WhatVerifiesOpens
  BY DEF DisclosureInv
<1>2. QED
  BY <1>1, DisclosureInvariance, PTL

-----------------------------------------------------------------------------
(* A step: bundles sent in good faith. *)

\* The result of a verification is shown when there is none under way.
ShownWhenDone == check # NoCheck => outcome = NoOutcome

LEMMA NextShownWhenDone ==
  ASSUME ShownWhenDone, [Next]_vars
  PROVE  ShownWhenDone'
<1> USE DEF ShownWhenDone
<1>1. CASE ChainStep
  BY <1>1 DEF ChainStep, Emit, CloseLedger, AgeOut, Index, pageVars
<1>2. CASE MintRequest \/ OtherTabMints \/ OtherReceiverMints
  BY <1>2 DEF MintRequest, OtherTabMints, OtherReceiverMints, pageVars
<1>3. CASE \E p \in Account, i \in DOMAIN log, nu \in DOMAIN minted : Disclose(p, i, nu)
  BY <1>3 DEF Disclose, pageVars
<1>4. CASE \E b \in Pasted : Verify(b)
  BY <1>4 DEF Verify
<1>5. CASE VerifyStep
  <2>1. check.stage \in {"rpc", "indexer", "account", "proof"}
    BY <1>5 DEF VerifyStep, ResolveAtRpc, ResolveAtIndexer, LoseResolution, ReadAccounts,
       CheckProof
  <2>2. check # NoCheck
    BY <2>1 DEF NoCheck
  <2>3. check' = NoCheck \/ outcome' = outcome
    BY <1>5 DEF VerifyStep, ResolveAtRpc, ResolveAtIndexer, LoseResolution, ReadAccounts,
       CheckProof, NotAtRpc, Resolved, Reject, Proceed, Accept
  <2>4. QED
    BY <2>2, <2>3
<1>6. CASE Reload \/ \E t \in Token \ {active} : SwitchDeployment(t)
  BY <1>6 DEF Reload, SwitchDeployment
<1>7. CASE UNCHANGED vars
  BY <1>7 DEF vars, pageVars
<1>8. QED
  BY <1>1, <1>2, <1>3, <1>4, <1>5, <1>6, <1>7 DEF Next

\* A bundle that was sent in answer to this request carries the inputs the
\* verifier rebuilds.
LEMMA SentMatches ==
  ASSUME DisclosureInv, check.stage = "proof", check.bundle \in sent,
         check.bundle.proof.nu = check.nu
  PROVE  check.bundle.proof = PublicInputs(check.bundle)
<1> DEFINE b == check.bundle
<1>1. b.proof = Proof(Subject(b.circuit, b.ref), b.circuit, b.ref, b.sealed.nu, b.sealed)
  BY DEF DisclosureInv, SentIsTrue
<1>2. check.event = b.ref /\ log[b.ref].token = check.token
  BY UnderwayFacts DEF DisclosureInv, CheckIsSound
<1>3. b.sealed.nu = check.nu
  BY <1>1 DEF Proof
<1>4. QED
  BY <1>1, <1>2, <1>3 DEF Proof, PublicInputs

LEMMA HonestStep ==
  ASSUME DisclosureInv, ShownWhenDone, [Next]_vars,
         check # NoCheck, Rejected("verify-proof")', check.bundle \in sent
  PROVE  check.bundle.proof.nu # check.nu
<1>1. outcome = NoOutcome /\ outcome' # outcome /\ outcome' # NoOutcome
  BY DEF ShownWhenDone, Rejected, NoOutcome
<1>2. CheckProof
  <2>1. VerifyStep
    BY <1>1 DEF Next, ChainStep, Emit, CloseLedger, AgeOut, Index, MintRequest, OtherTabMints,
       OtherReceiverMints, Disclose, Verify, Reload, SwitchDeployment, vars, pageVars
  <2>2. ~ResolveAtRpc /\ ~ResolveAtIndexer
    <3>1. ~Reject("resolve-event")
      BY <1>1 DEF Reject, Rejected
    <3>2. ~Proceed("indexer", TRUE) /\ ~Proceed("indexer", FALSE)
      BY <1>1 DEF Proceed
    <3>3. ~NotAtRpc(TRUE) /\ ~NotAtRpc(FALSE)
      BY <3>1, <3>2 DEF NotAtRpc
    <3>4. ASSUME NEW i PROVE ~Resolved(i)
      BY <1>1, <3>1 DEF Resolved
    <3>5. QED
      BY <3>1, <3>3, <3>4 DEF ResolveAtRpc, ResolveAtIndexer
  <2>3. ~LoseResolution /\ ~ReadAccounts
    BY <1>1 DEF LoseResolution, ReadAccounts, Proceed, Reject, Rejected
  <2>4. QED
    BY <2>1, <2>2, <2>3 DEF VerifyStep
<1>3. check.stage = "proof" /\ check.bundle.proof # PublicInputs(check.bundle)
  BY <1>2 DEF CheckProof, Reject, Accept, Rejected
<1>4. QED
  BY <1>3, SentMatches

\* Prover and verifier agree: a bundle pasted as it was sent fails its proof only if
\* it answers another request (prove.ts, verify.ts:160-186).
THEOREM HonestBundlesVerify == Spec => HonestBundlesPass
<1>1. Init => ShownWhenDone
  BY DEF Init, ShownWhenDone
<1>2. ShownWhenDone /\ [Next]_vars => ShownWhenDone'
  BY NextShownWhenDone
<1>3. DisclosureInv /\ ShownWhenDone /\ [Next]_vars =>
        [check # NoCheck /\ Rejected("verify-proof")' /\ check.bundle \in sent =>
           check.bundle.proof.nu # check.nu]_vars
  BY HonestStep
<1>4. QED
  BY <1>1, <1>2, <1>3, DisclosureInvariance, PTL DEF Spec, HonestBundlesPass

-----------------------------------------------------------------------------
(* A step: references that are refused. *)

\* The indexer is asked when the RPC node could not answer: the request failed,
\* or the node does not have the transfer.
RpcMissed ==
  check.stage = "indexer" =>
    /\ HasIndexer
    /\ \/ check.failed
       \/ log[check.bundle.ref].token # check.token
       \/ Crowded(check.bundle.ref)
       \/ log[check.bundle.ref].ledger < oldest

LEMMA NumbersFacts ==
  ASSUME DisclosureInv
  PROVE  /\ oldest \in Nat /\ indexed \in Nat
         /\ \A i \in DOMAIN log : i \in Nat /\ i # None /\ log[i].ledger \in Nat
<1>1. /\ log \in Seq(Event) /\ latest \in 1 .. MaxLedger /\ oldest \in 1 .. latest
      /\ indexed \in 0 .. latest
  BY DEF DisclosureInv, TypeOK
<1>2. latest \in Nat
  BY <1>1, BoundsAreNatural
<1>3. oldest \in Nat /\ indexed \in Nat
  BY <1>1, <1>2
<1>4. \A i \in DOMAIN log : i \in Nat /\ i # 0 /\ log[i] \in Event
  BY <1>1
<1>5. QED
  BY <1>3, <1>4 DEF Event, None

LEMMA CrowdIsFinite ==
  ASSUME DisclosureInv, NEW i
  PROVE  LET crowd == {j \in DOMAIN log : /\ log[j].ledger = log[i].ledger
                                          /\ log[j].token = log[i].token}
         IN  IsFiniteSet(crowd) /\ Cardinality(crowd) \in Nat
<1>1. Len(log) \in Nat /\ DOMAIN log = 1 .. Len(log)
  BY DEF DisclosureInv, TypeOK
<1>2. IsFiniteSet(DOMAIN log)
  BY <1>1, FS_Interval
<1>3. QED
  BY <1>2, FS_Subset, FS_CardinalityType

\* An event that is too far down its ledger is in a crowded one.
LEMMA FarDownIsCrowded ==
  ASSUME DisclosureInv, NEW i \in DOMAIN log, Place(i) > ResolveLimit
  PROVE  Crowded(i)
<1> DEFINE Same(j) == log[j].ledger = log[i].ledger /\ log[j].token = log[i].token
           Before == {j \in 1 .. i : Same(j)}
           All == {j \in DOMAIN log : Same(j)}
<1>1. /\ Len(log) \in Nat /\ DOMAIN log = 1 .. Len(log)
  BY DEF DisclosureInv, TypeOK
<1>2. 1 .. i \subseteq DOMAIN log
  BY <1>1
<1>3. Before \subseteq All
  BY <1>2
<1>4. IsFiniteSet(All)
  BY CrowdIsFinite
<1>5. PICK A, B : A = Before /\ B = All
  OBVIOUS
<1>6. /\ IsFiniteSet(A) /\ Cardinality(A) <= Cardinality(B)
      /\ Cardinality(A) \in Nat /\ Cardinality(B) \in Nat
  BY <1>3, <1>4, <1>5, FS_Subset, FS_CardinalityType
<1>7. Place(i) = Cardinality(A)
  BY <1>5 DEF Place
<1>8. Crowded(i) <=> Cardinality(B) > ResolveLimit
  BY <1>5 DEF Crowded
<1>9. QED
  BY <1>6, <1>7, <1>8, BoundsAreNatural

\* A ledger does not lose events.
LEMMA CrowdStays ==
  ASSUME DisclosureInv, DisclosureInv', NEW i \in DOMAIN log, Crowded(i),
         DOMAIN log \subseteq DOMAIN log', \A j \in DOMAIN log : log'[j] = log[j]
  PROVE  Crowded(i)'
<1>1. PICK A, B :
        /\ A = {j \in DOMAIN log : /\ log[j].ledger = log[i].ledger
                                   /\ log[j].token = log[i].token}
        /\ B = {j \in DOMAIN log' : /\ log'[j].ledger = log'[i].ledger
                                    /\ log'[j].token = log'[i].token}
  OBVIOUS
<1>2. A \subseteq B /\ B \subseteq DOMAIN log'
  BY <1>1
<1>3. IsFiniteSet(B)
  <2>1. /\ Len(log') \in Nat /\ DOMAIN log' = 1 .. Len(log')
    BY DEF DisclosureInv, TypeOK
  <2>2. IsFiniteSet(1 .. Len(log'))
    BY <2>1, FS_Interval
  <2>3. QED
    BY <1>2, <2>1, <2>2, FS_Subset
<1>4. /\ Cardinality(A) <= Cardinality(B)
      /\ Cardinality(A) \in Nat /\ Cardinality(B) \in Nat
  BY <1>2, <1>3, FS_Subset, FS_CardinalityType
<1>5. Cardinality(A) > ResolveLimit
  BY <1>1 DEF Crowded
<1>6. Cardinality(B) > ResolveLimit
  BY <1>4, <1>5, BoundsAreNatural
<1>7. QED
  BY <1>1, <1>6 DEF Crowded

\* Why the RPC node has no event at a reference.
LEMMA RpcHasNone ==
  ASSUME DisclosureInv, check.stage # "idle", None \in RpcAnswers(check.bundle.ref)
  PROVE  LET i == check.bundle.ref
         IN  log[i].token # check.token \/ Crowded(i) \/ log[i].ledger < oldest
<1>1. PICK i \in DOMAIN log : i = check.bundle.ref
  BY UnderwayFacts
<1>2. i # None /\ log[i].ledger \in Nat /\ oldest \in Nat
  BY NumbersFacts
<1>3. ~(log[i].token = check.token /\ log[i].ledger >= oldest /\ Place(i) <= ResolveLimit)
  BY <1>1, <1>2 DEF RpcAnswers
<1>4. Place(i) \in Nat
  <2>1. PICK P : P = {j \in 1 .. i : log[j].ledger = log[i].ledger /\ log[j].token = log[i].token}
    OBVIOUS
  <2>2. i \in Int
    BY <1>1 DEF DisclosureInv, TypeOK
  <2>3. IsFiniteSet(1 .. i) /\ P \subseteq 1 .. i
    BY <2>1, <2>2, FS_Interval
  <2>4. Cardinality(P) \in Nat
    BY <2>3, FS_Subset, FS_CardinalityType
  <2>5. QED
    BY <2>1, <2>4 DEF Place
<1>5. QED
  BY <1>1, <1>2, <1>3, <1>4, FarDownIsCrowded, BoundsAreNatural

LEMMA NextRpcMissed ==
  ASSUME DisclosureInv, DisclosureInv', RpcMissed, [Next]_vars
  PROVE  RpcMissed'
<1>1. ASSUME UNCHANGED check, oldest' >= oldest, DOMAIN log \subseteq DOMAIN log',
             \A j \in DOMAIN log : log'[j] = log[j]
      PROVE  RpcMissed'
  <2>1. SUFFICES ASSUME check.stage = "indexer"
                 PROVE  RpcMissed'
    BY <1>1 DEF RpcMissed
  <2>2. PICK i \in DOMAIN log : i = check.bundle.ref
    BY <2>1, UnderwayFacts
  <2>3. log'[i] = log[i] /\ (Crowded(i) => Crowded(i)')
    BY <1>1, CrowdStays
  <2>4. log[i].ledger \in Nat /\ oldest \in Nat /\ oldest' \in Nat
    <3>1. latest' \in 1 .. MaxLedger /\ oldest' \in 1 .. latest'
      BY DEF DisclosureInv, TypeOK
    <3>2. latest' \in Nat
      BY <3>1, BoundsAreNatural
    <3>3. QED
      BY <3>1, <3>2, NumbersFacts
  <2>5. /\ HasIndexer
        /\ \/ check.failed \/ log[i].token # check.token \/ Crowded(i)
           \/ log[i].ledger < oldest
    BY <2>1, <2>2 DEF RpcMissed
  <2>6. Crowded(i) => Crowded(check.bundle.ref)'
    BY <1>1, <2>2, <2>3 DEF Crowded
  <2>7. QED
    BY <1>1, <2>2, <2>3, <2>4, <2>5, <2>6 DEF RpcMissed
<1>2. oldest \in Int /\ log \in Seq(Event)
  BY DEF DisclosureInv, TypeOK
<1>3. CASE Emit
  <2>1. PICK e : log' = Append(log, e)
    BY <1>3 DEF Emit
  <2>2. check' = check /\ oldest' = oldest
    BY <1>3 DEF Emit, pageVars
  <2>3. log' \in Seq(Event)
    BY DEF DisclosureInv, TypeOK
  <2>4. DOMAIN log \subseteq DOMAIN log' /\ \A j \in DOMAIN log : log'[j] = log[j]
    BY <1>2, <2>1
  <2>5. QED
    BY <1>1, <1>2, <2>2, <2>4
<1>4. CASE CloseLedger \/ AgeOut \/ Index
  <2>1. check' = check /\ log' = log /\ oldest' >= oldest
    BY <1>2, <1>4 DEF CloseLedger, AgeOut, Index, pageVars
  <2>2. QED
    BY <1>1, <2>1
<1>5. CASE \/ MintRequest \/ OtherTabMints \/ OtherReceiverMints
           \/ \E p \in Account, i \in DOMAIN log, nu \in DOMAIN minted : Disclose(p, i, nu)
           \/ \E t \in Token \ {active} : SwitchDeployment(t)
           \/ UNCHANGED vars
  <2>1. UNCHANGED <<check, log, oldest>>
    BY <1>5 DEF MintRequest, OtherTabMints, OtherReceiverMints, Disclose, SwitchDeployment,
       vars, chainVars, pageVars
  <2>2. QED
    BY <1>1, <1>2, <2>1
<1>6. ASSUME check'.stage # "indexer"
      PROVE  RpcMissed'
  BY <1>6 DEF RpcMissed
<1>7. CASE Reload \/ \E b \in Pasted : Verify(b)
  BY <1>6, <1>7 DEF Reload, Verify, NoCheck
<1>8. NoCheck.stage # "indexer"
  BY DEF NoCheck
<1>9. CASE LoseResolution \/ CheckProof
  BY <1>6, <1>8, <1>9 DEF LoseResolution, CheckProof, Reject, Accept
<1>10. ASSUME check.stage # "idle", NEW i, Resolved(i)
       PROVE  check'.stage # "indexer"
  <2>1. check \in Underway
    BY <1>10, UnderwayFacts
  <2>2. CASE log[i].type = "transfer"
    <3>1. check' = [check EXCEPT !.stage = "account", !.event = i]
      BY <1>10, <2>2 DEF Resolved
    <3>2. check'.stage = "account"
      BY <2>1, <3>1 DEF Underway
    <3>3. QED
      BY <3>2
  <2>3. CASE log[i].type # "transfer"
    BY <1>8, <1>10, <2>3 DEF Resolved, Reject
  <2>4. QED
    BY <2>2, <2>3
<1>11. CASE ReadAccounts
  <2>1. check \in Underway
    BY <1>11, UnderwayFacts DEF ReadAccounts
  <2>2. check'.stage # "indexer"
    BY <1>8, <1>11, <2>1 DEF ReadAccounts, Proceed, Reject, Underway
  <2>3. QED
    BY <1>6, <2>2
<1>12. CASE ResolveAtIndexer
  <2>1. check.stage # "idle"
    BY <1>12 DEF ResolveAtIndexer
  <2>2. check'.stage # "indexer"
    BY <1>8, <1>10, <1>12, <2>1 DEF ResolveAtIndexer, Reject
  <2>3. QED
    BY <1>6, <2>2
<1>13. CASE ResolveAtRpc
  <2>1. check.stage # "idle" /\ check \in Underway /\ UNCHANGED <<log, oldest>>
    BY <1>13, UnderwayFacts DEF ResolveAtRpc, chainVars
  <2>2. ASSUME NEW failed \in BOOLEAN, NotAtRpc(failed),
               failed \/ None \in RpcAnswers(check.bundle.ref)
        PROVE  RpcMissed'
    <3>1. CASE ~HasIndexer
      BY <1>6, <1>8, <2>2, <3>1 DEF NotAtRpc, Reject
    <3>2. CASE HasIndexer
      <4>1. /\ check'.bundle = check.bundle /\ check'.token = check.token
            /\ check'.failed = (check.failed \/ failed)
        BY <2>1, <2>2, <3>2 DEF NotAtRpc, Proceed, Underway
      <4>2. CASE failed
        BY <3>2, <4>1, <4>2 DEF RpcMissed
      <4>3. CASE None \in RpcAnswers(check.bundle.ref)
        <5>1. PICK i : i = check.bundle.ref
          OBVIOUS
        <5>2. log[i].token # check.token \/ Crowded(i) \/ log[i].ledger < oldest
          BY <2>1, <4>3, <5>1, RpcHasNone
        <5>3. Crowded(i) => Crowded(check.bundle.ref)'
          BY <2>1, <4>1, <5>1 DEF Crowded
        <5>4. QED
          BY <2>1, <3>2, <4>1, <5>1, <5>2, <5>3 DEF RpcMissed
      <4>4. QED
        BY <2>2, <4>2, <4>3
    <3>3. QED
      BY <3>1, <3>2
  <2>3. ASSUME NEW i, Resolved(i)
        PROVE  RpcMissed'
    BY <1>6, <1>10, <2>1, <2>3
  <2>4. QED
    BY <1>13, <2>2, <2>3 DEF ResolveAtRpc
<1>14. QED
  BY <1>3, <1>4, <1>5, <1>7, <1>9, <1>11, <1>12, <1>13 DEF Next, ChainStep, VerifyStep

LEMMA RefusalStep ==
  ASSUME DisclosureInv, ShownWhenDone, RpcMissed, [Next]_vars,
         Rejected("resolve-event")', check # NoCheck, ~outcome'.failed
  PROVE  LET i == check.bundle.ref
         IN  \/ log[i].token # check.token \/ log[i].type # "transfer"
             \/ Crowded(i)
             \/ log[i].ledger < oldest /\ (HasIndexer => indexed < log[i].ledger)
<1>1. outcome = NoOutcome /\ outcome' # outcome /\ outcome' # NoOutcome
  BY DEF ShownWhenDone, Rejected, NoOutcome
<1>2. ResolveAtRpc \/ ResolveAtIndexer
  <2>1. VerifyStep
    BY <1>1 DEF Next, ChainStep, Emit, CloseLedger, AgeOut, Index, MintRequest, OtherTabMints,
       OtherReceiverMints, Disclose, Verify, Reload, SwitchDeployment, vars, pageVars
  <2>2. ~LoseResolution
    BY DEF LoseResolution
  <2>3. ~ReadAccounts
    BY <1>1 DEF ReadAccounts, Proceed, Reject, Rejected
  <2>4. ~CheckProof
    BY <1>1 DEF CheckProof, Reject, Accept, Rejected
  <2>5. QED
    BY <2>1, <2>2, <2>3, <2>4 DEF VerifyStep
<1>3. check.stage # "idle" /\ check.stage \in {"rpc", "indexer"}
  BY <1>2 DEF ResolveAtRpc, ResolveAtIndexer
<1>4. PICK i \in DOMAIN log : i = check.bundle.ref
  BY <1>3, UnderwayFacts
<1>5. i # None /\ log[i].ledger \in Nat /\ oldest \in Nat /\ indexed \in Nat
  BY NumbersFacts
<1>6. ASSUME NEW j, Resolved(j), j # None,
             j \in RpcAnswers(i) \/ j \in IndexerAnswers(i)
      PROVE  log[i].type # "transfer"
  <2>1. j = i
    BY <1>3, <1>4, <1>6, AnswersFacts
  <2>2. outcome' # outcome
    BY <1>1
  <2>3. QED
    BY <1>6, <2>1, <2>2 DEF Resolved
<1>7. CASE ResolveAtRpc
  <2>1. CASE \E j \in RpcAnswers(i) : j # None /\ Resolved(j)
    BY <1>4, <1>6, <2>1
  <2>2. CASE None \in RpcAnswers(i) /\ NotAtRpc(FALSE)
    <3>1. ~HasIndexer
      BY <1>1, <2>2 DEF NotAtRpc, Proceed
    <3>2. log[i].token # check.token \/ Crowded(i) \/ log[i].ledger < oldest
      BY <1>3, <1>4, <2>2, RpcHasNone
    <3>3. QED
      BY <1>4, <3>1, <3>2
  <2>3. ~(HasIndexer /\ NotAtRpc(TRUE))
    BY <1>1 DEF NotAtRpc, Proceed
  <2>4. QED
    BY <1>4, <1>7, <2>1, <2>2, <2>3 DEF ResolveAtRpc
<1>8. CASE ResolveAtIndexer
  <2>1. CASE \E j \in IndexerAnswers(i) : j # None /\ Resolved(j)
    BY <1>4, <1>6, <2>1
  <2>2. CASE None \in IndexerAnswers(i) /\ Reject("resolve-event")
    <3>1. ~check.failed
      BY <2>2 DEF Reject
    <3>2. log[i].token # check.token \/ Crowded(i) \/ log[i].ledger < oldest
      BY <1>4, <1>8, <3>1 DEF ResolveAtIndexer, RpcMissed
    <3>3. \/ log[i].token # check.token \/ log[i].ledger > indexed
          \/ Crowded(i)
      <4>1. PICK n : n = Cardinality({j \in DOMAIN log : /\ log[j].ledger = log[i].ledger
                                                         /\ log[j].token = log[i].token})
        OBVIOUS
      <4>2. log[i].token = check.token /\ log[i].ledger <= indexed => ~(n <= ResolveLimit)
        BY <1>5, <2>2, <4>1 DEF IndexerAnswers
      <4>3. n \in Nat
        BY <1>4, <4>1, CrowdIsFinite
      <4>4. QED
        BY <1>5, <4>1, <4>2, <4>3, BoundsAreNatural DEF Crowded
    <3>4. QED
      BY <1>4, <1>5, <3>2, <3>3
  <2>3. QED
    BY <1>4, <1>8, <2>1, <2>2 DEF ResolveAtIndexer
<1>9. QED
  BY <1>2, <1>7, <1>8

\* If no request fails, a reference is refused only when neither the RPC node nor
\* the indexer can have the transfer (event-source.ts:143-155).
THEOREM RefusalsAreJustified == Spec => NotFoundMeansGone
<1>1. Init => ShownWhenDone /\ RpcMissed
  BY DEF Init, ShownWhenDone, RpcMissed, NoCheck
<1>2. ShownWhenDone /\ [Next]_vars => ShownWhenDone'
  BY NextShownWhenDone
<1>3. DisclosureInv /\ DisclosureInv' /\ RpcMissed /\ [Next]_vars => RpcMissed'
  BY NextRpcMissed
<1>4. DisclosureInv /\ ShownWhenDone /\ RpcMissed /\ [Next]_vars =>
        [Rejected("resolve-event")' /\ check # NoCheck /\ ~outcome'.failed =>
           LET i == check.bundle.ref
           IN  \/ log[i].token # check.token \/ log[i].type # "transfer"
               \/ Crowded(i)
               \/ log[i].ledger < oldest /\ (HasIndexer => indexed < log[i].ledger)]_vars
  BY RefusalStep
<1>5. QED
  BY <1>1, <1>2, <1>3, <1>4, DisclosureInvariance, PTL DEF Spec, NotFoundMeansGone

=============================================================================
