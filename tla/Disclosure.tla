------------------------------ MODULE Disclosure ------------------------------
(***************************************************************************)
(* Selective disclosure: a receiver mints a request (packages/app/app/     *)
(* verify/page.tsx), the holder of an account answers it for one transfer  *)
(* (wallet.ts, disclosure/prove.ts), and the receiver verifies the answer  *)
(* against the chain (disclosure/verify.ts), resolving the transfer from   *)
(* the RPC node or, if it is too old, from the indexer.                    *)
(*                                                                         *)
(* The circuits are external: a proof is the statement it proves, and      *)
(* holders can prove true statements about their own account only.  A      *)
(* sealed amount opens under the request it was sealed to; under another   *)
(* it reads as a number out of range.  A request is known by its nonce.    *)
(***************************************************************************)
EXTENDS Integers, Sequences, FiniteSets

CONSTANTS
  Account,            \* accounts of the tokens
  Token,              \* the tokens of the deployments the app can serve
  Amounts,            \* amounts of transfers
  HasIndexer,         \* an indexer is configured
  ResolveLimit,       \* events read of the ledger of a reference
  MaxPerLedger,       \* bound on the events of one ledger
  MaxLedger,          \* bound on the ledgers
  MaxEvents,          \* bound on the events
  MaxRequests,        \* bound on the requests
  MaxBundles          \* bound on the bundles

ASSUME DisclosureAssumption ==
  /\ HasIndexer \in BOOLEAN
  /\ ResolveLimit \in Nat /\ MaxPerLedger \in Nat /\ MaxLedger \in Nat \ {0}
  /\ MaxEvents \in Nat /\ MaxRequests \in Nat /\ MaxBundles \in Nat

VARIABLES
  log,                \* the events of all tokens, in chain order
  latest, oldest,     \* the RPC node's window of ledgers
  indexed,            \* the latest ledger the indexer has
  minted,             \* minted[nu]: whether request nu is sealed to this receiver
  sent,               \* the bundles holders have sent back
  active,             \* the token of the active deployment
  request,            \* the request the page shows (0: none)
  stored,             \* the request in localStorage
  check,              \* the verification in progress
  outcome             \* what the page shows of the last one

chainVars == <<log, latest, oldest, indexed>>
pageVars == <<active, request, stored, check, outcome>>
vars == <<chainVars, minted, sent, pageVars>>

Recipient == "disclose_recipient"
Sender == "disclose_sender"
Circuit == {Recipient, Sender}

\* derived: the transfer's ephemeral scalar is the one the sender's wallet re-
\* derives; it does not matter where the sender is also the recipient.
Event == [token : Token, ledger : Nat, type : {"transfer", "deposit"},
          from : Account, to : Account, amount : Amounts, derived : BOOLEAN]

\* No event, request or account.
None == 0

Sealed == [nu : Nat, amount : Amounts]

\* The public inputs of a proof; an event stands for its R_e, sigma and v_tilde.
Statement == [circuit : Circuit, token : Token, pvkA : Account, event : Nat,
              pvkB : Account \cup {None}, nu : Nat, sealed : Sealed]

Bundle == [circuit : Circuit, ref : Nat, proof : Statement, sealed : Sealed]

NoCheck == [stage |-> "idle"]
NoOutcome == [kind |-> "none"]

Init ==
  /\ log = <<>> /\ latest = 1 /\ oldest = 1 /\ indexed = 0
  /\ minted = <<>>
  /\ sent = {}
  /\ active \in Token
  /\ request = None /\ stored = None
  /\ check = NoCheck
  /\ outcome = NoOutcome

-----------------------------------------------------------------------------
(* The chain, the RPC node's retention and the indexer. *)

Happened(t, type, p, q, a, d) ==
  [token |-> t, ledger |-> latest, type |-> type, from |-> p, to |-> q,
   amount |-> a, derived |-> d]

Emit ==
  /\ Len(log) < MaxEvents
  /\ Cardinality({i \in DOMAIN log : log[i].ledger = latest}) < MaxPerLedger
  /\ \E t \in Token, p \in Account, a \in Amounts :
       \/ \E q \in Account : \E d \in IF p = q THEN {TRUE} ELSE BOOLEAN :
            log' = Append(log, Happened(t, "transfer", p, q, a, d))
       \/ log' = Append(log, Happened(t, "deposit", p, p, a, TRUE))
  /\ UNCHANGED <<latest, oldest, indexed, minted, sent, pageVars>>

CloseLedger ==
  /\ latest < MaxLedger
  /\ latest' = latest + 1
  /\ UNCHANGED <<log, oldest, indexed, minted, sent, pageVars>>

AgeOut ==
  /\ oldest < latest
  /\ oldest' = oldest + 1
  /\ UNCHANGED <<log, latest, indexed, minted, sent, pageVars>>

Index ==
  /\ indexed < latest - 1
  /\ indexed' = indexed + 1
  /\ UNCHANGED <<log, latest, oldest, minted, sent, pageVars>>

-----------------------------------------------------------------------------
(* Requests. *)

NewRequest(here) ==
  /\ Len(minted) < MaxRequests
  /\ minted' = Append(minted, here)

\* mintRequest.  The button works while a bundle is being verified.
MintRequest ==
  /\ NewRequest(TRUE)
  /\ request' = Len(minted')
  /\ stored' = Len(minted')
  /\ outcome' = NoOutcome
  /\ UNCHANGED <<chainVars, sent, active, check>>

\* The page in another tab of this browser, which shares localStorage.
OtherTabMints ==
  /\ NewRequest(TRUE)
  /\ stored' = Len(minted')
  /\ UNCHANGED <<chainVars, sent, active, request, check, outcome>>

OtherReceiverMints ==
  /\ NewRequest(FALSE)
  /\ UNCHANGED <<chainVars, sent, pageVars>>

-----------------------------------------------------------------------------
(* The holder: wallet.ts, prove.ts and the witness builders. *)

\* The direction the activity panel offers for a transfer, if any.
Role(p, e) ==
  {c \in Circuit : /\ e.type = "transfer"
                   /\ IF e.to = p THEN c = Recipient
                      ELSE c = Sender /\ e.from = p /\ e.derived}

Proof(p, circuit, i, nu, sealed) ==
  [circuit |-> circuit, token |-> log[i].token, pvkA |-> p, event |-> i,
   pvkB |-> IF circuit = Sender THEN log[i].to ELSE None,
   nu |-> nu, sealed |-> sealed]

\* The holder pastes any request it has been given.
Disclose(p, i, nu) ==
  /\ Cardinality(sent) < MaxBundles
  /\ \E circuit \in Role(p, log[i]) :
       LET sealed == [nu |-> nu, amount |-> log[i].amount]
       IN  sent' = sent \cup {[circuit |-> circuit, ref |-> i, sealed |-> sealed,
                               proof |-> Proof(p, circuit, i, nu, sealed)]}
  /\ UNCHANGED <<chainVars, minted, pageVars>>

-----------------------------------------------------------------------------
(* The receiver: verifyDisclosure and the page around it. *)

\* What may be pasted: a bundle, or one with a part that is not its own.
Pasted ==
  sent \cup {[b EXCEPT !.ref = i] : b \in sent, i \in DOMAIN log}
       \cup {[b EXCEPT !.circuit = c] : b \in sent, c \in Circuit}
       \cup {[b EXCEPT !.sealed = [nu |-> nu, amount |-> a]] :
               b \in sent, nu \in DOMAIN minted, a \in Amounts}

\* Bundle, request and deployment are those of the moment the button is pressed.
Verify(b) ==
  /\ check = NoCheck
  /\ request # None
  /\ check' = [stage |-> "rpc", bundle |-> b, nu |-> request, token |-> active,
               event |-> None, failed |-> FALSE]
  /\ outcome' = NoOutcome
  /\ UNCHANGED <<chainVars, minted, sent, active, request, stored>>

Reject(stage) ==
  /\ check' = NoCheck
  /\ outcome' = [kind |-> "rejected", stage |-> stage, failed |-> check.failed]
  /\ UNCHANGED <<active, request, stored>>

Proceed(stage, failed) ==
  /\ check' = [check EXCEPT !.stage = stage, !.failed = @ \/ failed]
  /\ UNCHANGED <<active, request, stored, outcome>>

\* The place of event i among the events of its token in its ledger.
Place(i) ==
  Cardinality({j \in 1 .. i : log[j].ledger = log[i].ledger /\ log[j].token = log[i].token})

\* resolveEventRef: one page of the ledger of the reference.
RpcAnswers(i) ==
  IF /\ log[i].token = check.token
     /\ log[i].ledger >= oldest
     /\ Place(i) <= ResolveLimit
    THEN {i} ELSE {None}

\* Rows come by id, an order of its own: of more than a page, any may be cut off.
IndexerAnswers(i) ==
  IF log[i].token = check.token /\ log[i].ledger <= indexed
    THEN IF Cardinality({j \in DOMAIN log : /\ log[j].ledger = log[i].ledger
                                            /\ log[j].token = log[i].token}) <= ResolveLimit
           THEN {i} ELSE {i, None}
    ELSE {None}

\* Disclosures cover transfers.
Resolved(i) ==
  IF log[i].type = "transfer"
    THEN /\ check' = [check EXCEPT !.stage = "account", !.event = i]
         /\ UNCHANGED <<active, request, stored, outcome>>
    ELSE Reject("resolve-event")

\* Mutated: no answer is taken for an event.
ResolveUnchecked ==
  /\ check.stage = "rpc"
  /\ \E i \in RpcAnswers(check.bundle.ref) :
       check' = [check EXCEPT !.stage = "account", !.event = i]
  /\ UNCHANGED <<chainVars, minted, sent, active, request, stored, outcome>>

\* Mutated: the indexer is not asked.
ResolveAtRpcOnly ==
  /\ check.stage = "rpc"
  /\ \E i \in RpcAnswers(check.bundle.ref) :
       IF i # None THEN Resolved(i) ELSE Reject("resolve-event")
  /\ UNCHANGED <<chainVars, minted, sent>>

\* No event there, or the request failed.
NotAtRpc(failed) == IF HasIndexer THEN Proceed("indexer", failed) ELSE Reject("resolve-event")

ResolveAtRpc ==
  /\ check.stage = "rpc"
  /\ \/ HasIndexer /\ NotAtRpc(TRUE)
     \/ \E i \in RpcAnswers(check.bundle.ref) :
          IF i # None THEN Resolved(i) ELSE NotAtRpc(FALSE)
  /\ UNCHANGED <<chainVars, minted, sent>>

ResolveAtIndexer ==
  /\ check.stage = "indexer"
  /\ \E i \in IndexerAnswers(check.bundle.ref) :
       IF i # None THEN Resolved(i) ELSE Reject("resolve-event")
  /\ UNCHANGED <<chainVars, minted, sent>>

\* The last request fails.
LoseResolution ==
  /\ check.stage = IF HasIndexer THEN "indexer" ELSE "rpc"
  /\ check' = NoCheck
  /\ outcome' = [kind |-> "rejected", stage |-> "resolve-event", failed |-> TRUE]
  /\ UNCHANGED <<chainVars, minted, sent, active, request, stored>>

\* confidentialBalance of the parties: they are registered, or the read fails.
ReadAccounts ==
  /\ check.stage = "account"
  /\ Proceed("proof", FALSE) \/ Reject("input")
  /\ UNCHANGED <<chainVars, minted, sent>>

\* Mutated: always the account that was paid.
SubjectPaid(circuit, i) == log[i].to

\* The account a proof of this circuit binds to.
Subject(circuit, i) == IF circuit = Sender THEN log[i].from ELSE log[i].to

\* Mutated: rebuilt from what the bundle says.
InputsFromBundle(b) == [b.proof EXCEPT !.circuit = b.circuit]

\* Rebuilt from the chain and the receiver's own request; sealed is the bundle's.
PublicInputs(b) ==
  [circuit |-> b.circuit, token |-> check.token, pvkA |-> Subject(b.circuit, check.event),
   event |-> check.event,
   pvkB |-> IF b.circuit = Sender THEN log[check.event].to ELSE None,
   nu |-> check.nu, sealed |-> b.sealed]

Opens(sealed) == sealed.nu = check.nu /\ minted[check.nu]

Accept(b) ==
  /\ check' = NoCheck
  /\ outcome' = [kind |-> "verified", role |-> b.circuit, event |-> check.event,
                 account |-> Subject(b.circuit, check.event), amount |-> b.sealed.amount,
                 nu |-> check.nu, token |-> check.token]
  /\ UNCHANGED <<active, request, stored>>

CheckProof ==
  /\ check.stage = "proof"
  /\ LET b == check.bundle
     IN  IF b.proof # PublicInputs(b) THEN Reject("verify-proof")
         ELSE IF ~Opens(b.sealed) THEN Reject("decrypt")
         ELSE Accept(b)
  /\ UNCHANGED <<chainVars, minted, sent>>

VerifyStep ==
  ResolveAtRpc \/ ResolveAtIndexer \/ LoseResolution \/ ReadAccounts \/ CheckProof

\* A reload drops the verification and shows the stored request.
Reload ==
  /\ check' = NoCheck
  /\ outcome' = NoOutcome
  /\ request' = stored
  /\ UNCHANGED <<chainVars, minted, sent, active, stored>>

\* The page stays as it is when the deployment is switched.
SwitchDeployment(t) ==
  /\ active' = t
  /\ UNCHANGED <<chainVars, minted, sent, request, stored, check, outcome>>

-----------------------------------------------------------------------------

ChainStep == Emit \/ CloseLedger \/ AgeOut \/ Index

Next ==
  \/ ChainStep
  \/ MintRequest \/ OtherTabMints \/ OtherReceiverMints
  \/ \E p \in Account, i \in DOMAIN log, nu \in DOMAIN minted : Disclose(p, i, nu)
  \/ \E b \in Pasted : Verify(b)
  \/ VerifyStep
  \/ Reload
  \/ \E t \in Token \ {active} : SwitchDeployment(t)

Spec == Init /\ [][Next]_vars

-----------------------------------------------------------------------------
(* Properties. *)

Checks ==
  {NoCheck} \cup
  [stage : {"rpc", "indexer", "account", "proof"}, bundle : Bundle,
   nu : Nat \ {None}, token : Token, event : Nat, failed : BOOLEAN]

Outcomes ==
  {NoOutcome} \cup
  [kind : {"rejected"}, stage : {"resolve-event", "input", "verify-proof", "decrypt"},
   failed : BOOLEAN] \cup
  [kind : {"verified"}, role : Circuit, event : Nat, account : Account,
   amount : Amounts, nu : Nat, token : Token]

TypeOK ==
  /\ log \in Seq(Event) /\ Len(log) <= MaxEvents
  /\ latest \in 1 .. MaxLedger /\ oldest \in 1 .. latest /\ indexed \in 0 .. latest
  /\ minted \in Seq(BOOLEAN) /\ Len(minted) <= MaxRequests
  /\ sent \subseteq Bundle
  /\ active \in Token
  /\ request \in 0 .. Len(minted) /\ stored \in 0 .. Len(minted)
  /\ check \in Checks /\ outcome \in Outcomes
  /\ check.stage \in {"account", "proof"} => check.event \in DOMAIN log

Verified == outcome.kind = "verified"
Rejected(stage) == outcome.kind = "rejected" /\ outcome.stage = stage

\* Whatever is pasted, and whatever is switched, minted or reloaded meanwhile,
\* an amount shown as verified is the amount of that transfer of that token, and
\* the account named is its recipient or its sender (verify.ts:52-63: "an
\* amount trustworthy as the chain itself").
ResultIsTrue ==
  Verified =>
    LET e == log[outcome.event]
    IN  /\ e.type = "transfer" /\ e.token = outcome.token /\ e.amount = outcome.amount
        /\ outcome.account = IF outcome.role = Sender THEN e.from ELSE e.to

\* The account named has itself answered this very request, for this transfer:
\* a proof made for another request or another receiver is refused (page.tsx:
\* 159-161, verify.ts:5-14).
AnsweredByParty ==
  Verified =>
    /\ minted[outcome.nu]
    /\ \E b \in sent : /\ b.proof.pvkA = outcome.account /\ b.proof.nu = outcome.nu
                       /\ b.ref = outcome.event

\* Prover and verifier agree on the public inputs: a bundle pasted as it was sent
\* fails its proof only if it answers another request (prove.ts, verify.ts:160-186).
HonestBundlesPass ==
  [][check # NoCheck /\ Rejected("verify-proof")' /\ check.bundle \in sent =>
       check.bundle.proof.nu # check.nu]_vars

\* A bundle is never rejected once its proof has verified: what was proved under
\* the receiver's request opens (verify.ts:189-198).
WhatVerifiesOpens == ~Rejected("decrypt")

\* More events of the token in the ledger of event i than one request reads.
Crowded(i) ==
  Cardinality({j \in DOMAIN log : /\ log[j].ledger = log[i].ledger
                                  /\ log[j].token = log[i].token}) > ResolveLimit

\* If no request fails, a reference is refused only when neither source can have
\* the transfer: it is not one of this token, the ledger holds more than a request
\* reads, or it has left the RPC node's window before the indexer has it
\* (event-source.ts:143-155: whichever source still or already has the event).
NotFoundMeansGone ==
  [][Rejected("resolve-event")' /\ check # NoCheck /\ ~outcome'.failed =>
       LET i == check.bundle.ref
       IN  \/ log[i].token # check.token \/ log[i].type # "transfer"
           \/ Crowded(i)
           \/ log[i].ledger < oldest /\ (HasIndexer => indexed < log[i].ledger)]_vars

(***************************************************************************)
(* The invariant behind them: holders have sent true statements only, and  *)
(* a verification under way is about one of them, about an event of the    *)
(* chain and about a request of this receiver's.                           *)
(***************************************************************************)
SentIsTrue ==
  \A b \in sent :
    /\ b.ref \in DOMAIN log /\ log[b.ref].type = "transfer"
    /\ b.sealed.amount = log[b.ref].amount
    /\ b.proof = Proof(Subject(b.circuit, b.ref), b.circuit, b.ref, b.sealed.nu, b.sealed)

RequestsAreOwn == \A nu \in {request, stored} : nu # None => minted[nu]

CheckIsSound ==
  check # NoCheck =>
    /\ check.nu \in DOMAIN minted /\ minted[check.nu]
    /\ check.bundle.ref \in DOMAIN log
    /\ \E b \in sent : b.proof = check.bundle.proof
    /\ check.stage \in {"account", "proof"} =>
         /\ check.event = check.bundle.ref
         /\ log[check.event].type = "transfer" /\ log[check.event].token = check.token

ResultIsOld == Verified => outcome.event \in DOMAIN log /\ outcome.nu \in DOMAIN minted

DisclosureInv ==
  /\ TypeOK
  /\ SentIsTrue
  /\ RequestsAreOwn
  /\ CheckIsSound
  /\ ResultIsOld
  /\ ResultIsTrue
  /\ AnsweredByParty
  /\ WhatVerifiesOpens

=============================================================================
