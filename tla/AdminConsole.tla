----------------------------- MODULE AdminConsole -----------------------------
(***************************************************************************)
(* Deploying and administering a token of one's own: the factory and the   *)
(* compliance contracts, the wizard (app/advanced/page.tsx), the slot it   *)
(* saves to (active-deployment.tsx) and the admin page (app/admin/page.tsx)*)
(* with the calls of admin.ts and factory.ts.                              *)
(*                                                                         *)
(* The lists of the admin page are replayed from the events of two         *)
(* contracts, read one after the other; loads and actions go on, await     *)
(* after await, when another deployment becomes active.  A history is      *)
(* complete from deployedAtLedger on, as with an indexer (EventSource).    *)
(***************************************************************************)
EXTENDS Naturals, Sequences, FiniteSets

CONSTANTS
  Account,            \* Freighter accounts: deployers, admins, holders
  Kind,               \* the configurations the wizard deploys
  NoAccount,          \* no account
  Starts,             \* the tokens at the start: the default one, and possibly
                      \* one that is the advanced deployment by then
  MaxTokens,          \* bound on the tokens, the default one included
  MaxEvents,          \* bound on the events of all contracts
  MaxLedger,          \* bound on the ledgers
  Slot                \* bound on the calls of the admin page at a time

\* The configurations there are.
CtKind == {"vanilla", "compliance", "allowlist", "blocklist"}

ASSUME AdminAssumption ==
  /\ Kind \subseteq CtKind
  /\ NoAccount \notin Account
  /\ MaxTokens \in Nat /\ MaxEvents \in Nat /\ MaxLedger \in Nat \ {0}

VARIABLES
  ledger,             \* the latest ledger
  tokens,             \* tokens[t]: a token with its policy, and their events
  deploys,            \* deploy() calls of the wizard
  advanced, which,    \* the saved deployment (or None), the active slot
  onPage,             \* whether the admin page is on the screen
  signer,             \* the connected account
  owner, ownerLoaded, \* the owner read for the active token
  ownerReads,         \* the owner reads that have not been cancelled
  lists,              \* the lists on display
  busy,               \* whether the buttons are disabled
  calls               \* connect, loadLists and runAction, as far as they got

chainVars == <<ledger, tokens>>
slotVars  == <<deploys, advanced, which>>
accessVars == <<signer, owner, ownerLoaded, ownerReads>>
pageVars  == <<onPage, accessVars, lists, busy, calls>>
vars == <<chainVars, slotVars, pageVars>>

-----------------------------------------------------------------------------
(* The contracts. *)

ListName == {"registered", "frozen", "members"}

NoMembers == [l \in ListName |-> {}]

\* An account enters a list (on) or leaves it; after: the storage then.
Event == [ledger : Nat, list : ListName, on : BOOLEAN, who : Account,
          after : [ListName -> SUBSET Account]]

\* A token, with its policy if it has one: the factory gives them one owner.
Token == [kind : CtKind, owner : Account \cup {NoAccount}, log : Seq(Event)]

\* Who the first n events of a log have left on list l.
Listed(log, l, n) ==
  {a \in Account : \E i \in 1 .. n :
     /\ log[i].list = l /\ log[i].who = a /\ log[i].on
     /\ \A j \in 1 .. n : log[j].list = l /\ log[j].who = a => j <= i}

\* The storage after an event is what the events so far tell of it.
Faithful(log) ==
  \A n \in 1 .. Len(log) :
    /\ log[n].ledger >= 1
    /\ \A l \in ListName : log[n].after[l] = Listed(log, l, n)

ASSUME StartsAssumption ==
  \A start \in Starts :
    /\ start \in Seq(Token) /\ Len(start) \in 1 .. MaxTokens
    /\ \A t \in 1 .. Len(start) : Faithful(start[t].log)

HasPolicy(kind) == kind \in {"allowlist", "blocklist"}

Storage(t, n) == IF n = 0 THEN NoMembers ELSE tokens[t].log[n].after

Current(t) == Storage(t, Len(tokens[t].log))

\* ComplianceHooks: the checks before every operation of an account.
Authorized(t, a) ==
  /\ a \notin Current(t)["frozen"]
  /\ tokens[t].kind = "allowlist" => a \in Current(t)["members"]
  /\ tokens[t].kind = "blocklist" => a \notin Current(t)["members"]

\* A flag is set or cleared; an event tells of it, unless it was so before.
Change(t, l, on, a) ==
  IF (a \in Current(t)[l]) = on THEN UNCHANGED tokens
  ELSE LET after == [Current(t) EXCEPT ![l] = IF on THEN @ \cup {a} ELSE @ \ {a}]
           event == [ledger |-> ledger, list |-> l, on |-> on, who |-> a, after |-> after]
       IN  tokens' = [tokens EXCEPT ![t].log = Append(@, event)]

\* The bound on the events of all contracts.
Room ==
  Cardinality(UNION {{t} \X DOMAIN tokens[t].log : t \in DOMAIN tokens}) < MaxEvents

\* An account registers, with the token's consent.
Register(t, a) ==
  /\ Room
  /\ a \notin Current(t)["registered"] /\ Authorized(t, a)
  /\ Change(t, "registered", TRUE, a)
  /\ UNCHANGED <<ledger, slotVars, pageVars>>

\* The lists an owner manages: #[only_owner].
Managed(t) == IF HasPolicy(tokens[t].kind) THEN {"frozen", "members"} ELSE {"frozen"}

\* The owner acts from somewhere else, or by a call of a page that is gone.
OwnerActs(t, l, on, a) ==
  /\ Room
  /\ tokens[t].owner # NoAccount /\ l \in Managed(t)
  /\ (a \in Current(t)[l]) # on
  /\ Change(t, l, on, a)
  /\ UNCHANGED <<ledger, slotVars, pageVars>>

\* Ledgers matter to the wizard, which writes one down: others are not counted.
CloseLedger ==
  /\ ledger < MaxLedger /\ deploys # {}
  /\ ledger' = ledger + 1
  /\ UNCHANGED <<tokens, slotVars, pageVars>>

-----------------------------------------------------------------------------
(* What is displayed, and the calls that load it. *)

Deployment == [token : Nat, from : Nat]

Default == [token |-> 1, from |-> 1]
None == [token |-> 0, from |-> 0]

Serving(adv, wh) == IF wh = "advanced" /\ adv # None THEN adv ELSE Default

Active == Serving(advanced, which)

KindOf(d) == tokens[d.token].kind

\* A list, the token it is of, and the number of events read for it.
Shown == [token : Nat, seen : Nat, who : SUBSET Account]

NoList == [token |-> 0, seen |-> 0, who |-> {}]

NoChange == [list |-> "frozen", on |-> FALSE, who |-> NoAccount]

\* by, change: who does what, of which only the list is kept once it is done;
\* at: the events there were by then.
Call == [job : {"none", "connect", "load", "act"}, dep : Deployment,
         by : Account \cup {NoAccount},
         stage : {"calling", "token", "tokenRead", "policy", "policyRead"}, seen : Nat,
         change : [list : ListName, on : BOOLEAN, who : Account \cup {NoAccount}], at : Nat]

NoCall == [job |-> "none", dep |-> None, by |-> NoAccount, stage |-> "calling", seen |-> 0,
           change |-> NoChange, at |-> 0]

Load(d) == [NoCall EXCEPT !.job = "load", !.dep = d, !.stage = "token"]

Free == {k \in Slot : calls[k].job = "none"}

Begin(c) ==
  /\ \E k \in Free : calls' = [calls EXCEPT ![k] = c]
  /\ busy' = TRUE

Advance(k, c) == calls' = [calls EXCEPT ![k] = c]

End(k) == Advance(k, NoCall) /\ busy' = FALSE

IsAdmin(s, o) == s # NoAccount /\ s = o

\* "Once an admin is connected, load the lists": the effect after signer or
\* owner have changed.
LoadOnceAdmin(s, o, otherwise) ==
  IF IsAdmin(s, o) /\ ~IsAdmin(signer, owner) THEN Begin(Load(Active)) ELSE otherwise

Blank ==
  /\ signer' = NoAccount /\ owner' = NoAccount
  /\ lists' = [l \in ListName |-> NoList]

\* Mutated: an owner read is not cancelled.
ReadOwnerToo(d) ==
  /\ ownerLoaded' = (KindOf(d) = "vanilla")
  /\ ownerReads' = ownerReads \cup (IF KindOf(d) = "vanilla" THEN {} ELSE {d.token})

\* A token without an owner is not asked for one.  An earlier read is cancelled.
ReadOwner(d) ==
  /\ ownerLoaded' = (KindOf(d) = "vanilla")
  /\ ownerReads' = IF KindOf(d) = "vanilla" THEN {} ELSE {d.token}

Mount(d) ==
  /\ onPage' = TRUE
  /\ Blank /\ ReadOwner(d)
  /\ busy' = FALSE /\ calls' = [k \in Slot |-> NoCall]

Unmount ==
  /\ onPage' = FALSE
  /\ Blank
  /\ ownerLoaded' = FALSE /\ ownerReads' = {}
  /\ busy' = FALSE /\ calls' = [k \in Slot |-> NoCall]

\* The two effects of another active token: the reset, and, for an admin of the
\* token before, a load for the new one: isAdmin is still that of the last
\* render.
Rewire(d) ==
  /\ Blank /\ ReadOwner(d)
  /\ IF IsAdmin(signer, owner) THEN Begin(Load(d)) ELSE UNCHANGED <<busy, calls>>
  /\ UNCHANGED onPage

-----------------------------------------------------------------------------
(* The wizard and the slot. *)

DeployCall == [from : Nat, kind : CtKind, owner : Account \cup {NoAccount}, token : Nat]

\* deploy() has connected an account and read the latest ledger.
BeginDeploy(kind, a) ==
  /\ Cardinality(deploys) + Len(tokens) < MaxTokens
  /\ deploys' = deploys \cup {[from |-> ledger, kind |-> kind, token |-> 0,
                               owner |-> IF kind = "vanilla" THEN NoAccount ELSE a]}
  /\ UNCHANGED <<chainVars, advanced, which, pageVars>>

\* The factory deploys the token, after the policy, in one transaction.
DeployLands(d) ==
  /\ d.token = 0 /\ Len(tokens) < MaxTokens
  /\ tokens' = Append(tokens, [kind |-> d.kind, owner |-> d.owner, log |-> <<>>])
  /\ deploys' = (deploys \ {d}) \cup {[d EXCEPT !.token = Len(tokens) + 1]}
  /\ UNCHANGED <<ledger, advanced, which, pageVars>>

\* A refusal, a failure, or a confirmation that takes too long.
DeployFails(d) ==
  /\ deploys' = deploys \ {d}
  /\ UNCHANGED <<chainVars, advanced, which, pageVars>>

\* saveAdvanced and the route to the admin page or the wallet, wherever the
\* user is by then.
Saved(d, from) ==
  LET new == [token |-> d.token, from |-> from]
  IN  /\ d.token # 0
      /\ advanced' = new /\ which' = "advanced"
      /\ deploys' = deploys \ {d}
      /\ IF d.kind = "vanilla" THEN Unmount
         ELSE IF onPage THEN Rewire(new) ELSE Mount(new)
      /\ UNCHANGED chainVars

\* Mutated: the ledger is read when the token is there.
SaveAfterwards(d) == Saved(d, ledger)

SaveAdvanced(d) == Saved(d, d.from)

\* The switch in the navigation bar.
SetWhich(wh) ==
  /\ wh # which /\ advanced # None
  /\ which' = wh
  /\ IF onPage THEN Rewire(Serving(advanced, wh)) ELSE UNCHANGED pageVars
  /\ UNCHANGED <<chainVars, deploys, advanced>>

Enter ==
  /\ ~onPage
  /\ Mount(Active)
  /\ UNCHANGED <<chainVars, slotVars>>

Leave ==
  /\ onPage
  /\ Unmount
  /\ UNCHANGED <<chainVars, slotVars>>

\* The dashboard is for the owner; a vanilla token of one's own has only the
\* danger zone.
Dashboard == onPage /\ ownerLoaded /\ IsAdmin(signer, owner) /\ KindOf(Active) # "vanilla"

\* The danger zone: clearAdvanced, and on to the wizard.
Redeploy ==
  /\ Active # Default
  /\ Dashboard \/ (onPage /\ KindOf(Active) = "vanilla")
  /\ advanced' = None /\ which' = "default"
  /\ Unmount
  /\ UNCHANGED <<chainVars, deploys>>

-----------------------------------------------------------------------------
(* The admin page. *)

OwnerIsRead(t) ==
  /\ t \in ownerReads
  /\ ownerReads' = ownerReads \ {t}
  /\ ownerLoaded' = TRUE
  /\ \E o \in {tokens[t].owner, NoAccount} :    \* null if the read fails
       owner' = o /\ LoadOnceAdmin(signer, o, UNCHANGED <<busy, calls>>)
  /\ UNCHANGED <<chainVars, slotVars, onPage, signer, lists>>

Connect ==
  /\ onPage /\ ~busy /\ KindOf(Active) # "vanilla"
  /\ signer = NoAccount \/ (ownerLoaded /\ ~IsAdmin(signer, owner))
  /\ Begin([NoCall EXCEPT !.job = "connect"])
  /\ UNCHANGED <<chainVars, slotVars, onPage, accessVars, lists>>

\* The signer is set and the buttons are enabled before the effect begins a load.
Connected(k, a) ==
  /\ calls[k].job = "connect"
  /\ signer' = a
  /\ IF IsAdmin(a, owner) /\ ~IsAdmin(signer, owner)
       THEN Advance(k, Load(Active)) /\ busy' = TRUE
       ELSE End(k)
  /\ UNCHANGED <<chainVars, slotVars, onPage, owner, ownerLoaded, ownerReads, lists>>

Reload ==
  /\ Dashboard /\ ~busy
  /\ Begin(Load(Active))
  /\ UNCHANGED <<chainVars, slotVars, onPage, accessVars, lists>>

\* runAction: any account may be put in, those listed may be taken out.
Act(l, on, a) ==
  /\ Dashboard /\ ~busy
  /\ l \in Managed(Active.token)
  /\ on \/ a \in lists[l].who
  /\ Begin([NoCall EXCEPT !.job = "act", !.dep = Active, !.by = signer,
                          !.change = [list |-> l, on |-> on, who |-> a]])
  /\ UNCHANGED <<chainVars, slotVars, onPage, accessVars, lists>>

\* Mutated: the lists are loaded beside the action.
ActBesideLoad(k) ==
  LET c == calls[k] IN
  /\ c.job = "act" /\ c.stage = "calling" /\ Room
  /\ c.by = tokens[c.dep.token].owner
  /\ Change(c.dep.token, c.change.list, c.change.on, c.change.who)
  /\ Advance(k, [c EXCEPT !.stage = "tokenRead", !.seen = Len(tokens[c.dep.token].log),
                          !.change = [NoChange EXCEPT !.list = c.change.list],
                          !.at = Len(tokens'[c.dep.token].log)])
  /\ busy' = TRUE
  /\ UNCHANGED <<ledger, slotVars, onPage, accessVars, lists>>

\* The transaction is confirmed, the contract having asked for its owner's
\* signature; loadLists follows.
ActDone(k) ==
  LET c == calls[k] IN
  /\ c.job = "act" /\ c.stage = "calling" /\ Room
  /\ c.by = tokens[c.dep.token].owner
  /\ Change(c.dep.token, c.change.list, c.change.on, c.change.who)
  /\ Advance(k, [c EXCEPT !.stage = "token",
                          !.change = [NoChange EXCEPT !.list = c.change.list],
                          !.at = Len(tokens'[c.dep.token].log)])
  /\ busy' = TRUE
  /\ UNCHANGED <<ledger, slotVars, onPage, accessVars, lists>>

\* The events of one contract are read; they are set later.
Read(k) ==
  LET c == calls[k] IN
  /\ c.job \in {"load", "act"} /\ c.stage \in {"token", "policy"}
  /\ Advance(k, [c EXCEPT !.stage = IF @ = "token" THEN "tokenRead" ELSE "policyRead",
                          !.seen = Len(tokens[c.dep.token].log)])
  /\ UNCHANGED <<chainVars, slotVars, onPage, accessVars, lists, busy>>

\* The events of list l a load has read: from deployedAtLedger on.
Concerning(l, d, n) ==
  {i \in 1 .. n : tokens[d.token].log[i].list = l /\ tokens[d.token].log[i].ledger >= d.from}

\* replaySet: who was put in and not taken out since.
ReplaySet(l, d, n) ==
  {a \in Account : \E i \in Concerning(l, d, n) :
     /\ tokens[d.token].log[i].who = a /\ tokens[d.token].log[i].on
     /\ \A j \in Concerning(l, d, n) : tokens[d.token].log[j].who = a => j <= i}

Replayed(l, c) == [token |-> c.dep.token, seen |-> c.seen, who |-> ReplaySet(l, c.dep, c.seen)]

SetTokenLists(k) ==
  LET c == calls[k] IN
  /\ c.stage = "tokenRead"
  /\ lists' = [lists EXCEPT !["registered"] = Replayed("registered", c),
                            !["frozen"]     = Replayed("frozen", c)]
  /\ IF HasPolicy(KindOf(c.dep))
       THEN Advance(k, [c EXCEPT !.stage = "policy"]) /\ UNCHANGED busy
       ELSE End(k)
  /\ UNCHANGED <<chainVars, slotVars, onPage, accessVars>>

SetMembers(k) ==
  LET c == calls[k] IN
  /\ c.stage = "policyRead"
  /\ lists' = [lists EXCEPT !["members"] = Replayed("members", c)]
  /\ End(k)
  /\ UNCHANGED <<chainVars, slotVars, onPage, accessVars>>

\* Any await may throw, or the contract refuse.
CallFails(k) ==
  /\ calls[k].job # "none"
  /\ End(k)
  /\ UNCHANGED <<chainVars, slotVars, onPage, accessVars, lists>>

-----------------------------------------------------------------------------
Init ==
  /\ ledger = 1
  /\ tokens \in Starts
  /\ deploys = {} /\ which = "default"
  /\ advanced = IF Len(tokens) = 1 THEN None ELSE [token |-> 2, from |-> 1]
  /\ onPage = FALSE
  /\ signer = NoAccount /\ owner = NoAccount /\ ownerLoaded = FALSE /\ ownerReads = {}
  /\ lists = [l \in ListName |-> NoList]
  /\ busy = FALSE
  /\ calls = [k \in Slot |-> NoCall]

ChainStep ==
  \/ CloseLedger
  \/ \E t \in 1 .. Len(tokens), a \in Account :
       \/ Register(t, a)
       \/ \E l \in ListName, on \in BOOLEAN : OwnerActs(t, l, on, a)

WizardStep ==
  \/ \E kind \in Kind, a \in Account : BeginDeploy(kind, a)
  \/ \E d \in deploys : DeployLands(d) \/ DeployFails(d) \/ SaveAdvanced(d)

PageStep ==
  \/ Enter \/ Leave \/ Redeploy \/ Connect \/ Reload
  \/ \E wh \in {"default", "advanced"} : SetWhich(wh)
  \/ \E t \in ownerReads : OwnerIsRead(t)
  \/ \E l \in ListName, on \in BOOLEAN, a \in Account : Act(l, on, a)
  \/ \E k \in Slot :
       \/ \E a \in Account : Connected(k, a)
       \/ ActDone(k) \/ Read(k) \/ SetTokenLists(k) \/ SetMembers(k) \/ CallFails(k)

Next == ChainStep \/ WizardStep \/ PageStep

Spec == Init /\ [][Next]_vars

-----------------------------------------------------------------------------
(* Properties. *)

TypeOK ==
  /\ ledger \in 1 .. MaxLedger
  /\ tokens \in Seq(Token) /\ Len(tokens) <= MaxTokens
  /\ deploys \subseteq DeployCall
  /\ advanced \in Deployment /\ advanced.token <= Len(tokens)
  /\ which \in {"default", "advanced"}
  /\ onPage \in BOOLEAN /\ ownerLoaded \in BOOLEAN /\ busy \in BOOLEAN
  /\ signer \in Account \cup {NoAccount} /\ owner \in Account \cup {NoAccount}
  /\ ownerReads \subseteq {Active.token}
  /\ lists \in [ListName -> Shown]
  /\ calls \in [Slot -> Call]

\* A list on display is what the contract's storage held after the events it was
\* replayed from: none of the token's events precedes the ledger that the wizard
\* wrote down as its first, and additions and removals cancel as in the contract
\* (advanced/page.tsx:121-123, admin/page.tsx:72-84).
ListsMatchStorage ==
  \A l \in ListName : lists[l].token # 0 =>
    lists[l].who = Storage(lists[l].token, lists[l].seen)[l]

\* When the lists that follow an action are set, the action is among the events
\* they are replayed from, whatever has been switched to meanwhile, and whatever
\* other loads are under way (admin/page.tsx:219-234).
OwnActionIsListed ==
  [][\A k \in Slot :
       LET c == calls[k]
           l == c.change.list
       IN  /\ c.job = "act"
           /\ (SetTokenLists(k) /\ l = "frozen") \/ (SetMembers(k) /\ l = "members")
           => lists'[l].token = c.dep.token /\ lists'[l].seen >= c.at]_vars

\* The dashboard opens for the owner of the active token and for nobody else,
\* however deployments are switched while owners are read: an action is never
\* sent for a token the signer does not own (admin/page.tsx:143-167, 276-318).
OnlyOwnerActs ==
  /\ Dashboard => signer = tokens[Active.token].owner
  /\ \A k \in Slot : calls[k].job = "act" => calls[k].by = tokens[calls[k].dep.token].owner

=============================================================================
