------------------------------ MODULE WalletPage ------------------------------
(***************************************************************************)
(* The wallet page (packages/app/app/wallet/page.tsx) with its activity    *)
(* panel (events-panel.tsx), the deployment it is rendered for             *)
(* (active-deployment.tsx) and the wallets it connects (wallet.ts).        *)
(*                                                                         *)
(* Every async function of the page is a call that goes on, await after    *)
(* await, whatever happens to the page meanwhile; when it ends it sets the *)
(* state of the page, or nothing if the page is gone.  What a call shows   *)
(* is known by the wallet it is of and by how far the chain was when it    *)
(* was read.  What the answer holds is the matter of other modules: it     *)
(* comes from a node that may be behind, and a history read without an     *)
(* indexer begins inside the node's window (EventSource); what wallets and *)
(* engines do with events is Wallet.                                       *)
(***************************************************************************)
EXTENDS Naturals, Sequences

CONSTANTS
  Deployment,         \* the deployments the selector offers
  MaxEvents,          \* bound on the events of each token
  MaxWallets          \* bound on the wallets connected

ASSUME PageAssumption == MaxEvents \in Nat /\ MaxWallets \in Nat

VARIABLES
  head,               \* head[d]: the number of events of d's token
  active, stored,     \* the active deployment, and the one in localStorage
  opened,             \* opened[w]: the deployment of the w-th wallet
  wallet,             \* the wallet on display, or None
  view, recipients,   \* the balances and the recipients shown
  error, busy,        \* whether an error is shown, whether buttons are disabled
  calls,              \* connect and run, as far as they have got
  panel,              \* the events of the panel, which is there with a wallet
  fetches             \* the history fetches under way (inFlightEvents)

storeVars == <<active, stored>>
shownVars == <<wallet, view, recipients, error, busy, panel>>
vars == <<head, storeVars, opened, shownVars, calls, fetches>>

\* No wallet.
None == 0

\* Something read for a wallet, when its token had emitted asOf events.
Reading == [of : Nat, asOf : Nat]
Nothing == [of |-> None, asOf |-> 0]

\* run labels: submit stands for every operation that sends a transaction.
Label == {"connect", "submit", "refresh"}

Call == [label : Label, dep : Deployment, wallet : Nat,
         stage : {"acting", "syncing", "verifying"}, asOf : Nat]

\* read: whether the RPC part has been read; asOf: when.
Fetch == [of : Nat, read : BOOLEAN, asOf : Nat, by : SUBSET {"panel", "recipients"}]

Init ==
  /\ head = [d \in Deployment |-> 0]
  /\ active \in Deployment /\ stored = active
  /\ opened = <<>>
  /\ wallet = None
  /\ view = Nothing /\ recipients = Nothing /\ panel = Nothing
  /\ error = FALSE /\ busy = FALSE
  /\ calls = {}
  /\ fetches = {}

-----------------------------------------------------------------------------
(* The history: fetchAllEvents, for the panel and for the recipients. *)

NewFetch(w, who) == [of |-> w, read |-> FALSE, asOf |-> 0, by |-> {who}]

\* Mutated: every caller fetches for itself.
FetchAnew(w, who) == fetches \cup {NewFetch(w, who)}

\* "Single-flight": a caller joins the wallet's fetch under way, if any.
FetchAllEvents(w, who) ==
  LET mine == {f \in fetches : f.of = w}
  IN  IF mine = {} THEN fetches \cup {NewFetch(w, who)}
      ELSE (fetches \ mine) \cup {[f EXCEPT !.by = @ \cup {who}] : f \in mine}

\* The last request of a load.  Every load begins at the first event, or without
\* an indexer at the window's (fromLedger is the deployment): what an earlier one
\* has returned is not kept.
ReadHistory(f) ==
  /\ ~f.read
  /\ fetches' = (fetches \ {f}) \cup {[f EXCEPT !.read = TRUE, !.asOf = head[opened[f.of]]]}
  /\ UNCHANGED <<head, storeVars, opened, shownVars, calls>>

Settle(f, shown, who) == IF who \in f.by THEN [of |-> f.of, asOf |-> f.asOf] ELSE shown

FetchSettles(f) ==
  /\ f.read
  /\ fetches' = fetches \ {f}
  /\ panel' = Settle(f, panel, "panel")
  /\ recipients' = Settle(f, recipients, "recipients")
  /\ UNCHANGED <<head, storeVars, opened, wallet, view, error, busy, calls>>

\* The panel keeps its list beside the error; the recipients become empty, as of
\* no time at all.
FetchFails(f) ==
  /\ fetches' = fetches \ {f}
  /\ recipients' = IF "recipients" \in f.by THEN [of |-> f.of, asOf |-> 0] ELSE recipients
  /\ UNCHANGED <<head, storeVars, opened, wallet, view, error, busy, calls, panel>>

\* The panel's Reload button, disabled while the panel is loading.
ReloadPanel ==
  /\ wallet # None
  /\ \A f \in fetches : "panel" \notin f.by
  /\ fetches' = FetchAllEvents(wallet, "panel")
  /\ UNCHANGED <<head, storeVars, opened, shownVars, calls>>

-----------------------------------------------------------------------------
(* connect and run. *)

Begin(label, w) ==
  /\ ~busy
  /\ calls' = calls \cup {[label |-> label, dep |-> active, wallet |-> w,
                           stage |-> "acting", asOf |-> 0]}
  /\ busy' = TRUE
  /\ error' = FALSE
  /\ UNCHANGED <<head, storeVars, opened, wallet, view, recipients, panel>>

Connect ==
  /\ wallet = None
  /\ Len(opened) < MaxWallets
  /\ Begin("connect", None)
  /\ UNCHANGED fetches

Submit ==
  /\ wallet # None
  /\ Begin("submit", wallet)
  /\ UNCHANGED fetches

\* The link at the bottom: the recipients are loaded beside the sync.
Refresh ==
  /\ wallet # None
  /\ Begin("refresh", wallet)
  /\ fetches' = FetchAllEvents(wallet, "recipients")

Advance(c, d) == calls' = (calls \ {c}) \cup {d}

\* ConfidentialWallet.connect has returned: the panel appears and loads.
Opened(c) ==
  /\ c.label = "connect" /\ c.stage = "acting"
  /\ LET w == Len(opened) + 1
     IN  /\ opened' = Append(opened, c.dep)
         /\ wallet' = w
         /\ fetches' = FetchAllEvents(w, "panel")
         /\ Advance(c, [c EXCEPT !.wallet = w, !.stage = "syncing"])
  /\ UNCHANGED <<head, storeVars, view, recipients, error, busy, panel>>

\* The operation is done: its event, if it has one, is on the chain.
Acted(c) ==
  /\ c.label # "connect" /\ c.stage = "acting"
  /\ IF c.label = "submit"
       THEN head[c.dep] < MaxEvents /\ head' = [head EXCEPT ![c.dep] = @ + 1]
       ELSE UNCHANGED head
  /\ Advance(c, [c EXCEPT !.stage = "syncing"])
  /\ UNCHANGED <<storeVars, opened, shownVars, fetches>>

\* wallet.refresh: the sync, before the reads it is compared with.
Synced(c) ==
  /\ c.stage = "syncing"
  /\ Advance(c, [c EXCEPT !.stage = "verifying", !.asOf = head[c.dep]])
  /\ UNCHANGED <<head, storeVars, opened, shownVars, fetches>>

\* The view is shown; connect then loads the recipients, and a panel on display
\* reloads after a transaction.
Shown(c) ==
  /\ c.stage = "verifying"
  /\ view' = [of |-> c.wallet, asOf |-> c.asOf]
  /\ fetches' = IF c.label = "connect" THEN FetchAllEvents(c.wallet, "recipients")
                ELSE IF c.label = "submit" /\ wallet # None THEN FetchAllEvents(wallet, "panel")
                ELSE fetches
  /\ calls' = calls \ {c}
  /\ busy' = FALSE
  /\ UNCHANGED <<head, storeVars, opened, wallet, recipients, error, panel>>

\* Mutated: the error is not shown.
CallFailsSilently(c) ==
  /\ calls' = calls \ {c}
  /\ busy' = FALSE
  /\ UNCHANGED <<head, storeVars, opened, wallet, view, recipients, error, panel, fetches>>

\* Any await may throw.
CallFails(c) ==
  /\ calls' = calls \ {c}
  /\ error' = TRUE
  /\ busy' = FALSE
  /\ UNCHANGED <<head, storeVars, opened, wallet, view, recipients, panel, fetches>>

CallStep ==
  \E c \in calls : Opened(c) \/ Acted(c) \/ Synced(c) \/ Shown(c) \/ CallFails(c)

-----------------------------------------------------------------------------
(* The page around them. *)

\* What waits for the panel alone, or for the page, waits in vain.
Without(who) == {[f EXCEPT !.by = @ \ who] : f \in fetches}

\* Mutated: the reset makes the page ready again.
SwitchAndFree(d) ==
  /\ active' = d /\ stored' = d
  /\ wallet' = None /\ view' = Nothing /\ recipients' = Nothing /\ panel' = Nothing
  /\ error' = FALSE /\ busy' = FALSE
  /\ fetches' = Without({"panel"})
  /\ UNCHANGED <<head, opened, calls>>

\* setWhich and the effect that resets the page.  Calls under way go on.
SwitchDeployment(d) ==
  /\ active' = d /\ stored' = d
  /\ wallet' = None /\ view' = Nothing /\ recipients' = Nothing /\ panel' = Nothing
  /\ error' = FALSE
  /\ fetches' = Without({"panel"})
  /\ UNCHANGED <<head, opened, busy, calls>>

\* Another tab of this browser switches; this one takes no notice.
OtherTabSwitches(d) ==
  /\ stored' = d
  /\ UNCHANGED <<head, active, opened, shownVars, calls, fetches>>

\* A reload (d is the stored deployment), or the user leaves for another page
\* of the app and comes back (d is the active one); calls of the page that is
\* gone change no page any more.
Remount(d) ==
  /\ active' = d
  /\ wallet' = None /\ view' = Nothing /\ recipients' = Nothing /\ panel' = Nothing
  /\ error' = FALSE /\ busy' = FALSE
  /\ calls' = {}
  /\ fetches' = {}
  /\ UNCHANGED <<head, stored, opened>>

\* Somebody else, another tab, or a call of a page that is gone.
OthersAct(d) ==
  /\ head[d] < MaxEvents
  /\ head' = [head EXCEPT ![d] = @ + 1]
  /\ UNCHANGED <<storeVars, opened, shownVars, calls, fetches>>

Next ==
  \/ \E f \in fetches : ReadHistory(f) \/ FetchSettles(f) \/ FetchFails(f)
  \/ ReloadPanel
  \/ Connect \/ Submit \/ Refresh
  \/ CallStep
  \/ \E d \in Deployment \ {active} : SwitchDeployment(d)
  \/ \E d \in Deployment \ {stored} : OtherTabSwitches(d)
  \/ \E d \in {active, stored} : Remount(d)
  \/ \E d \in Deployment : OthersAct(d)

Spec == Init /\ [][Next]_vars

-----------------------------------------------------------------------------
(* Properties. *)

TypeOK ==
  /\ head \in [Deployment -> 0 .. MaxEvents]
  /\ active \in Deployment /\ stored \in Deployment
  /\ opened \in Seq(Deployment) /\ Len(opened) <= MaxWallets
  /\ wallet \in 0 .. Len(opened)
  /\ view \in Reading /\ recipients \in Reading /\ panel \in Reading
  /\ error \in BOOLEAN /\ busy \in BOOLEAN
  /\ calls \subseteq Call /\ \A c, d \in calls : c = d
  /\ fetches \subseteq Fetch /\ \A f \in fetches : f.of \in DOMAIN opened

\* A wallet is on display without its own balances only under an error, or while
\* the buttons are disabled: a call that ends after a switch has set the view of
\* a wallet that is gone, and the next connect may fail after it has shown the
\* wallet (page.tsx:87-141).
OwnViewUnlessError ==
  wallet # None /\ ~busy /\ ~error => view.of = wallet

\* The panel lists the events of the wallet on display, never those of the one
\* before: wallets follow each other only through a page without one
\* (events-panel.tsx:31-46, page.tsx:108-117).
PanelIsOfWallet == panel # Nothing => panel.of = wallet

\* "It never serves stale data": however loads overlap, a list on display is not
\* replaced by one of the same wallet that was read before it.  The recipients
\* are emptied when a fetch of theirs fails (wallet.ts:277-288, page.tsx:76-82).
ListsNeverGoBack ==
  [][/\ panel'.of = panel.of => panel'.asOf >= panel.asOf
     /\ recipients'.of = recipients.of /\ (\A f \in fetches : ~FetchFails(f))
          => recipients'.asOf >= recipients.asOf]_vars

\* "Switching deployment invalidates the connected wallet [...] Reset so the user
\* reconnects against the newly-active deployment" (page.tsx:104-107).  It does
\* not hold: a connect that ends after a switch shows the wallet of the
\* deployment before.
WalletIsOfActive == wallet # None => opened[wallet] = active

-----------------------------------------------------------------------------
(***************************************************************************)
(* The invariant behind the properties: one call at a time, and it is of   *)
(* the wallet on display if there is one; one fetch per wallet, begun      *)
(* after what is shown of it was read.                                     *)
(***************************************************************************)
CallIsOfWallet(c) ==
  /\ c.wallet \in 0 .. Len(opened)
  /\ c.wallet = None <=> c.label = "connect" /\ c.stage = "acting"
  /\ c.wallet = None => Len(opened) < MaxWallets
  /\ wallet # None => c.wallet = wallet

OneCall ==
  /\ busy <=> calls # {}
  /\ \A c \in calls : CallIsOfWallet(c)

\* shown: the panel's list or the recipients.
ReadOf(shown) ==
  /\ shown.of \in 0 .. Len(opened)
  /\ shown.of = None => shown.asOf = 0
  /\ shown.of # None => shown.asOf <= head[opened[shown.of]]

ReadBefore(shown, f) == shown.of = f.of => shown.asOf <= f.asOf

SingleFlight ==
  /\ \A f, g \in fetches : f.of = g.of => f = g
  /\ \A f \in fetches :
       /\ "panel" \in f.by => f.of = wallet
       /\ f.read => /\ f.asOf <= head[opened[f.of]]
                    /\ ReadBefore(panel, f) /\ ReadBefore(recipients, f)

PageInv ==
  /\ TypeOK
  /\ OneCall
  /\ ReadOf(panel) /\ ReadOf(recipients)
  /\ SingleFlight
  /\ OwnViewUnlessError
  /\ PanelIsOfWallet

=============================================================================
