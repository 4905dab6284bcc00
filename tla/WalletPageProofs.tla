--------------------------- MODULE WalletPageProofs ---------------------------
(***************************************************************************)
(* Theorems about WalletPage, for every set of deployments and any number  *)
(* of events and wallets.                                                  *)
(***************************************************************************)
EXTENDS WalletPage, TLAPS

-----------------------------------------------------------------------------
(* Calls. *)

\* A call under way is the only one.
LEMMA OnlyCall ==
  ASSUME TypeOK, NEW c \in calls
  PROVE  calls = {c} /\ calls \ {c} = {}
BY DEF TypeOK

\* What a call may become: the new stage is the only call.
LEMMA AdvanceKeeps ==
  ASSUME TypeOK, NEW c \in calls, NEW d \in Call, Advance(c, d)
  PROVE  /\ calls' = {d}
         /\ calls' \subseteq Call /\ \A x, y \in calls' : x = y
<1>1. calls' = {d}
  BY OnlyCall DEF Advance
<1>2. QED
  BY <1>1

\* The facts a call brings with it.
LEMMA CallFacts ==
  ASSUME PageInv, NEW c \in calls
  PROVE  /\ c \in Call /\ c.label \in Label /\ c.dep \in Deployment /\ c.wallet \in Nat /\ c.asOf \in Nat
         /\ c.stage \in {"acting", "syncing", "verifying"}
         /\ CallIsOfWallet(c) /\ busy
BY DEF PageInv, TypeOK, OneCall, Call

-----------------------------------------------------------------------------
(* What is shown, and the fetches it comes from. *)

\* The chain and the list of wallets only grow.
Grows ==
  /\ head' \in [Deployment -> 0 .. MaxEvents]
  /\ \A d \in Deployment : head[d] <= head'[d]
  /\ opened' \in Seq(Deployment) /\ Len(opened) <= Len(opened') /\ Len(opened') <= MaxWallets
  /\ \A w \in DOMAIN opened : opened'[w] = opened[w]

LEMMA NothingGrows ==
  ASSUME TypeOK, UNCHANGED <<head, opened>>
  PROVE  Grows
BY PageAssumption DEF TypeOK, Grows

\* What was read is as of a time that has been.
LEMMA HeadsGrow ==
  ASSUME PageInv, Grows, NEW w \in DOMAIN opened
  PROVE  /\ w \in Nat /\ w # None /\ w \in DOMAIN opened' /\ opened[w] \in Deployment
         /\ head[opened[w]] \in Nat /\ head'[opened'[w]] \in Nat
         /\ head[opened[w]] <= head'[opened'[w]]
<1>1. /\ opened \in Seq(Deployment) /\ opened' \in Seq(Deployment)
      /\ Len(opened) <= Len(opened') /\ opened'[w] = opened[w]
  BY DEF PageInv, TypeOK, Grows
<1>2. w \in 1 .. Len(opened) /\ opened[w] \in Deployment /\ w \in DOMAIN opened'
  BY <1>1
<1>3. /\ head[opened[w]] \in 0 .. MaxEvents /\ head'[opened[w]] \in 0 .. MaxEvents
      /\ head[opened[w]] <= head'[opened[w]]
  BY <1>2 DEF PageInv, TypeOK, Grows
<1>4. QED
  BY <1>1, <1>2, <1>3, PageAssumption DEF None

LEMMA ShownStays ==
  ASSUME PageInv, Grows, UNCHANGED <<panel, recipients>>
  PROVE  ReadOf(panel)' /\ ReadOf(recipients)'
<1>1. ASSUME NEW shown \in {panel, recipients}
      PROVE  /\ shown.of \in 0 .. Len(opened')
             /\ shown.of # None => shown.asOf <= head'[opened'[shown.of]]
  <2>1. shown \in Reading /\ shown.of \in 0 .. Len(opened)
        /\ (shown.of # None => shown.asOf <= head[opened[shown.of]])
    BY DEF PageInv, TypeOK, ReadOf
  <2>2. opened \in Seq(Deployment) /\ opened' \in Seq(Deployment) /\ Len(opened) <= Len(opened')
    BY DEF PageInv, TypeOK, Grows
  <2>3. shown.of # None => shown.of \in DOMAIN opened
    BY <2>1, <2>2 DEF None
  <2>4. shown.asOf \in Nat
    BY <2>1 DEF Reading
  <2>5. QED
    BY <2>1, <2>2, <2>3, <2>4, HeadsGrow
<1>2. QED
  BY <1>1 DEF PageInv, ReadOf

\* The fetches after FetchAllEvents: one that was there, if any, has got one more
\* caller; otherwise there is a new one.
LEMMA JoinFacts ==
  ASSUME fetches \subseteq Fetch, NEW w \in Nat, NEW who \in {"panel", "recipients"}
  PROVE  /\ FetchAllEvents(w, who) \subseteq Fetch
         /\ \A g \in FetchAllEvents(w, who) :
              \/ g = NewFetch(w, who) /\ \A f \in fetches : f.of # w
              \/ \E f \in fetches :
                   /\ g.of = f.of /\ g.read = f.read /\ g.asOf = f.asOf
                   /\ g = IF f.of = w THEN [f EXCEPT !.by = @ \cup {who}] ELSE f
<1> DEFINE mine == {f \in fetches : f.of = w}
<1>1. NewFetch(w, who) \in Fetch
  BY DEF NewFetch, Fetch
<1>2. CASE mine = {}
  <2>1. FetchAllEvents(w, who) = fetches \cup {NewFetch(w, who)}
    BY <1>2 DEF FetchAllEvents
  <2>2. \A f \in fetches : f.of # w
    BY <1>2
  <2>3. QED
    BY <1>1, <2>1, <2>2
<1>3. CASE mine # {}
  <2>1. FetchAllEvents(w, who) = (fetches \ mine) \cup {[f EXCEPT !.by = @ \cup {who}] : f \in mine}
    BY <1>3 DEF FetchAllEvents
  <2>2. ASSUME NEW g \in FetchAllEvents(w, who)
        PROVE  /\ g \in Fetch
               /\ \E f \in fetches :
                    /\ g.of = f.of /\ g.read = f.read /\ g.asOf = f.asOf
                    /\ g = IF f.of = w THEN [f EXCEPT !.by = @ \cup {who}] ELSE f
    <3>1. CASE g \in fetches \ mine
      BY <3>1
    <3>2. CASE g \in {[f EXCEPT !.by = @ \cup {who}] : f \in mine}
      <4>1. PICK f \in mine : g = [f EXCEPT !.by = @ \cup {who}]
        BY <3>2
      <4>2. f \in fetches /\ f \in Fetch /\ f.of = w
        BY <4>1
      <4>3. g \in Fetch /\ g.of = f.of /\ g.read = f.read /\ g.asOf = f.asOf
        BY <4>1, <4>2 DEF Fetch
      <4>4. QED
        BY <4>1, <4>2, <4>3
    <3>3. QED
      BY <2>1, <3>1, <3>2
  <2>3. QED
    BY <2>2
<1>4. QED
  BY <1>2, <1>3

\* Fetches that have read have read something that was there, after what is shown
\* was read.
LEMMA FetchesKeep ==
  ASSUME PageInv, Grows, UNCHANGED <<panel, recipients>>,
         \A g \in fetches' : "panel" \in g.by => g.of = wallet',
         \A g, h \in fetches' : g.of = h.of => g = h,
         \A g \in fetches' : g.read => \E f \in fetches : g.of = f.of /\ f.read /\ g.asOf = f.asOf
  PROVE  SingleFlight'
<1>1. ASSUME NEW g \in fetches', g.read
      PROVE  /\ g.asOf <= head'[opened'[g.of]]
             /\ ReadBefore(panel, g) /\ ReadBefore(recipients, g)
  <2>1. PICK f \in fetches : g.of = f.of /\ f.read /\ g.asOf = f.asOf
    BY <1>1
  <2>2. /\ f.of \in DOMAIN opened /\ f.asOf \in Nat
        /\ f.asOf <= head[opened[f.of]]
        /\ ReadBefore(panel, f) /\ ReadBefore(recipients, f)
    BY <2>1 DEF PageInv, TypeOK, SingleFlight, Fetch
  <2>3. f.asOf <= head'[opened'[f.of]]
    BY <2>2, HeadsGrow
  <2>4. QED
    BY <2>1, <2>2, <2>3 DEF ReadBefore
<1>2. QED
  BY <1>1 DEF SingleFlight, ReadBefore

\* fetchAllEvents for the wallet on display, or for the recipients.
LEMMA JoinKeeps ==
  ASSUME PageInv, Grows, UNCHANGED <<panel, recipients>>,
         NEW w \in DOMAIN opened', NEW who \in {"panel", "recipients"},
         fetches' = FetchAllEvents(w, who),
         who = "panel" => w = wallet',
         \A f \in fetches : "panel" \in f.by => f.of = wallet'
  PROVE  /\ fetches' \subseteq Fetch /\ \A f \in fetches' : f.of \in DOMAIN opened'
         /\ SingleFlight'
<1>1. /\ fetches \subseteq Fetch /\ \A f \in fetches : f.of \in DOMAIN opened
      /\ \A f, g \in fetches : f.of = g.of => f = g
  BY DEF PageInv, TypeOK, SingleFlight
<1>2. DOMAIN opened \subseteq DOMAIN opened' /\ w \in Nat
  BY DEF PageInv, TypeOK, Grows
<1>3. /\ fetches' \subseteq Fetch
      /\ \A g \in fetches' :
           \/ g = NewFetch(w, who) /\ \A f \in fetches : f.of # w
           \/ \E f \in fetches :
                /\ g.of = f.of /\ g.read = f.read /\ g.asOf = f.asOf
                /\ g = IF f.of = w THEN [f EXCEPT !.by = @ \cup {who}] ELSE f
  BY <1>1, <1>2, JoinFacts
<1>4. /\ NewFetch(w, who).of = w /\ ~NewFetch(w, who).read /\ NewFetch(w, who).by = {who}
  BY DEF NewFetch
<1>5. \A g \in fetches' : g.of \in DOMAIN opened'
  BY <1>1, <1>2, <1>3, <1>4
<1>6. ASSUME NEW g \in fetches', NEW h \in fetches', g.of = h.of
      PROVE  g = h
  <2>1. CASE g = NewFetch(w, who) /\ \A f \in fetches : f.of # w
    BY <1>3, <1>4, <1>6, <2>1
  <2>2. CASE h = NewFetch(w, who) /\ \A f \in fetches : f.of # w
    BY <1>3, <1>4, <1>6, <2>2
  <2>3. CASE /\ ~(g = NewFetch(w, who) /\ \A f \in fetches : f.of # w)
             /\ ~(h = NewFetch(w, who) /\ \A f \in fetches : f.of # w)
    <3>1. PICK f \in fetches : /\ g.of = f.of
                               /\ g = IF f.of = w THEN [f EXCEPT !.by = @ \cup {who}] ELSE f
      BY <1>3, <2>3
    <3>2. PICK e \in fetches : /\ h.of = e.of
                               /\ h = IF e.of = w THEN [e EXCEPT !.by = @ \cup {who}] ELSE e
      BY <1>3, <2>3
    <3>3. f = e
      BY <1>1, <1>6, <3>1, <3>2
    <3>4. QED
      BY <3>1, <3>2, <3>3
  <2>4. QED
    BY <2>1, <2>2, <2>3
<1>7. ASSUME NEW g \in fetches', "panel" \in g.by
      PROVE  g.of = wallet'
  <2>1. CASE g = NewFetch(w, who)
    BY <1>4, <1>7, <2>1
  <2>2. CASE g # NewFetch(w, who)
    <3>1. PICK f \in fetches : /\ g.of = f.of
                               /\ g = IF f.of = w THEN [f EXCEPT !.by = @ \cup {who}] ELSE f
      BY <1>3, <2>2
    <3>2. f \in Fetch
      BY <1>1
    <3>3. CASE f.of = w /\ who = "panel"
      BY <3>1, <3>3
    <3>4. CASE f.of # w \/ who # "panel"
      <4>1. "panel" \in f.by
        BY <1>7, <3>1, <3>2, <3>4 DEF Fetch
      <4>2. QED
        BY <3>1, <4>1
    <3>5. QED
      BY <3>3, <3>4
  <2>3. QED
    BY <2>1, <2>2
<1>8. \A g \in fetches' : g.read => \E f \in fetches : g.of = f.of /\ f.read /\ g.asOf = f.asOf
  BY <1>3, <1>4
<1>9. SingleFlight'
  BY <1>6, <1>7, <1>8, FetchesKeep
<1>10. QED
  BY <1>3, <1>5, <1>9

\* Fetches that are left alone.
LEMMA SameFetches ==
  ASSUME PageInv, Grows, UNCHANGED <<panel, recipients, wallet, fetches>>
  PROVE  /\ fetches' \subseteq Fetch /\ \A f \in fetches' : f.of \in DOMAIN opened'
         /\ SingleFlight'
<1>1. /\ fetches \subseteq Fetch /\ \A f \in fetches : f.of \in DOMAIN opened
      /\ \A f, g \in fetches : f.of = g.of => f = g
      /\ \A f \in fetches : "panel" \in f.by => f.of = wallet
  BY DEF PageInv, TypeOK, SingleFlight
<1>2. DOMAIN opened \subseteq DOMAIN opened'
  BY DEF PageInv, TypeOK, Grows
<1>3. SingleFlight'
  BY <1>1, FetchesKeep
<1>4. QED
  BY <1>1, <1>2, <1>3

-----------------------------------------------------------------------------
(* The fetches. *)

LEMMA ReadHistoryKeeps ==
  ASSUME PageInv, NEW f \in fetches, ReadHistory(f)
  PROVE  PageInv'
<1> DEFINE g == [f EXCEPT !.read = TRUE, !.asOf = head[opened[f.of]]]
<1>1. /\ fetches' = (fetches \ {f}) \cup {g}
      /\ UNCHANGED <<head, active, stored, opened, wallet, view, recipients, error, busy, panel, calls>>
  BY DEF ReadHistory, storeVars, shownVars
<1>2. Grows
  BY <1>1, NothingGrows DEF PageInv
<1>3. /\ f \in Fetch /\ f.of \in DOMAIN opened
      /\ head[opened[f.of]] \in Nat
  BY <1>2, HeadsGrow DEF PageInv, TypeOK
<1>4. g \in Fetch /\ g.of = f.of /\ g.read /\ g.asOf = head[opened[f.of]] /\ g.by = f.by
  BY <1>3 DEF Fetch
<1>5. TypeOK'
  BY <1>1, <1>3, <1>4 DEF PageInv, TypeOK
<1>6. \A x \in {panel, recipients} : ReadBefore(x, g)
  BY <1>3, <1>4 DEF PageInv, ReadOf, ReadBefore, None, TypeOK, Reading
<1>7. SingleFlight'
  <2> \A e, h \in fetches : e.of = h.of => e = h
    BY DEF PageInv, SingleFlight
  <2> HIDE DEF g
  <2>1. ASSUME NEW e \in fetches', NEW h \in fetches', e.of = h.of
        PROVE  e = h
    <3>1. CASE e = g /\ h \in fetches \ {f}
      BY <1>4, <2>1, <3>1
    <3>2. CASE h = g /\ e \in fetches \ {f}
      BY <1>4, <2>1, <3>2
    <3>3. QED
      BY <1>1, <2>1, <3>1, <3>2
  <2>2. ASSUME NEW e \in fetches'
        PROVE  /\ "panel" \in e.by => e.of = wallet
               /\ e.read => /\ e.asOf <= head[opened[e.of]]
                            /\ ReadBefore(panel, e) /\ ReadBefore(recipients, e)
    <3>1. CASE e = g
      BY <1>3, <1>4, <1>6, <3>1 DEF PageInv, SingleFlight
    <3>2. CASE e \in fetches
      BY <3>2 DEF PageInv, SingleFlight
    <3>3. QED
      BY <1>1, <3>1, <3>2
  <2>3. QED
    BY <1>1, <2>1, <2>2 DEF SingleFlight, ReadBefore
<1>8. ReadOf(panel)' /\ ReadOf(recipients)'
  BY <1>1, <1>2, ShownStays
<1>9. OneCall'
  BY <1>1 DEF PageInv, OneCall, CallIsOfWallet
<1>10. OwnViewUnlessError' /\ PanelIsOfWallet'
  BY <1>1 DEF PageInv, OwnViewUnlessError, PanelIsOfWallet
<1>11. QED
  BY <1>5, <1>7, <1>8, <1>9, <1>10 DEF PageInv

\* What a fetch that is over leaves on display.
LEMMA SettledFacts ==
  ASSUME PageInv, NEW f \in fetches, f.read,
         NEW shown \in {panel, recipients}, NEW who \in {"panel", "recipients"}
  PROVE  /\ Settle(f, shown, who) \in Reading
         /\ ReadOf(Settle(f, shown, who))
         /\ \A g \in fetches \ {f} : g.read => ReadBefore(Settle(f, shown, who), g)
         /\ Settle(f, shown, who).of = shown.of => shown.asOf <= Settle(f, shown, who).asOf
<1>1. /\ f \in Fetch /\ f.of \in Nat /\ f.asOf \in Nat /\ f.of \in DOMAIN opened
      /\ f.asOf <= head[opened[f.of]] /\ ReadBefore(shown, f)
      /\ \A g \in fetches \ {f} : g.of # f.of
      /\ \A g \in fetches : g.read => ReadBefore(shown, g)
      /\ shown \in Reading /\ ReadOf(shown)
      /\ opened \in Seq(Deployment)
  BY DEF PageInv, TypeOK, SingleFlight, Fetch
<1>2. f.of \in 0 .. Len(opened) /\ f.of # None
  BY <1>1 DEF None
<1>3. CASE who \in f.by
  <2>1. Settle(f, shown, who) = [of |-> f.of, asOf |-> f.asOf]
    BY <1>3 DEF Settle
  <2>2. QED
    BY <1>1, <1>2, <2>1 DEF Reading, ReadOf, ReadBefore
<1>4. CASE who \notin f.by
  <2>1. Settle(f, shown, who) = shown /\ shown.asOf \in Nat
    BY <1>1, <1>4 DEF Settle, Reading
  <2>2. QED
    BY <1>1, <2>1
<1>5. QED
  BY <1>3, <1>4

\* A page whose call, wallet and balances are left alone.
LEMMA RestKeeps ==
  ASSUME PageInv,
         UNCHANGED <<head, active, stored, opened, wallet, view, error, busy, calls>>
  PROVE  /\ OneCall' /\ OwnViewUnlessError' /\ Grows
         /\ \A c, d \in calls' : c = d
<1>1. OneCall'
  BY DEF PageInv, OneCall, CallIsOfWallet
<1>2. OwnViewUnlessError' /\ Grows
  BY NothingGrows DEF PageInv, OwnViewUnlessError
<1>3. \A c, d \in calls' : c = d
  BY DEF PageInv, TypeOK
<1>4. QED
  BY <1>1, <1>2, <1>3

LEMMA FetchSettlesKeeps ==
  ASSUME PageInv, NEW f \in fetches, FetchSettles(f)
  PROVE  /\ PageInv'
         /\ panel'.of = panel.of => panel'.asOf >= panel.asOf
         /\ recipients'.of = recipients.of => recipients'.asOf >= recipients.asOf
<1>1. /\ f.read /\ fetches' = fetches \ {f}
      /\ panel' = Settle(f, panel, "panel")
      /\ recipients' = Settle(f, recipients, "recipients")
      /\ UNCHANGED <<head, active, stored, opened, wallet, view, error, busy, calls>>
  BY DEF FetchSettles, storeVars
<1>2. /\ panel' \in Reading /\ recipients' \in Reading
      /\ ReadOf(panel)' /\ ReadOf(recipients)'
      /\ \A g \in fetches' : g.read => ReadBefore(panel', g) /\ ReadBefore(recipients', g)
      /\ panel'.of = panel.of => panel.asOf <= panel'.asOf
      /\ recipients'.of = recipients.of => recipients.asOf <= recipients'.asOf
  BY <1>1, SettledFacts DEF ReadOf
<1>3. panel \in Reading /\ recipients \in Reading
  BY DEF PageInv, TypeOK
<1>4. TypeOK'
  BY <1>1, <1>2 DEF PageInv, TypeOK
<1>5. SingleFlight'
  BY <1>1, <1>2 DEF PageInv, SingleFlight, ReadBefore
<1>6. PanelIsOfWallet'
  <2>1. CASE "panel" \in f.by
    BY <1>1, <2>1 DEF PageInv, SingleFlight, Settle, PanelIsOfWallet
  <2>2. CASE "panel" \notin f.by
    BY <1>1, <2>2 DEF PageInv, Settle, PanelIsOfWallet
  <2>3. QED
    BY <2>1, <2>2
<1>7. QED
  BY <1>1, <1>2, <1>3, <1>4, <1>5, <1>6, RestKeeps DEF PageInv, Reading

LEMMA FetchFailsKeeps ==
  ASSUME PageInv, NEW f \in fetches, FetchFails(f)
  PROVE  PageInv'
<1>1. /\ fetches' = fetches \ {f}
      /\ recipients' = IF "recipients" \in f.by THEN [of |-> f.of, asOf |-> 0] ELSE recipients
      /\ UNCHANGED <<head, active, stored, opened, wallet, view, error, busy, calls, panel>>
  BY DEF FetchFails, storeVars
<1>2. /\ f \in Fetch /\ f.of \in Nat /\ f.of \in DOMAIN opened /\ opened \in Seq(Deployment)
      /\ recipients \in Reading /\ ReadOf(recipients) /\ ReadOf(panel)
      /\ \A g \in fetches : g.asOf \in Nat /\ (g.read => ReadBefore(recipients, g))
  BY DEF PageInv, TypeOK, SingleFlight, Fetch
<1>3. head[opened[f.of]] \in Nat /\ f.of \in 0 .. Len(opened)
  BY <1>2, HeadsGrow, RestKeeps, <1>1
<1>4. /\ recipients' \in Reading /\ ReadOf(recipients)'
      /\ \A g \in fetches : g.read => ReadBefore(recipients', g)
  <2>1. CASE "recipients" \in f.by
    <3>1. recipients' = [of |-> f.of, asOf |-> 0]
      BY <1>1, <2>1
    <3>2. QED
      BY <1>1, <1>2, <1>3, <3>1 DEF Reading, ReadOf, ReadBefore
  <2>2. CASE "recipients" \notin f.by
    BY <1>1, <1>2, <2>2 DEF ReadOf
  <2>3. QED
    BY <2>1, <2>2
<1>5. TypeOK'
  BY <1>1, <1>4 DEF PageInv, TypeOK
<1>6. SingleFlight'
  BY <1>1, <1>4 DEF PageInv, SingleFlight, ReadBefore
<1>7. ReadOf(panel)' /\ PanelIsOfWallet'
  BY <1>1, <1>2 DEF PageInv, ReadOf, PanelIsOfWallet
<1>8. QED
  BY <1>1, <1>4, <1>5, <1>6, <1>7, RestKeeps DEF PageInv

\* The wallet on display is one that has been connected.
LEMMA WalletFacts ==
  ASSUME PageInv
  PROVE  /\ wallet \in 0 .. Len(opened) /\ opened \in Seq(Deployment)
         /\ wallet # None => wallet \in DOMAIN opened
         /\ \A f \in fetches : "panel" \in f.by => f.of = wallet /\ wallet # None
<1>1. /\ wallet \in 0 .. Len(opened) /\ opened \in Seq(Deployment)
      /\ \A f \in fetches : f.of \in DOMAIN opened /\ ("panel" \in f.by => f.of = wallet)
  BY DEF PageInv, TypeOK, SingleFlight
<1>2. QED
  BY <1>1 DEF None

LEMMA ReloadPanelKeeps ==
  ASSUME PageInv, ReloadPanel
  PROVE  PageInv'
<1>1. /\ wallet # None /\ fetches' = FetchAllEvents(wallet, "panel")
      /\ UNCHANGED <<head, active, stored, opened, wallet, view, recipients, error, busy, panel, calls>>
  BY DEF ReloadPanel, storeVars, shownVars
<1>2. Grows /\ OneCall' /\ OwnViewUnlessError'
  BY <1>1, RestKeeps
<1>3. /\ fetches' \subseteq Fetch /\ \A f \in fetches' : f.of \in DOMAIN opened'
      /\ SingleFlight'
  BY <1>1, <1>2, WalletFacts, JoinKeeps
<1>4. TypeOK'
  BY <1>1, <1>3 DEF PageInv, TypeOK
<1>5. ReadOf(panel)' /\ ReadOf(recipients)' /\ PanelIsOfWallet'
  BY <1>1, <1>2, ShownStays DEF PageInv, PanelIsOfWallet
<1>6. QED
  BY <1>2, <1>3, <1>4, <1>5 DEF PageInv

-----------------------------------------------------------------------------
(* Calls begin. *)

LEMMA BeginKeeps ==
  ASSUME PageInv, NEW label \in Label, NEW w \in {None, wallet}, Begin(label, w),
         w = None => label = "connect" /\ wallet = None /\ Len(opened) < MaxWallets,
         w # None => label # "connect" /\ w = wallet,
         fetches' \subseteq Fetch, \A f \in fetches' : f.of \in DOMAIN opened', SingleFlight'
  PROVE  PageInv'
<1> DEFINE c == [label |-> label, dep |-> active, wallet |-> w, stage |-> "acting", asOf |-> 0]
<1>1. /\ ~busy /\ calls' = calls \cup {c} /\ busy' = TRUE /\ error' = FALSE
      /\ UNCHANGED <<head, active, stored, opened, wallet, view, recipients, panel>>
  BY DEF Begin, storeVars
<1>2. calls' = {c}
  BY <1>1 DEF PageInv, OneCall
<1>3. w \in 0 .. Len(opened) /\ w \in Nat /\ active \in Deployment
  BY WalletFacts DEF PageInv, TypeOK, None
<1>4. c \in Call
  BY <1>3 DEF Call
<1>5. TypeOK'
  BY <1>1, <1>2, <1>4 DEF PageInv, TypeOK
<1>6. OneCall'
  <2>1. ASSUME NEW d \in calls'
        PROVE  CallIsOfWallet(d)'
    <3>1. d.wallet = w /\ d.label = label /\ d.stage = "acting"
      BY <1>2, <2>1
    <3>2. QED
      BY <1>1, <1>3, <3>1 DEF CallIsOfWallet
  <2>2. busy' /\ calls' # {}
    BY <1>1, <1>2
  <2>3. QED
    BY <2>1, <2>2 DEF OneCall
<1>7. Grows
  BY <1>1, NothingGrows DEF PageInv
<1>8. ReadOf(panel)' /\ ReadOf(recipients)'
  BY <1>1, <1>7, ShownStays
<1>9. OwnViewUnlessError' /\ PanelIsOfWallet'
  BY <1>1 DEF PageInv, OwnViewUnlessError, PanelIsOfWallet
<1>10. QED
  BY <1>5, <1>6, <1>8, <1>9 DEF PageInv

LEMMA BeginStepKeeps ==
  ASSUME PageInv, Connect \/ Submit \/ Refresh
  PROVE  PageInv'
<1>1. /\ UNCHANGED <<head, opened, panel, recipients, wallet>> /\ Grows
      /\ {"connect", "submit", "refresh"} = Label
  BY NothingGrows DEF Connect, Submit, Refresh, Begin, PageInv, Label
<1>2. CASE Connect
  <2>1. /\ fetches' \subseteq Fetch /\ \A f \in fetches' : f.of \in DOMAIN opened'
        /\ SingleFlight'
    BY <1>1, <1>2, SameFetches DEF Connect
  <2>2. QED
    BY <1>1, <1>2, <2>1, BeginKeeps DEF Connect
<1>3. CASE Submit
  <2>1. /\ fetches' \subseteq Fetch /\ \A f \in fetches' : f.of \in DOMAIN opened'
        /\ SingleFlight'
    BY <1>1, <1>3, SameFetches DEF Submit
  <2>2. QED
    BY <1>1, <1>3, <2>1, BeginKeeps DEF Submit
<1>4. CASE Refresh
  <2>1. /\ fetches' \subseteq Fetch /\ \A f \in fetches' : f.of \in DOMAIN opened'
        /\ SingleFlight'
    BY <1>1, <1>4, WalletFacts, JoinKeeps DEF Refresh
  <2>2. QED
    BY <1>1, <1>4, <2>1, BeginKeeps DEF Refresh
<1>5. QED
  BY <1>2, <1>3, <1>4

-----------------------------------------------------------------------------
(* Calls go on. *)

\* The next stage of a call, of the wallet on display if there is one.
LEMMA StageKeeps ==
  ASSUME PageInv, NEW c \in calls, NEW d \in Call, Advance(c, d), d.stage # "acting",
         UNCHANGED busy, d.wallet \in 1 .. Len(opened'),
         wallet' # None => d.wallet = wallet'
  PROVE  OneCall' /\ calls' \subseteq Call /\ \A x, y \in calls' : x = y
<1>1. /\ calls' = {d} /\ busy'
      /\ calls' \subseteq Call /\ \A x, y \in calls' : x = y
  BY AdvanceKeeps, CallFacts DEF PageInv
<1>2. ASSUME NEW e \in calls'
      PROVE  CallIsOfWallet(e)'
  <2>1. e = d
    BY <1>1, <1>2
  <2>2. e.wallet \in 0 .. Len(opened') /\ e.wallet # None
    BY <2>1 DEF None
  <2>3. QED
    BY <2>1, <2>2 DEF CallIsOfWallet
<1>3. QED
  BY <1>1, <1>2 DEF OneCall

LEMMA OpenedKeeps ==
  ASSUME PageInv, NEW c \in calls, Opened(c)
  PROVE  PageInv'
<1> DEFINE w == Len(opened) + 1
           d == [c EXCEPT !.wallet = w, !.stage = "syncing"]
<1>1. /\ c.label = "connect" /\ c.stage = "acting"
      /\ opened' = Append(opened, c.dep) /\ wallet' = w
      /\ fetches' = FetchAllEvents(w, "panel") /\ Advance(c, d)
      /\ UNCHANGED <<head, active, stored, view, recipients, error, busy, panel>>
  BY DEF Opened, storeVars
<1>2. /\ c \in Call /\ c.dep \in Deployment /\ Len(opened) < MaxWallets /\ wallet = None /\ busy
      /\ opened \in Seq(Deployment)
  BY <1>1, CallFacts DEF CallIsOfWallet, PageInv, TypeOK
<1>3. /\ opened' \in Seq(Deployment) /\ Len(opened') = w /\ w \in DOMAIN opened'
      /\ w \in Nat /\ w # None /\ w <= MaxWallets
      /\ \A x \in DOMAIN opened : opened'[x] = opened[x]
  BY <1>1, <1>2, PageAssumption DEF None
<1>4. Grows
  BY <1>1, <1>2, <1>3, NothingGrows, PageAssumption DEF PageInv, TypeOK, Grows
<1>5. panel = Nothing
  <2>1. panel \in Reading /\ (panel.of = None => panel.asOf = 0)
        /\ (panel # Nothing => panel.of = None)
    BY <1>2 DEF PageInv, TypeOK, ReadOf, PanelIsOfWallet
  <2>2. QED
    BY <2>1 DEF Reading, Nothing
<1>6. /\ fetches' \subseteq Fetch /\ \A f \in fetches' : f.of \in DOMAIN opened'
      /\ SingleFlight'
  <2>1. \A f \in fetches : "panel" \notin f.by
    BY <1>2, WalletFacts
  <2>2. QED
    BY <1>1, <1>3, <1>4, <2>1, JoinKeeps
<1>7. OneCall' /\ calls' \subseteq Call /\ \A x, y \in calls' : x = y
  <2>1. d \in Call /\ d.stage = "syncing" /\ d.wallet = w
    BY <1>2, <1>3 DEF Call
  <2>2. w \in 1 .. Len(opened')
    BY <1>3
  <2> HIDE DEF d, w
  <2>3. QED
    BY <1>1, <2>1, <2>2, StageKeeps
<1>8. TypeOK'
  BY <1>1, <1>3, <1>4, <1>6, <1>7 DEF PageInv, TypeOK, Grows
<1>9. ReadOf(panel)' /\ ReadOf(recipients)' /\ PanelIsOfWallet' /\ OwnViewUnlessError'
  BY <1>1, <1>2, <1>4, <1>5, ShownStays DEF PanelIsOfWallet, OwnViewUnlessError, Nothing, None
<1>10. QED
  BY <1>6, <1>7, <1>8, <1>9 DEF PageInv

\* A step of a call that has a wallet changes nothing on display.
LEMMA QuietStageKeeps ==
  ASSUME PageInv, NEW c \in calls, NEW d \in Call, Advance(c, d),
         c.wallet # None, d.wallet = c.wallet, d.stage # "acting", Grows,
         UNCHANGED <<active, stored, opened, wallet, view, recipients, error, busy, panel, fetches>>
  PROVE  PageInv'
<1>1. c.wallet \in 1 .. Len(opened) /\ (wallet # None => c.wallet = wallet)
  BY CallFacts DEF CallIsOfWallet, None
<1>2. OneCall' /\ calls' \subseteq Call /\ \A x, y \in calls' : x = y
  BY <1>1, StageKeeps
<1>3. /\ fetches' \subseteq Fetch /\ \A f \in fetches' : f.of \in DOMAIN opened'
      /\ SingleFlight'
  BY SameFetches
<1>4. TypeOK'
  BY <1>2, <1>3 DEF PageInv, TypeOK, Grows
<1>5. ReadOf(panel)' /\ ReadOf(recipients)' /\ PanelIsOfWallet' /\ OwnViewUnlessError'
  BY ShownStays DEF PageInv, PanelIsOfWallet, OwnViewUnlessError
<1>6. QED
  BY <1>2, <1>3, <1>4, <1>5 DEF PageInv

\* The events of one token have grown by one.
LEMMA OneMoreEvent ==
  ASSUME PageInv, NEW d \in Deployment, head[d] < MaxEvents,
         head' = [head EXCEPT ![d] = @ + 1], UNCHANGED opened
  PROVE  Grows
<1>1. head \in [Deployment -> 0 .. MaxEvents]
  BY DEF PageInv, TypeOK
<1>2. head' \in [Deployment -> 0 .. MaxEvents] /\ \A e \in Deployment : head[e] <= head'[e]
  BY <1>1, PageAssumption
<1>3. QED
  BY <1>2, PageAssumption DEF Grows, PageInv, TypeOK

LEMMA ActedKeeps ==
  ASSUME PageInv, NEW c \in calls, Acted(c)
  PROVE  PageInv'
<1> DEFINE d == [c EXCEPT !.stage = "syncing"]
<1>1. /\ c.label # "connect" /\ Advance(c, d)
      /\ UNCHANGED <<active, stored, opened, wallet, view, recipients, error, busy, panel, fetches>>
      /\ \/ head[c.dep] < MaxEvents /\ head' = [head EXCEPT ![c.dep] = @ + 1]
         \/ UNCHANGED head
  BY DEF Acted, storeVars, shownVars
<1>2. c \in Call /\ c.dep \in Deployment /\ c.wallet # None
  BY <1>1, CallFacts DEF CallIsOfWallet
<1>3. d \in Call /\ d.wallet = c.wallet /\ d.stage = "syncing"
  BY <1>2 DEF Call
<1>4. Grows
  BY <1>1, <1>2, OneMoreEvent, NothingGrows DEF PageInv
<1> HIDE DEF d
<1>5. QED
  BY <1>1, <1>2, <1>3, <1>4, QuietStageKeeps

LEMMA SyncedKeeps ==
  ASSUME PageInv, NEW c \in calls, Synced(c)
  PROVE  PageInv'
<1> DEFINE d == [c EXCEPT !.stage = "verifying", !.asOf = head[c.dep]]
<1>1. /\ c.stage = "syncing" /\ Advance(c, d)
      /\ UNCHANGED <<head, active, stored, opened, wallet, view, recipients, error, busy, panel, fetches>>
  BY DEF Synced, storeVars, shownVars
<1>2. c \in Call /\ c.dep \in Deployment /\ c.wallet # None
  BY <1>1, CallFacts DEF CallIsOfWallet
<1>3. head[c.dep] \in Nat
  BY <1>2, PageAssumption DEF PageInv, TypeOK
<1>4. d \in Call /\ d.wallet = c.wallet /\ d.stage = "verifying"
  BY <1>2, <1>3 DEF Call
<1>5. Grows
  BY <1>1, NothingGrows DEF PageInv
<1> HIDE DEF d
<1>6. QED
  BY <1>1, <1>2, <1>4, <1>5, QuietStageKeeps

LEMMA ShownKeeps ==
  ASSUME PageInv, NEW c \in calls, Shown(c)
  PROVE  PageInv'
<1>1. /\ c.stage = "verifying" /\ view' = [of |-> c.wallet, asOf |-> c.asOf]
      /\ \/ fetches' = FetchAllEvents(c.wallet, "recipients")
         \/ wallet # None /\ fetches' = FetchAllEvents(wallet, "panel")
         \/ UNCHANGED fetches
      /\ calls' = calls \ {c} /\ busy' = FALSE
      /\ UNCHANGED <<head, active, stored, opened, wallet, recipients, error, panel>>
  BY DEF Shown, storeVars
<1>2. /\ c.wallet \in 1 .. Len(opened) /\ c.wallet \in Nat /\ c.asOf \in Nat
      /\ (wallet # None => c.wallet = wallet)
  BY <1>1, CallFacts DEF CallIsOfWallet, None
<1>3. calls' = {}
  BY <1>1, OnlyCall DEF PageInv
<1>4. Grows
  BY <1>1, NothingGrows DEF PageInv
<1>5. c.wallet \in DOMAIN opened' /\ (wallet # None => wallet \in DOMAIN opened')
      /\ \A f \in fetches : "panel" \in f.by => f.of = wallet'
  BY <1>1, <1>2, WalletFacts
<1>6. /\ fetches' \subseteq Fetch /\ \A f \in fetches' : f.of \in DOMAIN opened'
      /\ SingleFlight'
  <2>1. CASE fetches' = FetchAllEvents(c.wallet, "recipients")
    BY <1>1, <1>4, <1>5, <2>1, JoinKeeps
  <2>2. CASE wallet # None /\ fetches' = FetchAllEvents(wallet, "panel")
    BY <1>1, <1>4, <1>5, <2>2, JoinKeeps
  <2>3. CASE UNCHANGED fetches
    BY <1>1, <1>4, <2>3, SameFetches
  <2>4. QED
    BY <1>1, <2>1, <2>2, <2>3
<1>7. TypeOK'
  BY <1>1, <1>2, <1>3, <1>6 DEF PageInv, TypeOK, Reading
<1>8. OneCall'
  BY <1>1, <1>3 DEF OneCall
<1>9. ReadOf(panel)' /\ ReadOf(recipients)' /\ PanelIsOfWallet' /\ OwnViewUnlessError'
  BY <1>1, <1>2, <1>4, ShownStays DEF PageInv, PanelIsOfWallet, OwnViewUnlessError
<1>10. QED
  BY <1>6, <1>7, <1>8, <1>9 DEF PageInv

LEMMA CallFailsKeeps ==
  ASSUME PageInv, NEW c \in calls, CallFails(c)
  PROVE  PageInv'
<1>1. /\ calls' = calls \ {c} /\ busy' = FALSE /\ error' = TRUE
      /\ UNCHANGED <<head, active, stored, opened, wallet, view, recipients, panel, fetches>>
  BY DEF CallFails, storeVars
<1>2. calls' = {}
  BY <1>1, OnlyCall DEF PageInv
<1>3. Grows
  BY <1>1, NothingGrows DEF PageInv
<1>4. SingleFlight'
  BY <1>1, <1>3, SameFetches
<1>5. TypeOK'
  BY <1>1, <1>2 DEF PageInv, TypeOK
<1>6. OneCall'
  BY <1>1, <1>2 DEF OneCall
<1>7. ReadOf(panel)' /\ ReadOf(recipients)' /\ PanelIsOfWallet' /\ OwnViewUnlessError'
  BY <1>1, <1>3, ShownStays DEF PageInv, PanelIsOfWallet, OwnViewUnlessError
<1>8. QED
  BY <1>4, <1>5, <1>6, <1>7 DEF PageInv

-----------------------------------------------------------------------------
(* The page around them. *)

LEMMA EmptyPage ==
  /\ Nothing \in Reading /\ Nothing.of = None /\ Nothing.asOf = 0
  /\ ReadOf(Nothing) <=> None \in 0 .. Len(opened)
BY DEF Nothing, Reading, ReadOf, None

LEMMA SwitchDeploymentKeeps ==
  ASSUME PageInv, NEW d \in Deployment, SwitchDeployment(d)
  PROVE  PageInv'
<1>1. /\ active' = d /\ stored' = d /\ wallet' = None /\ view' = Nothing
      /\ recipients' = Nothing /\ panel' = Nothing /\ error' = FALSE
      /\ fetches' = Without({"panel"})
      /\ UNCHANGED <<head, opened, busy, calls>>
  BY DEF SwitchDeployment
<1>2. opened \in Seq(Deployment) /\ None \in 0 .. Len(opened)
  BY WalletFacts DEF None
<1>3. \A g \in fetches' :
        \E f \in fetches : /\ g = [f EXCEPT !.by = @ \ {"panel"}] /\ f \in Fetch
                           /\ g \in Fetch /\ g.of = f.of /\ g.read = f.read /\ g.asOf = f.asOf
                           /\ "panel" \notin g.by
  <2>1. ASSUME NEW g \in fetches'
        PROVE  \E f \in fetches : g = [f EXCEPT !.by = @ \ {"panel"}] /\ f \in Fetch
    BY <1>1, <2>1 DEF Without, PageInv, TypeOK
  <2>2. ASSUME NEW f \in Fetch, NEW g, g = [f EXCEPT !.by = @ \ {"panel"}]
        PROVE  /\ g \in Fetch /\ g.of = f.of /\ g.read = f.read /\ g.asOf = f.asOf
               /\ "panel" \notin g.by
    BY <2>2 DEF Fetch
  <2>3. QED
    BY <2>1, <2>2
<1>4. SingleFlight'
  <2>1. \A g, h \in fetches' : g.of = h.of => g = h
    <3>1. \A f, e \in fetches : f.of = e.of => f = e
      BY DEF PageInv, SingleFlight
    <3>2. QED
      BY <1>3, <3>1
  <2>2. ASSUME NEW g \in fetches', g.read
        PROVE  /\ g.asOf <= head[opened[g.of]]
               /\ ReadBefore(Nothing, g)
    <3>1. PICK f \in fetches : /\ g.of = f.of /\ f.read /\ g.asOf = f.asOf /\ f \in Fetch
      BY <1>3, <2>2
    <3>2. /\ f.of \in DOMAIN opened /\ f.asOf \in Nat /\ f.asOf <= head[opened[f.of]]
      BY <3>1 DEF PageInv, TypeOK, SingleFlight, Fetch
    <3>3. QED
      BY <3>1, <3>2, EmptyPage DEF ReadBefore
  <2>3. QED
    BY <1>1, <1>3, <2>1, <2>2 DEF SingleFlight, ReadBefore
<1>5. TypeOK'
  BY <1>1, <1>2, <1>3, EmptyPage DEF PageInv, TypeOK
<1>6. OneCall'
  BY <1>1 DEF PageInv, OneCall, CallIsOfWallet
<1>7. ReadOf(panel)' /\ ReadOf(recipients)' /\ PanelIsOfWallet' /\ OwnViewUnlessError'
  BY <1>1, <1>2, EmptyPage DEF ReadOf, PanelIsOfWallet, OwnViewUnlessError
<1>8. QED
  BY <1>4, <1>5, <1>6, <1>7 DEF PageInv

LEMMA RemountKeeps ==
  ASSUME PageInv, NEW d \in Deployment, Remount(d)
  PROVE  PageInv'
<1>1. /\ active' = d /\ wallet' = None /\ view' = Nothing
      /\ recipients' = Nothing /\ panel' = Nothing /\ error' = FALSE /\ busy' = FALSE
      /\ calls' = {} /\ fetches' = {}
      /\ UNCHANGED <<head, stored, opened>>
  BY DEF Remount
<1>2. None \in 0 .. Len(opened)
  BY WalletFacts DEF None
<1>3. TypeOK'
  BY <1>1, <1>2, EmptyPage DEF PageInv, TypeOK
<1>4. OneCall' /\ SingleFlight'
  BY <1>1 DEF OneCall, SingleFlight
<1>5. ReadOf(panel)' /\ ReadOf(recipients)' /\ PanelIsOfWallet' /\ OwnViewUnlessError'
  BY <1>1, <1>2, EmptyPage DEF ReadOf, PanelIsOfWallet, OwnViewUnlessError
<1>6. QED
  BY <1>3, <1>4, <1>5 DEF PageInv

\* Steps that change nothing of the page.
LEMMA OutsideKeeps ==
  ASSUME PageInv, Grows, active' \in Deployment, stored' \in Deployment,
         UNCHANGED <<opened, wallet, view, recipients, error, busy, panel, calls, fetches>>
  PROVE  PageInv'
<1>1. SingleFlight'
  BY SameFetches
<1>2. TypeOK'
  BY DEF PageInv, TypeOK, Grows
<1>3. OneCall'
  BY DEF PageInv, OneCall, CallIsOfWallet
<1>4. ReadOf(panel)' /\ ReadOf(recipients)' /\ PanelIsOfWallet' /\ OwnViewUnlessError'
  BY ShownStays DEF PageInv, PanelIsOfWallet, OwnViewUnlessError
<1>5. QED
  BY <1>1, <1>2, <1>3, <1>4 DEF PageInv

LEMMA OtherTabSwitchesKeeps ==
  ASSUME PageInv, NEW d \in Deployment, OtherTabSwitches(d)
  PROVE  PageInv'
<1>1. /\ stored' = d
      /\ UNCHANGED <<head, active, opened, wallet, view, recipients, error, busy, panel, calls, fetches>>
  BY DEF OtherTabSwitches, shownVars
<1>2. Grows /\ active' \in Deployment
  BY <1>1, NothingGrows DEF PageInv, TypeOK
<1>3. QED
  BY <1>1, <1>2, OutsideKeeps

LEMMA OthersActKeeps ==
  ASSUME PageInv, NEW d \in Deployment, OthersAct(d)
  PROVE  PageInv'
<1>1. /\ head[d] < MaxEvents /\ head' = [head EXCEPT ![d] = @ + 1]
      /\ UNCHANGED <<active, stored, opened, wallet, view, recipients, error, busy, panel, calls, fetches>>
  BY DEF OthersAct, storeVars, shownVars
<1>2. Grows /\ active' \in Deployment /\ stored' \in Deployment
  BY <1>1, OneMoreEvent DEF PageInv, TypeOK
<1>3. QED
  BY <1>1, <1>2, OutsideKeeps

LEMMA StutterKeeps ==
  ASSUME PageInv, UNCHANGED vars
  PROVE  PageInv'
<1>1. UNCHANGED <<head, active, stored, opened, wallet, view, recipients, error, busy, panel, calls, fetches>>
  BY DEF vars, storeVars, shownVars
<1>2. Grows /\ active' \in Deployment /\ stored' \in Deployment
  BY <1>1, NothingGrows DEF PageInv, TypeOK
<1>3. QED
  BY <1>1, <1>2, OutsideKeeps

-----------------------------------------------------------------------------
(* The theorems. *)

\* The page that has just been opened satisfies the invariant.
THEOREM PageInit == Init => PageInv
<1> SUFFICES ASSUME Init PROVE PageInv
  OBVIOUS
<1>1. TypeOK
  <2>1. /\ opened \in Seq(Deployment) /\ Len(opened) <= MaxWallets
        /\ wallet \in 0 .. Len(opened)
    BY PageAssumption DEF Init, None
  <2>2. head \in [Deployment -> 0 .. MaxEvents]
    BY PageAssumption DEF Init
  <2>3. view \in Reading /\ recipients \in Reading /\ panel \in Reading
    BY EmptyPage DEF Init
  <2>4. error \in BOOLEAN /\ busy \in BOOLEAN /\ active \in Deployment /\ stored \in Deployment
    BY DEF Init
  <2>5. /\ calls \subseteq Call /\ \A c, d \in calls : c = d
        /\ fetches \subseteq Fetch /\ \A f \in fetches : f.of \in DOMAIN opened
    BY DEF Init
  <2>6. QED
    BY <2>1, <2>2, <2>3, <2>4, <2>5 DEF TypeOK
<1>2. OneCall /\ SingleFlight
  BY DEF Init, OneCall, SingleFlight
<1>3. ReadOf(panel) /\ ReadOf(recipients) /\ PanelIsOfWallet /\ OwnViewUnlessError
  BY EmptyPage DEF Init, ReadOf, PanelIsOfWallet, OwnViewUnlessError, None
<1>4. QED
  BY <1>1, <1>2, <1>3 DEF PageInv

\* Every await that resumes, every click and every switch, in whatever order they
\* come, keep the invariant.
THEOREM PageStep == PageInv /\ [Next]_vars => PageInv'
<1> SUFFICES ASSUME PageInv, [Next]_vars PROVE PageInv'
  OBVIOUS
<1>1. CASE \E f \in fetches : ReadHistory(f) \/ FetchSettles(f) \/ FetchFails(f)
  BY <1>1, ReadHistoryKeeps, FetchSettlesKeeps, FetchFailsKeeps
<1>2. CASE ReloadPanel
  BY <1>2, ReloadPanelKeeps
<1>3. CASE Connect \/ Submit \/ Refresh
  BY <1>3, BeginStepKeeps
<1>4. CASE CallStep
  BY <1>4, OpenedKeeps, ActedKeeps, SyncedKeeps, ShownKeeps, CallFailsKeeps DEF CallStep
<1>5. CASE \E d \in Deployment \ {active} : SwitchDeployment(d)
  BY <1>5, SwitchDeploymentKeeps
<1>6. CASE \E d \in Deployment \ {stored} : OtherTabSwitches(d)
  BY <1>6, OtherTabSwitchesKeeps
<1>7. CASE \E d \in {active, stored} : Remount(d)
  BY <1>7, RemountKeeps DEF PageInv, TypeOK
<1>8. CASE \E d \in Deployment : OthersAct(d)
  BY <1>8, OthersActKeeps
<1>9. CASE UNCHANGED vars
  BY <1>9, StutterKeeps
<1>10. QED
  BY <1>1, <1>2, <1>3, <1>4, <1>5, <1>6, <1>7, <1>8, <1>9 DEF Next

\* The invariant holds of every behaviour of the page.
THEOREM PageInvariant == Spec => []PageInv
BY PageInit, PageStep, PTL DEF Spec

\* The state of the page is of its type; there is never more than one call.
THEOREM PageTypeOK == Spec => []TypeOK
<1>1. PageInv => TypeOK
  BY DEF PageInv
<1>2. QED
  BY <1>1, PageInvariant, PTL

\* A wallet is on display with its own balances, unless an error is shown or the
\* buttons are disabled, whatever calls end after a switch of the deployment.
THEOREM OwnViewTheorem == Spec => []OwnViewUnlessError
<1>1. PageInv => OwnViewUnlessError
  BY DEF PageInv
<1>2. QED
  BY <1>1, PageInvariant, PTL

\* The activity panel never lists the events of another wallet.
THEOREM PanelTheorem == Spec => []PanelIsOfWallet
<1>1. PageInv => PanelIsOfWallet
  BY DEF PageInv
<1>2. QED
  BY <1>1, PageInvariant, PTL

\* No step puts an older list on display for the same wallet; a failed fetch
\* empties the recipients.
LEMMA ListsStay ==
  ASSUME PageInv, [Next]_vars
  PROVE  /\ panel'.of = panel.of => panel'.asOf >= panel.asOf
         /\ recipients'.of = recipients.of /\ (\A f \in fetches : ~FetchFails(f))
              => recipients'.asOf >= recipients.asOf
<1>1. /\ panel.asOf \in Nat /\ (panel.of = None => panel.asOf = 0)
      /\ recipients.asOf \in Nat /\ (recipients.of = None => recipients.asOf = 0)
  BY DEF PageInv, TypeOK, Reading, ReadOf
<1>2. CASE UNCHANGED <<panel, recipients>>
  BY <1>1, <1>2
<1>3. CASE panel' = Nothing /\ recipients' = Nothing
  BY <1>1, <1>3, EmptyPage
<1>4. CASE \E f \in fetches : FetchSettles(f)
  BY <1>4, FetchSettlesKeeps
<1>5. CASE \E f \in fetches : FetchFails(f)
  BY <1>1, <1>5 DEF FetchFails
<1>6. CASE CallStep
  BY <1>2, <1>6 DEF CallStep, Opened, Acted, Synced, Shown, CallFails, shownVars
<1>7. CASE Connect \/ Submit \/ Refresh \/ ReloadPanel
  BY <1>2, <1>7 DEF Connect, Submit, Refresh, ReloadPanel, Begin, shownVars
<1>8. CASE \/ \E f \in fetches : ReadHistory(f)
           \/ \E d \in Deployment : OtherTabSwitches(d) \/ OthersAct(d)
           \/ UNCHANGED vars
  BY <1>2, <1>8 DEF ReadHistory, OtherTabSwitches, OthersAct, vars, shownVars
<1>9. CASE \E d \in Deployment \cup {active, stored} : SwitchDeployment(d) \/ Remount(d)
  BY <1>3, <1>9 DEF SwitchDeployment, Remount
<1>10. QED
  BY <1>4, <1>5, <1>6, <1>7, <1>8, <1>9 DEF Next

\* However loads overlap, join and settle, a list on display is not replaced by
\* one of the same wallet that was read before it; but the recipients of a failed
\* fetch are empty (wallet.ts:277-288, page.tsx:76-82).
THEOREM ListsTheorem == Spec => ListsNeverGoBack
<1>1. PageInv /\ [Next]_vars =>
        [/\ panel'.of = panel.of => panel'.asOf >= panel.asOf
         /\ recipients'.of = recipients.of /\ (\A f \in fetches : ~FetchFails(f))
              => recipients'.asOf >= recipients.asOf]_vars
  BY ListsStay
<1>2. QED
  BY <1>1, PageInvariant, PTL DEF Spec, ListsNeverGoBack

=============================================================================
