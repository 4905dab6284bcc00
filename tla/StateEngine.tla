----------------------------- MODULE StateEngine -----------------------------
(***************************************************************************)
(* packages/sdk/src/state: the engine that replays contract events into    *)
(* the openings of the Owner's two balances, and the store it keeps them   *)
(* in between runs.                                                        *)
(*                                                                         *)
(* A session is one run of the client (a browser tab, a script).  Sessions *)
(* of the same browser profile share one localStorage entry; ProfileOf     *)
(* says which entry a session uses.  sync, setSpendable and                *)
(* verifyAgainstChain await the store and the network between their steps, *)
(* so each await is a step boundary here and the sessions interleave.      *)
(*                                                                         *)
(* The event source is abstracted to its contract: it returns the events   *)
(* from the cursor up to some head the RPC node has reached (EventSource   *)
(* is the module about how it does that).  Cursor and head are therefore   *)
(* positions in the log, 0 standing for "no cursor yet".                   *)
(*                                                                         *)
(* Each request may be answered by another RPC node, and a node may be any *)
(* distance behind the chain, behind what another has answered included.   *)
(***************************************************************************)
EXTENDS ConfidentialToken

CONSTANTS
  Session,            \* running clients that hold the Owner's keys
  Profile,            \* local stores
  ProfileOf           \* the store each session uses

ASSUME ProfileAssumption == ProfileOf \in [Session -> Profile]

VARIABLES
  store,              \* store[p]: the AccountState saved in profile p
  pc,                 \* pc[t]: what session t awaits
  local,              \* local[t]: the AccountState session t holds in memory
  head,               \* head[t]: the log position the last fetch reached
  op                  \* op[t]: the operation session t is running

engineVars == <<store, pc, local, head, op>>

-----------------------------------------------------------------------------

\* pos merges the cursor and the loop index of sync: the event the state has
\* been brought up to.  The two differ only inside sync, on a private copy.
AccountState ==
  [registered : BOOLEAN, spendable : Opening, receiving : Opening, pos : Nat]

\* No state saved yet.  load returns null then and the caller starts from
\* freshState(), the zero account (or from where the log starts).
FreshState ==
  [registered |-> StartAccount.registered, spendable |-> StartAccount.spendable,
   receiving |-> StartAccount.receiving, pos |-> 0]

NoOp == Draft("refresh", Owner, 0)

PC == {"idle", "fetching", "applying", "synced", "proving", "polling",
       "confirmed", "patching", "refreshing", "verifying", "comparing"}

EngineInit ==
  /\ store = [p \in Profile |-> FreshState]
  /\ pc    = [t \in Session |-> "idle"]
  /\ local = [t \in Session |-> FreshState]
  /\ head  = [t \in Session |-> 0]
  /\ op    = [t \in Session |-> NoOp]

Goto(t, from, to) == pc[t] = from /\ pc' = [pc EXCEPT ![t] = to]

\* Everything a session holds in memory is gone.
Forget(t) ==
  /\ pc'    = [pc EXCEPT ![t] = "idle"]
  /\ local' = [local EXCEPT ![t] = FreshState]
  /\ head'  = [head EXCEPT ![t] = 0]
  /\ op'    = [op EXCEPT ![t] = NoOp]

-----------------------------------------------------------------------------
(* Replay of one event. *)

\* Mutated: the blinding derived in the domain of transferred amounts.
OpenInTxDomain(ev) == [v |-> ev.vNew, r |-> DeriveTxBlind(ev.sigma)]

OpenSpendable(ev) == [v |-> ev.vNew, r |-> DeriveSpendR(ev.sigma)]

DecryptIncoming(ev) == [v |-> ev.amount, r |-> DeriveTxBlind(ev.sigma)]

\* Mutated: blindings are reduced modulo another field's order.
FpAddOtherField(a, b) == (a + b) % (GroupOrder - 2)

FpAdd(a, b) == (a + b) % GroupOrder

\* What the engine has to keep in step with the points the contract adds.
AddOpening(o, c) == [v |-> o.v + c.v, r |-> FpAdd(o.r, c.r)]

Spend(s, ev) ==
  IF ev.from = Owner THEN [s EXCEPT !.spendable = OpenSpendable(ev)] ELSE s

Receive(s, ev, opening) ==
  IF ev.to = Owner THEN [s EXCEPT !.receiving = AddOpening(@, opening)] ELSE s

\* Mutated: the receiving balance is merged and kept.
MergeKeepsReceiving(s, ev) ==
  IF ev.from = Owner
    THEN [s EXCEPT !.spendable = AddOpening(s.spendable, s.receiving)]
    ELSE s

ApplyMerge(s, ev) ==
  IF ev.from = Owner
    THEN [s EXCEPT !.spendable = AddOpening(s.spendable, s.receiving),
                   !.receiving = ZeroOpening]
    ELSE s

\* Mutated: an account is either the sender or the recipient.
SenderOrRecipient(s, ev) ==
  IF ev.from = Owner THEN Spend(s, ev) ELSE Receive(s, ev, DecryptIncoming(ev))

ApplyTransfer(s, ev) == Receive(Spend(s, ev), ev, DecryptIncoming(ev))

Replay(s, ev) ==
  CASE ev.type = "register" -> [s EXCEPT !.registered = @ \/ ev.from = Owner]
    [] ev.type = "deposit"  -> Receive(s, ev, [v |-> ev.amount, r |-> 0])
    [] ev.type = "merge"    -> ApplyMerge(s, ev)
    [] ev.type = "withdraw" -> Spend(s, ev)
    [] ev.type = "transfer" -> ApplyTransfer(s, ev)

-----------------------------------------------------------------------------
(* sync(): load, fetch, apply each event, save. *)

\* The session is about to run operation x (or only refresh): sync loads first.
BeginSync(t, x) ==
  /\ pc' = [pc EXCEPT ![t] = "fetching"]
  /\ local' = [local EXCEPT ![t] = store[ProfileOf[t]]]
  /\ op' = [op EXCEPT ![t] = x]
  /\ UNCHANGED <<store, head, log>>

\* The RPC node answers for everything up to a head n.  One that is behind the
\* cursor it is asked to resume from has nothing to add (n = pos), or refuses
\* the cursor, which ends the operation (Crash).
Fetch(t, n) ==
  /\ Goto(t, "fetching", "applying")
  /\ head' = [head EXCEPT ![t] = n]
  /\ n \in local[t].pos .. Len(log)
  /\ UNCHANGED <<store, local, op, log>>

\* One turn of the loop over the fetched events.
ApplyEvent(t) ==
  /\ pc[t] = "applying"
  /\ local[t].pos < head[t]
  /\ local' = [local EXCEPT ![t] =
                 [Replay(local[t], log[local[t].pos + 1]) EXCEPT !.pos = local[t].pos + 1]]
  /\ UNCHANGED <<store, pc, head, op, log>>

AfterSync(t) == IF op[t].kind = "refresh" THEN "verifying" ELSE "synced"

\* Mutated: refresh() works on a copy it does not save.
SaveSpendsOnly(t) ==
  /\ pc[t] = "applying"
  /\ local[t].pos = head[t]
  /\ pc' = [pc EXCEPT ![t] = AfterSync(t)]
  /\ store' = IF op[t].kind = "refresh"
                THEN store ELSE [store EXCEPT ![ProfileOf[t]] = local[t]]
  /\ head' = [head EXCEPT ![t] = 0]
  /\ UNCHANGED <<local, op, log>>

\* Every fetched event is applied: save, and go on with the operation.
SaveSync(t) ==
  /\ pc[t] = "applying"
  /\ local[t].pos = head[t]
  /\ pc' = [pc EXCEPT ![t] = AfterSync(t)]
  /\ store' = [store EXCEPT ![ProfileOf[t]] = local[t]]
  /\ head' = [head EXCEPT ![t] = 0]
  /\ UNCHANGED <<local, op, log>>

-----------------------------------------------------------------------------
(* setSpendable(next): load, overwrite the spendable opening, save. *)

PatchLoad(t) ==
  /\ Goto(t, "confirmed", "patching")
  /\ local' = [local EXCEPT ![t] = store[ProfileOf[t]]]
  /\ UNCHANGED <<store, head, op, log>>

SavePatched(t, s) ==
  /\ Goto(t, "patching", "refreshing")
  /\ store' = [store EXCEPT ![ProfileOf[t]] = s]
  /\ local' = [local EXCEPT ![t] = FreshState]
  /\ op' = [op EXCEPT ![t] = NoOp]
  /\ UNCHANGED <<head, log>>

\* Mutated: the cursor moves past the confirmed spend.
PatchAndAdvance(t) ==
  SavePatched(t, [local[t] EXCEPT !.spendable = op[t].next, !.pos = Len(log)])

\* Mutated: only the blinding is overwritten.
PatchBlinding(t) == SavePatched(t, [local[t] EXCEPT !.spendable.r = op[t].next.r])

PatchSave(t) == SavePatched(t, [local[t] EXCEPT !.spendable = op[t].next])

-----------------------------------------------------------------------------
(***************************************************************************)
(* verifyAgainstChain(): load, then compare with what a node answers, the  *)
(* account as it was at some position of the log.  Nothing ties the node   *)
(* to the ones the store was synced from: it may be behind the cursor, or  *)
(* not even have seen the account registered.                              *)
(***************************************************************************)
Known == {AccountAt(i) : i \in 0 .. Len(log)}

\* refresh() verifies only an account it could read from the chain.
VerifyLoad(t) ==
  /\ OnChain.registered
  /\ Goto(t, "verifying", "comparing")
  /\ local' = [local EXCEPT ![t] = store[ProfileOf[t]]]
  /\ UNCHANGED <<store, head, op, log>>

\* A read that fails, for whatever reason, reads as "not registered".
SkipVerify(t) ==
  /\ pc[t] = "verifying"
  /\ Forget(t)
  /\ UNCHANGED <<store, log>>

Opens(s, acct) == s.spendable = acct.spendable /\ s.receiving = acct.receiving

OpensOnChain(s) == Opens(s, OnChain)

\* The answer of a node that has not seen the registration is "no account",
\* which is reported as a mismatch.
Matches(s, acct) == acct.registered /\ Opens(s, acct)

ReportMatch(t) ==
  /\ pc[t] = "comparing"
  /\ \E acct \in Known : Matches(local[t], acct)
  /\ Forget(t)
  /\ UNCHANGED <<store, log>>

\* The node that answers is at position i.
ReportMismatchAt(t, i) ==
  /\ pc[t] = "comparing"
  /\ ~Matches(local[t], AccountAt(i))
  /\ Forget(t)
  /\ UNCHANGED <<store, log>>

ReportMismatch(t) == \E i \in 0 .. Len(log) : ReportMismatchAt(t, i)

\* The second read fails: shown as a mismatch too, but nothing was compared.
ReadFails(t) ==
  /\ pc[t] = "comparing"
  /\ Forget(t)
  /\ UNCHANGED <<store, log>>

=============================================================================
