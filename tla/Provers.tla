------------------------------- MODULE Provers -------------------------------
(***************************************************************************)
(* Who makes, uses and frees the workers that prove: CircuitProver         *)
(* (packages/sdk/src/proving/prover.ts), the wallet that keeps one for     *)
(* each circuit (wallet.ts), and the two pages that discard them: the      *)
(* wallet page, once the wallet on display is of another deployment        *)
(* (wallet/page.tsx), and the page for verifying disclosures when it is    *)
(* left (verify/page.tsx).                                                 *)
(*                                                                         *)
(* One wallet, or one such page, from its beginning on.  Its calls go on,  *)
(* await after await, after it has been discarded.  What is proved is of   *)
(* no interest here (Wallet, Disclosure).  A backend stands for its worker *)
(* and its WASM memory; a call to one that was destroyed fails or hangs.   *)
(***************************************************************************)
EXTENDS Naturals, Sequences

CONSTANTS
  Circuit,            \* the circuits in use
  Slot                \* bound on the calls at a time: the page's, and one a row

Operation == {"register", "withdraw", "transfer"}

Disclosing == {"disclose_recipient", "disclose_sender"}

ASSUME ProversAssumption == Circuit \subseteq Operation \cup Disclosing

VARIABLES
  page,               \* "wallet" or "verify"
  phase,              \* what has become of the wallet, or of the page
  cache,              \* cache[c]: the prover cached for circuit c, or None
  provers,            \* the CircuitProver objects: circuit, #backend
  backends,           \* the UltraHonkBackend objects
  busy,               \* whether the buttons of the page are disabled
  calls               \* the calls that prove or verify, as far as they got

vars == <<page, phase, cache, provers, backends, busy, calls>>

Phase == {"live", "destroying", "destroyed", "left"}

None == 0

Prover == [circuit : Circuit, backend : Nat]

\* born: the phase in which it was made; only properties speak of it.
Backend == [prover : Nat, born : Phase, alive : BOOLEAN]

Call == [stage : {"preparing", "solving", "loading", "proving"},
         circuit : Circuit, prover : Nat, backend : Nat]

Idle == [stage |-> "idle"]

Init ==
  /\ page \in {"wallet", "verify"}
  /\ phase = "live"
  /\ cache = [c \in Circuit |-> None]
  /\ provers = <<>> /\ backends = <<>>
  /\ busy = FALSE
  /\ calls = [k \in Slot |-> Idle]

-----------------------------------------------------------------------------
(* What the pages let their user start. *)

\* The page's buttons are disabled during its own calls; a row of the activity
\* panel disables its own button only.
Guarded(c) == page = "verify" \/ c \in Operation

\* transfer, withdraw and discloseSent await the node before they need a prover.
AtOnce(c) == page = "verify" \/ c \in {"register", "disclose_recipient"}

\* prover(): the cached prover of circuit c, or a new one.
Obtain(k, c) ==
  LET p == IF cache[c] = None THEN Len(provers) + 1 ELSE cache[c]
  IN  /\ provers' = IF cache[c] = None
                      THEN Append(provers, [circuit |-> c, backend |-> None]) ELSE provers
      /\ cache' = [cache EXCEPT ![c] = p]
      /\ calls' = [calls EXCEPT ![k] = [stage |-> "solving", circuit |-> c,
                                        prover |-> p, backend |-> None]]

Begin(k, c) ==
  /\ phase = "live"
  /\ calls[k] = Idle
  /\ page = "verify" => c \in Disclosing
  /\ busy' = (busy \/ Guarded(c))
  /\ IF AtOnce(c)
       THEN Obtain(k, c)
       ELSE /\ calls' = [calls EXCEPT ![k] = [stage |-> "preparing", circuit |-> c,
                                              prover |-> None, backend |-> None]]
            /\ UNCHANGED <<cache, provers>>
  /\ UNCHANGED <<page, phase, backends>>

\* Mutated: every button is disabled by its own call only.
StartBeside(k, c) == Begin(k, c)

Start(k, c) == (Guarded(c) => ~busy) /\ Begin(k, c)

\* The node has answered.
Prepared(k) ==
  /\ calls[k].stage = "preparing"
  /\ Obtain(k, calls[k].circuit)
  /\ UNCHANGED <<page, phase, backends, busy>>

-----------------------------------------------------------------------------
(* CircuitProver *)

\* The witness is solved, or the key asked for: #backendInstance() looks for a
\* backend, and awaits the loader if there is none.
AskBackend(k) ==
  LET b == provers[calls[k].prover].backend
  IN  /\ calls[k].stage = "solving"
      /\ calls' = [calls EXCEPT ![k].stage = IF b = None THEN "loading" ELSE "proving",
                                ![k].backend = b]
      /\ UNCHANGED <<page, phase, cache, provers, backends, busy>>

\* It makes one whether or not another call has made one meanwhile.
Loaded(k) ==
  LET b == Len(backends) + 1
  IN  /\ calls[k].stage = "loading"
      /\ backends' = Append(backends, [prover |-> calls[k].prover, born |-> phase,
                                       alive |-> TRUE])
      /\ provers' = [provers EXCEPT ![calls[k].prover].backend = b]
      /\ calls' = [calls EXCEPT ![k].stage = "proving", ![k].backend = b]
      /\ UNCHANGED <<page, phase, cache, busy>>

\* verifyDisclosure asks for the key first, and for a verdict once the chain has
\* been read.
AskAgain(k) ==
  /\ page = "verify" /\ calls[k].stage = "proving"
  /\ calls' = [calls EXCEPT ![k].stage = "solving", ![k].backend = None]
  /\ UNCHANGED <<page, phase, cache, provers, backends, busy>>

\* Whatever it awaits returns at last, or throws.
End(k) ==
  /\ calls[k] # Idle
  /\ calls' = [calls EXCEPT ![k] = Idle]
  /\ busy' = (busy /\ ~Guarded(calls[k].circuit))
  /\ UNCHANGED <<page, phase, cache, provers, backends>>

-----------------------------------------------------------------------------
(* Discarding. *)

Held(b) == \E c \in Circuit : cache[c] # None /\ provers[cache[c]].backend = b

\* destroy() of every cached prover; #backend still names what it destroys.
DestroyCached ==
  backends' = [b \in DOMAIN backends |-> [backends[b] EXCEPT !.alive = @ /\ ~Held(b)]]

\* Another deployment is active: the wallet is off the page at once.
Destroy ==
  /\ page = "wallet" /\ phase = "live"
  /\ phase' = "destroying"
  /\ DestroyCached
  /\ UNCHANGED <<page, cache, provers, busy, calls>>

\* Mutated: the provers are destroyed and kept.
KeepProvers ==
  /\ phase = "destroying"
  /\ phase' = "destroyed"
  /\ UNCHANGED <<page, cache, provers, backends, busy, calls>>

\* Every destroy() has returned (none of them has thrown).
Clear ==
  /\ phase = "destroying"
  /\ phase' = "destroyed"
  /\ cache' = [c \in Circuit |-> None]
  /\ UNCHANGED <<page, provers, backends, busy, calls>>

\* The verify page awaits nothing.
Unmount ==
  /\ page = "verify" /\ phase = "live"
  /\ phase' = "destroyed"
  /\ DestroyCached
  /\ cache' = [c \in Circuit |-> None]
  /\ UNCHANGED <<page, provers, busy, calls>>

\* The wallet page has no cleanup for being left.
Leave ==
  /\ page = "wallet" /\ phase = "live"
  /\ phase' = "left"
  /\ UNCHANGED <<page, cache, provers, backends, busy, calls>>

Next ==
  \/ \E k \in Slot :
       \/ \E c \in Circuit : Start(k, c)
       \/ Prepared(k) \/ AskBackend(k) \/ Loaded(k) \/ AskAgain(k) \/ End(k)
  \/ Destroy \/ Clear \/ Unmount \/ Leave

Spec == Init /\ [][Next]_vars

-----------------------------------------------------------------------------
(* Properties. *)

TypeOK ==
  /\ page \in {"wallet", "verify"} /\ phase \in Phase
  /\ provers \in Seq(Prover) /\ backends \in Seq(Backend)
  /\ cache \in [Circuit -> 0 .. Len(provers)]
  /\ busy \in BOOLEAN
  /\ calls \in [Slot -> Call \cup {Idle}]

\* Prover p has gone on to another backend than b.
Replaced(b) == provers[backends[b].prover].backend # b

CircuitOf(b) == provers[backends[b].prover].circuit

\* A worker that nobody will free any more has one of three reasons: the wallet
\* page was left, two rows disclosed at once and both found no backend
\* (prover.ts:71-77), or a call outlived the page's or the wallet's destroy().
\* An operation never makes one: the page's busy flag alone keeps the unguarded
\* creation from running twice (wallet.ts:420-424, verify/page.tsx:75-85).
NoWorkerIsLost ==
  \A b \in DOMAIN backends : backends[b].alive =>
    \/ phase \in {"live", "left"} /\ Held(b)
    \/ Replaced(b) /\ ~Guarded(CircuitOf(b))
    \/ backends[b].born # "live"

\* A call that asks for its prover is handed one whose backend was destroyed only
\* while the wallet's destroy() awaits the workers; once the cache is cleared, and
\* on the verify page throughout, it is handed a new one.  (A call that holds a
\* prover by then keeps it.)  (wallet.ts:421-424, verify/page.tsx:81-84)
DestroyedIsUncached ==
  \A c \in Circuit :
    /\ cache[c] # None /\ provers[cache[c]].backend # None
    /\ ~backends[provers[cache[c]].backend].alive
    => phase = "destroying"

=============================================================================
