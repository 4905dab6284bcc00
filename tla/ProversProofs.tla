---------------------------- MODULE ProversProofs ----------------------------
(***************************************************************************)
(* Theorems about Provers, for any number of calls and any circuits.       *)
(***************************************************************************)
EXTENDS Provers, TLAPS

Running(k) == calls[k] # Idle

\* The objects refer to each other as they should.
HeapOK ==
  /\ \A c \in Circuit : cache[c] # None => provers[cache[c]].circuit = c
  /\ \A p \in 1 .. Len(provers) :
       /\ phase # "destroyed" => cache[provers[p].circuit] = p
       /\ provers[p].backend # None =>
            /\ provers[p].backend \in 1 .. Len(backends)
            /\ backends[provers[p].backend].prover = p
  /\ \A b \in 1 .. Len(backends) : backends[b].prover \in 1 .. Len(provers)
  /\ \A k \in Slot : calls[k].stage \in {"solving", "loading", "proving"} =>
       /\ calls[k].prover \in 1 .. Len(provers)
       /\ provers[calls[k].prover].circuit = calls[k].circuit

\* What the busy flag guards happens once at a time ...
OneAtATime ==
  \A k \in Slot : Running(k) /\ Guarded(calls[k].circuit) =>
    /\ busy
    /\ \A j \in Slot : Running(j) /\ Guarded(calls[j].circuit) => j = k

\* ... and makes no second backend.
OneBackend ==
  /\ \A k \in Slot : calls[k].stage = "loading" /\ Guarded(calls[k].circuit) =>
       provers[calls[k].prover].backend = None
  /\ \A b \in 1 .. Len(backends) : Guarded(CircuitOf(b)) => ~Replaced(b)

\* What destroy() was to free is free, unless another backend hid it.
Freed ==
  phase \in {"destroying", "destroyed"} =>
    \A b \in 1 .. Len(backends) :
      backends[b].alive /\ backends[b].born = "live" => Replaced(b)

ProversInv ==
  TypeOK /\ HeapOK /\ OneAtATime /\ OneBackend /\ Freed /\ DestroyedIsUncached

-----------------------------------------------------------------------------
(* A call of one slot. *)

\* The record of a call that has got somewhere.
LEMMA CallFacts ==
  ASSUME TypeOK, NEW k \in Slot, calls[k].stage # "idle"
  PROVE  /\ calls[k] \in Call /\ Running(k)
         /\ calls[k].circuit \in Circuit
         /\ calls[k].prover \in Nat /\ calls[k].backend \in Nat
BY DEF TypeOK, Call, Idle, Running

\* A slot takes another record, of the same circuit or of a newly guarded one.
LEMMA SerialUpdate ==
  ASSUME TypeOK, OneAtATime, NEW k \in Slot, NEW r,
         calls' = [calls EXCEPT ![k] = r], page' = page,
         busy => busy',
         \/ Running(k) /\ r.circuit = calls[k].circuit
         \/ ~Running(k) /\ (Guarded(r.circuit) => ~busy /\ busy')
  PROVE  OneAtATime'
<1>1. \A j \in Slot : calls'[j] = IF j = k THEN r ELSE calls[j]
  BY DEF TypeOK
<1>2. \A c : Guarded(c)' <=> Guarded(c)
  BY DEF Guarded
<1>3. \A j \in Slot : j # k => (Running(j)' <=> Running(j))
  BY <1>1 DEF Running
<1>4. CASE Running(k) /\ r.circuit = calls[k].circuit
  BY <1>1, <1>2, <1>3, <1>4 DEF OneAtATime
<1>5. CASE ~Running(k) /\ (Guarded(r.circuit) => ~busy /\ busy')
  BY <1>1, <1>2, <1>3, <1>5 DEF OneAtATime
<1>6. QED
  BY <1>4, <1>5

-----------------------------------------------------------------------------
(* The steps. *)

\* A call gets its prover.
LEMMA ObtainKeeps ==
  ASSUME ProversInv, NEW k \in Slot, NEW c \in Circuit, Obtain(k, c),
         UNCHANGED <<page, phase, backends>>, busy' \in BOOLEAN, OneAtATime',
         calls[k].stage # "loading"
  PROVE  ProversInv'
<1> PICK p : p = IF cache[c] = None THEN Len(provers) + 1 ELSE cache[c]
  OBVIOUS
<1> PICK r : r = [stage |-> "solving", circuit |-> c, prover |-> p, backend |-> None]
  OBVIOUS
<1>1. /\ TypeOK /\ HeapOK /\ OneBackend /\ Freed /\ DestroyedIsUncached
      /\ provers \in Seq(Prover) /\ Len(provers) \in Nat
      /\ cache \in [Circuit -> 0 .. Len(provers)]
      /\ calls \in [Slot -> Call \cup {Idle}]
      /\ backends \in Seq(Backend) /\ Len(backends) \in Nat
  BY DEF ProversInv, TypeOK
<1>2. /\ cache' = [cache EXCEPT ![c] = p]
      /\ calls' = [calls EXCEPT ![k] = r]
      /\ provers' = IF cache[c] = None
                      THEN Append(provers, [circuit |-> c, backend |-> None]) ELSE provers
  BY DEF Obtain
<1>3. /\ provers' \in Seq(Prover) /\ Len(provers) <= Len(provers')
      /\ p \in 1 .. Len(provers')
      /\ \A q \in 1 .. Len(provers) : provers'[q] = provers[q]
      /\ provers'[p].circuit = c
      /\ \A q \in 1 .. Len(provers') :
           q \in 1 .. Len(provers) \/ (q = p /\ provers'[q].backend = None /\ cache[c] = None)
  <2>1. CASE cache[c] = None
    <3>1. [circuit |-> c, backend |-> None] \in Prover
      BY DEF Prover, None
    <3>2. PICK v \in Prover : v = [circuit |-> c, backend |-> None]
      BY <3>1
    <3>3. provers' = Append(provers, v) /\ p = Len(provers) + 1
      BY <1>2, <2>1, <3>2
    <3>4. v.circuit = c /\ v.backend = None
      BY <3>2
    <3>5. QED
      BY <1>1, <2>1, <3>3, <3>4
  <2>2. CASE cache[c] # None
    <3>1. provers' = provers /\ p = cache[c] /\ p \in 1 .. Len(provers)
      BY <1>1, <1>2, <2>2 DEF None
    <3>2. provers[p].circuit = c
      BY <1>1, <2>2, <3>1 DEF HeapOK
    <3>3. QED
      BY <1>1, <3>1, <3>2
  <2>3. QED
    BY <2>1, <2>2
<1>4. /\ \A d \in Circuit : cache'[d] = IF d = c THEN p ELSE cache[d]
      /\ \A j \in Slot : calls'[j] = IF j = k THEN r ELSE calls[j]
      /\ \A d : Guarded(d)' <=> Guarded(d)
  BY <1>1, <1>2 DEF Guarded
<1>5. TypeOK'
  <2>1. r \in Call
    BY <1>3 DEF Call, None
  <2>2. QED
    BY <1>1, <1>2, <1>3, <2>1 DEF TypeOK
<1>6. HeapOK'
  <2>1. \A d \in Circuit : cache'[d] # None => provers'[cache'[d]].circuit = d
    BY <1>1, <1>3, <1>4 DEF HeapOK, None
  <2>2. ASSUME NEW q \in 1 .. Len(provers')
        PROVE  /\ phase # "destroyed" => cache'[provers'[q].circuit] = q
               /\ provers'[q].backend # None =>
                    /\ provers'[q].backend \in 1 .. Len(backends)
                    /\ backends[provers'[q].backend].prover = q
    <3>1. CASE q \in 1 .. Len(provers)
      <4>1. provers'[q] = provers[q] /\ provers[q].circuit \in Circuit
        <5>1. provers[q] \in Prover
          BY <1>1, <3>1
        <5>2. QED
          BY <1>3, <3>1, <5>1 DEF Prover
      <4>2. phase # "destroyed" => cache[provers[q].circuit] = q
        BY <1>1, <3>1 DEF HeapOK
      <4>3. phase # "destroyed" => cache'[provers'[q].circuit] = q
        BY <1>1, <1>4, <3>1, <4>1, <4>2 DEF None
      <4>4. QED
        BY <1>1, <3>1, <4>1, <4>3 DEF HeapOK
    <3>2. CASE q = p /\ provers'[q].backend = None
      BY <1>3, <1>4, <3>2
    <3>3. QED
      BY <1>3, <3>1, <3>2
  <2>3. \A b \in 1 .. Len(backends) : backends[b].prover \in 1 .. Len(provers')
    BY <1>1, <1>3 DEF HeapOK
  <2>4. ASSUME NEW j \in Slot, calls'[j].stage \in {"solving", "loading", "proving"}
        PROVE  /\ calls'[j].prover \in 1 .. Len(provers')
               /\ provers'[calls'[j].prover].circuit = calls'[j].circuit
    BY <1>1, <1>3, <1>4, <2>4 DEF HeapOK
  <2>5. QED
    BY <2>1, <2>2, <2>3, <2>4 DEF HeapOK
<1>7. OneBackend'
  <2>1. ASSUME NEW j \in Slot, calls'[j].stage = "loading", Guarded(calls'[j].circuit)
        PROVE  provers'[calls'[j].prover].backend = None
    <3>1. calls'[j] = calls[j]
      BY <1>4, <2>1
    <3>2. provers[calls[j].prover].backend = None /\ calls[j].prover \in 1 .. Len(provers)
      BY <1>1, <2>1, <3>1 DEF OneBackend, HeapOK
    <3>3. QED
      BY <1>3, <3>1, <3>2
  <2>2. ASSUME NEW b \in 1 .. Len(backends)
        PROVE  (Guarded(CircuitOf(b)) => ~Replaced(b))'
    <3>1. backends[b].prover \in 1 .. Len(provers)
      BY <1>1 DEF HeapOK
    <3>2. provers'[backends[b].prover] = provers[backends[b].prover]
      BY <1>3, <3>1
    <3>3. QED
      BY <1>1, <1>4, <3>2 DEF OneBackend, CircuitOf, Replaced
  <2>3. QED
    BY <1>4, <2>1, <2>2 DEF OneBackend
<1>8. Freed'
  <2>1. \A b \in 1 .. Len(backends) : Replaced(b) => Replaced(b)'
    BY <1>1, <1>3 DEF HeapOK, Replaced
  <2>2. QED
    BY <1>1, <2>1 DEF Freed
<1>9. DestroyedIsUncached'
  <2>1. ASSUME NEW d \in Circuit, cache'[d] # None, provers'[cache'[d]].backend # None
        PROVE  cache[d] # None /\ provers'[cache'[d]] = provers[cache[d]]
    <3>1. CASE d = c
      <4>1. cache'[d] = p /\ provers'[p].backend # None
        BY <1>4, <2>1, <3>1
      <4>2. cache[c] # None /\ p \in 1 .. Len(provers)
        <5>1. p \in 1 .. Len(provers) \/ (provers'[p].backend = None /\ cache[c] = None)
          BY <1>3
        <5>2. p \in 1 .. Len(provers)
          BY <4>1, <5>1
        <5>3. cache[c] = None => p = Len(provers) + 1
          OBVIOUS
        <5>4. QED
          BY <1>1, <5>2, <5>3
      <4>3. p = cache[c] /\ provers'[p] = provers[p]
        BY <1>3, <4>2
      <4>4. QED
        BY <3>1, <4>1, <4>2, <4>3
    <3>2. CASE d # c
      <4>1. cache'[d] = cache[d]
        BY <1>4, <3>2
      <4>2. cache[d] \in 1 .. Len(provers)
        BY <1>1, <2>1, <4>1 DEF None
      <4>3. QED
        BY <1>3, <2>1, <4>1, <4>2
    <3>3. QED
      BY <3>1, <3>2
  <2>2. QED
    BY <1>1, <2>1 DEF DestroyedIsUncached
<1>10. QED
  BY <1>5, <1>6, <1>7, <1>8, <1>9 DEF ProversInv

LEMMA ObtainCalls ==
  ASSUME NEW k, NEW c, Obtain(k, c)
  PROVE  \E q : q.circuit = c /\ calls' = [calls EXCEPT ![k] = q]
<1> PICK p : p = IF cache[c] = None THEN Len(provers) + 1 ELSE cache[c]
  OBVIOUS
<1> PICK r : r = [stage |-> "solving", circuit |-> c, prover |-> p, backend |-> None]
  OBVIOUS
<1>1. calls' = [calls EXCEPT ![k] = r]
  BY DEF Obtain
<1>2. r.circuit = c
  OBVIOUS
<1>3. QED
  BY <1>1, <1>2

LEMMA StartKeeps ==
  ASSUME ProversInv, NEW k \in Slot, NEW c \in Circuit, Start(k, c)
  PROVE  ProversInv'
<1> PICK r : r = [stage |-> "preparing", circuit |-> c, prover |-> None, backend |-> None]
  OBVIOUS
<1>1. /\ TypeOK /\ OneAtATime /\ ~Running(k) /\ calls[k].stage = "idle"
      /\ UNCHANGED <<page, phase, backends>>
      /\ busy' = (busy \/ Guarded(c)) /\ (Guarded(c) => ~busy)
  BY DEF ProversInv, Start, Begin, Running, Idle
<1>2. busy' \in BOOLEAN
  BY <1>1 DEF TypeOK
<1>3. CASE AtOnce(c)
  <2>1. Obtain(k, c)
    BY <1>3 DEF Start, Begin
  <2>2. PICK q : q.circuit = c /\ calls' = [calls EXCEPT ![k] = q]
    BY <2>1, ObtainCalls
  <2>3. OneAtATime'
    BY <1>1, <2>2, SerialUpdate
  <2>4. QED
    BY <1>1, <1>2, <2>1, <2>3, ObtainKeeps
<1>4. CASE ~AtOnce(c)
  <2>1. calls' = [calls EXCEPT ![k] = r] /\ UNCHANGED <<cache, provers>>
    BY <1>4 DEF Start, Begin
  <2>2. r \in Call /\ r.circuit = c
    BY DEF Call, None
  <2>3. OneAtATime'
    BY <1>1, <2>1, <2>2, SerialUpdate
  <2>4. TypeOK'
    BY <1>1, <1>2, <2>1, <2>2 DEF TypeOK
  <2>5. \A j \in Slot : calls'[j] = IF j = k THEN r ELSE calls[j]
    BY <1>1, <2>1 DEF TypeOK
  <2>6. HeapOK' /\ OneBackend'
    BY <1>1, <2>1, <2>5 DEF ProversInv, HeapOK, OneBackend, Guarded, CircuitOf, Replaced
  <2>7. Freed' /\ DestroyedIsUncached'
    BY <1>1, <2>1 DEF ProversInv, Freed, DestroyedIsUncached, Replaced
  <2>8. QED
    BY <2>3, <2>4, <2>6, <2>7 DEF ProversInv
<1>5. QED
  BY <1>3, <1>4

LEMMA PreparedKeeps ==
  ASSUME ProversInv, NEW k \in Slot, Prepared(k)
  PROVE  ProversInv'
<1>1. /\ TypeOK /\ OneAtATime /\ calls[k].stage = "preparing"
      /\ UNCHANGED <<page, phase, backends, busy>>
      /\ Obtain(k, calls[k].circuit)
  BY DEF ProversInv, Prepared
<1>2. calls[k].circuit \in Circuit /\ Running(k) /\ busy \in BOOLEAN
  BY <1>1, CallFacts DEF TypeOK
<1>3. PICK q : q.circuit = calls[k].circuit /\ calls' = [calls EXCEPT ![k] = q]
  BY <1>1, ObtainCalls
<1>4. OneAtATime'
  BY <1>1, <1>2, <1>3, SerialUpdate
<1>5. QED
  BY <1>1, <1>2, <1>4, ObtainKeeps

\* A call moves on and touches no object.
LEMMA CallMoves ==
  ASSUME ProversInv, NEW k \in Slot, NEW r \in Call \cup {Idle},
         calls' = [calls EXCEPT ![k] = r],
         UNCHANGED <<page, phase, cache, provers, backends>>,
         busy' \in BOOLEAN, OneAtATime',
         r.stage \in {"solving", "loading", "proving"} =>
           /\ r.prover \in 1 .. Len(provers)
           /\ provers[r.prover].circuit = r.circuit,
         r.stage = "loading" => provers[r.prover].backend = None
  PROVE  ProversInv'
<1>1. TypeOK'
  BY DEF ProversInv, TypeOK
<1>2. \A j \in Slot : calls'[j] = IF j = k THEN r ELSE calls[j]
  BY DEF ProversInv, TypeOK
<1>3. HeapOK'
  BY <1>2 DEF ProversInv, HeapOK
<1>4. OneBackend'
  BY <1>2 DEF ProversInv, OneBackend, Guarded, CircuitOf, Replaced
<1>5. Freed' /\ DestroyedIsUncached'
  BY DEF ProversInv, Freed, DestroyedIsUncached, Replaced
<1>6. QED
  BY <1>1, <1>3, <1>4, <1>5 DEF ProversInv

LEMMA CallStepKeeps ==
  ASSUME ProversInv, NEW k \in Slot, AskBackend(k) \/ AskAgain(k) \/ End(k)
  PROVE  ProversInv'
<1>1. TypeOK /\ OneAtATime /\ HeapOK
  BY DEF ProversInv
<1>2. CASE AskBackend(k) \/ AskAgain(k)
  <2> PICK c : c = calls[k]
    OBVIOUS
  <2>1. c.stage \in {"solving", "proving"} /\ UNCHANGED <<page, phase, cache, provers, backends, busy>>
    BY <1>2 DEF AskBackend, AskAgain
  <2>2. c \in Call /\ Running(k)
    BY <1>1, <2>1, CallFacts
  <2>3. c.prover \in 1 .. Len(provers) /\ provers[c.prover].circuit = c.circuit
    BY <1>1, <2>1 DEF HeapOK
  <2>4. provers[c.prover].backend \in Nat
    <3>1. provers[c.prover] \in Prover
      BY <1>1, <2>3 DEF TypeOK
    <3>2. QED
      BY <3>1 DEF Prover
  <2>5. PICK r \in Call :
          /\ calls' = [calls EXCEPT ![k] = r]
          /\ r.prover = c.prover /\ r.circuit = c.circuit
          /\ r.stage = "loading" => provers[c.prover].backend = None
    <3>1. CASE AskBackend(k)
      <4>1. PICK r : r = [c EXCEPT !.stage = IF provers[c.prover].backend = None
                                               THEN "loading" ELSE "proving",
                                   !.backend = provers[c.prover].backend]
        OBVIOUS
      <4>2. calls' = [calls EXCEPT ![k] = r]
        BY <3>1, <4>1, <1>1 DEF AskBackend, TypeOK
      <4>3. r \in Call /\ r.prover = c.prover /\ r.circuit = c.circuit
            /\ (r.stage = "loading" => provers[c.prover].backend = None)
        BY <2>2, <2>4, <4>1 DEF Call
      <4>4. QED
        BY <4>2, <4>3
    <3>2. CASE AskAgain(k)
      <4>1. PICK r : r = [c EXCEPT !.stage = "solving", !.backend = None]
        OBVIOUS
      <4>2. calls' = [calls EXCEPT ![k] = r]
        BY <3>2, <4>1, <1>1 DEF AskAgain, TypeOK
      <4>3. r \in Call /\ r.prover = c.prover /\ r.circuit = c.circuit /\ r.stage = "solving"
        BY <2>2, <4>1 DEF Call, None
      <4>4. QED
        BY <4>2, <4>3
    <3>3. QED
      BY <1>2, <3>1, <3>2
  <2>6. OneAtATime'
    BY <1>1, <2>1, <2>2, <2>5, SerialUpdate
  <2>7. QED
    BY <1>1, <2>1, <2>3, <2>5, <2>6, CallMoves DEF TypeOK
<1>3. CASE End(k)
  <2>1. /\ Running(k) /\ calls' = [calls EXCEPT ![k] = Idle]
        /\ busy' = (busy /\ ~Guarded(calls[k].circuit))
        /\ UNCHANGED <<page, phase, cache, provers, backends>>
    BY <1>3 DEF End, Running
  <2>2. busy' \in BOOLEAN
    BY <1>1, <2>1 DEF TypeOK
  <2>3. \A j \in Slot : calls'[j] = IF j = k THEN Idle ELSE calls[j]
    BY <1>1, <2>1 DEF TypeOK
  <2>4. OneAtATime'
    BY <1>1, <2>1, <2>3 DEF OneAtATime, Running, Guarded
  <2>5. QED
    BY <2>1, <2>2, <2>4, CallMoves DEF Idle
<1>4. QED
  BY <1>2, <1>3

\* A backend is made: a new one, so no backend that was replaced comes back.
LEMMA LoadedKeeps ==
  ASSUME ProversInv, NEW k \in Slot, Loaded(k)
  PROVE  ProversInv'
<1> PICK b : b = Len(backends) + 1
  OBVIOUS
<1> PICK c : c = calls[k]
  OBVIOUS
<1> PICK p : p = c.prover
  OBVIOUS
<1> PICK new : new = [prover |-> p, born |-> phase, alive |-> TRUE]
  OBVIOUS
<1>1. /\ TypeOK /\ OneAtATime /\ HeapOK /\ OneBackend /\ Freed /\ DestroyedIsUncached
      /\ c.stage = "loading" /\ UNCHANGED <<page, phase, cache, busy>>
      /\ backends' = Append(backends, new)
      /\ provers' = [provers EXCEPT ![p].backend = b]
      /\ calls' = [calls EXCEPT ![k] = [c EXCEPT !.stage = "proving", !.backend = b]]
  BY DEF ProversInv, Loaded, TypeOK
<1> PICK r : r = [c EXCEPT !.stage = "proving", !.backend = b]
  OBVIOUS
<1>2. /\ c \in Call /\ Running(k) /\ p \in 1 .. Len(provers)
      /\ provers[p].circuit = c.circuit /\ c.circuit \in Circuit
  BY <1>1, CallFacts DEF HeapOK
<1>3. /\ provers \in Seq(Prover) /\ backends \in Seq(Backend)
      /\ Len(provers) \in Nat /\ Len(backends) \in Nat /\ b \in Nat /\ b # None
      /\ calls \in [Slot -> Call \cup {Idle}]
  BY <1>1 DEF TypeOK, None
<1>4. /\ new \in Backend /\ r \in Call
      /\ r.circuit = c.circuit /\ r.prover = p /\ r.stage = "proving"
  BY <1>1, <1>2, <1>3 DEF Backend, Call, TypeOK
<1>5. /\ backends' \in Seq(Backend) /\ Len(backends') = b /\ backends'[b] = new
      /\ \A i \in 1 .. Len(backends) : backends'[i] = backends[i]
  BY <1>1, <1>3, <1>4
<1>6. /\ provers' \in Seq(Prover) /\ Len(provers') = Len(provers)
      /\ \A q \in 1 .. Len(provers) :
           /\ provers'[q].circuit = provers[q].circuit
           /\ provers'[q].backend = IF q = p THEN b ELSE provers[q].backend
  <2>1. \A q \in 1 .. Len(provers) : provers[q] \in Prover
    BY <1>3
  <2>2. [provers[p] EXCEPT !.backend = b] \in Prover
    BY <1>2, <1>3, <2>1 DEF Prover
  <2>3. provers' = [provers EXCEPT ![p] = [provers[p] EXCEPT !.backend = b]]
    BY <1>1
  <2>4. \A q \in 1 .. Len(provers) :
          provers'[q] = IF q = p THEN [provers[p] EXCEPT !.backend = b] ELSE provers[q]
    BY <1>3, <2>3
  <2>5. provers' \in Seq(Prover) /\ Len(provers') = Len(provers)
    BY <1>2, <1>3, <2>2, <2>3
  <2>6. QED
    BY <1>2, <2>1, <2>4, <2>5 DEF Prover
<1>7. /\ \A j \in Slot : calls'[j] = IF j = k THEN r ELSE calls[j]
      /\ \A d : Guarded(d)' <=> Guarded(d)
      /\ calls' = [calls EXCEPT ![k] = r]
  BY <1>1, <1>3 DEF Guarded
<1>8. TypeOK'
  <2>1. cache' \in [Circuit -> 0 .. Len(provers')]
    BY <1>1, <1>6 DEF TypeOK
  <2>2. calls' \in [Slot -> Call \cup {Idle}]
    BY <1>3, <1>4, <1>7
  <2>3. page' \in {"wallet", "verify"} /\ phase' \in Phase /\ busy' \in BOOLEAN
    BY <1>1 DEF TypeOK
  <2>4. QED
    BY <1>5, <1>6, <2>1, <2>2, <2>3 DEF TypeOK
<1>9. OneAtATime'
  <2>1. page' = page /\ busy' = busy
    BY <1>1
  <2>2. Running(k) /\ r.circuit = calls[k].circuit
    BY <1>2, <1>4
  <2>3. (busy => busy') /\ TypeOK /\ OneAtATime
    BY <1>1, <2>1
  <2>4. QED
    BY <1>7, <2>1, <2>2, <2>3, SerialUpdate
<1>10. HeapOK'
  <2>1. \A d \in Circuit : cache[d] \in 0 .. Len(provers)
    BY <1>1 DEF TypeOK
  <2>2. \A d \in Circuit : cache[d] # None => provers'[cache[d]].circuit = d
    BY <1>1, <1>6, <2>1 DEF HeapOK, None
  <2>3. ASSUME NEW q \in 1 .. Len(provers)
        PROVE  /\ phase # "destroyed" => cache[provers'[q].circuit] = q
               /\ provers'[q].backend # None =>
                    /\ provers'[q].backend \in 1 .. Len(backends')
                    /\ backends'[provers'[q].backend].prover = q
    <3>1. new.prover = p
      OBVIOUS
    <3>2. CASE q = p
      BY <1>1, <1>3, <1>5, <1>6, <3>1, <3>2 DEF HeapOK
    <3>3. CASE q # p
      BY <1>1, <1>3, <1>5, <1>6, <3>3 DEF HeapOK
    <3>4. QED
      BY <3>2, <3>3
  <2>4. \A i \in 1 .. b : backends'[i].prover \in 1 .. Len(provers)
    BY <1>1, <1>2, <1>3, <1>5 DEF HeapOK
  <2>5. \A j \in Slot : calls'[j].stage \in {"solving", "loading", "proving"} =>
          /\ calls'[j].prover \in 1 .. Len(provers)
          /\ provers'[calls'[j].prover].circuit = calls'[j].circuit
    BY <1>1, <1>2, <1>4, <1>6, <1>7 DEF HeapOK
  <2>6. phase' = phase /\ cache' = cache /\ Len(provers') = Len(provers)
    BY <1>1, <1>6
  <2>7. \A i \in 1 .. Len(backends') : backends'[i].prover \in 1 .. Len(provers')
    BY <1>5, <2>4, <2>6
  <2>8. \A q \in 1 .. Len(provers') :
          /\ phase' # "destroyed" => cache'[provers'[q].circuit] = q
          /\ provers'[q].backend # None =>
               /\ provers'[q].backend \in 1 .. Len(backends')
               /\ backends'[provers'[q].backend].prover = q
    BY <2>3, <2>6
  <2>9. QED
    BY <2>2, <2>5, <2>6, <2>7, <2>8 DEF HeapOK
<1>11. \A i \in 1 .. Len(backends) :
         /\ backends[i].prover \in 1 .. Len(provers)
         /\ CircuitOf(i)' = CircuitOf(i)
         /\ Replaced(i) => Replaced(i)'
         /\ backends[i].prover # p => (Replaced(i)' <=> Replaced(i))
  BY <1>1, <1>3, <1>5, <1>6 DEF HeapOK, CircuitOf, Replaced
<1>12. OneBackend'
  <2>1. ASSUME NEW j \in Slot, calls'[j].stage = "loading", Guarded(calls'[j].circuit)
        PROVE  provers'[calls'[j].prover].backend = None
    <3>1. j # k /\ calls'[j] = calls[j]
      BY <1>4, <1>7, <2>1
    <3>2. Running(j)
      BY <1>1, <2>1, <3>1, CallFacts
    <3>3. /\ provers[calls[j].prover].backend = None
          /\ calls[j].prover \in 1 .. Len(provers)
          /\ provers[calls[j].prover].circuit = calls[j].circuit
      BY <1>1, <2>1, <3>1 DEF OneBackend, HeapOK
    <3>4. calls[j].prover # p
      BY <1>1, <1>2, <2>1, <3>1, <3>2, <3>3 DEF OneAtATime
    <3>5. QED
      BY <1>6, <3>1, <3>3, <3>4
  <2>2. ASSUME NEW i \in 1 .. b, Guarded(CircuitOf(i)')
        PROVE  ~Replaced(i)'
    <3>1. CASE i = b
      BY <1>2, <1>5, <1>6, <3>1 DEF Replaced
    <3>2. CASE i # b
      <4>1. i \in 1 .. Len(backends) /\ ~Replaced(i)
        BY <1>1, <1>3, <1>11, <2>2, <3>2 DEF OneBackend
      <4>2. backends[i].prover # p
        <5>1. SUFFICES ASSUME backends[i].prover = p PROVE FALSE
          OBVIOUS
        <5>2. provers[p].backend = i /\ Guarded(c.circuit)
          BY <1>2, <1>11, <2>2, <4>1, <5>1 DEF Replaced, CircuitOf
        <5>3. provers[p].backend = None
          BY <1>1, <5>2 DEF OneBackend
        <5>4. QED
          BY <5>2, <5>3, <4>1 DEF None
      <4>3. QED
        BY <1>11, <4>1, <4>2
    <3>3. QED
      BY <3>1, <3>2
  <2>3. QED
    BY <1>5, <1>7, <2>1, <2>2 DEF OneBackend
<1>13. Freed'
  <2>1. ASSUME NEW i \in 1 .. b, phase \in {"destroying", "destroyed"},
               backends'[i].alive, backends'[i].born = "live"
        PROVE  Replaced(i)'
    <3>1. i # b
      BY <1>5, <2>1
    <3>2. i \in 1 .. Len(backends)
      BY <1>3, <3>1
    <3>3. QED
      BY <1>1, <1>5, <1>11, <2>1, <3>2 DEF Freed
  <2>2. QED
    BY <1>1, <1>5, <2>1 DEF Freed
<1>14. DestroyedIsUncached'
  <2>1. ASSUME NEW d \in Circuit, cache[d] # None, provers'[cache[d]].backend # None,
               ~backends'[provers'[cache[d]].backend].alive
        PROVE  phase = "destroying"
    <3>1. cache[d] \in 1 .. Len(provers)
      BY <1>1, <2>1 DEF TypeOK, None
    <3>2. cache[d] # p
      BY <1>5, <1>6, <2>1, <3>1
    <3>3. provers'[cache[d]].backend = provers[cache[d]].backend
      BY <1>6, <3>1, <3>2
    <3>4. provers[cache[d]].backend \in 1 .. Len(backends)
      BY <1>1, <2>1, <3>1, <3>3 DEF HeapOK
    <3>5. QED
      BY <1>1, <1>5, <2>1, <3>3, <3>4 DEF DestroyedIsUncached
  <2>2. QED
    BY <1>1, <2>1 DEF DestroyedIsUncached
<1>15. QED
  BY <1>8, <1>9, <1>10, <1>12, <1>13, <1>14 DEF ProversInv

\* destroy() changes nothing but which of the backends live.
LEMMA DestroyFacts ==
  ASSUME TypeOK, DestroyCached
  PROVE  /\ backends' \in Seq(Backend) /\ Len(backends') = Len(backends)
         /\ \A b \in 1 .. Len(backends) :
              /\ backends'[b].prover = backends[b].prover
              /\ backends'[b].born = backends[b].born
              /\ backends'[b].alive <=> backends[b].alive /\ ~Held(b)
<1> PICK n : n = Len(backends)
  OBVIOUS
<1>1. n \in Nat /\ DOMAIN backends = 1 .. n /\ \A b \in 1 .. n : backends[b] \in Backend
  BY DEF TypeOK
<1> DEFINE freed == [b \in 1 .. n |-> [backends[b] EXCEPT !.alive = @ /\ ~Held(b)]]
<1>2. backends' = freed
  BY <1>1 DEF DestroyCached
<1>3. \A b \in 1 .. n : (backends[b].alive /\ ~Held(b)) \in BOOLEAN
  OBVIOUS
<1>4. \A b \in 1 .. n :
        /\ freed[b] \in Backend
        /\ freed[b].prover = backends[b].prover /\ freed[b].born = backends[b].born
        /\ freed[b].alive <=> backends[b].alive /\ ~Held(b)
  BY <1>1, <1>3 DEF Backend
<1>5. freed \in [1 .. n -> Backend]
  BY <1>4
<1> HIDE DEF freed
<1>6. freed \in Seq(Backend) /\ Len(freed) = n
  BY <1>1, <1>5
<1>7. QED
  BY <1>2, <1>4, <1>6

\* The page or the wallet is discarded: what its cached provers hold is freed.
LEMMA DiscardKeeps ==
  ASSUME ProversInv, phase = "live", DestroyCached,
         UNCHANGED <<page, provers, busy, calls>>,
         \/ phase' = "destroying" /\ cache' = cache
         \/ phase' = "destroyed" /\ cache' = [c \in Circuit |-> None]
  PROVE  ProversInv'
<1>1. /\ TypeOK /\ OneAtATime /\ HeapOK /\ OneBackend /\ Freed
      /\ backends' \in Seq(Backend) /\ Len(backends') = Len(backends)
      /\ \A b \in 1 .. Len(backends) :
           /\ backends'[b].prover = backends[b].prover
           /\ backends'[b].born = backends[b].born
           /\ backends'[b].alive <=> backends[b].alive /\ ~Held(b)
  BY DestroyFacts DEF ProversInv
<1>2. \A c \in Circuit : cache'[c] = None \/ cache'[c] = cache[c]
  OBVIOUS
<1>3. cache' \in [Circuit -> 0 .. Len(provers)]
  BY <1>1 DEF TypeOK, None
<1>4. TypeOK'
  BY <1>1, <1>3 DEF TypeOK, Phase
<1>5. OneAtATime'
  BY <1>1 DEF OneAtATime, Running, Guarded
<1>6. HeapOK'
  <2>1. \A c \in Circuit : cache'[c] # None => provers[cache'[c]].circuit = c
    BY <1>1, <1>2 DEF HeapOK
  <2>2. \A p \in 1 .. Len(provers) :
          /\ phase' # "destroyed" => cache'[provers[p].circuit] = p
          /\ provers[p].backend # None =>
               /\ provers[p].backend \in 1 .. Len(backends)
               /\ backends'[provers[p].backend].prover = p
    BY <1>1 DEF HeapOK
  <2>3. \A b \in 1 .. Len(backends) : backends'[b].prover \in 1 .. Len(provers)
    BY <1>1 DEF HeapOK
  <2>4. QED
    BY <1>1, <2>1, <2>2, <2>3 DEF HeapOK
<1>7. \A b \in 1 .. Len(backends) :
        /\ CircuitOf(b)' = CircuitOf(b)
        /\ Replaced(b)' <=> Replaced(b)
  BY <1>1 DEF CircuitOf, Replaced
<1>8. OneBackend'
  BY <1>1, <1>7 DEF OneBackend, Guarded
<1>9. Freed'
  <2>1. ASSUME NEW b \in 1 .. Len(backends), backends'[b].alive, ~Replaced(b)
        PROVE  FALSE
    <3> PICK p : p = backends[b].prover
      OBVIOUS
    <3>1. p \in 1 .. Len(provers) /\ provers[p].backend = b
      BY <1>1, <2>1 DEF HeapOK, Replaced
    <3>2. cache[provers[p].circuit] = p /\ p # None
      BY <1>1, <3>1 DEF HeapOK, None
    <3>3. provers[p].circuit \in Circuit
      <4>1. provers \in Seq(Prover)
        BY <1>1 DEF TypeOK
      <4>2. provers[p] \in Prover
        BY <3>1, <4>1
      <4>3. QED
        BY <4>2 DEF Prover
    <3>4. Held(b)
      BY <3>1, <3>2, <3>3 DEF Held
    <3>5. QED
      BY <1>1, <2>1, <3>4
  <2>2. QED
    BY <1>1, <1>7, <2>1 DEF Freed
<1>10. DestroyedIsUncached'
  BY <1>2 DEF DestroyedIsUncached
<1>11. QED
  BY <1>4, <1>5, <1>6, <1>8, <1>9, <1>10 DEF ProversInv

\* destroy() has returned, and the cache is cleared.
LEMMA ClearKeeps ==
  ASSUME ProversInv, Clear
  PROVE  ProversInv'
<1>1. /\ TypeOK /\ OneAtATime /\ HeapOK /\ OneBackend /\ Freed
      /\ phase = "destroying" /\ phase' = "destroyed"
      /\ cache' = [c \in Circuit |-> None]
      /\ UNCHANGED <<page, provers, backends, busy, calls>>
  BY DEF ProversInv, Clear
<1>2. TypeOK'
  BY <1>1 DEF TypeOK, Phase, None
<1>3. HeapOK'
  BY <1>1 DEF HeapOK
<1>4. OneAtATime' /\ OneBackend'
  BY <1>1 DEF OneAtATime, OneBackend, Running, Guarded, CircuitOf, Replaced
<1>5. Freed' /\ DestroyedIsUncached'
  BY <1>1 DEF Freed, DestroyedIsUncached, Replaced
<1>6. QED
  BY <1>2, <1>3, <1>4, <1>5 DEF ProversInv

\* Leaving the wallet page frees nothing.
LEMMA LeaveKeeps ==
  ASSUME ProversInv, Leave
  PROVE  ProversInv'
<1>1. /\ TypeOK /\ OneAtATime /\ HeapOK /\ OneBackend /\ DestroyedIsUncached
      /\ phase = "live" /\ phase' = "left"
      /\ UNCHANGED <<page, cache, provers, backends, busy, calls>>
  BY DEF ProversInv, Leave
<1>2. TypeOK' /\ HeapOK'
  BY <1>1 DEF TypeOK, Phase, HeapOK
<1>3. OneAtATime' /\ OneBackend'
  BY <1>1 DEF OneAtATime, OneBackend, Running, Guarded, CircuitOf, Replaced
<1>4. Freed' /\ DestroyedIsUncached'
  BY <1>1 DEF Freed, DestroyedIsUncached
<1>5. QED
  BY <1>2, <1>3, <1>4 DEF ProversInv

-----------------------------------------------------------------------------
(* The theorems. *)

LEMMA ProversInvInit ==
  ASSUME Init
  PROVE  ProversInv
<1>1. /\ Len(provers) = 0 /\ Len(backends) = 0 /\ phase = "live"
      /\ \A k \in Slot : calls[k] = Idle
      /\ \A c \in Circuit : cache[c] = None
  BY DEF Init
<1>2. TypeOK
  <2>1. calls \in [Slot -> Call \cup {Idle}]
    BY DEF Init
  <2>2. cache \in [Circuit -> 0 .. Len(provers)]
    BY DEF Init, None
  <2>3. provers \in Seq(Prover) /\ backends \in Seq(Backend)
    BY DEF Init
  <2>4. page \in {"wallet", "verify"} /\ phase \in Phase /\ busy \in BOOLEAN
    BY DEF Init, Phase
  <2>5. QED
    BY <2>1, <2>2, <2>3, <2>4 DEF TypeOK
<1>3. HeapOK /\ OneAtATime /\ OneBackend
  BY <1>1 DEF HeapOK, OneAtATime, OneBackend, Running, Idle
<1>4. Freed /\ DestroyedIsUncached
  BY <1>1 DEF Freed, DestroyedIsUncached
<1>5. QED
  BY <1>2, <1>3, <1>4 DEF ProversInv

LEMMA ProversInvStep ==
  ASSUME ProversInv, [Next]_vars
  PROVE  ProversInv'
<1>1. CASE \E k \in Slot, c \in Circuit : Start(k, c)
  BY <1>1, StartKeeps
<1>2. CASE \E k \in Slot : Prepared(k)
  BY <1>2, PreparedKeeps
<1>3. CASE \E k \in Slot : AskBackend(k) \/ AskAgain(k) \/ End(k)
  BY <1>3, CallStepKeeps
<1>4. CASE \E k \in Slot : Loaded(k)
  BY <1>4, LoadedKeeps
<1>5. CASE Destroy
  BY <1>5, DiscardKeeps DEF Destroy
<1>6. CASE Unmount
  BY <1>6, DiscardKeeps DEF Unmount
<1>7. CASE Clear
  BY <1>7, ClearKeeps
<1>8. CASE Leave
  BY <1>8, LeaveKeeps
<1>9. CASE UNCHANGED vars
  BY <1>9 DEF vars, ProversInv, TypeOK, HeapOK, OneAtATime, OneBackend, Freed,
    DestroyedIsUncached, Running, Guarded, CircuitOf, Replaced
<1>10. QED
  BY <1>1, <1>2, <1>3, <1>4, <1>5, <1>6, <1>7, <1>8, <1>9 DEF Next

\* Provers, backends, cache and calls refer to each other as they should, what the
\* busy flag guards runs one at a time and makes no second backend, and what was
\* discarded is freed, for any number of calls (wallet.ts:171-178, prover.ts:71-77,
\* wallet/page.tsx:119-141).
THEOREM ProversInvariance == Spec => []ProversInv
<1>1. Init => ProversInv
  BY ProversInvInit
<1>2. ProversInv /\ [Next]_vars => ProversInv'
  BY ProversInvStep
<1>3. QED
  BY <1>1, <1>2, PTL DEF Spec

\* The state keeps its type.
THEOREM ProversTypeCorrectness == Spec => []TypeOK
<1>1. ProversInv => TypeOK
  BY DEF ProversInv
<1>2. QED
  BY <1>1, ProversInvariance, PTL

\* However many calls are under way, a worker that nobody will free was left behind
\* by leaving the wallet page, by two rows that disclosed at once, or by a call that
\* outlived destroy() (wallet.ts:420-424, prover.ts:71-77).
THEOREM NoOtherWorkerIsLost == Spec => []NoWorkerIsLost
<1>1. ProversInv => NoWorkerIsLost
  <2> SUFFICES ASSUME ProversInv, NEW b \in DOMAIN backends, backends[b].alive,
                      backends[b].born = "live",
                      ~(Replaced(b) /\ ~Guarded(CircuitOf(b)))
               PROVE  phase \in {"live", "left"} /\ Held(b)
    BY DEF NoWorkerIsLost
  <2>1. /\ TypeOK /\ HeapOK /\ OneBackend /\ Freed
        /\ b \in 1 .. Len(backends)
    BY DEF ProversInv, TypeOK
  <2>2. ~Replaced(b)
    BY <2>1 DEF OneBackend
  <2>3. phase \in {"live", "left"}
    BY <2>1, <2>2 DEF Freed, TypeOK, Phase
  <2> PICK p : p = backends[b].prover
    OBVIOUS
  <2>4. p \in 1 .. Len(provers) /\ provers[p].backend = b
    BY <2>1, <2>2 DEF HeapOK, Replaced
  <2>5. cache[provers[p].circuit] = p /\ p # None
    BY <2>1, <2>3, <2>4 DEF HeapOK, None
  <2>6. provers[p].circuit \in Circuit
    <3>1. provers \in Seq(Prover)
      BY <2>1 DEF TypeOK
    <3>2. provers[p] \in Prover
      BY <2>4, <3>1
    <3>3. QED
      BY <3>2 DEF Prover
  <2>7. QED
    BY <2>3, <2>4, <2>5, <2>6 DEF Held
<1>2. QED
  BY <1>1, ProversInvariance, PTL

\* Outside the wait of destroy() no call is handed a destroyed backend by the cache
\* (wallet.ts:421-424, verify/page.tsx:81-84).
THEOREM DestroyedStaysUncached == Spec => []DestroyedIsUncached
<1>1. ProversInv => DestroyedIsUncached
  BY DEF ProversInv
<1>2. QED
  BY <1>1, ProversInvariance, PTL

=============================================================================
