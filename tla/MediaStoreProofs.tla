-------------------------- MODULE MediaStoreProofs --------------------------
(***************************************************************************)
(* That the store of MediaStore keeps its promise, and so whatever          *)
(* implements it, for any keys and destinations.                            *)
(***************************************************************************)
EXTENDS MediaStore, TLAPS

(* saved is a set of destinations for every key. *)
Typed == saved \in [Keys -> SUBSET Dests]

(* An answer rests on a settled key, a settled key on a saved file, unless  *)
(* power losses come between; what is kept is saved, and a pledge is firm.  *)
Founded ==
  /\ \A k \in Keys : \A d, e \in saved[k] : d = e
  /\ pledged \subseteq firm /\ firm \subseteq kept
  /\ kept \subseteq {k \in Keys : IsSaved(k)}
  /\ ~Lossy => settled \subseteq {k \in Keys : IsSaved(k)}
  /\ \A k \in Keys, status \in {"201", "409"} : <<k, status>> \in told => k \in settled

LEMMA FoundedKept == Typed /\ Founded /\ [StoreNext]_storeVars => Typed' /\ Founded'
PROOF
<1>. SUFFICES ASSUME Typed, Founded, [StoreNext]_storeVars PROVE Typed' /\ Founded' OBVIOUS
<1>. USE DEF Typed, Founded, IsSaved
<1>1. CASE \E k \in Keys, d \in Dests : Save(k, d)
  <2>1. PICK k \in Keys, d \in Dests : Save(k, d) BY <1>1
  <2>2. Typed' BY <2>1 DEF Save
  <2>3. \A j \in Keys : saved'[j] = IF j = k THEN {d} ELSE saved[j] BY <2>1 DEF Save
  <2>. QED BY <2>1, <2>2, <2>3 DEF Save
<1>2. CASE \E k \in Keys : Keep(k) BY <1>2 DEF Keep
<1>3. CASE \E k \in Keys : \E status \in {"201", "409"} : Tell(k, status)
  <2>1. PICK k \in Keys, status \in {"201", "409"} : Tell(k, status) BY <1>3
  <2>2. \A j \in Keys, s \in {"201", "409"} :
          <<j, s>> \in told' => <<j, s>> \in told \/ (j = k /\ s = status)
    BY <2>1 DEF Tell
  <2>. QED BY <2>1, <2>2 DEF Tell
<1>4. CASE Settle BY <1>4 DEF Settle
<1>5. CASE Lose
  <2>1. PICK lost \in SUBSET (Keys \ firm) :
          saved' = [k \in Keys |-> IF k \in lost THEN {} ELSE saved[k]]
    BY <1>5 DEF Lose
  <2>2. \A k \in Keys : saved'[k] \in {{}, saved[k]} /\ (k \in firm => saved'[k] = saved[k])
    BY <2>1
  <2>3. firm \subseteq kept' /\ firm' = kept' /\ kept' = {k \in Keys : saved'[k] # {}} BY <1>5, <2>2 DEF Lose
  <2>4. Typed' BY <2>1
  <2>. QED BY <1>5, <2>2, <2>3, <2>4 DEF Lose
<1>6. CASE UNCHANGED storeVars BY <1>6 DEF storeVars
<1>. QED BY <1>1, <1>2, <1>3, <1>4, <1>5, <1>6 DEF StoreNext

(* Who was told 201 while its folder was on the disk finds its file, once,  *)
(* and for ever; who was told 201 or 409 does where the power cannot fail.  *)
THEOREM StoreKeepsPromise == StoreSpec => []Promise
PROOF
<1>1. StoreInit => Typed /\ Founded BY DEF StoreInit, Typed, Founded, IsSaved
<1>2. Typed /\ Founded => Promise BY DEF Typed, Founded, Promise, IsSaved
<1>. QED BY <1>1, <1>2, FoundedKept, PTL DEF StoreSpec
=============================================================================
