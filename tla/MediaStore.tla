----------------------------- MODULE MediaStore -----------------------------
(***************************************************************************)
(* What the media backup promises its clients, without the mechanism: an   *)
(* idempotent store.  A media file is identified by its idempotency key and *)
(* saved at most once.  A key is settled after its file was saved, and then *)
(* for ever: no second file of it will be saved.  A power loss may take what *)
(* is not firmly on the disk.  201 is said only of a file whose entry is,   *)
(* which is a pledge if its folder is, too; 409 of a key that is settled.   *)
(* MediaBackup implements this specification as long as no upload stalls    *)
(* between its reservation and its registration.                            *)
(***************************************************************************)
CONSTANTS Keys,    \* idempotency keys
          Dests,   \* server-generated destination paths
          Lossy    \* there may be power losses

VARIABLES saved,   \* saved[k]: the places in the library that hold k's file
          kept,    \* the keys whose file is on the disk
          firm,    \* those of them whose folder is on the disk, too
          settled, \* the keys no file is accepted for any more
          told,    \* <<key, status>> of the answers 201 and 409
          pledged  \* the keys told 201 when they were firm

storeVars == <<saved, kept, firm, settled, told, pledged>>

StoreInit == /\ saved = [k \in Keys |-> {}]
             /\ kept = {} /\ firm = {} /\ settled = {} /\ told = {} /\ pledged = {}

IsSaved(k) == saved[k] # {}

(* The library gains its only file of key k. *)
Save(k, d) == /\ ~IsSaved(k) /\ k \notin settled
              /\ saved' = [saved EXCEPT ![k] = {d}]
              /\ UNCHANGED <<kept, firm, settled, told, pledged>>

Keep(k) == /\ IsSaved(k)
           /\ kept' = kept \cup {k}
           /\ firm' \in {firm, firm \cup {k}}
           /\ UNCHANGED <<saved, settled, told, pledged>>

(* A recovery or a cleanup may settle several keys. *)
Settle == /\ \E new \in SUBSET {k \in Keys : IsSaved(k)} : settled' = settled \cup new
          /\ UNCHANGED <<saved, kept, firm, told, pledged>>

(* A client is told that k is stored. *)
Tell(k, status) == /\ k \in settled
                   /\ status = "201" => k \in kept
                   /\ told' = told \cup {<<k, status>>}
                   /\ pledged' = pledged \cup {j \in {k} \cap firm : status = "201"}
                   /\ UNCHANGED <<saved, kept, firm, settled>>

Lose == /\ Lossy
        /\ \E lost \in SUBSET (Keys \ firm) :
             saved' = [k \in Keys |-> IF k \in lost THEN {} ELSE saved[k]]
        /\ kept' = {k \in Keys : saved'[k] # {}} /\ firm' = kept'
        /\ UNCHANGED <<settled, told, pledged>>

StoreNext == \/ \E k \in Keys, d \in Dests : Save(k, d)
             \/ \E k \in Keys : Keep(k) \/ \E status \in {"201", "409"} : Tell(k, status)
             \/ Settle \/ Lose

StoreSpec == StoreInit /\ [][StoreNext]_storeVars

(* What a client may rely on: a key has one file at most; what was pledged  *)
(* is there, and without power losses all it was told is stored.            *)
Promise ==
  /\ \A k \in Keys : \A d, e \in saved[k] : d = e
  /\ \A k \in Keys : \/ k \in pledged
                     \/ ~Lossy /\ (<<k, "201">> \in told \/ <<k, "409">> \in told)
                     => IsSaved(k)
=============================================================================
