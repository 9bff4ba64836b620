-------------------------- MODULE MediaBackupProofs --------------------------
(***************************************************************************)
(* Proofs about MediaBackup, for any numbers of keys, paths and threads.    *)
(***************************************************************************)
EXTENDS MediaBackup, TLAPS

(* A thread on a request has a key; one that uploads has its destination    *)
(* and, once it is registered, its temporary path.  The thread that runs a  *)
(* cleanup waits in it.                                                     *)
Equipped ==
  /\ runner \in Workers => pc[runner] = "cleanup"
  /\ \A w \in Workers :
      /\ pc[w] # "idle" => key[w] \in Keys
      /\ pc[w] \in Uploading => dest[w] \in Dests
      /\ pc[w] \in Uploading \ Gap => tmp[w] \in Temps

TypeInv == TypeOK /\ Equipped

-----------------------------------------------------------------------------
(* Who owns what *)

(* A row has a destination of its own, and only rows get stale. *)
RowsOK ==
  /\ \A k \in Keys : (state[k] = "none") <=> (place[k] = None)
  /\ \A k, l \in Keys : place[k] = place[l] /\ place[k] # None => k = l
  /\ \A k \in stale : state[k] # "none"

(* Two threads never upload the same key, nor share a temporary path. *)
OwnersApart ==
  \A v, w \in Workers :
    /\ pc[v] \in Uploading /\ pc[w] \in Uploading /\ key[v] = key[w] => v = w
    /\ tmp[v] = tmp[w] /\ tmp[v] # None => v = w

(* _active_uploads holds what is past the gap; the gap is short. *)
Registered ==
  \A w \in Workers :
    /\ pc[w] \in Uploading \ Gap => active[tmp[w]] = key[w]
    /\ pc[w] \in Gap => key[w] \notin stale

(* No live upload is both stale and unknown to the cleanup in progress. *)
CleanerKnows ==
  cleaner # "idle" =>
    \A w \in Workers : pc[w] \in Uploading => key[w] \in seenKeys \/ key[w] \notin stale

(* The rows a cleanup has selected or decided about have no live upload. *)
CleanerRows ==
  \A k \in Keys :
    picked[k] # None \/ verdict[k] # "none" =>
      /\ server # "down" /\ cleaner = "rows"
      /\ state[k] # "none"
      /\ picked[k] # None => picked[k] = place[k]
      /\ \A w \in Workers : pc[w] \in Uploading => key[w] # k

(* Threads exist while the server is up, cleanups also while it boots. *)
DownIsQuiet ==
  /\ server # "up" => \A w \in Workers : pc[w] = "idle"
  /\ server = "down" => cleaner = "idle"
  /\ runner = "boot" => server # "up"

OwnInv == /\ TypeInv /\ RowsOK /\ UploadKeepsReservation /\ OwnersApart
          /\ Registered /\ CleanerKnows /\ CleanerRows /\ DownIsQuiet

-----------------------------------------------------------------------------
(* What is in the library *)

(* Where the destination of a thread is still empty. *)
Unplaced == {"register", "open", "stream", "sync", "mkdir", "place"}

(* An upload's destination is empty until the rename and holds its file     *)
(* from then on; until the rename its row is pending.                       *)
Progress ==
  \A w \in Workers :
    /\ pc[w] \in Unplaced => library[dest[w]] = None /\ state[key[w]] = "pending"
    /\ pc[w] \in {"syncdir", "complete"} => library[dest[w]] = key[w]

(* A cleanup deletes only rows without file, and completes those with.  A   *)
(* row that gets completed before the cleanup looks at it has its file.     *)
Verdicts ==
  \A k \in Keys :
    /\ picked[k] # None /\ state[k] = "completed" => library[place[k]] = k
    /\ verdict[k] = "delete" => library[place[k]] = None /\ state[k] = "pending"
    /\ verdict[k] = "complete" => library[place[k]] = k

(* What a thread is about to do or to answer is true. *)
Truthful ==
  \A w \in Workers :
    /\ pc[w] = "adopt" => state[key[w]] # "none" /\ library[place[key[w]]] = key[w]
    /\ reply[w] \in {"201", "409"} => pc[w] = "finish" /\ state[key[w]] = "completed"

(* Only a power loss takes the file of a completed row. *)
Lossless == "power" \notin Faults => CompletedHasFile

FileInv == OwnInv /\ NoUntrackedFile /\ Lossless /\ Progress /\ Verdicts /\ Truthful

-----------------------------------------------------------------------------
(* Type correctness *)

(* A step of a thread keeps the types. *)
LEMMA ThreadKeepsTypes ==
  ASSUME TypeInv, NEW w \in Workers, Step(w) \/ ThreadFails(w)
  PROVE  TypeInv'
PROOF
<1>. USE NoneAssumption, RunnerAssumption, FolderAssumption DEF TypeInv, TypeOK, Equipped, Uploading, Gap, PCs, Replies, Contents,
             Goto, Respond, table, files, temps, threads, cleanup, told
<1>1. CASE NotDue(w) BY <1>1 DEF NotDue
<1>2. CASE RequestCleanup(w) BY <1>2 DEF RequestCleanup, Snapshot
<1>3. CASE Refuse(w) BY <1>3 DEF Refuse
<1>4. CASE \E d \in Dests : Reserve(w, d) BY <1>4 DEF Reserve, FreshDest
<1>5. CASE Conflict(w) BY <1>5 DEF Conflict
<1>6. CASE Lookup(w) BY <1>6 DEF Lookup, Stored
<1>7. CASE Adopt(w) BY <1>7 DEF Adopt, SetCompleted
<1>8. CASE \E t \in Temps : Register(w, t) BY <1>8 DEF Register, FreshTemp
<1>9. CASE Open(w) BY <1>9 DEF Open
<1>10. CASE ReceiveAll(w) BY <1>10 DEF ReceiveAll
<1>11. CASE ReceiveShort(w) BY <1>11 DEF ReceiveShort
<1>12. CASE Sync(w) BY <1>12 DEF Sync
<1>13. CASE Place(w) BY <1>13 DEF Place
<1>14. CASE SyncDirectory(w) BY <1>14 DEF SyncDirectory
<1>15. CASE Complete(w) BY <1>15 DEF Complete, SetCompleted
<1>16. CASE Unlink(w) BY <1>16 DEF Unlink
<1>17. CASE Undo(w) BY <1>17 DEF Undo, Placed
<1>18. CASE Finish(w) BY <1>18 DEF Finish, Deregister
<1>19. CASE ReserveFails(w) BY <1>19 DEF ReserveFails
<1>20. CASE UploadFails(w) BY <1>20 DEF UploadFails
<1>21. CASE UndoFails(w) BY <1>21 DEF UndoFails
<1>22. CASE MakeFolder(w) BY <1>22 DEF MakeFolder
<1>. QED BY <1>1, <1>2, <1>3, <1>4, <1>5, <1>6, <1>7, <1>8, <1>9, <1>10,
         <1>11, <1>12, <1>13, <1>14, <1>15, <1>16, <1>17, <1>18, <1>19,
         <1>20, <1>21, <1>22 DEF Step, ThreadFails

(* So does any other step. *)
LEMMA SystemKeepsTypes ==
  ASSUME TypeInv, System
  PROVE  TypeInv'
PROOF
<1>. USE NoneAssumption, RunnerAssumption, FolderAssumption DEF TypeInv, TypeOK, Equipped, Uploading, Gap, PCs, Replies, Contents,
             Goto, Respond, table, files, temps, threads, cleanup, told
<1>1. CASE LoopCleanup BY <1>1 DEF LoopCleanup, Snapshot
<1>2. CASE BootCleanup BY <1>2 DEF BootCleanup, Snapshot
<1>3. CASE CleanTemps BY <1>3 DEF CleanTemps
<1>4. CASE SelectRows BY <1>4 DEF SelectRows, Selected
<1>5. CASE \E k \in Keys : CheckRow(k) BY <1>5 DEF CheckRow, VerdictOf
<1>6. CASE LockDatabase BY <1>6 DEF LockDatabase
<1>7. CASE CommitRows BY <1>7 DEF CommitRows, CleanupReturns, Written
<1>8. CASE Recover BY <1>8 DEF Recover, Resolved
<1>9. CASE \E w \in Workers, k \in Keys : Arrive(w, k) BY <1>9 DEF Arrive
<1>10. CASE \E k \in Keys : RowAges(k) BY <1>10 DEF RowAges
<1>11. CASE \E t \in Temps : TempAges(t) BY <1>11 DEF TempAges
<1>12. CASE CleanupFails
  <2>1. TypeOK'
    <3>1. temp' \in [Temps -> Contents] BY <1>12 DEF CleanupFails
    <3>2. staleTemp' \subseteq Temps BY <1>12 DEF CleanupFails
    <3>3. pc' \in [Workers -> PCs] /\ reply' \in [Workers -> Replies] BY <1>12 DEF CleanupFails
    <3>. QED BY <1>12, <3>1, <3>2, <3>3 DEF CleanupFails, CleanupReturns
  <2>2. Equipped' BY <1>12 DEF CleanupFails, CleanupReturns
  <2>. QED BY <2>1, <2>2
<1>13. CASE Crash BY <1>13 DEF Crash, Stop, CleanupReturns
<1>14. CASE PowerLoss
  <2>1. TypeOK'
    <3>1. temp' \in [Temps -> Contents] BY <1>14 DEF PowerLoss, Torn
    <3>2. library' \in [Dests -> Keys \cup {None}] BY <1>14 DEF PowerLoss
    <3>3. content' \in [Dests -> Contents] BY <1>14 DEF PowerLoss, Torn
    <3>4. folder' \in [Folders -> {"none", "made", "kept"}] BY <1>14 DEF PowerLoss
    <3>. QED BY <1>14, <3>1, <3>2, <3>3, <3>4 DEF PowerLoss, Stop, CleanupReturns
  <2>2. Equipped' BY <1>14 DEF PowerLoss, Stop, CleanupReturns
  <2>. QED BY <2>1, <2>2
<1>. QED BY <1>1, <1>2, <1>3, <1>4, <1>5, <1>6, <1>7, <1>8, <1>9, <1>10,
         <1>11, <1>12, <1>13, <1>14 DEF System, Calm, Cleaning

(* The server starts well-typed, with no thread under way. *)
LEMMA InitTypes == Init => TypeInv
PROOF
<1>. SUFFICES ASSUME Init PROVE TypeInv OBVIOUS
<1>1. TypeOK BY NoneAssumption, FolderAssumption DEF Init, TypeOK, PCs, Replies, Contents
<1>2. Equipped BY NoneAssumption DEF Init, Equipped, Uploading, Gap
<1>. QED BY <1>1, <1>2 DEF TypeInv

(* The types and the equipment of a live thread are an invariant. *)
LEMMA TypeInvariant == Spec => []TypeInv
PROOF
<1>1. Init => TypeInv BY InitTypes
<1>2. TypeInv /\ [Next]_vars => TypeInv'
  <2>1. TypeInv /\ UNCHANGED vars => TypeInv'
    BY DEF TypeInv, TypeOK, Equipped, vars, table, files, temps, threads, cleanup, told
  <2>. QED BY <2>1, ThreadKeepsTypes, SystemKeepsTypes DEF Next
<1>. QED BY <1>1, <1>2, PTL DEF Spec

(* Every variable keeps its type, under every fault. *)
THEOREM TypeCorrect == Spec => []TypeOK
PROOF
<1>1. TypeInv => TypeOK BY DEF TypeInv
<1>. QED BY <1>1, TypeInvariant, PTL

-----------------------------------------------------------------------------
(* The locks, under every fault *)

(* A request enters and leaves a cleanup with _cleanup_lock only. *)
LEMMA ThreadKeepsLocks ==
  ASSUME TypeInv, NoLockLeftBehind, NEW w \in Workers, Step(w) \/ ThreadFails(w)
  PROVE  NoLockLeftBehind'
PROOF
<1>. USE RunnerAssumption, NoneAssumption
     DEF TypeInv, TypeOK, NoLockLeftBehind, NoWrites, Goto, Respond, cleanup
<1>1. CASE RequestCleanup(w) BY <1>1 DEF RequestCleanup, Snapshot
<1>2. CASE ~RequestCleanup(w)
  <2>1. UNCHANGED <<cleaner, runner, locked, verdict, server>>
    BY <1>2 DEF Step, ThreadFails, NotDue, Refuse, Reserve, Conflict, Lookup, Adopt, Register, Open,
         ReceiveAll, ReceiveShort, Sync, MakeFolder, Place, SyncDirectory, Complete, Unlink, Undo, Finish,
         ReserveFails, UploadFails, UndoFails
  <2>2. pc[w] # "cleanup" /\ \E l \in PCs \ {"cleanup"} : pc' = [pc EXCEPT ![w] = l]
    BY <1>2 DEF Step, ThreadFails, NotDue, Refuse, Reserve, Conflict, Lookup, Adopt, Register, Open,
         ReceiveAll, ReceiveShort, Sync, MakeFolder, Place, SyncDirectory, Complete, Unlink, Undo, Finish,
         ReserveFails, UploadFails, UndoFails, PCs
  <2>. QED BY <2>1, <2>2
<1>. QED BY <1>1, <1>2

(* However a cleanup ends, it gives up both. *)
LEMMA SystemKeepsLocks ==
  ASSUME TypeInv, NoLockLeftBehind, System
  PROVE  NoLockLeftBehind'
PROOF
<1>. USE RunnerAssumption, NoneAssumption
     DEF TypeInv, TypeOK, NoLockLeftBehind, NoWrites, Goto, threads, cleanup
<1>1. CASE LoopCleanup BY <1>1 DEF LoopCleanup, Snapshot
<1>2. CASE BootCleanup BY <1>2 DEF BootCleanup, Snapshot
<1>3. CASE CleanTemps BY <1>3 DEF CleanTemps
<1>4. CASE SelectRows BY <1>4 DEF SelectRows
<1>5. CASE \E k \in Keys : CheckRow(k) BY <1>5 DEF CheckRow, VerdictOf
<1>6. CASE LockDatabase BY <1>6 DEF LockDatabase
<1>7. CASE CommitRows BY <1>7 DEF CommitRows, CleanupReturns
<1>8. CASE Recover BY <1>8 DEF Recover
<1>9. CASE \E w \in Workers, k \in Keys : Arrive(w, k) BY <1>9 DEF Arrive
<1>10. CASE \E k \in Keys : RowAges(k) BY <1>10 DEF RowAges
<1>11. CASE \E t \in Temps : TempAges(t) BY <1>11 DEF TempAges
<1>12. CASE CleanupFails BY <1>12 DEF CleanupFails, CleanupReturns
<1>13. CASE Crash BY <1>13 DEF Crash, Stop, CleanupReturns
<1>14. CASE PowerLoss BY <1>14 DEF PowerLoss, Stop, CleanupReturns
<1>. QED BY <1>1, <1>2, <1>3, <1>4, <1>5, <1>6, <1>7, <1>8, <1>9, <1>10,
         <1>11, <1>12, <1>13, <1>14 DEF System, Calm, Cleaning

(* No way out of a cleanup keeps a lock.                                    *)
THEOREM LocksAreGivenUp == Spec => []NoLockLeftBehind
PROOF
<1>1. Init => NoLockLeftBehind BY NoneAssumption, RunnerAssumption DEF Init, NoLockLeftBehind
<1>2. TypeInv /\ NoLockLeftBehind /\ [Next]_vars => NoLockLeftBehind'
  <2>1. NoLockLeftBehind /\ UNCHANGED vars => NoLockLeftBehind'
    BY DEF NoLockLeftBehind, NoWrites, vars, threads, cleanup
  <2>. QED BY <2>1, ThreadKeepsLocks, SystemKeepsLocks DEF Next
<1>. QED BY <1>1, <1>2, TypeInvariant, PTL DEF Spec

-----------------------------------------------------------------------------
(* Active upload protection, crashes, disk errors and power losses included *)

(* A step of a thread respects what the others own. *)
LEMMA ThreadKeepsOwners ==
  ASSUME "stall" \notin Faults, OwnInv, TypeInv',
         NEW w \in Workers, Step(w) \/ ThreadFails(w)
  PROVE  OwnInv'
PROOF
<1>. USE NoneAssumption, RunnerAssumption DEF OwnInv, TypeInv, TypeOK, Equipped, RowsOK, UploadKeepsReservation,
             OwnersApart, Registered, CleanerKnows, CleanerRows,
             DownIsQuiet, Uploading, Gap, PCs, Goto, Respond,
             table, files, temps, threads, cleanup, told
<1>1. CASE NotDue(w) BY <1>1 DEF NotDue
<1>2. CASE RequestCleanup(w) BY <1>2 DEF RequestCleanup, Snapshot
<1>3. CASE Refuse(w) BY <1>3 DEF Refuse
<1>4. CASE \E d \in Dests : Reserve(w, d) BY <1>4 DEF Reserve, FreshDest
<1>5. CASE Conflict(w) BY <1>5 DEF Conflict
<1>6. CASE Lookup(w) BY <1>6 DEF Lookup, Stored
<1>7. CASE Adopt(w) BY <1>7 DEF Adopt, SetCompleted
<1>8. CASE \E t \in Temps : Register(w, t) BY <1>8 DEF Register, FreshTemp
<1>9. CASE Open(w) BY <1>9 DEF Open
<1>10. CASE ReceiveAll(w) BY <1>10 DEF ReceiveAll
<1>11. CASE ReceiveShort(w) BY <1>11 DEF ReceiveShort
<1>12. CASE Sync(w) BY <1>12 DEF Sync
<1>13. CASE Place(w) BY <1>13 DEF Place
<1>14. CASE SyncDirectory(w) BY <1>14 DEF SyncDirectory
<1>15. CASE Complete(w) BY <1>15 DEF Complete, SetCompleted
<1>16. CASE Unlink(w) BY <1>16 DEF Unlink
<1>17. CASE Undo(w)
  <2>1. /\ key[w] \in Keys /\ pc[w] = "undo" /\ pc' = [pc EXCEPT ![w] = "finish"]
        /\ UNCHANGED <<server, key, dest, tmp, active, cleanup>>
    BY <1>17 DEF Undo
  <2>2. CASE UNCHANGED <<state, place, stale>> BY <2>1, <2>2
  <2>3. CASE /\ state' = [state EXCEPT ![key[w]] = "none"]
             /\ place' = [place EXCEPT ![key[w]] = None]
             /\ stale' = stale \ {key[w]}
    <3>1. \A v \in Workers : v # w /\ pc[v] \in Uploading => key[v] # key[w] BY <2>1
    <3>2. RowsOK' BY <2>3
    <3>3. UploadKeepsReservation' /\ OwnersApart' /\ Registered' BY <2>1, <2>3, <3>1
    <3>4. CleanerKnows' /\ CleanerRows' /\ DownIsQuiet' BY <2>1, <2>3, <3>1
    <3>. QED BY <3>2, <3>3, <3>4
  <2>. QED BY <1>17, <2>1, <2>2, <2>3 DEF Undo
<1>18. CASE Finish(w) BY <1>18 DEF Finish, Deregister
<1>19. CASE ReserveFails(w) BY <1>19 DEF ReserveFails
<1>20. CASE UploadFails(w) BY <1>20 DEF UploadFails
<1>21. CASE UndoFails(w) BY <1>21 DEF UndoFails
<1>22. CASE MakeFolder(w) BY <1>22 DEF MakeFolder
<1>. QED BY <1>1, <1>2, <1>3, <1>4, <1>5, <1>6, <1>7, <1>8, <1>9, <1>10,
         <1>11, <1>12, <1>13, <1>14, <1>15, <1>16, <1>17, <1>18, <1>19,
         <1>20, <1>21, <1>22 DEF Step, ThreadFails

(* The cleanup respects what the threads own, unless one stalls in the gap. *)
LEMMA SystemKeepsOwners ==
  ASSUME "stall" \notin Faults, OwnInv, TypeInv', System
  PROVE  OwnInv'
PROOF
<1>. USE NoneAssumption, RunnerAssumption DEF OwnInv, TypeInv, TypeOK, Equipped, RowsOK, UploadKeepsReservation,
             OwnersApart, Registered, CleanerKnows, CleanerRows,
             DownIsQuiet, Uploading, Gap, PCs, Goto, Respond,
             table, files, temps, threads, cleanup, told
<1>1. CASE LoopCleanup BY <1>1 DEF LoopCleanup, Snapshot
<1>2. CASE BootCleanup BY <1>2 DEF BootCleanup, Snapshot
<1>3. CASE CleanTemps BY <1>3 DEF CleanTemps
<1>4. CASE SelectRows BY <1>4 DEF SelectRows, Selected
<1>5. CASE \E k \in Keys : CheckRow(k) BY <1>5 DEF CheckRow, VerdictOf
<1>6. CASE LockDatabase BY <1>6 DEF LockDatabase
<1>7. CASE CommitRows BY <1>7 DEF CommitRows, CleanupReturns, Written
<1>8. CASE Recover BY <1>8 DEF Recover, Resolved
<1>9. CASE \E w \in Workers, k \in Keys : Arrive(w, k) BY <1>9 DEF Arrive
<1>10. CASE \E k \in Keys : RowAges(k) BY <1>10 DEF RowAges
<1>11. CASE \E t \in Temps : TempAges(t) BY <1>11 DEF TempAges
<1>12. CASE CleanupFails
  <2>1. \A w \in Workers : /\ (pc'[w] \in Uploading) = (pc[w] \in Uploading)
                          /\ (pc'[w] \in Gap) = (pc[w] \in Gap)
    BY <1>12 DEF CleanupFails
  <2>2. UNCHANGED <<key, dest, tmp, active, state, place, stale>> BY <1>12 DEF CleanupFails
  <2>3. RowsOK' BY <2>2
  <2>4. UploadKeepsReservation' BY <2>1, <2>2
  <2>5. OwnersApart' /\ Registered' BY <2>1, <2>2
  <2>6. CleanerKnows' /\ CleanerRows' BY <1>12 DEF CleanupFails, CleanupReturns
  <2>7. DownIsQuiet' BY <1>12 DEF CleanupFails, CleanupReturns
  <2>. QED BY <2>3, <2>4, <2>5, <2>6, <2>7
<1>13. CASE Crash BY <1>13 DEF Crash, Stop, CleanupReturns
<1>14. CASE PowerLoss BY <1>14 DEF PowerLoss, Stop, CleanupReturns, Torn
<1>. QED BY <1>1, <1>2, <1>3, <1>4, <1>5, <1>6, <1>7, <1>8, <1>9, <1>10,
         <1>11, <1>12, <1>13, <1>14 DEF System, Calm, Cleaning

(* What a live upload owns is an invariant, unless an upload stalls. *)
LEMMA OwnInvariant == ASSUME "stall" \notin Faults PROVE Spec => []OwnInv
PROOF
<1>1. Init => OwnInv
  <2>1. Init => TypeInv BY InitTypes
  <2>. QED BY <2>1, RunnerAssumption DEF Init, OwnInv, RowsOK, UploadKeepsReservation, OwnersApart,
            Registered, CleanerKnows, CleanerRows, DownIsQuiet, Uploading, Gap
<1>2. OwnInv /\ TypeInv' /\ [Next]_vars => OwnInv'
  <2>1. OwnInv /\ TypeInv' /\ UNCHANGED vars => OwnInv'
    BY DEF OwnInv, RowsOK, UploadKeepsReservation, OwnersApart, Registered, CleanerKnows,
           CleanerRows, DownIsQuiet, vars, table, files, temps, threads, cleanup, told
  <2>. QED BY <2>1, ThreadKeepsOwners, SystemKeepsOwners DEF Next
<1>. QED BY <1>1, <1>2, TypeInvariant, PTL DEF Spec

(* No cleanup, retry or handler of another thread takes the reservation of  *)
(* a live upload away, unless an upload stalls before it is registered.     *)
THEOREM ActiveUploadProtection ==
  ASSUME "stall" \notin Faults PROVE Spec => []UploadKeepsReservation
PROOF
<1>1. OwnInv => UploadKeepsReservation BY DEF OwnInv
<1>. QED BY <1>1, OwnInvariant, PTL

-----------------------------------------------------------------------------
(* The library, crashes, disk errors and power losses included *)

(* A step of a thread keeps table and library in agreement. *)
LEMMA ThreadKeepsFiles ==
  ASSUME "stall" \notin Faults, FileInv, OwnInv',
         NEW w \in Workers, Step(w) \/ ThreadFails(w)
  PROVE  FileInv'
PROOF
<1>. USE NoneAssumption, RunnerAssumption DEF FileInv, OwnInv, TypeInv, TypeOK, Equipped, RowsOK,
             UploadKeepsReservation, OwnersApart, CleanerRows,
             CompletedHasFile, Lossless, NoUntrackedFile, Progress, Unplaced,
             Verdicts, Truthful, IsFile, Uploading, Gap,
             PCs, Goto, Respond, table, files, temps, threads,
             cleanup, told
<1>1. CASE NotDue(w) BY <1>1 DEF NotDue
<1>2. CASE RequestCleanup(w) BY <1>2 DEF RequestCleanup, Snapshot
<1>3. CASE Refuse(w) BY <1>3 DEF Refuse
<1>4. CASE \E d \in Dests : Reserve(w, d) BY <1>4 DEF Reserve, FreshDest
<1>5. CASE Conflict(w) BY <1>5 DEF Conflict
<1>6. CASE Lookup(w) BY <1>6 DEF Lookup, Stored
<1>7. CASE Adopt(w) BY <1>7 DEF Adopt, SetCompleted
<1>8. CASE \E t \in Temps : Register(w, t) BY <1>8 DEF Register, FreshTemp
<1>9. CASE Open(w) BY <1>9 DEF Open
<1>10. CASE ReceiveAll(w) BY <1>10 DEF ReceiveAll
<1>11. CASE ReceiveShort(w) BY <1>11 DEF ReceiveShort
<1>12. CASE Sync(w) BY <1>12 DEF Sync
<1>13. CASE Place(w)
  <2>1. CASE temp[tmp[w]] = "none" BY <1>13, <2>1 DEF Place
  <2>2. CASE temp[tmp[w]] # "none"
    <3>1. /\ library' = [library EXCEPT ![dest[w]] = key[w]]
          /\ library[dest[w]] = None /\ key[w] \in Keys /\ dest[w] \in Dests
          /\ pc' = [pc EXCEPT ![w] = "syncdir"]
          /\ UNCHANGED <<state, place, stale, key, dest, tmp, reply, cleanup>>
      BY <1>13, <2>2 DEF Place
    <3>2. place[key[w]] = dest[w] /\ state[key[w]] # "none" /\ state'[key[w]] # "none"
      BY <1>13, <3>1 DEF Place
    <3>3. \A k \in Keys : place[k] = dest[w] => k = key[w] BY <3>1, <3>2
    <3>4. Lossless' BY <3>1, <3>2, <3>3
    <3>5. NoUntrackedFile' BY <3>1, <3>2, <3>3
    <3>6. Progress' BY <3>1, <3>2, <3>3
    <3>7. Verdicts' BY <3>1, <3>2, <3>3
    <3>8. Truthful'
      <4>1. \A v \in Workers : pc'[v] = "adopt" => pc[v] = "adopt" BY <3>1
      <4>2. \A k \in Keys : library[place[k]] = k => library'[place[k]] = k
        BY <3>1, <3>3
      <4>3. \A v \in Workers : pc[v] = "adopt" => key[v] \in Keys OBVIOUS
      <4>4. \A v \in Workers : pc[v] = "finish" => pc'[v] = "finish"
        BY <1>13, <3>1 DEF Place
      <4>. QED BY <3>1, <4>1, <4>2, <4>3, <4>4
    <3>. QED BY <3>4, <3>5, <3>6, <3>7, <3>8
  <2>. QED BY <2>1, <2>2
<1>14. CASE SyncDirectory(w) BY <1>14 DEF SyncDirectory
<1>15. CASE Complete(w) BY <1>15 DEF Complete, SetCompleted
<1>16. CASE Unlink(w) BY <1>16 DEF Unlink
<1>17. CASE Undo(w)
  <2>1. /\ key[w] \in Keys /\ pc[w] = "undo" /\ pc' = [pc EXCEPT ![w] = "finish"]
        /\ reply' = [reply EXCEPT ![w] = "failed"]
        /\ UNCHANGED <<library, key, dest, cleanup>>
    BY <1>17 DEF Undo
  <2>2. CASE UNCHANGED <<state, place>> BY <2>1, <2>2
  <2>3. CASE /\ library[dest[w]] = None /\ state[key[w]] = "pending"
             /\ state' = [state EXCEPT ![key[w]] = "none"]
             /\ place' = [place EXCEPT ![key[w]] = None]
    <3>1. place[key[w]] = dest[w] BY <2>1
    <3>2. \A v \in Workers : v # w /\ pc[v] \in Uploading => key[v] # key[w] BY <2>1
    <3>3. NoUntrackedFile' /\ Lossless' BY <2>1, <2>3, <3>1
    <3>4. Progress' BY <2>1, <2>3, <3>2
    <3>5. Verdicts' BY <2>1, <2>3
    <3>6. Truthful' BY <2>1, <2>3, <3>1
    <3>. QED BY <3>3, <3>4, <3>5, <3>6
  <2>. QED BY <1>17, <2>1, <2>2, <2>3 DEF Undo, Placed
<1>18. CASE Finish(w) BY <1>18 DEF Finish, Deregister
<1>19. CASE ReserveFails(w) BY <1>19 DEF ReserveFails
<1>20. CASE UploadFails(w) BY <1>20 DEF UploadFails
<1>21. CASE UndoFails(w) BY <1>21 DEF UndoFails
<1>22. CASE MakeFolder(w) BY <1>22 DEF MakeFolder
<1>. QED BY <1>1, <1>2, <1>3, <1>4, <1>5, <1>6, <1>7, <1>8, <1>9, <1>10,
         <1>11, <1>12, <1>13, <1>14, <1>15, <1>16, <1>17, <1>18, <1>19,
         <1>20, <1>21, <1>22 DEF Step, ThreadFails

(* So do the cleanup, the recovery, a crash and a power loss. *)
LEMMA SystemKeepsFiles ==
  ASSUME "stall" \notin Faults, FileInv, OwnInv', System
  PROVE  FileInv'
PROOF
<1>. USE NoneAssumption, RunnerAssumption DEF FileInv, OwnInv, TypeInv, TypeOK, Equipped, RowsOK,
             UploadKeepsReservation, OwnersApart, CleanerRows,
             CompletedHasFile, Lossless, NoUntrackedFile, Progress, Unplaced,
             Verdicts, Truthful, IsFile, Uploading, Gap,
             PCs, Goto, Respond, table, files, temps, threads,
             cleanup, told
<1>1. CASE LoopCleanup BY <1>1 DEF LoopCleanup, Snapshot
<1>2. CASE BootCleanup BY <1>2 DEF BootCleanup, Snapshot
<1>3. CASE CleanTemps BY <1>3 DEF CleanTemps
<1>4. CASE SelectRows BY <1>4 DEF SelectRows, Selected
<1>5. CASE \E k \in Keys : CheckRow(k) BY <1>5 DEF CheckRow, VerdictOf
<1>6. CASE LockDatabase BY <1>6 DEF LockDatabase
<1>7. CASE CommitRows
  <2>1. UNCHANGED <<library, key, dest, reply>> BY <1>7 DEF CommitRows
  <2>2. \A k \in Keys : state'[k] = Written(k) BY <1>7 DEF CommitRows
  <2>3. \A k \in Keys : place'[k] = IF verdict[k] = "delete" THEN None ELSE place[k]
    BY <1>7 DEF CommitRows
  <2>4. \A k \in Keys : picked'[k] = None /\ verdict'[k] = "none"
    BY <1>7 DEF CommitRows, CleanupReturns
  <2>5. \A v \in Workers : pc'[v] = pc[v] \/ (pc'[v] = "reserve" /\ pc[v] = "cleanup")
    BY <1>7 DEF CommitRows
  <2>6. \A v \in Workers : pc[v] \in Uploading => verdict[key[v]] = "none" OBVIOUS
  <2>7. NoUntrackedFile' BY <2>1, <2>2, <2>3 DEF Written
  <2>8. Lossless' BY <2>1, <2>2, <2>3 DEF Written
  <2>9. Progress' BY <2>1, <2>2, <2>5, <2>6 DEF Written
  <2>10. Verdicts' BY <2>4
  <2>11. Truthful' BY <2>1, <2>2, <2>3, <2>5 DEF Written
  <2>. QED BY <2>7, <2>8, <2>9, <2>10, <2>11
<1>8. CASE Recover
  <2>1. Lossless' BY <1>8 DEF Recover, Resolved
  <2>2. NoUntrackedFile' BY <1>8 DEF Recover, Resolved
  <2>3. Progress' BY <1>8 DEF Recover, DownIsQuiet
  <2>4. Verdicts' BY <1>8 DEF Recover, Resolved
  <2>5. Truthful' BY <1>8 DEF Recover, DownIsQuiet
  <2>. QED BY <2>1, <2>2, <2>3, <2>4, <2>5
<1>9. CASE \E w \in Workers, k \in Keys : Arrive(w, k) BY <1>9 DEF Arrive
<1>10. CASE \E k \in Keys : RowAges(k) BY <1>10 DEF RowAges
<1>11. CASE \E t \in Temps : TempAges(t) BY <1>11 DEF TempAges
<1>12. CASE CleanupFails BY <1>12 DEF CleanupFails, CleanupReturns
<1>13. CASE Crash BY <1>13 DEF Crash, Stop, CleanupReturns
<1>14. CASE PowerLoss BY <1>14 DEF PowerLoss, Stop, CleanupReturns, Torn
<1>. QED BY <1>1, <1>2, <1>3, <1>4, <1>5, <1>6, <1>7, <1>8, <1>9, <1>10,
         <1>11, <1>12, <1>13, <1>14 DEF System, Calm, Cleaning

(* Table and library agree for ever, unless an upload stalls. *)
LEMMA FileInvariant == ASSUME "stall" \notin Faults PROVE Spec => [](FileInv /\ OwnInv)
PROOF
<1>1. Init /\ OwnInv => FileInv
  BY DEF Init, FileInv, CompletedHasFile, Lossless, NoUntrackedFile, Progress, Unplaced, Verdicts,
         Truthful
<1>2. FileInv /\ OwnInv' /\ [Next]_vars => FileInv'
  <2>1. FileInv /\ OwnInv' /\ UNCHANGED vars => FileInv'
    BY DEF FileInv, CompletedHasFile, Lossless, NoUntrackedFile, Progress, Unplaced, Verdicts,
           Truthful, vars, table, files, temps, threads, cleanup, told
  <2>. QED BY <2>1, ThreadKeepsFiles, SystemKeepsFiles DEF Next
<1>3. Spec => []OwnInv BY OwnInvariant
<1>. QED BY <1>1, <1>2, <1>3, PTL DEF Spec

(* A completed row always names a file that is there, unless power is lost. *)
THEOREM CompletedIsStored ==
  ASSUME Faults \cap {"stall", "power"} = {} PROVE Spec => []CompletedHasFile
PROOF
<1>1. FileInv => CompletedHasFile BY DEF FileInv, Lossless
<1>2. Spec => [](FileInv /\ OwnInv) BY FileInvariant
<1>. QED BY <1>1, <1>2, PTL

(* A file in the library always has its row, so a retry finds it. *)
THEOREM EveryFileIsTracked == ASSUME "stall" \notin Faults PROVE Spec => []NoUntrackedFile
PROOF
<1>1. FileInv => NoUntrackedFile BY DEF FileInv
<1>. QED BY <1>1, FileInvariant, PTL

(* However often a key is sent, the library holds at most one file of it,   *)
(* after power losses as well.                                              *)
THEOREM Idempotent == ASSUME "stall" \notin Faults PROVE Spec => []OneFilePerKey
PROOF
<1>1. FileInv => OneFilePerKey
  BY DEF FileInv, OwnInv, TypeInv, TypeOK, NoUntrackedFile, OneFilePerKey
<1>. QED BY <1>1, FileInvariant, PTL

(* No step reopens or forgets a completed upload: a cleanup deletes only    *)
(* rows that are still pending, whatever happened since it selected them.   *)
LEMMA CompletedKept ==
  ASSUME FileInv, [Next]_vars, NEW k \in Keys, state[k] = "completed"
  PROVE  state'[k] = "completed"
PROOF
<1>. USE DEF FileInv, OwnInv, TypeInv, TypeOK, table
<1>1. CASE UNCHANGED vars BY <1>1 DEF vars
<1>2. ASSUME NEW w \in Workers, Step(w) \/ ThreadFails(w) PROVE state'[k] = "completed"
  <2>1. CASE \E d \in Dests : Reserve(w, d) BY <2>1 DEF Reserve
  <2>2. CASE Adopt(w) \/ Complete(w) BY <2>2 DEF Adopt, Complete, SetCompleted
  <2>3. CASE Undo(w) BY <2>3 DEF Undo
  <2>4. CASE ThreadFails(w)
    BY <2>4 DEF ThreadFails, ReserveFails, UploadFails, UndoFails
  <2>5. CASE NotDue(w) \/ RequestCleanup(w) \/ Refuse(w) \/ Conflict(w) \/ Lookup(w)
             \/ \E t \in Temps : Register(w, t)
    BY <2>5 DEF NotDue, RequestCleanup, Snapshot, Refuse, Conflict, Lookup, Register
  <2>6. CASE Open(w) \/ ReceiveAll(w) \/ ReceiveShort(w) \/ Sync(w) \/ MakeFolder(w)
             \/ Place(w)
             \/ SyncDirectory(w) \/ Unlink(w) \/ Finish(w)
    BY <2>6 DEF Open, ReceiveAll, ReceiveShort, Sync, MakeFolder, Place, SyncDirectory, Unlink, Finish
  <2>. QED BY <1>2, <2>1, <2>2, <2>3, <2>4, <2>5, <2>6 DEF Step
<1>3. ASSUME System PROVE state'[k] = "completed"
  <2>1. CASE CommitRows BY <2>1 DEF CommitRows, Written, Verdicts
  <2>2. CASE Recover BY <2>2 DEF Recover, Resolved
  <2>3. CASE Crash \/ PowerLoss BY <2>3 DEF Crash, PowerLoss, Stop
  <2>4. CASE CleanupFails BY <2>4 DEF CleanupFails
  <2>5. CASE LoopCleanup \/ BootCleanup \/ CleanTemps \/ SelectRows \/ LockDatabase
             \/ \E l \in Keys : CheckRow(l)
    BY <2>5 DEF LoopCleanup, BootCleanup, Snapshot, CleanTemps, SelectRows, LockDatabase, CheckRow
  <2>6. CASE \/ \E w \in Workers, l \in Keys : Arrive(w, l)
             \/ \E l \in Keys : RowAges(l)
             \/ \E t \in Temps : TempAges(t)
    BY <2>6 DEF Arrive, RowAges, TempAges
  <2>. QED BY <1>3, <2>1, <2>2, <2>3, <2>4, <2>5, <2>6 DEF System, Calm, Cleaning
<1>. QED BY <1>1, <1>2, <1>3 DEF Next

(* A completed upload stays completed, whatever fails.                      *)
THEOREM CompletedForGood == ASSUME "stall" \notin Faults PROVE Spec => CompletedStays
PROOF
<1>. DEFINE Stays == \A k \in Keys : state[k] = "completed" => state'[k] = "completed"
<1>1. FileInv /\ [Next]_vars => Stays BY CompletedKept
<1>2. Spec => [][Stays]_vars BY <1>1, FileInvariant, PTL DEF Spec
<1>. QED BY <1>2 DEF CompletedStays
=============================================================================
