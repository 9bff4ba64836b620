--------------------------- MODULE MediaDiskProofs ---------------------------
(***************************************************************************)
(* Proofs about what MediaBackup leaves on the disk, under every fault:     *)
(* power losses and threads that stall before they are registered included. *)
(***************************************************************************)
EXTENDS MediaBackupProofs

(* Where a thread has a temporary path. *)
Writing == Uploading \ Gap

(* Nobody shares a path. *)
PathsApart ==
  \A v, w \in Workers :
    /\ tmp[v] = tmp[w] /\ tmp[v] # None => v = w
    /\ dest[v] = dest[w] /\ dest[v] # None => v = w

(* A temporary file that is old exists; one in use is registered, and a     *)
(* cleanup that started before it was has not seen it grow old.             *)
TempsKnown ==
  /\ \A t \in staleTemp : temp[t] # "none"
  /\ \A w \in Workers : pc[w] \in Writing =>
       /\ active[tmp[w]] = key[w]
       /\ cleaner = "temps" => tmp[w] \in seenTemps \/ tmp[w] \notin staleTemp

(* What is renamed is synced, to a destination nothing has been renamed to. *)
PlacedWhole ==
  /\ \A d \in Dests : library[d] # None => content[d] = "synced"
  /\ \A w \in Workers :
       /\ pc[w] \in {"mkdir", "place"} => temp[tmp[w]] \in {"none", "synced"}
       /\ pc[w] \in Unplaced => library[dest[w]] = None
       /\ pc[w] \in {"syncdir", "complete"} => library[dest[w]] = key[w]

Durable(k) == \E d \in synced : library[d] = k
Firm(k) == \E d \in synced : library[d] = k /\ folder[FolderOf[d]] = "kept"

(* Only files are synced, and they are in folders; 201 is only prepared for *)
(* a file whose directory entry is on the disk.                             *)
CreatedDurable ==
  /\ \A d \in synced : library[d] # None
  /\ \A d \in Dests : library[d] # None => folder[FolderOf[d]] # "none"
  /\ \A w \in Workers :
       /\ pc[w] = "place" => folder[FolderOf[dest[w]]] # "none"
       /\ pc[w] = "complete" => dest[w] \in synced
       /\ reply[w] = "201" =>
            pc[w] = "finish" /\ dest[w] \in synced /\ library[dest[w]] = key[w]
  /\ \A k \in pledged : Firm(k)

DiskInv == TypeInv /\ PathsApart /\ TempsKnown /\ UploadKeepsTemp /\ PlacedWhole /\ CreatedDurable

-----------------------------------------------------------------------------
(* A new folder is not on the disk yet, and an old one stays what it is.    *)
LEMMA MakeFolderKeepsDisk ==
  ASSUME DiskInv, TypeInv', NEW w \in Workers, MakeFolder(w)
  PROVE  DiskInv'
PROOF
<1>1. /\ pc[w] = "mkdir" /\ pc' = [pc EXCEPT ![w] = "place"]
      /\ UNCHANGED <<library, content, synced, temp, staleTemp, active, key, dest, tmp, reply,
                     cleaner, seenTemps, pledged>>
  BY DEF MakeFolder, Goto, temps, cleanup, told
<1>2. pc \in [Workers -> PCs] /\ dest[w] \in Dests /\ folder \in [Folders -> {"none", "made", "kept"}]
  BY <1>1 DEF DiskInv, TypeInv, TypeOK, Equipped, Uploading
<1>3. /\ \A v \in Workers : pc'[v] = IF v = w THEN "place" ELSE pc[v]
      /\ folder' = [folder EXCEPT ![FolderOf[dest[w]]] = IF @ = "none" THEN "made" ELSE @]
  BY <1>1, <1>2 DEF MakeFolder
<1>4. /\ \A d \in Dests : folder[FolderOf[d]] = "kept" => folder'[FolderOf[d]] = "kept"
      /\ \A d \in Dests : folder[FolderOf[d]] # "none" => folder'[FolderOf[d]] # "none"
      /\ folder'[FolderOf[dest[w]]] # "none"
  BY <1>2, <1>3, FolderAssumption
<1>5. PathsApart' BY <1>1 DEF DiskInv, PathsApart
<1>6. TempsKnown' BY <1>1, <1>3 DEF DiskInv, TempsKnown, Writing, Uploading, Gap
<1>7. UploadKeepsTemp' BY <1>1, <1>3 DEF DiskInv, UploadKeepsTemp
<1>8. PlacedWhole' BY <1>1, <1>3 DEF DiskInv, PlacedWhole, Unplaced
<1>9. CreatedDurable'
  <2>1. /\ synced \subseteq Dests /\ synced' = synced /\ library' = library
        /\ pledged' = pledged /\ reply' = reply /\ dest' = dest /\ key' = key
    BY <1>1 DEF DiskInv, TypeInv, TypeOK
  <2>2. \A k \in pledged' : Firm(k)'
    <3>. SUFFICES ASSUME NEW k \in pledged PROVE Firm(k)' BY <1>1
    <3>1. PICK d \in synced : library[d] = k /\ folder[FolderOf[d]] = "kept"
      BY DEF DiskInv, CreatedDurable, Firm
    <3>2. d \in synced' /\ library'[d] = k /\ folder'[FolderOf[d]] = "kept" BY <1>4, <2>1, <3>1
    <3>. QED BY <3>2 DEF Firm
  <2>3. \A v \in Workers : pc'[v] = "place" => folder'[FolderOf[dest'[v]]] # "none"
    <3>. SUFFICES ASSUME NEW v \in Workers, pc'[v] = "place"
                  PROVE  folder'[FolderOf[dest[v]]] # "none"
      BY <1>1
    <3>1. CASE v = w BY <1>4, <3>1
    <3>2. CASE v # w
      <4>1. dest[v] \in Dests BY <1>3, <3>2 DEF DiskInv, TypeInv, Equipped, Uploading
      <4>. QED BY <1>3, <1>4, <3>2, <4>1 DEF DiskInv, CreatedDurable
    <3>. QED BY <3>1, <3>2
  <2>4. \A v \in Workers :
          /\ pc'[v] = "complete" => pc[v] = "complete"
          /\ pc[v] = "finish" => pc'[v] = "finish"
    BY <1>1, <1>3
  <2>5. \A v \in Workers : reply[v] = "201" =>
          pc[v] = "finish" /\ dest[v] \in synced /\ library[dest[v]] = key[v]
    BY DEF DiskInv, CreatedDurable
  <2>6. /\ \A d \in synced' : library'[d] # None
        /\ \A d \in Dests : library'[d] # None => folder'[FolderOf[d]] # "none"
        /\ \A v \in Workers : pc'[v] = "complete" => dest'[v] \in synced'
    BY <1>4, <2>1, <2>4 DEF DiskInv, CreatedDurable
  <2>7. \A v \in Workers : reply'[v] = "201" =>
          pc'[v] = "finish" /\ dest'[v] \in synced' /\ library'[dest'[v]] = key'[v]
    BY <2>1, <2>4, <2>5
  <2>. QED BY <2>2, <2>3, <2>6, <2>7 DEF CreatedDurable
<1>. QED BY <1>5, <1>6, <1>7, <1>8, <1>9 DEF DiskInv

(* A step of a thread keeps the disk in order. *)
LEMMA ThreadKeepsDisk ==
  ASSUME DiskInv, TypeInv', NEW w \in Workers, Step(w) \/ ThreadFails(w)
  PROVE  DiskInv'
PROOF
<1>. USE NoneAssumption, RunnerAssumption, FolderAssumption
     DEF DiskInv, TypeInv, TypeOK, Equipped, PathsApart, TempsKnown, UploadKeepsTemp, PlacedWhole,
         CreatedDurable, Firm, Unplaced, Writing, Uploading, Gap,
         PCs, Goto, Respond, table, files, temps, threads, cleanup, told
<1>1. CASE NotDue(w) BY <1>1 DEF NotDue
<1>2. CASE RequestCleanup(w) BY <1>2 DEF RequestCleanup, Snapshot
<1>3. CASE Refuse(w) BY <1>3 DEF Refuse
<1>4. CASE \E d \in Dests : Reserve(w, d) BY <1>4 DEF Reserve, FreshDest
<1>5. CASE Conflict(w) BY <1>5 DEF Conflict
<1>6. CASE Lookup(w) BY <1>6 DEF Lookup, Stored
<1>7. CASE Adopt(w) BY <1>7 DEF Adopt
<1>8. CASE \E t \in Temps : Register(w, t) BY <1>8 DEF Register, FreshTemp
<1>9. CASE Open(w) BY <1>9 DEF Open
<1>10. CASE ReceiveAll(w) BY <1>10 DEF ReceiveAll
<1>11. CASE ReceiveShort(w) BY <1>11 DEF ReceiveShort
<1>12. CASE Sync(w) BY <1>12 DEF Sync
<1>13. CASE Place(w) BY <1>13 DEF Place
<1>14. CASE SyncDirectory(w) BY <1>14 DEF SyncDirectory
<1>15. CASE Complete(w) BY <1>15 DEF Complete
<1>16. CASE Unlink(w) BY <1>16 DEF Unlink
<1>17. CASE Undo(w) BY <1>17 DEF Undo
<1>18. CASE Finish(w) BY <1>18 DEF Finish, Deregister
<1>19. CASE ReserveFails(w) BY <1>19 DEF ReserveFails
<1>20. CASE UploadFails(w) BY <1>20 DEF UploadFails
<1>21. CASE UndoFails(w) BY <1>21 DEF UndoFails
<1>22. CASE MakeFolder(w) BY <1>22, MakeFolderKeepsDisk
<1>. QED BY <1>1, <1>2, <1>3, <1>4, <1>5, <1>6, <1>7, <1>8, <1>9, <1>10,
         <1>11, <1>12, <1>13, <1>14, <1>15, <1>16, <1>17, <1>18, <1>19,
         <1>20, <1>21, <1>22 DEF Step, ThreadFails

(* So do cleanups, crashes and power losses. *)
LEMMA SystemKeepsDisk ==
  ASSUME DiskInv, TypeInv', System
  PROVE  DiskInv'
PROOF
<1>. USE NoneAssumption, RunnerAssumption, FolderAssumption
     DEF DiskInv, TypeInv, TypeOK, Equipped, PathsApart, TempsKnown, UploadKeepsTemp, PlacedWhole,
         CreatedDurable, Firm, Unplaced, Writing, Uploading, Gap,
         PCs, Goto, Respond, table, files, temps, threads, cleanup, told
<1>1. CASE LoopCleanup BY <1>1 DEF LoopCleanup, Snapshot
<1>2. CASE BootCleanup BY <1>2 DEF BootCleanup, Snapshot
<1>3. CASE CleanTemps BY <1>3 DEF CleanTemps, Removable
<1>4. CASE SelectRows BY <1>4 DEF SelectRows
<1>5. CASE \E k \in Keys : CheckRow(k) BY <1>5 DEF CheckRow
<1>6. CASE LockDatabase BY <1>6 DEF LockDatabase
<1>7. CASE CommitRows BY <1>7 DEF CommitRows, CleanupReturns
<1>8. CASE Recover BY <1>8 DEF Recover
<1>9. CASE \E w \in Workers, k \in Keys : Arrive(w, k) BY <1>9 DEF Arrive
<1>10. CASE \E k \in Keys : RowAges(k) BY <1>10 DEF RowAges
<1>11. CASE \E t \in Temps : TempAges(t) BY <1>11 DEF TempAges
<1>12. CASE CleanupFails BY <1>12 DEF CleanupFails, CleanupReturns, Removable
<1>13. CASE Crash BY <1>13 DEF Crash, Stop, CleanupReturns
<1>14. CASE PowerLoss
  <2>1. /\ \A w \in Workers : pc'[w] = "idle" /\ reply'[w] = "none" /\ tmp'[w] = None
                             /\ dest'[w] = None
        /\ pledged' = pledged /\ staleTemp' = staleTemp
        /\ temp' = [t \in Temps |-> Torn(temp[t])]
        /\ synced' = {d \in Dests : library'[d] # None}
    BY <1>14 DEF PowerLoss, Stop, CleanupReturns
  <2>2. PathsApart' /\ UploadKeepsTemp' BY <2>1
  <2>3. TempsKnown' BY <2>1 DEF Torn
  <2>4. \A d \in Dests : library[d] # None => folder[FolderOf[d]] # "none" OBVIOUS
  <2>5. \A d \in Dests :
          /\ library'[d] \in {None, library[d]}
          /\ library'[d] # None => content'[d] = Torn(content[d]) /\ folder'[FolderOf[d]] # "none"
          /\ d \in synced /\ folder[FolderOf[d]] = "kept" =>
               library'[d] = library[d] /\ folder'[FolderOf[d]] = "kept"
    BY <1>14, <2>4 DEF PowerLoss
  <2>6. PlacedWhole' BY <2>1, <2>5 DEF Torn
  <2>7. \A k \in pledged' : Firm(k)' BY <2>1, <2>5
  <2>8. CreatedDurable' BY <2>1, <2>5, <2>7
  <2>. QED BY <2>2, <2>3, <2>6, <2>8
<1>. QED BY <1>1, <1>2, <1>3, <1>4, <1>5, <1>6, <1>7, <1>8, <1>9, <1>10,
         <1>11, <1>12, <1>13, <1>14 DEF System, Calm, Cleaning

LEMMA DiskInvariant == Spec => []DiskInv
PROOF
<1>1. Init => DiskInv
  <2>1. Init => TypeInv BY InitTypes
  <2>. QED BY <2>1 DEF Init, DiskInv, PathsApart, TempsKnown, UploadKeepsTemp, PlacedWhole,
           CreatedDurable, Unplaced, Writing, Uploading, Gap
<1>2. DiskInv /\ TypeInv' /\ [Next]_vars => DiskInv'
  <2>1. DiskInv /\ TypeInv' /\ UNCHANGED vars => DiskInv'
    BY DEF DiskInv, PathsApart, TempsKnown, UploadKeepsTemp, PlacedWhole, CreatedDurable,
           Firm, vars, files, temps, threads, cleanup, told
  <2>. QED BY <2>1, ThreadKeepsDisk, SystemKeepsDisk DEF Next
<1>. QED BY <1>1, <1>2, TypeInvariant, PTL DEF Spec

(* The temporary file of a live upload outlives every cleanup.              *)
THEOREM LiveTempProtection == Spec => []UploadKeepsTemp
PROOF
<1>1. DiskInv => UploadKeepsTemp BY DEF DiskInv
<1>. QED BY <1>1, DiskInvariant, PTL

(* The library never shows an incomplete file, after a power loss either.   *)
THEOREM LibraryIsWhole == Spec => []OnlyWholeFiles
PROOF
<1>1. DiskInv => OnlyWholeFiles BY DEF DiskInv, PlacedWhole, OnlyWholeFiles
<1>. QED BY <1>1, DiskInvariant, PTL

(* What was acknowledged with 201 is found after any power loss, if its     *)
(* folder was on the disk by then.                                          *)
THEOREM CreatedIsDurable == Spec => []CreatedSurvivesPowerLoss
PROOF
<1>1. DiskInv => CreatedSurvivesPowerLoss
  BY DEF DiskInv, CreatedDurable, Firm, CreatedSurvivesPowerLoss
<1>. QED BY <1>1, DiskInvariant, PTL

-----------------------------------------------------------------------------
(* What is answered *)

HasFile(k) == \E d \in Dests : library[d] = k

(* A path is used for one key only, by rows, by the cleanup and by threads. *)
OwnPaths ==
  /\ \A k \in Keys :
       /\ place[k] # None /\ library[place[k]] # None => library[place[k]] = k
       /\ picked[k] # None /\ library[picked[k]] # None => library[picked[k]] = k
  /\ \A w \in Workers :
       /\ pc[w] = "idle" => dest[w] = None
       /\ dest[w] # None =>
            \A k \in Keys : place[k] = dest[w] \/ picked[k] = dest[w] => key[w] = k

(* Who completes a row has seen its file.  A completed row whose file a     *)
(* power loss has taken stays out of every cleanup, so that it is still     *)
(* completed when a thread that has read it answers.                        *)
Honest ==
  /\ \A k \in Keys :
       /\ verdict[k] = "complete" => HasFile(k)
       /\ state[k] = "completed" /\ ~HasFile(k) => picked[k] = None /\ verdict[k] = "none"
  /\ \A w \in Workers :
       /\ pc[w] = "adopt" => HasFile(key[w])
       /\ reply[w] = "409" =>
            pc[w] = "finish" /\ (HasFile(key[w]) \/ state[key[w]] = "completed")

AnswerInv == DiskInv /\ OwnPaths /\ Honest

LEMMA ThreadKeepsAnswers ==
  ASSUME AnswerInv, TypeInv', NEW w \in Workers, Step(w) \/ ThreadFails(w)
  PROVE  (OwnPaths /\ Honest)'
PROOF
<1>. USE NoneAssumption, RunnerAssumption
     DEF AnswerInv, OwnPaths, Honest, HasFile, DiskInv, TypeInv, TypeOK, Equipped, PlacedWhole,
         Unplaced, CreatedDurable, Uploading, Gap, PCs, Goto, Respond, table, files,
         temps, threads, cleanup, told
<1>1. CASE NotDue(w) BY <1>1 DEF NotDue
<1>2. CASE RequestCleanup(w) BY <1>2 DEF RequestCleanup, Snapshot
<1>3. CASE Refuse(w) BY <1>3 DEF Refuse
<1>4. CASE \E d \in Dests : Reserve(w, d) BY <1>4 DEF Reserve, FreshDest
<1>5. CASE Conflict(w) BY <1>5 DEF Conflict
<1>6. CASE Lookup(w) BY <1>6 DEF Lookup, Stored, IsFile
<1>7. CASE Adopt(w) BY <1>7 DEF Adopt, SetCompleted
<1>8. CASE \E t \in Temps : Register(w, t) BY <1>8 DEF Register
<1>9. CASE Open(w) BY <1>9 DEF Open
<1>10. CASE ReceiveAll(w) BY <1>10 DEF ReceiveAll
<1>11. CASE ReceiveShort(w) BY <1>11 DEF ReceiveShort
<1>12. CASE Sync(w) BY <1>12 DEF Sync
<1>13. CASE Place(w) BY <1>13 DEF Place
<1>14. CASE SyncDirectory(w) BY <1>14 DEF SyncDirectory
<1>15. CASE Complete(w) BY <1>15 DEF Complete, SetCompleted
<1>16. CASE Unlink(w) BY <1>16 DEF Unlink
<1>17. CASE Undo(w) BY <1>17 DEF Undo
<1>18. CASE Finish(w) BY <1>18 DEF Finish
<1>19. CASE ReserveFails(w) BY <1>19 DEF ReserveFails
<1>20. CASE UploadFails(w) BY <1>20 DEF UploadFails
<1>21. CASE UndoFails(w) BY <1>21 DEF UndoFails
<1>22. CASE MakeFolder(w) BY <1>22 DEF MakeFolder
<1>. QED BY <1>1, <1>2, <1>3, <1>4, <1>5, <1>6, <1>7, <1>8, <1>9, <1>10,
         <1>11, <1>12, <1>13, <1>14, <1>15, <1>16, <1>17, <1>18, <1>19, <1>20,
         <1>21, <1>22 DEF Step, ThreadFails

LEMMA SystemKeepsAnswers ==
  ASSUME AnswerInv, TypeInv', System
  PROVE  (OwnPaths /\ Honest)'
PROOF
<1>. USE NoneAssumption, RunnerAssumption
     DEF AnswerInv, OwnPaths, Honest, HasFile, DiskInv, TypeInv, TypeOK, Equipped, PlacedWhole,
         Unplaced, CreatedDurable, Uploading, Gap, PCs, Goto, Respond, table, files,
         temps, threads, cleanup, told
<1>1. CASE LoopCleanup BY <1>1 DEF LoopCleanup, Snapshot
<1>2. CASE BootCleanup BY <1>2 DEF BootCleanup, Snapshot
<1>3. CASE CleanTemps BY <1>3 DEF CleanTemps
<1>4. CASE SelectRows BY <1>4 DEF SelectRows, Selected
<1>5. CASE \E k \in Keys : CheckRow(k) BY <1>5 DEF CheckRow, VerdictOf, IsFile
<1>6. CASE LockDatabase BY <1>6 DEF LockDatabase
<1>7. CASE CommitRows BY <1>7 DEF CommitRows, CleanupReturns, Written
<1>8. CASE Recover BY <1>8 DEF Recover, Resolved, IsFile
<1>9. CASE \E w \in Workers, k \in Keys : Arrive(w, k) BY <1>9 DEF Arrive
<1>10. CASE \E k \in Keys : RowAges(k) BY <1>10 DEF RowAges
<1>11. CASE \E t \in Temps : TempAges(t) BY <1>11 DEF TempAges
<1>12. CASE CleanupFails BY <1>12 DEF CleanupFails, CleanupReturns
<1>13. CASE Crash BY <1>13 DEF Crash, Stop, CleanupReturns
<1>14. CASE PowerLoss BY <1>14 DEF PowerLoss, Stop, CleanupReturns
<1>. QED BY <1>1, <1>2, <1>3, <1>4, <1>5, <1>6, <1>7, <1>8, <1>9, <1>10,
         <1>11, <1>12, <1>13, <1>14 DEF System, Calm, Cleaning

(* A file of a completed row is lost to the power only, and an answer about *)
(* a row that has its file is true.                                         *)
FilesKept == \A k \in Keys : HasItsFile(k) => HasItsFile(k)' \/ PowerLoss
Told == \A a \in answered' \ answered :
          HasItsFile(a[1]) => \E d \in Dests : library'[d] = a[1]

LEMMA StepsAreTrue == ASSUME AnswerInv, Next PROVE FilesKept /\ Told
PROOF
<1>. USE DEF AnswerInv, Honest, FilesKept, Told, HasItsFile, HasFile, table, files, temps, threads, cleanup, told
<1>1. CASE System
  <2>1. UNCHANGED answered
    BY <1>1
    DEF System, Calm, Arrive, Recover, Cleaning, LoopCleanup, BootCleanup, Snapshot, CleanTemps,
        SelectRows, CheckRow, LockDatabase, CommitRows, RowAges, TempAges, CleanupFails, Crash,
        PowerLoss, Stop
  <2>2. CASE Crash BY <2>1, <2>2 DEF Crash, Stop
  <2>3. CASE CommitRows BY <2>1, <2>3 DEF CommitRows, Written, DiskInv, TypeInv, TypeOK
  <2>4. CASE Recover
    BY <2>1, <2>4 DEF Recover, Resolved, IsFile, OwnPaths, DiskInv, TypeInv, TypeOK
  <2>5. CASE UNCHANGED <<state, library>> BY <2>1, <2>5
  <2>6. CASE PowerLoss BY <2>1, <2>6
  <2>. QED BY <1>1, <2>2, <2>3, <2>4, <2>5, <2>6
       DEF System, Calm, Arrive, Cleaning, LoopCleanup, BootCleanup, Snapshot, CleanTemps,
           SelectRows, CheckRow, LockDatabase, RowAges, TempAges, CleanupFails
<1>2. ASSUME NEW w \in Workers, Step(w) \/ ThreadFails(w) PROVE FilesKept /\ Told
  <2>. USE DEF DiskInv, TypeInv, TypeOK, Equipped, Goto, Respond
  <2>1. CASE Finish(w)
    <3>1. FilesKept BY <2>1 DEF Finish
    <3>2. ASSUME NEW a \in answered' \ answered, HasItsFile(a[1]) PROVE HasFile(a[1])
      <4>1. a = <<key[w], reply[w]>> /\ reply[w] \in {"201", "409"} BY <2>1, <3>2 DEF Finish
      <4>2. key[w] \in Keys BY <2>1 DEF Finish
      <4>3. CASE reply[w] = "201" BY <4>1, <4>3 DEF CreatedDurable, Durable
      <4>4. CASE reply[w] = "409" BY <3>2, <4>1, <4>4
      <4>. QED BY <4>1, <4>3, <4>4
    <3>. QED BY <2>1, <3>1, <3>2 DEF Finish
  <2>2. CASE ~Finish(w)
    <3>1. UNCHANGED answered
      BY <1>2, <2>2
      DEF Step, ThreadFails, NotDue, RequestCleanup, Snapshot, Refuse, Reserve, Conflict, Lookup,
          Adopt, Register, Open, ReceiveAll, ReceiveShort, Sync, MakeFolder, Place, SyncDirectory, Complete,
          Unlink, Undo, ReserveFails, UploadFails, UndoFails
    <3>2. CASE Adopt(w) BY <3>1, <3>2 DEF Adopt, SetCompleted
    <3>3. CASE Complete(w)
      BY <3>1, <3>3 DEF Complete, SetCompleted, CreatedDurable, PlacedWhole, Uploading
    <3>4. CASE Place(w)
      BY <3>1, <3>4, NoneAssumption DEF Place, PlacedWhole, Unplaced, Uploading, Gap
    <3>5. CASE /\ UNCHANGED library
               /\ \A k \in Keys : state'[k] = "completed" => state[k] = "completed"
      BY <3>1, <3>5
    <3>6. \/ Adopt(w) \/ Complete(w) \/ Place(w)
          \/ /\ UNCHANGED library
             /\ \A k \in Keys : state'[k] = "completed" => state[k] = "completed"
      BY <1>2, <2>2
      DEF Step, ThreadFails, NotDue, RequestCleanup, Snapshot, Refuse, Reserve, Conflict, Lookup,
          Register, Open, ReceiveAll, ReceiveShort, Sync, MakeFolder, SyncDirectory,
          Unlink, Undo, ReserveFails, UploadFails, UndoFails
    <3>. QED BY <3>2, <3>3, <3>4, <3>5, <3>6
  <2>. QED BY <2>1, <2>2
<1>. HIDE DEF FilesKept, Told
<1>. QED BY <1>1, <1>2 DEF Next

LEMMA AnswerInvariant == Spec => []AnswerInv
PROOF
<1>1. Init => OwnPaths /\ Honest BY DEF Init, OwnPaths, Honest
<1>2. AnswerInv /\ DiskInv' /\ [Next]_vars => AnswerInv'
  <2>1. AnswerInv /\ UNCHANGED vars => (OwnPaths /\ Honest)'
    BY DEF AnswerInv, OwnPaths, Honest, HasFile, vars, table, files, threads, cleanup, told
  <2>. QED BY <2>1, ThreadKeepsAnswers, SystemKeepsAnswers DEF Next, AnswerInv, DiskInv
<1>3. Init /\ DiskInv => AnswerInv BY <1>1 DEF AnswerInv
<1>. QED BY <1>2, <1>3, DiskInvariant, PTL DEF Spec

(* Who is told that its file is stored finds it in the library, even when a *)
(* thread stalls until a cleanup has taken its reservation.                 *)
THEOREM AnswersAreTrue == Spec => AnsweredHasFile
PROOF
<1>1. AnswerInv /\ [Next]_vars =>
        [/\ \A k \in Keys : HasItsFile(k) => HasItsFile(k)' \/ server' = "down"
         /\ Told]_vars
  BY StepsAreTrue DEF FilesKept, PowerLoss, Stop
<1>. QED BY <1>1, AnswerInvariant, PTL DEF Spec, AnsweredHasFile, Told

(* Without power losses, a 409 is always about a file that is there, even   *)
(* when threads stall and disks fail.                                       *)
THEOREM ConflictsAreStored == ASSUME "power" \notin Faults PROVE Spec => ConflictIsStored
PROOF
<1>. DEFINE Files == \A k \in Keys : HasItsFile(k)
            True409 == \A k \in Keys : <<k, "409">> \in answered' \ answered =>
                                       \E d \in Dests : library'[d] = k
<1>1. Init => Files BY DEF Init, HasItsFile
<1>2. AnswerInv /\ Files /\ [Next]_vars => Files' /\ [True409]_vars
  <2>1. ASSUME AnswerInv, Files, Next PROVE Files' /\ True409
    <3>1. ~PowerLoss BY DEF PowerLoss
    <3>2. FilesKept /\ Told BY <2>1, StepsAreTrue
    <3>. QED BY <2>1, <3>1, <3>2 DEF FilesKept, Told
  <2>2. Files /\ UNCHANGED vars => Files' BY DEF HasItsFile, vars, table, files
  <2>. QED BY <2>1, <2>2
<1>3. Spec => []Files
  <2>. HIDE DEF Files
  <2>. QED BY <1>1, <1>2, AnswerInvariant, PTL DEF Spec
<1>. QED BY <1>2, <1>3, AnswerInvariant, PTL DEF Spec, ConflictIsStored

-----------------------------------------------------------------------------
(* Refinement: the renaming of the temporary file saves a key, the sync of  *)
(* its directory keeps it, writes of the table settle keys, the answer of a *)
(* request tells, a power loss loses; every other step is invisible.        *)

SavedAt(k) == {d \in Dests : library[d] = k}
Saved == [k \in Keys |-> SavedAt(k)]
Kept == {k \in Keys : Durable(k)}
Firmly == {k \in Keys : Firm(k)}
StoreInv == FileInv /\ DiskInv

(* Place is Save, unless the temporary file is gone. *)
LEMMA PlaceSaves ==
  ASSUME StoreInv, NEW w \in Workers, Place(w), temp[tmp[w]] # "none"
  PROVE  \E k \in Keys, d \in Dests : Store!Save(k, d)
PROOF
<1>. USE DEF StoreInv, FileInv, OwnInv, TypeInv, TypeOK, files, table
<1>1. /\ key[w] \in Keys /\ dest[w] \in Dests
      /\ library[dest[w]] = None /\ place[key[w]] = dest[w] /\ state[key[w]] = "pending"
  BY DEF Place, Equipped, Progress, Unplaced, UploadKeepsReservation, Uploading
<1>2. /\ library' = [library EXCEPT ![dest[w]] = key[w]]
      /\ UNCHANGED <<synced, folder, state, answered, pledged>>
  BY DEF Place, told
<1>3. SavedAt(key[w]) = {} BY <1>1, NoneAssumption DEF SavedAt, NoUntrackedFile
<1>4. \A k \in Keys : SavedAt(k)' = IF k = key[w] THEN {dest[w]} ELSE SavedAt(k)
  BY <1>1, <1>2, <1>3, NoneAssumption DEF SavedAt
<1>5. \A k \in Keys : (Durable(k)' <=> Durable(k)) /\ (Firm(k)' <=> Firm(k))
  BY <1>1, <1>2, NoneAssumption DEF Durable, Firm, DiskInv, CreatedDurable
<1>6. Saved' = [Saved EXCEPT ![key[w]] = {dest[w]}] BY <1>1, <1>4 DEF Saved
<1>7. Kept' = Kept /\ Firmly' = Firmly BY <1>5 DEF Kept, Firmly
<1>8. Saved[key[w]] = {} BY <1>1, <1>3 DEF Saved
<1>9. PICK k \in Keys, d \in Dests : k = key[w] /\ d = dest[w] BY <1>1
<1>10. Store!Save(k, d)
  BY <1>1, <1>2, <1>6, <1>7, <1>8, <1>9 DEF Store!Save, Store!IsSaved, Saved, Kept, Firmly, SavedAt,
                                           Durable, Firm
<1>. QED BY <1>10

(* SyncDirectory is Keep. *)
LEMMA SyncKeeps ==
  ASSUME StoreInv, NEW w \in Workers, SyncDirectory(w)
  PROVE  \E k \in Keys : Store!Keep(k)
PROOF
<1>. USE DEF StoreInv, FileInv, OwnInv, TypeInv, TypeOK, files, table
<1>1. key[w] \in Keys /\ dest[w] \in Dests /\ library[dest[w]] = key[w]
  BY DEF SyncDirectory, Equipped, Progress, Uploading
<1>2. synced' = synced \cup {dest[w]} /\ UNCHANGED <<library, folder, state, answered, pledged>>
  BY DEF SyncDirectory, told
<1>3. \A k \in Keys : Durable(k)' <=> Durable(k) \/ k = key[w] BY <1>1, <1>2 DEF Durable
<1>4. \A k \in Keys :
        Firm(k)' <=> Firm(k) \/ (k = key[w] /\ folder[FolderOf[dest[w]]] = "kept")
  BY <1>1, <1>2 DEF Firm
<1>5. Kept' = Kept \cup {key[w]} BY <1>1, <1>3 DEF Kept
<1>6. Firmly' \in {Firmly, Firmly \cup {key[w]}} BY <1>1, <1>4 DEF Firmly
<1>. QED BY <1>1, <1>2, <1>5, <1>6 DEF Store!Keep, Store!IsSaved, Kept, Firmly, Durable, Firm

(* What completes rows is Settle, if they have their files. *)
LEMMA CompletingSettles ==
  ASSUME StoreInv, [Next]_vars, UNCHANGED <<library, synced, folder, told>>,
         \A k \in Keys : state'[k] = "completed" => state[k] = "completed" \/ HasFile(k)
  PROVE  Store!Settle
PROOF
<1>. DEFINE new == {k \in Keys : state'[k] = "completed" /\ state[k] # "completed"}
<1>1. \A k \in Keys : state[k] = "completed" => state'[k] = "completed"
  BY CompletedKept DEF StoreInv
<1>2. new \in SUBSET {k \in Keys : Store!IsSaved(k)} BY DEF Store!IsSaved, HasFile
<1>3. {k \in Keys : state'[k] = "completed"} = {k \in Keys : state[k] = "completed"} \cup new
  BY <1>1
<1>. QED BY <1>2, <1>3 DEF Store!Settle, told

(* Finish is Tell, or the answer is neither 201 nor 409. *)
LEMMA FinishTells ==
  ASSUME StoreInv, NEW w \in Workers, Finish(w)
  PROVE  \/ \E k \in Keys, status \in {"201", "409"} : Store!Tell(k, status)
         \/ UNCHANGED <<library, synced, folder, state, told>>
PROOF
<1>1. UNCHANGED <<library, synced, folder, state>> /\ key[w] \in Keys
  BY DEF Finish, files, table, StoreInv, DiskInv, TypeInv, Equipped
<1>2. CASE reply[w] \notin {"201", "409"} BY <1>1, <1>2 DEF Finish, told
<1>3. CASE reply[w] \in {"201", "409"}
  <2>1. answered' = answered \cup {<<key[w], reply[w]>>} BY <1>3 DEF Finish
  <2>2. state[key[w]] = "completed" BY <1>3 DEF StoreInv, FileInv, Truthful
  <2>3. reply[w] = "201" =>
          /\ Durable(key[w])
          /\ Firm(key[w]) <=> folder[FolderOf[dest[w]]] = "kept"
    <3>1. \A d, e \in Dests : library[d] = key[w] /\ library[e] = key[w] => d = e
      BY <1>1, NoneAssumption DEF StoreInv, FileInv, NoUntrackedFile
    <3>. QED BY <3>1 DEF StoreInv, DiskInv, TypeInv, TypeOK, CreatedDurable, Durable, Firm
  <2>4. pledged' = pledged \cup {k \in {key[w]} \cap Firmly : reply[w] = "201"}
    BY <1>1, <2>3 DEF Finish, Firmly
  <2>5. Store!Tell(key[w], reply[w])
    BY <1>1, <2>1, <2>2, <2>3, <2>4 DEF Store!Tell, Durable, Firm, Firmly
  <2>. QED BY <1>1, <1>3, <2>5
<1>. QED BY <1>2, <1>3

(* PowerLoss is Lose: a key has one file at most, which is lost or is not. *)
LEMMA PowerLossLoses == ASSUME StoreInv, PowerLoss PROVE Store!Lose
PROOF
<1>. USE DEF StoreInv, FileInv, OwnInv, TypeInv, TypeOK, files, table
<1>1. PICK gone \in SUBSET Dests :
        /\ library' = [d \in Dests |-> IF d \in gone THEN None ELSE library[d]]
        /\ \A d \in gone : ~(d \in synced /\ folder[FolderOf[d]] = "kept")
        /\ \A d \in Dests \ gone : folder[FolderOf[d]] # "none" => folder'[FolderOf[d]] = "kept"
  <2>1. PICK lost \in SUBSET {f \in Folders : folder[f] = "made"},
             torn \in SUBSET {d \in Dests : library[d] # None /\ d \notin synced} :
          LET gone == torn \cup {d \in Dests : FolderOf[d] \in lost}
          IN /\ folder' = [f \in Folders |-> IF f \in lost THEN "none"
                              ELSE IF folder[f] = "made" THEN "kept" ELSE folder[f]]
             /\ library' = [d \in Dests |-> IF d \in gone THEN None ELSE library[d]]
    BY DEF PowerLoss
  <2>. DEFINE gone == torn \cup {d \in Dests : FolderOf[d] \in lost}
  <2>2. library' = [d \in Dests |-> IF d \in gone THEN None ELSE library[d]] BY <2>1
  <2>3. \A d \in gone : ~(d \in synced /\ folder[FolderOf[d]] = "kept") OBVIOUS
  <2>4. \A d \in Dests \ gone : folder[FolderOf[d]] # "none" => folder'[FolderOf[d]] = "kept"
    BY <2>1, FolderAssumption
  <2>. QED BY <2>2, <2>3, <2>4
<1>2. synced' = {d \in Dests : library'[d] # None} /\ UNCHANGED <<state, answered, pledged>>
  BY DEF PowerLoss, Stop, told
<1>. DEFINE lost == {k \in Keys : \E d \in gone : library[d] = k}
<1>3. \A k \in Keys : \A d, e \in Dests : library[d] = k /\ library[e] = k => d = e
  BY NoneAssumption DEF NoUntrackedFile
<1>4. lost \in SUBSET (Keys \ Firmly) BY <1>1, <1>3 DEF Firm, Firmly
<1>5. \A k \in Keys : SavedAt(k)' = IF k \in lost THEN {} ELSE SavedAt(k)
  <2>1. \A k \in Keys : SavedAt(k)' = {d \in Dests : library[d] = k /\ d \notin gone}
    BY <1>1, NoneAssumption DEF SavedAt
  <2>. QED BY <1>3, <2>1 DEF SavedAt
<1>6. \A d \in Dests : library'[d] # None => folder'[FolderOf[d]] = "kept"
  BY <1>1, FolderAssumption DEF DiskInv, CreatedDurable
<1>7. \A k \in Keys : (Durable(k)' <=> SavedAt(k)' # {}) /\ (Firm(k)' <=> SavedAt(k)' # {})
  <2>. SUFFICES ASSUME NEW k \in Keys
       PROVE  /\ (\E d \in synced' : library'[d] = k) <=> SavedAt(k)' # {}
              /\ (\E d \in synced' : library'[d] = k /\ folder'[FolderOf[d]] = "kept")
                   <=> SavedAt(k)' # {}
    BY DEF Durable, Firm
  <2>1. SavedAt(k)' = {d \in Dests : library'[d] = k} BY DEF SavedAt
  <2>. QED BY <1>2, <1>6, <2>1, NoneAssumption
<1>8. Saved' = [k \in Keys |-> IF k \in lost THEN {} ELSE Saved[k]] BY <1>5 DEF Saved
<1>9. Kept' = {k \in Keys : Saved'[k] # {}} /\ Firmly' = Kept' BY <1>7 DEF Saved, Kept, Firmly
<1>10. UNCHANGED <<{k \in Keys : state[k] = "completed"}, answered, pledged>> BY <1>2
<1>. QED
  <2>. HIDE DEF lost
  <2>1. "power" \in Faults BY DEF PowerLoss
  <2>2. \E l \in SUBSET (Keys \ Firmly) : Saved' = [k \in Keys |-> IF k \in l THEN {} ELSE Saved[k]]
    BY <1>4, <1>8
  <2>3. UNCHANGED <<{k \in Keys : state[k] = "completed"}, answered, pledged>> BY <1>10
  <2>. QED BY <1>9, <2>1, <2>2, <2>3, Zenon DEF Store!Lose, Saved, Kept, Firmly, SavedAt, Durable, Firm

(* Every step is a step of the store, or none.                              *)
LEMMA StepsImplementStore ==
  ASSUME StoreInv, [Next]_vars PROVE [Store!StoreNext]_(Store!storeVars)
PROOF
<1>. USE DEF StoreInv, FileInv, OwnInv, TypeInv, TypeOK, files, table
<1>1. CASE UNCHANGED <<library, synced, folder, state, told>> BY <1>1 DEF Store!storeVars, told
<1>2. CASE /\ UNCHANGED <<library, synced, folder, told>>
           /\ \A k \in Keys : state'[k] = "completed" => state[k] = "completed" \/ HasFile(k)
  BY <1>2, CompletingSettles DEF Store!StoreNext
<1>3. ASSUME NEW w \in Workers, Step(w) \/ ThreadFails(w)
      PROVE  [Store!StoreNext]_(Store!storeVars)
  <2>1. CASE Place(w)
    <3>1. CASE temp[tmp[w]] = "none" BY <1>1, <2>1, <3>1 DEF Place
    <3>2. CASE temp[tmp[w]] # "none" BY <2>1, <3>2, PlaceSaves DEF Store!StoreNext
    <3>. QED BY <3>1, <3>2
  <2>2. CASE SyncDirectory(w) BY <2>2, SyncKeeps DEF Store!StoreNext
  <2>3. CASE Finish(w) BY <1>1, <2>3, FinishTells DEF Store!StoreNext
  <2>4. CASE Adopt(w)
    <3>1. key[w] \in Keys /\ HasFile(key[w])
      BY <2>4, NoneAssumption DEF Adopt, Equipped, Truthful, RowsOK, HasFile
    <3>. QED BY <1>2, <2>4, <3>1 DEF Adopt, SetCompleted
  <2>5. CASE Complete(w)
    <3>1. key[w] \in Keys /\ HasFile(key[w])
      BY <2>5 DEF Complete, Equipped, Progress, Uploading, HasFile
    <3>. QED BY <1>2, <2>5, <3>1 DEF Complete, SetCompleted
  <2>6. CASE Undo(w) \/ \E d \in Dests : Reserve(w, d) BY <1>2, <2>6 DEF Undo, Reserve
  <2>7. CASE \/ NotDue(w) \/ RequestCleanup(w) \/ Refuse(w) \/ Conflict(w) \/ Lookup(w)
             \/ \E t \in Temps : Register(w, t)
    BY <1>1, <2>7 DEF NotDue, RequestCleanup, Snapshot, Refuse, Conflict, Lookup, Register
  <2>8. CASE Open(w) \/ ReceiveAll(w) \/ ReceiveShort(w) \/ Sync(w) \/ Unlink(w)
    BY <1>1, <2>8 DEF Open, ReceiveAll, ReceiveShort, Sync, Unlink
  <2>9. CASE ThreadFails(w)
    BY <1>1, <2>9 DEF ThreadFails, ReserveFails, UploadFails, UndoFails
  <2>10. CASE MakeFolder(w)
    <3>1. UNCHANGED <<library, synced, state, answered, pledged>> BY <2>10 DEF MakeFolder, told
    <3>2. \A f \in Folders : folder'[f] = "kept" <=> folder[f] = "kept" BY <2>10 DEF MakeFolder
    <3>3. Firmly' = Firmly BY <3>1, <3>2, FolderAssumption DEF Firmly, Firm
    <3>. QED BY <3>1, <3>3 DEF Store!storeVars, Firmly, Firm
  <2>. QED BY <1>3, <2>1, <2>2, <2>3, <2>4, <2>5, <2>6, <2>7, <2>8, <2>9, <2>10 DEF Step
<1>4. CASE System
  <2>1. CASE PowerLoss BY <2>1, PowerLossLoses DEF Store!StoreNext
  <2>2. CASE CommitRows
    <3>1. \A k \in Keys : verdict[k] = "complete" => HasFile(k)
      BY NoneAssumption DEF Verdicts, CleanerRows, RowsOK, HasFile
    <3>. QED BY <1>2, <2>2, <3>1 DEF CommitRows, Written
  <2>3. CASE Recover
    <3>1. \A k \in Keys : IsFile(place[k]) => HasFile(k)
      BY NoneAssumption DEF IsFile, NoUntrackedFile, RowsOK, HasFile
    <3>. QED BY <1>2, <2>3, <3>1 DEF Recover, Resolved
  <2>4. CASE Crash \/ CleanupFails BY <1>1, <2>4 DEF Crash, Stop, CleanupFails
  <2>5. CASE LoopCleanup \/ BootCleanup \/ CleanTemps \/ SelectRows \/ LockDatabase
             \/ \E k \in Keys : CheckRow(k)
    BY <1>1, <2>5
    DEF LoopCleanup, BootCleanup, Snapshot, CleanTemps, SelectRows, LockDatabase, CheckRow
  <2>6. CASE \/ \E w \in Workers, k \in Keys : Arrive(w, k)
             \/ \E k \in Keys : RowAges(k)
             \/ \E t \in Temps : TempAges(t)
    BY <1>1, <2>6 DEF Arrive, RowAges, TempAges
  <2>. QED BY <1>4, <2>1, <2>2, <2>3, <2>4, <2>5, <2>6 DEF System, Calm, Cleaning
<1>5. CASE UNCHANGED vars BY <1>1, <1>5 DEF vars
<1>. QED BY <1>3, <1>4, <1>5 DEF Next

(* The media backup implements the idempotent store under crashes, disk     *)
(* errors and power losses, unless an upload stalls before its registration. *)
THEOREM BackupImplementsStore == ASSUME "stall" \notin Faults PROVE Spec => Implements
PROOF
<1>1. Init => Store!StoreInit BY NoneAssumption DEF Init, Store!StoreInit
<1>2. StoreInv /\ [Next]_vars => [Store!StoreNext]_(Store!storeVars) BY StepsImplementStore
<1>3. Spec => []StoreInv BY FileInvariant, DiskInvariant, PTL DEF StoreInv
<1>. QED BY <1>1, <1>2, <1>3, PTL DEF Spec, Implements, Store!StoreSpec

(* What holds of every store holds of this one. *)
StoreTheory == INSTANCE MediaStoreProofs
                 WITH Lossy <- "power" \in Faults,
                      saved <- [k \in Keys |-> {d \in Dests : library[d] = k}],
                      kept <- {k \in Keys : \E d \in synced : library[d] = k},
                      firm <- {k \in Keys : \E d \in synced :
                                        library[d] = k /\ folder[FolderOf[d]] = "kept"},
                      settled <- {k \in Keys : state[k] = "completed"},
                      told <- answered

(* What a client was told about its file stays true, as the store that the  *)
(* backup implements keeps its promise.                                     *)
THEOREM AnswersStayTrue == ASSUME "stall" \notin Faults PROVE Spec => []PromiseKept
PROOF
<1>1. StoreTheory!StoreSpec => []StoreTheory!Promise BY StoreTheory!StoreKeepsPromise
<1>2. Store!StoreInit => StoreTheory!StoreInit BY DEF Store!StoreInit, StoreTheory!StoreInit
<1>3. [Store!StoreNext]_(Store!storeVars) => [StoreTheory!StoreNext]_(StoreTheory!storeVars)
  BY DEF Store!StoreNext, Store!storeVars, StoreTheory!StoreNext, StoreTheory!storeVars,
         Store!Save, Store!Keep, Store!Settle, Store!Tell, Store!Lose, Store!IsSaved,
         StoreTheory!Save, StoreTheory!Keep, StoreTheory!Settle, StoreTheory!Tell,
         StoreTheory!Lose, StoreTheory!IsSaved
<1>4. StoreTheory!Promise => PromiseKept
  BY DEF PromiseKept, Store!Promise, Store!IsSaved, StoreTheory!Promise, StoreTheory!IsSaved
<1>. QED
  BY <1>1, <1>2, <1>3, <1>4, BackupImplementsStore, PTL
     DEF Implements, Store!StoreSpec, StoreTheory!StoreSpec
=============================================================================
