----------------------------- MODULE MediaBackup -----------------------------
(***************************************************************************)
(* The media backup of OwnNode Agent (pi_backend/media_backup.py): upload   *)
(* requests served by concurrent threads, the SQLite table of idempotency   *)
(* keys, the library and the temporary directory, the stale-upload cleaner  *)
(* and the recovery a restarted server runs.                                *)
(*                                                                          *)
(* A step is one database statement, one file-system call or one critical   *)
(* section of the code; local computation belongs to the step before it.    *)
(* A UUID the code draws is any element of the finite set that nothing      *)
(* refers to any more.                                                      *)
(*                                                                          *)
(* Time is abstract.  A row, or a temporary file, is "stale" when it is     *)
(* older than the cutoff of the cleanup in progress or, when there is none, *)
(* of one that would start now.  As the cutoff is read once, at the start   *)
(* of a cleanup, nothing becomes stale while a cleanup is in progress.      *)
(***************************************************************************)
EXTENDS Naturals, FiniteSets

CONSTANTS Keys,      \* idempotency keys
          Dests,     \* destination paths (uuid4 names below the root)
          Folders,   \* folders of the library: device, year, month
          FolderOf,  \* the folder of each destination
          Temps,     \* temporary paths (uuid4 names with suffix .upload)
          Workers,   \* request-handling threads of the HTTP server
          None,      \* no key, no path, no thread
          Faults     \* the faults of the environment that may happen

(***************************************************************************)
(* crash: the process dies.  power: the machine loses power.  io: a         *)
(* file-system call or SQLite statement raises.  stall: a reservation gets  *)
(* as old as temp_max_age_seconds (24 h by default) before its thread       *)
(* registers the upload: the thread is not scheduled, or the wall clock     *)
(* steps forward under it.                                                  *)
(***************************************************************************)
ASSUME FaultsAssumption == Faults \subseteq {"crash", "power", "io", "stall"}
ASSUME NoneAssumption == None \notin Keys \cup Dests \cup Temps \cup Workers
ASSUME FolderAssumption == FolderOf \in [Dests -> Folders]
ASSUME RunnerAssumption == {"loop", "boot"} \cap (Workers \cup {None}) = {}

VARIABLES
  server,    \* "down", "boot" (MediaBackupService.__init__) or "up"
  \* the table media_uploads, a function per column
  state,     \* "none" (there is no row), "pending" or "completed"
  place,     \* column destination
  stale,     \* the keys whose row is older than the cutoff
  \* the file systems
  library,   \* library[d]: the key whose file is at d, or None
  content,   \* content[d]: what the file at d holds
  synced,    \* the destinations whose entry in its folder is on the disk
  folder,    \* "none", "made" (it or a folder above it is not on the disk
             \* yet and goes with the power) or "kept"
  temp,      \* temp[t]: what the temporary file t holds, "none" if no file
  staleTemp, \* the temporary files older than the cutoff
  \* the threads
  active,    \* _active_uploads: temporary path -> key
  pc,        \* where each thread is in store()
  key, dest, tmp, reply,  \* its request's key, its paths, its response
  \* the cleanup in progress
  cleaner,   \* where cleanup_stale_uploads is
  runner,    \* the thread that runs it and holds _cleanup_lock
  seenKeys, seenTemps,    \* its copies of _active_uploads
  picked,    \* the selected rows it has not looked at: key -> destination
  verdict,   \* its uncommitted writes
  locked,    \* its transaction holds the database's write lock
  \* history
  answered,  \* <<key, status>> of every 201 and 409 sent
  pledged    \* the keys answered 201 when the folder of the file was kept

table   == <<state, place, stale>>
files   == <<library, content, synced, folder>>
temps   == <<temp, staleTemp>>
threads == <<pc, key, dest, tmp, reply>>
cleanup == <<cleaner, runner, seenKeys, seenTemps, picked, verdict, locked>>
told    == <<answered, pledged>>

vars == <<server, table, files, temps, active, threads, cleanup, told>>

Contents == {"none", "partial", "written", "synced"}
PCs == {"idle", "begin", "cleanup", "reserve", "lookup", "adopt", "register",
        "open", "stream", "sync", "mkdir", "place", "syncdir", "complete",
        "unlink", "undo", "finish"}
Replies == {"none", "201", "409", "503", "failed"}

(* Where a thread owns the reservation of its key. *)
Uploading == {"register", "open", "stream", "sync", "mkdir", "place",
              "syncdir", "complete", "unlink", "undo"}
(* The gap between _reserve and the registration in _active_uploads. *)
Gap == {"register"}

TypeOK ==
  /\ server \in {"down", "boot", "up"}
  /\ state \in [Keys -> {"none", "pending", "completed"}]
  /\ place \in [Keys -> Dests \cup {None}]
  /\ stale \subseteq Keys
  /\ library \in [Dests -> Keys \cup {None}]
  /\ content \in [Dests -> Contents]
  /\ synced \subseteq Dests
  /\ folder \in [Folders -> {"none", "made", "kept"}]
  /\ temp \in [Temps -> Contents]
  /\ staleTemp \subseteq Temps
  /\ active \in [Temps -> Keys \cup {None}]
  /\ pc \in [Workers -> PCs]
  /\ key \in [Workers -> Keys \cup {None}]
  /\ dest \in [Workers -> Dests \cup {None}]
  /\ tmp \in [Workers -> Temps \cup {None}]
  /\ reply \in [Workers -> Replies]
  /\ cleaner \in {"idle", "temps", "select", "rows"}
  /\ runner \in Workers \cup {"loop", "boot", None}
  /\ seenKeys \subseteq Keys
  /\ seenTemps \subseteq Temps
  /\ picked \in [Keys -> Dests \cup {None}]
  /\ verdict \in [Keys -> {"none", "complete", "delete"}]
  /\ locked \in BOOLEAN
  /\ answered \subseteq Keys \X {"201", "409"}
  /\ pledged \subseteq Keys

Init ==
  /\ server = "down"
  /\ state = [k \in Keys |-> "none"]
  /\ place = [k \in Keys |-> None]
  /\ stale = {}
  /\ library = [d \in Dests |-> None]
  /\ content = [d \in Dests |-> "none"]
  /\ synced = {}
  /\ folder \in [Folders -> {"none", "kept"}]
  /\ temp = [t \in Temps |-> "none"]
  /\ staleTemp = {}
  /\ active = [t \in Temps |-> None]
  /\ pc = [w \in Workers |-> "idle"]
  /\ key = [w \in Workers |-> None]
  /\ dest = [w \in Workers |-> None]
  /\ tmp = [w \in Workers |-> None]
  /\ reply = [w \in Workers |-> "none"]
  /\ cleaner = "idle"
  /\ runner = None
  /\ seenKeys = {} /\ seenTemps = {}
  /\ picked = [k \in Keys |-> None]
  /\ verdict = [k \in Keys |-> "none"]
  /\ locked = FALSE
  /\ answered = {} /\ pledged = {}

-----------------------------------------------------------------------------
(* Helpers *)

IsFile(d) == d # None /\ library[d] # None

FreshDest(d) == /\ library[d] = None
                /\ \A k \in Keys : place[k] # d /\ picked[k] # d
                /\ \A w \in Workers : dest[w] # d

FreshTemp(t) == /\ temp[t] = "none" /\ active[t] = None
                /\ \A w \in Workers : tmp[w] # t

Goto(w, l) == pc' = [pc EXCEPT ![w] = l]

(* Leave store() for the handler, which sends the response r. *)
Respond(w, r) == Goto(w, "finish") /\ reply' = [reply EXCEPT ![w] = r]

(* A statement that writes the table, in a transaction of its own. *)
CanWrite == ~locked

SetCompletedTypo(k) == state' = [state EXCEPT ![k] = "complete"]  \* mutant: not in the CHECK
SetCompleted(k) == state' = [state EXCEPT ![k] = IF @ = "none" THEN @ ELSE "completed"]

-----------------------------------------------------------------------------
(* store(): one upload request *)

(* A thread of the HTTP server starts on an authorized upload of key k. *)
Arrive(w, k) ==
  /\ server = "up" /\ pc[w] = "idle"
  /\ Goto(w, "begin")
  /\ key' = [key EXCEPT ![w] = k]
  /\ UNCHANGED <<server, table, files, temps, active, dest, tmp, reply, cleanup, told>>

(* cleanup_if_due returns at once: it is not due, or another thread holds   *)
(* _cleanup_lock.                                                           *)
NotDue(w) ==
  /\ pc[w] = "begin"
  /\ Goto(w, "reserve")
  /\ UNCHANGED <<server, table, files, temps, active, key, dest, tmp, reply, cleanup, told>>

(* Invalid metadata (size, MIME type, capture time): a 4xx. *)
Refuse(w) ==
  /\ pc[w] = "reserve"
  /\ Respond(w, "failed")
  /\ UNCHANGED <<server, table, files, temps, active, key, dest, tmp, cleanup, told>>

(* _reserve: the INSERT finds no row with this key. *)
Reserve(w, d) ==
  /\ pc[w] = "reserve" /\ CanWrite
  /\ state[key[w]] = "none"
  /\ FreshDest(d)
  /\ state' = [state EXCEPT ![key[w]] = "pending"]
  /\ place' = [place EXCEPT ![key[w]] = d]
  /\ dest' = [dest EXCEPT ![w] = d]
  /\ Goto(w, "register")
  /\ UNCHANGED <<server, stale, files, temps, active, key, tmp, reply, cleanup, told>>

(* _reserve: the INSERT violates the primary key. *)
Conflict(w) ==
  /\ pc[w] = "reserve" /\ CanWrite
  /\ state[key[w]] # "none"
  /\ Goto(w, "lookup")
  /\ UNCHANGED <<server, table, files, temps, active, key, dest, tmp, reply, cleanup, told>>

StoredPending(k) == state[k] # "none"  \* mutant: any row counts as stored
Stored(k) == state[k] = "completed"

(* _reserve: read the row that is in the way, look for its file.  (Files    *)
(* never leave the library, so reading the row and looking for the file may *)
(* be one step.)                                                            *)
Lookup(w) ==
  /\ pc[w] = "lookup"
  /\ LET k == key[w] IN
       \/ /\ state[k] = "pending" /\ IsFile(place[k])
          /\ Goto(w, "adopt") /\ UNCHANGED reply
       \/ /\ Stored(k)
          /\ Respond(w, "409")
       \/ /\ state[k] = "none" \/ (state[k] = "pending" /\ ~IsFile(place[k]))
          /\ Respond(w, "503")
  /\ UNCHANGED <<server, table, files, temps, active, key, dest, tmp, cleanup, told>>

(* _reserve: the file of the pending row is in the library; complete it. *)
Adopt(w) ==
  /\ pc[w] = "adopt" /\ CanWrite
  /\ SetCompleted(key[w])
  /\ Respond(w, "409")
  /\ UNCHANGED <<server, place, stale, files, temps, active, key, dest, tmp, cleanup, told>>

(* The upload becomes visible to the cleaner in _active_uploads. *)
Register(w, t) ==
  /\ pc[w] = "register"
  /\ FreshTemp(t)
  /\ active' = [active EXCEPT ![t] = key[w]]
  /\ tmp' = [tmp EXCEPT ![w] = t]
  /\ Goto(w, "open")
  /\ UNCHANGED <<server, table, files, temps, key, dest, reply, cleanup, told>>

(* _stream_body creates the temporary file. *)
Open(w) ==
  /\ pc[w] = "open"
  /\ temp' = [temp EXCEPT ![tmp[w]] = "partial"]
  /\ Goto(w, "stream")
  /\ UNCHANGED <<server, table, files, staleTemp, active, key, dest, tmp, reply, cleanup, told>>

(* _stream_body: the whole body arrived.  Writing refreshes the mtime; the  *)
(* open descriptor works even when the path is gone.                        *)
ReceiveAll(w) ==
  /\ pc[w] = "stream"
  /\ temp' = [temp EXCEPT ![tmp[w]] = IF @ = "none" THEN @ ELSE "written"]
  /\ staleTemp' = staleTemp \ {tmp[w]}
  /\ Goto(w, "sync")
  /\ UNCHANGED <<server, table, files, active, key, dest, tmp, reply, cleanup, told>>

(* The body is shorter than announced, or the read timed out. *)
ReceiveShort(w) ==
  /\ pc[w] = "stream"
  /\ Goto(w, "unlink")
  /\ reply' = [reply EXCEPT ![w] = "failed"]
  /\ UNCHANGED <<server, table, files, temps, active, key, dest, tmp, cleanup, told>>

SyncSkipped(w) ==  \* mutant: the file is not synced before it is renamed
  /\ pc[w] = "sync"
  /\ Goto(w, "mkdir")
  /\ UNCHANGED <<server, table, files, temps, active, key, dest, tmp, reply, cleanup, told>>

(* flush and fsync of the temporary file. *)
Sync(w) ==
  /\ pc[w] = "sync"
  /\ temp' = [temp EXCEPT ![tmp[w]] = IF @ = "none" THEN @ ELSE "synced"]
  /\ Goto(w, "mkdir")
  /\ UNCHANGED <<server, table, files, staleTemp, active, key, dest, tmp, reply, cleanup, told>>

(* mkdir(parents=True, exist_ok=True): the entries of new folders are in    *)
(* folders that nobody syncs.                                               *)
MakeFolder(w) ==
  /\ pc[w] = "mkdir"
  /\ folder' = [folder EXCEPT ![FolderOf[dest[w]]] = IF @ = "none" THEN "made" ELSE @]
  /\ Goto(w, "place")
  /\ UNCHANGED <<server, table, library, content, synced, temps, active, key, dest, tmp, reply,
                 cleanup, told>>

(* os.replace, which fails when the temporary file is gone. *)
Place(w) ==
  /\ pc[w] = "place"
  /\ IF temp[tmp[w]] = "none"
     THEN /\ Goto(w, "unlink")
          /\ reply' = [reply EXCEPT ![w] = "failed"]
          /\ UNCHANGED <<library, content, temp, staleTemp>>
     ELSE /\ library' = [library EXCEPT ![dest[w]] = key[w]]
          /\ content' = [content EXCEPT ![dest[w]] = temp[tmp[w]]]
          /\ temp' = [temp EXCEPT ![tmp[w]] = "none"]
          /\ staleTemp' = staleTemp \ {tmp[w]}
          /\ Goto(w, "syncdir")
          /\ UNCHANGED reply
  /\ UNCHANGED <<server, table, synced, folder, active, key, dest, tmp, cleanup, told>>

SyncDirectorySkipped(w) ==  \* mutant: the rename is not made durable
  /\ pc[w] = "syncdir"
  /\ Goto(w, "complete")
  /\ UNCHANGED <<server, table, files, temps, active, key, dest, tmp, reply, cleanup, told>>

(* _fsync_directory makes the rename durable, in its folder. *)
SyncDirectory(w) ==
  /\ pc[w] = "syncdir"
  /\ synced' = synced \cup {dest[w]}
  /\ Goto(w, "complete")
  /\ UNCHANGED <<server, table, library, content, folder, temps, active, key, dest, tmp, reply,
                 cleanup, told>>

(* The UPDATE by key, whatever row has the key by now. *)
Complete(w) ==
  /\ pc[w] = "complete" /\ CanWrite
  /\ SetCompleted(key[w])
  /\ Respond(w, "201")
  /\ UNCHANGED <<server, place, stale, files, temps, active, key, dest, tmp, cleanup, told>>

(* except BaseException: drop the temporary file ... *)
Unlink(w) ==
  /\ pc[w] = "unlink"
  /\ temp' = [temp EXCEPT ![tmp[w]] = "none"]
  /\ staleTemp' = staleTemp \ {tmp[w]}
  /\ Goto(w, "undo")
  /\ UNCHANGED <<server, table, files, active, key, dest, tmp, reply, cleanup, told>>

PlacedUnseen(w) == FALSE  \* mutant: the handler does not look for the file
Placed(w) == IsFile(dest[w])

(* ... and, unless the file reached the library, the pending reservation. *)
Undo(w) ==
  /\ pc[w] = "undo"
  /\ \/ /\ Placed(w)
        /\ UNCHANGED table
     \/ /\ ~Placed(w) /\ CanWrite
        /\ IF state[key[w]] = "pending"
           THEN /\ state' = [state EXCEPT ![key[w]] = "none"]
                /\ place' = [place EXCEPT ![key[w]] = None]
                /\ stale' = stale \ {key[w]}
           ELSE UNCHANGED table
  /\ Respond(w, "failed")
  /\ UNCHANGED <<server, files, temps, active, key, dest, tmp, cleanup, told>>

DeregisterNever(w) == UNCHANGED active  \* mutant: no finally
Deregister(w) == active' = [t \in Temps |-> IF t = tmp[w] THEN None ELSE active[t]]

(* finally: leave _active_uploads; then the handler answers. *)
Finish(w) ==
  /\ pc[w] = "finish"
  /\ Deregister(w)
  /\ answered' = answered \cup {a \in {<<key[w], reply[w]>>} : a[2] \in {"201", "409"}}
  /\ pledged' = pledged \cup {k \in {key[w]} :
                               reply[w] = "201" /\ folder[FolderOf[dest[w]]] = "kept"}
  /\ Goto(w, "idle")
  /\ key' = [key EXCEPT ![w] = None]
  /\ dest' = [dest EXCEPT ![w] = None]
  /\ tmp' = [tmp EXCEPT ![w] = None]
  /\ reply' = [reply EXCEPT ![w] = "none"]
  /\ UNCHANGED <<server, table, files, temps, cleanup>>

-----------------------------------------------------------------------------
(* cleanup_stale_uploads *)

(* Take _cleanup_lock, read the clock, copy _active_uploads. *)
Snapshot(r) ==
  /\ cleaner = "idle"
  /\ cleaner' = "temps"
  /\ runner' = r
  /\ seenKeys' = {active[t] : t \in Temps} \ {None}
  /\ seenTemps' = {t \in Temps : active[t] # None}
  /\ UNCHANGED <<server, table, files, temps, active, key, dest, tmp, reply,
                 picked, verdict, locked, told>>

(* The cleanup thread, woken after its interval; a request that finds the   *)
(* cleanup due; and MediaBackupService.__init__ after its recovery.         *)
LoopCleanup    == server = "up" /\ Snapshot("loop") /\ UNCHANGED pc
RequestCleanup(w) == pc[w] = "begin" /\ Snapshot(w) /\ Goto(w, "cleanup")
BootCleanup    == server = "boot" /\ Snapshot("boot") /\ UNCHANGED pc

RemovableAll == {t \in staleTemp : temp[t] # "none"}  \* mutant: active_paths ignored

(* The stale temporary files no upload had registered. *)
Removable == {t \in staleTemp : temp[t] # "none" /\ t \notin seenTemps}

(* Unlink them.  (A file created after the copy was made is not stale, so   *)
(* no thread can disturb the loop and it may be one step.)                  *)
CleanTemps ==
  /\ cleaner = "temps"
  /\ temp' = [t \in Temps |-> IF t \in Removable THEN "none" ELSE temp[t]]
  /\ staleTemp' = staleTemp \ Removable
  /\ cleaner' = "select"
  /\ UNCHANGED <<server, table, files, active, threads, runner, seenKeys, seenTemps,
                 picked, verdict, locked, told>>

SelectedActive(k) == state[k] = "pending" /\ k \in stale  \* mutant: active_keys ignored
SelectedNever(k) == FALSE  \* mutant: only temporary files are cleaned up
Selected(k) == state[k] = "pending" /\ k \in stale /\ k \notin seenKeys

(* SELECT the stale pending rows; those of active_keys are skipped. *)
SelectRows ==
  /\ cleaner = "select"
  /\ picked' = [k \in Keys |-> IF Selected(k) THEN place[k] ELSE None]
  /\ cleaner' = "rows"
  /\ UNCHANGED <<server, table, files, temps, active, threads, runner, seenKeys,
                 seenTemps, verdict, locked, told>>

VerdictOf(d) == IF IsFile(d) THEN "complete" ELSE "delete"

NoWrites == \A k \in Keys : verdict[k] = "none"

(* is_file of the next row, from the first write on under the write lock. *)
CheckRow(k) ==
  /\ cleaner = "rows" /\ picked[k] # None
  /\ NoWrites \/ locked
  /\ verdict' = [verdict EXCEPT ![k] = VerdictOf(picked[k])]
  /\ picked' = [picked EXCEPT ![k] = None]
  /\ UNCHANGED <<server, table, files, temps, active, threads, cleaner, runner,
                 seenKeys, seenTemps, locked, told>>

(* The first UPDATE or DELETE takes the write lock. *)
LockDatabase ==
  /\ cleaner = "rows" /\ ~NoWrites /\ ~locked
  /\ locked' = TRUE
  /\ UNCHANGED <<server, table, files, temps, active, threads, cleaner, runner,
                 seenKeys, seenTemps, picked, verdict, told>>

CleanupReturnsLocked ==  \* mutant: the connection stays open, and its lock
  /\ cleaner' = "idle" /\ runner' = None
  /\ seenKeys' = {} /\ seenTemps' = {}
  /\ picked' = [k \in Keys |-> None]
  /\ verdict' = [k \in Keys |-> "none"]
  /\ UNCHANGED locked

(* The cleanup returns and gives up _cleanup_lock.  A request it ran in     *)
(* goes on; a boot ends and the server starts to serve.                     *)
CleanupReturns ==
  /\ cleaner' = "idle" /\ runner' = None
  /\ seenKeys' = {} /\ seenTemps' = {}
  /\ picked' = [k \in Keys |-> None]
  /\ verdict' = [k \in Keys |-> "none"]
  /\ locked' = FALSE

(* What the cleanup's transaction leaves in the row of k. *)
Written(k) == IF verdict[k] = "delete" THEN "none"
              ELSE IF verdict[k] = "complete" /\ state[k] # "none" THEN "completed"
              ELSE state[k]

(* All rows are done: COMMIT.  The writes go by key alone. *)
CommitRows ==
  /\ cleaner = "rows" /\ \A k \in Keys : picked[k] = None
  /\ NoWrites \/ locked
  /\ state' = [k \in Keys |-> Written(k)]
  /\ place' = [k \in Keys |-> IF verdict[k] = "delete" THEN None ELSE place[k]]
  /\ stale' = {k \in stale : verdict[k] # "delete"}
  /\ CleanupReturns
  /\ server' = IF runner = "boot" THEN "up" ELSE server
  /\ pc' = [w \in Workers |-> IF w = runner THEN "reserve" ELSE pc[w]]
  /\ UNCHANGED <<files, temps, active, key, dest, tmp, reply, told>>

-----------------------------------------------------------------------------
(* Start, crash and time *)

ResolvedDropped(k) == IF state[k] = "pending" THEN "none" ELSE state[k]  \* mutant
Resolved(k) == IF state[k] = "pending"
               THEN IF IsFile(place[k]) THEN "completed" ELSE "none"
               ELSE state[k]

(* _recover_pending_uploads: one transaction, before any other thread runs. *)
Recover ==
  /\ server = "down"
  /\ server' = "boot"
  /\ state' = [k \in Keys |-> Resolved(k)]
  /\ place' = [k \in Keys |-> IF Resolved(k) = "none" THEN None ELSE place[k]]
  /\ stale' = {k \in stale : Resolved(k) # "none"}
  /\ UNCHANGED <<files, temps, active, threads, cleanup, told>>

(* Every thread is gone, SQLite rolls back an open transaction. *)
Stop ==
  /\ server' = "down"
  /\ active' = [t \in Temps |-> None]
  /\ pc' = [w \in Workers |-> "idle"]
  /\ key' = [w \in Workers |-> None]
  /\ dest' = [w \in Workers |-> None]
  /\ tmp' = [w \in Workers |-> None]
  /\ reply' = [w \in Workers |-> "none"]
  /\ CleanupReturns
  /\ UNCHANGED <<table, told>>

Crash ==
  /\ "crash" \in Faults /\ server # "down"
  /\ Stop
  /\ UNCHANGED <<files, temps>>

Torn(c) == IF c = "written" THEN "partial" ELSE c

(* Any content and any entry that was not synced may be lost, a new folder  *)
(* with all that is in it; the entries that are left are on the disk.       *)
PowerLoss ==
  /\ "power" \in Faults
  /\ \E lost \in SUBSET {f \in Folders : folder[f] = "made"},
        torn \in SUBSET {d \in Dests : library[d] # None /\ d \notin synced} :
       LET gone == torn \cup {d \in Dests : FolderOf[d] \in lost}
       IN /\ folder' = [f \in Folders |-> IF f \in lost THEN "none"
                                          ELSE IF folder[f] = "made" THEN "kept" ELSE folder[f]]
          /\ library' = [d \in Dests |-> IF d \in gone THEN None ELSE library[d]]
          /\ content' = [d \in Dests |-> IF d \in gone THEN "none" ELSE Torn(content[d])]
  /\ synced' = {d \in Dests : library'[d] # None}
  /\ temp' = [t \in Temps |-> Torn(temp[t])]
  /\ Stop
  /\ UNCHANGED staleTemp

(* A pending row reaches temp_max_age_seconds. *)
RowAges(k) ==
  /\ cleaner = "idle" /\ state[k] = "pending" /\ k \notin stale
  /\ "stall" \in Faults \/ \A w \in Workers : pc[w] \in Gap => key[w] # k
  /\ stale' = stale \cup {k}
  /\ UNCHANGED <<server, state, place, files, temps, active, threads, cleanup, told>>

(* A temporary file reaches temp_max_age_seconds, perhaps a live one. *)
TempAges(t) ==
  /\ cleaner = "idle" /\ temp[t] # "none" /\ t \notin staleTemp
  /\ staleTemp' = staleTemp \cup {t}
  /\ UNCHANGED <<server, table, files, temp, active, threads, cleanup, told>>

(* SQLite or the file system raises: outside the try of store() ... *)
ReserveFails(w) ==
  /\ "io" \in Faults /\ pc[w] \in {"reserve", "lookup", "adopt"}
  /\ Respond(w, "failed")
  /\ UNCHANGED <<server, table, files, temps, active, key, dest, tmp, cleanup, told>>

(* ... inside it ... *)
UploadFails(w) ==
  /\ "io" \in Faults
  /\ pc[w] \in {"open", "stream", "sync", "mkdir", "place", "syncdir", "complete"}
  /\ Goto(w, "unlink")
  /\ reply' = [reply EXCEPT ![w] = "failed"]
  /\ UNCHANGED <<server, table, files, temps, active, key, dest, tmp, cleanup, told>>

(* ... in its handler, whose remaining steps are skipped ... *)
UndoFails(w) ==
  /\ "io" \in Faults /\ pc[w] \in {"unlink", "undo"}
  /\ Respond(w, "failed")
  /\ UNCHANGED <<server, table, files, temps, active, key, dest, tmp, cleanup, told>>

(* ... or in a cleanup: it ends where it is and its transaction rolls back. *)
(* A request it ran in fails, a boot does not come up, the loop goes on.    *)
CleanupFails ==
  /\ "io" \in Faults /\ cleaner # "idle"
  /\ \E gone \in SUBSET Removable :
       /\ cleaner # "temps" => gone = {}
       /\ temp' = [t \in Temps |-> IF t \in gone THEN "none" ELSE temp[t]]
       /\ staleTemp' = staleTemp \ gone
  /\ CleanupReturns
  /\ pc' = [w \in Workers |-> IF w = runner THEN "finish" ELSE pc[w]]
  /\ reply' = [w \in Workers |-> IF w = runner THEN "failed" ELSE reply[w]]
  /\ server' = IF runner = "boot" THEN "down" ELSE server
  /\ UNCHANGED <<table, files, active, key, dest, tmp, told>>

-----------------------------------------------------------------------------
(* What a thread does, apart from failures of disk and database. *)
Step(w) ==
  \/ NotDue(w) \/ RequestCleanup(w) \/ Refuse(w)
  \/ \E d \in Dests : Reserve(w, d)
  \/ Conflict(w) \/ Lookup(w) \/ Adopt(w)
  \/ \E t \in Temps : Register(w, t)
  \/ Open(w) \/ ReceiveAll(w) \/ ReceiveShort(w) \/ Sync(w) \/ MakeFolder(w)
  \/ Place(w) \/ SyncDirectory(w) \/ Complete(w) \/ Unlink(w) \/ Undo(w) \/ Finish(w)

(* What the cleanup thread does, or a request or boot in its stead. *)
Cleaning ==
  \/ LoopCleanup \/ BootCleanup \/ CleanTemps \/ SelectRows
  \/ \E k \in Keys : CheckRow(k)
  \/ LockDatabase \/ CommitRows

ThreadFails(w) == ReserveFails(w) \/ UploadFails(w) \/ UndoFails(w)

(* Everything else that goes well: requests arrive, time passes.            *)
Calm ==
  \/ \E w \in Workers, k \in Keys : Arrive(w, k)
  \/ Recover \/ Cleaning
  \/ \E k \in Keys : RowAges(k)
  \/ \E t \in Temps : TempAges(t)

System == Calm \/ CleanupFails \/ Crash \/ PowerLoss

Next == System \/ \E w \in Workers : Step(w) \/ ThreadFails(w)

Spec == Init /\ [][Next]_vars

-----------------------------------------------------------------------------
(* Safety *)

(* While a thread uploads, the row of its key exists and names its          *)
(* destination: no cleanup, retry or late handler of another thread takes   *)
(* the reservation away (the "active upload protection").                   *)
UploadKeepsReservation ==
  \A w \in Workers : pc[w] \in Uploading => /\ state[key[w]] # "none"
                                            /\ place[key[w]] = dest[w]

(* The temporary file of a live upload is there until it is renamed, however *)
(* long the upload takes.                                                    *)
UploadKeepsTemp ==
  \A w \in Workers : pc[w] \in {"stream", "sync", "mkdir", "place"} => temp[tmp[w]] # "none"

(* However often a key is sent, whatever fails, the library holds at most   *)
(* one file of it.                                                          *)
OneFilePerKey ==
  \A d, e \in Dests : library[d] # None /\ library[d] = library[e] => d = e

(* _cleanup_lock and the write lock are held by the cleanup in progress     *)
(* alone, and that one runs in the thread that waits in it: no way out of a *)
(* cleanup, by a return, an error or a restart, keeps one of them from the  *)
(* uploads that wait for it.                                                *)
NoLockLeftBehind ==
  /\ cleaner = "idle" <=> runner = None
  /\ \A w \in Workers : pc[w] = "cleanup" <=> runner = w
  /\ locked => cleaner = "rows" /\ ~NoWrites
  /\ runner = "boot" => server = "boot"

(* A completed row names a file that is there: the 409 it answers to every  *)
(* retry from now on is true.                                               *)
CompletedHasFile ==
  \A k \in Keys : state[k] = "completed" => place[k] # None /\ library[place[k]] = k

(* A file in the library has its row, so a retry finds it and does not      *)
(* upload a second copy.                                                    *)
NoUntrackedFile ==
  \A d \in Dests : library[d] # None =>
    /\ state[library[d]] # "none"
    /\ place[library[d]] = d

(* The shared library never shows an incomplete file, after a power loss    *)
(* either.                                                                  *)
OnlyWholeFiles == \A d \in Dests : library[d] # None => content[d] \in {"written", "synced"}

(* Who is told that its file is stored finds it in the library, even when a *)
(* thread stalls until a cleanup has taken its reservation; only a power    *)
(* loss can take the file of a completed row.                               *)
HasItsFile(k) == state[k] = "completed" => \E d \in Dests : library[d] = k
AnsweredHasFile ==
  [][/\ \A k \in Keys : HasItsFile(k) => HasItsFile(k)' \/ server' = "down"
     /\ \A a \in answered' \ answered :
          HasItsFile(a[1]) => \E d \in Dests : library'[d] = a[1]]_vars

(* src/docs/MEDIA_BACKUP_API.md:29: 409 means that the key was already      *)
(* stored, and the app treats it as success.                                *)
ConflictIsStored ==
  [][\A k \in Keys : <<k, "409">> \in answered' \ answered =>
                     \E d \in Dests : library'[d] = k]_vars

(* Whoever is told 201 finds its file after any power loss, if the folder    *)
(* that the file went to was on the disk already: neither the file, nor its *)
(* entry, nor a folder above it can be lost any more.                       *)
CreatedSurvivesPowerLoss ==
  \A k \in pledged : \E d \in synced : library[d] = k /\ folder[FolderOf[d]] = "kept"

(* src/docs/MEDIA_BACKUP_API.md:28: after a 201 the file is stored.         *)
CreatedIsStored ==
  \A k \in Keys : <<k, "201">> \in answered => \E d \in Dests : library[d] = k

(* No step reopens or forgets a completed upload.                           *)
CompletedStays == [][\A k \in Keys : state[k] = "completed" => state'[k] = "completed"]_vars

(* The backup is an idempotent store, which loses what is not yet on the    *)
(* disk when the power fails, and nothing it pledged.                       *)
Store == INSTANCE MediaStore
           WITH Lossy <- "power" \in Faults,
                saved <- [k \in Keys |-> {d \in Dests : library[d] = k}],
                kept <- {k \in Keys : \E d \in synced : library[d] = k},
                firm <- {k \in Keys : \E d \in synced :
                                         library[d] = k /\ folder[FolderOf[d]] = "kept"},
                settled <- {k \in Keys : state[k] = "completed"},
                told <- answered
Implements == Store!StoreSpec

(* Whoever was told 201 or 409 finds its file in the library from then on,  *)
(* once, whatever other requests, cleanups and restarts do; a power loss    *)
(* can only take a file answered with 409, or one in a folder that was not  *)
(* on the disk when it was answered with 201.                               *)
PromiseKept == Store!Promise
-----------------------------------------------------------------------------
(* Liveness *)

(***************************************************************************)
(* Threads are scheduled, systemd restarts the service, the cleanup thread  *)
(* wakes up after every interval, a connection that is silent times out and *)
(* a statement that waits for the write lock polls for it, so that it gets  *)
(* the lock when that is free again and again: strong fairness, which also  *)
(* makes up for the finite stock of names.  Nobody relies on being refused. *)
(* Between two cleanups time passes, so that whatever stays becomes stale:  *)
(* strong fairness, as no cleanup may be in progress.  Faults stop one day. *)
(***************************************************************************)
Fairness ==
  /\ WF_vars(Recover \/ Cleaning)
  /\ \A w \in Workers : SF_vars(Step(w) /\ ~Refuse(w))
  /\ \A k \in Keys : SF_vars(RowAges(k))
  /\ \A t \in Temps : SF_vars(TempAges(t))
  /\ <>[][Calm \/ \E w \in Workers : Step(w)]_vars

FairSpec == Spec /\ Fairness

(* No key is locked out for ever: a reservation whose upload died, was      *)
(* refused by the disk or lost its clean-up step is resolved, and the next  *)
(* retry gets something else than 503.                                      *)
PendingResolved == \A k \in Keys : state[k] = "pending" ~> state[k] # "pending"

(* Every request gets an answer or dies with its process: cleanup lock and  *)
(* write lock block nobody for ever.                                        *)
RequestAnswered == \A w \in Workers : pc[w] # "idle" ~> pc[w] = "idle"

(* No temporary file stays for ever, whoever left it behind.                *)
TempsRemoved == \A t \in Temps : temp[t] # "none" ~> temp[t] = "none"
=============================================================================
