--------------------------- MODULE StatsCollector ---------------------------
(***************************************************************************)
(* GET /api/stats and GET /api/services (do_GET of pi_backend/server.py,    *)
(* pi_backend/collectors.py): threads that share the last CPU sample        *)
(* without a lock, and look at a drive with two commands while it is        *)
(* plugged, mounted and removed.  What reads one file and keeps nothing     *)
(* (memory, temperature, load, names and states of containers) is left out. *)
(***************************************************************************)
EXTENDS Integers, Sequences, FiniteSets

CONSTANTS Workers,      \* threads of the HTTP server
          Devices,      \* block devices
          Labelled,     \* those with the label PISTATS_BACKUP_LABEL
          MountPoints,  \* where devices are mounted
          BackupMount,  \* PISTATS_BACKUP_MOUNTPOINT
          None,
          MaxTicks,     \* bounds: the length of the CPU's history without a
          MaxWatched    \* drive to watch and with one; they share nothing

ASSUME DevicesAssumption == Labelled \subseteq Devices /\ None \notin Devices
ASSUME MountsAssumption == BackupMount \in MountPoints
                           /\ {None, "absent", "plugged"} \cap MountPoints = {}
ASSUME BoundsAssumption == MaxTicks \in Nat /\ MaxWatched \in Nat

VARIABLES
  watch,     \* which of "label" and "mountpoint" are configured
  ticks,     \* what the CPU did in each unit of time: "busy" or "idle"
  drives,    \* drives[d]: "absent", "plugged" or where it is mounted
  last,      \* _last_cpu_sample
  pc, current, previous,  \* where each thread is in collect_all, its samples
  percent,   \* its cpu_percent: <<busy, total>>
  report,    \* its backup_drive
  \* history, for the properties
  asked,     \* the time each request came
  steady,    \* BackupMount was mounted since it started on the drive
  missed,    \* its findmnt failed
  base,      \* the latest first sample of a request that found none
  span,      \* the ticks between the two samples of a request
  measured,  \* the ticks that some answer covers
  unsaid     \* those that only requests that ended without an answer cover

told == <<span, measured, unsaid>>
cpu == <<ticks, last, current, previous, percent, asked, base>>
drive == <<watch, drives, report, steady, missed>>
vars == <<cpu, told, drive, pc>>

NoReport == [connected |-> FALSE, mounted |-> FALSE, device |-> None, mountpoint |-> None]

Goto(w, where) == pc' = [pc EXCEPT ![w] = where]

Init ==
  /\ watch \in SUBSET {"label", "mountpoint"}
  /\ ticks = <<>>
  /\ drives = [d \in Devices |-> "absent"]
  /\ last = None
  /\ pc = [w \in Workers |-> "idle"]
  /\ current = [w \in Workers |-> None] /\ previous = [w \in Workers |-> None]
  /\ percent = [w \in Workers |-> None]
  /\ report = [w \in Workers |-> NoReport]
  /\ asked = [w \in Workers |-> 0]
  /\ steady = [w \in Workers |-> FALSE]
  /\ missed = [w \in Workers |-> FALSE]
  /\ base = 0
  /\ span = [w \in Workers |-> {}] /\ measured = {} /\ unsaid = {}

-----------------------------------------------------------------------------
(* The machine *)

Tick ==
  /\ Len(ticks) < IF watch = {} THEN MaxTicks ELSE MaxWatched
  /\ \E t \in {"busy", "idle"} : ticks' = Append(ticks, t)
  /\ UNCHANGED <<last, current, previous, percent, asked, base, told, drive, pc>>

IsMounted(m) == \E d \in Devices : drives[d] = m

(* A drive is plugged in, mounted, unmounted or removed; a mount point holds *)
(* one drive.  Nobody looks if no drive is configured.                       *)
DriveChanges(d) ==
  /\ watch # {}
  /\ \E p \in {"absent", "plugged"} \cup {m \in MountPoints : ~IsMounted(m)} :
       /\ p # drives[d] /\ (p \in MountPoints => drives[d] = "plugged")
       /\ drives' = [drives EXCEPT ![d] = p]
  /\ steady' = [w \in Workers |-> steady[w] /\ IsMounted(BackupMount)']
  /\ UNCHANGED <<watch, report, missed, cpu, told, pc>>

-----------------------------------------------------------------------------
(* do_GET and read_cpu_percent *)

Stats(w) ==
  /\ pc[w] = "idle"
  /\ Goto(w, "sample")
  /\ asked' = [asked EXCEPT ![w] = Len(ticks)]
  /\ UNCHANGED <<ticks, last, current, previous, percent, base, told, drive>>

(* list_services *)
Services(w) == pc[w] = "idle" /\ Goto(w, "docker") /\ UNCHANGED <<cpu, told, drive>>

(* _read_cpu_sample *)
Sample ==
  [total |-> Len(ticks), idle |-> Cardinality({i \in DOMAIN ticks : ticks[i] = "idle"})]

ReadSample(w) ==
  /\ pc[w] = "sample"
  /\ current' = [current EXCEPT ![w] = Sample]
  /\ Goto(w, "load")
  /\ UNCHANGED <<ticks, last, previous, percent, asked, base, told, drive>>

LoadLast(w) ==
  /\ pc[w] = "load"
  /\ previous' = [previous EXCEPT ![w] = IF last = None THEN current[w] ELSE last]
  /\ base' = IF last = None /\ current[w].total > base THEN current[w].total ELSE base
  /\ Goto(w, IF last = None THEN "sleep" ELSE "store")
  /\ UNCHANGED <<ticks, last, current, percent, asked, told, drive>>

SleepEnds(w) ==
  /\ pc[w] = "sleep"
  /\ current' = [current EXCEPT ![w] = Sample]
  /\ Goto(w, "store")
  /\ UNCHANGED <<ticks, last, previous, percent, asked, base, told, drive>>

StoredFresh(w) == Sample  \* mutant: the sample is read again
Stored(w) == current[w]

StoreLast(w) ==
  /\ pc[w] = "store"
  /\ last' = Stored(w)
  /\ Goto(w, "compute")
  /\ UNCHANGED <<ticks, current, previous, percent, asked, base, told, drive>>

ShareUnguarded(from, to) ==  \* mutant: total_delta is not compared with 0
  <<(to.total - from.total) - (to.idle - from.idle), to.total - from.total>>
Share(from, to) ==
  IF to.total <= from.total THEN <<0, 1>>
  ELSE <<(to.total - from.total) - (to.idle - from.idle), to.total - from.total>>

Compute(w) ==
  /\ pc[w] = "compute"
  /\ percent' = [percent EXCEPT ![w] = Share(previous[w], current[w])]
  /\ span' = [span EXCEPT ![w] = previous[w].total + 1 .. current[w].total]
  /\ previous' = [previous EXCEPT ![w] = None] /\ current' = [current EXCEPT ![w] = None]
  /\ Goto(w, "drive")
  /\ UNCHANGED <<ticks, last, asked, base, measured, unsaid, drive>>

-----------------------------------------------------------------------------
(* read_backup_drive *)

(* The other readings come in between. *)
StartDrive(w) ==
  /\ pc[w] = "drive"
  /\ Goto(w, IF watch = {} THEN "docker" ELSE "lsblk")
  /\ steady' = [steady EXCEPT ![w] = IsMounted(BackupMount)]
  /\ percent' = [percent EXCEPT ![w] = None] /\ asked' = [asked EXCEPT ![w] = 0]
  /\ UNCHANGED <<ticks, last, current, previous, base, told, watch, drives, report, missed>>

(* _find_preferred_backup in the output of lsblk *)
Preferred == {d \in Labelled : "label" \in watch /\ drives[d] # "absent"}

ReportOf(d) == [connected |-> TRUE, mounted |-> drives[d] \in MountPoints, device |-> d,
                mountpoint |-> IF drives[d] \in MountPoints THEN drives[d] ELSE None]

AfterLsblkLabel(r) == IF "mountpoint" \in watch /\ ~r.mounted /\ r.connected
                      THEN "findmnt" ELSE "docker"  \* mutant: only for a drive lsblk found
AfterLsblk(r) == IF "mountpoint" \in watch /\ ~r.mounted THEN "findmnt" ELSE "docker"

HasLsblk(w, r) ==
  /\ pc[w] = "lsblk"
  /\ report' = [report EXCEPT ![w] = r]
  /\ Goto(w, AfterLsblk(r))
  /\ UNCHANGED <<watch, drives, steady, missed, cpu, told>>

LsblkReturns(w) ==
  \/ \E d \in Preferred : HasLsblk(w, ReportOf(d))
  \/ Preferred = {} /\ HasLsblk(w, NoReport)

(* What findmnt says overrides lsblk; the device only if it names a source. *)
Merged(r, source) ==
  [connected |-> TRUE, mounted |-> TRUE, mountpoint |-> BackupMount,
   device |-> IF source = None THEN r.device ELSE source]

(* findmnt fails if nothing is mounted there. *)
FindmntReturns(w) ==
  /\ pc[w] = "findmnt" /\ IsMounted(BackupMount)
  /\ \E source \in {d \in Devices : drives[d] = BackupMount} \cup {None} :
       report' = [report EXCEPT ![w] = Merged(@, source)]
  /\ Goto(w, "docker")
  /\ UNCHANGED <<watch, drives, steady, missed, cpu, told>>

(* The request is over. *)
Ends(w) ==
  /\ report' = [report EXCEPT ![w] = NoReport]
  /\ steady' = [steady EXCEPT ![w] = FALSE] /\ missed' = [missed EXCEPT ![w] = FALSE]
  /\ span' = [span EXCEPT ![w] = {}]
  /\ Goto(w, "idle")
  /\ UNCHANGED <<watch, drives, cpu>>

(* read_services and the answer *)
DockerReturns(w) ==
  /\ pc[w] = "docker"
  /\ measured' = measured \cup span[w] /\ unsaid' = unsaid \ span[w]
  /\ Ends(w)

(* _run_command: the command is missing, fails or is killed after 4 s. *)
NoTimeout(w) == FALSE  \* mutant: subprocess.run without a timeout
CommandFails(w) ==
  \/ pc[w] = "lsblk" /\ HasLsblk(w, NoReport)
  \/ /\ pc[w] = "findmnt"
     /\ missed' = [missed EXCEPT ![w] = TRUE]
     /\ Goto(w, "docker")
     /\ UNCHANGED <<watch, drives, report, steady, cpu, told>>
  \/ DockerReturns(w)

(* An error that _run_command does not catch (a command without permission  *)
(* to run it, output that is no UTF-8) ends the request without an answer.   *)
CommandRaises(w) ==
  /\ pc[w] \in {"lsblk", "findmnt", "docker"}
  /\ unsaid' = unsaid \cup (span[w] \ measured)
  /\ Ends(w)
  /\ UNCHANGED measured

Step(w) ==
  \/ ReadSample(w) \/ LoadLast(w) \/ SleepEnds(w) \/ StoreLast(w) \/ Compute(w)
  \/ StartDrive(w) \/ CommandFails(w)

Returns(w) == LsblkReturns(w) \/ FindmntReturns(w) \/ CommandRaises(w)

Next ==
  \/ Tick
  \/ \E d \in Devices : DriveChanges(d)
  \/ \E w \in Workers : Stats(w) \/ Services(w) \/ Step(w) \/ Returns(w)

(* Threads are scheduled and a command is killed after its timeout; that it *)
(* returns is not taken for granted.                                        *)
Fairness == \A w \in Workers : WF_vars(Step(w))

Spec == Init /\ [][Next]_vars /\ Fairness

-----------------------------------------------------------------------------
(* Properties *)

(* cpu_percent is the busy share of the CPU over a period that ends within  *)
(* the request, or 0 if other threads' samples left no such period: never a *)
(* quotient of samples in the wrong order or of a zero difference.          *)
ShareIsMeasured ==
  \A w \in Workers : pc[w] = "drive" /\ percent[w] # <<0, 1>> =>
    \E i, j \in 0..Len(ticks) :
      /\ i < j /\ j >= asked[w]
      /\ percent[w] = <<Cardinality({n \in i + 1 .. j : ticks[n] = "busy"}), j - i>>

(* Load between two polls is not overlooked: whatever the threads overtake, *)
(* every moment from the start of the first measurement up to the stored    *)
(* sample is covered by an answer that was sent, by one under way, or by a  *)
(* request that had measured it and then ended without an answer.           *)
NothingMissed ==
  last # None =>
    \A n \in base + 1 .. last.total :
      \/ n \in measured \cup unsaid
      \/ \E w \in Workers :
           \/ n \in span[w]
           \/ pc[w] = "compute" /\ n \in previous[w].total + 1 .. current[w].total

(* A drive that stays at the backup mount point is reported as mounted, even *)
(* if lsblk fails or does not know its label; what is reported is that mount *)
(* point, unless lsblk has seen a drive with the label mounted.              *)
MountedIsReported ==
  \A w \in Workers :
    pc[w] = "docker" /\ "mountpoint" \in watch /\ steady[w] /\ ~missed[w] =>
      /\ report[w].mounted
      /\ report[w].mountpoint = BackupMount \/ report[w].device \in Labelled

(* Every request is answered or loses its connection, though commands may   *)
(* hang.                                                                     *)
RequestAnswered == \A w \in Workers : pc[w] # "idle" ~> pc[w] = "idle"
=============================================================================
