------------------------------ MODULE WakeOnLan ------------------------------
(***************************************************************************)
(* The Wake-on-LAN switch of OwnNode Agent (WakeOnLanController in          *)
(* pi_backend/server.py): requests that set it, read it or send the packet  *)
(* share one lock; the setting is kept in memory and in a state file that   *)
(* is replaced through a temporary file of a fixed name.  A restart may     *)
(* find a configuration with a MAC address or without; its directory exists. *)
(***************************************************************************)
CONSTANTS Threads,  \* request-handling threads of the HTTP server
          None,     \* no thread
          Faults    \* the faults of the environment that may happen

(***************************************************************************)
(* crash: the process dies and is restarted.  power: the machine does.  io: *)
(* an operation of _persist raises OSError.  send: the socket does.         *)
(***************************************************************************)
ASSUME FaultsAssumption == Faults \subseteq {"crash", "power", "io", "send"}
ASSUME NoneAssumption == None \notin Threads

VARIABLES
  configured,  \* there is a MAC address
  enabled,   \* _enabled
  lock,      \* the thread that holds _lock
  pc, want, reply,  \* the threads; want is the body of a PUT
  temp,      \* the temporary file: its contents and whether they were synced
  file,      \* the state file, likewise
  durable,   \* contents of the state file that a power loss cannot undo
  up,        \* FALSE if the service refused to start
  inForce,   \* history: the settings a client may find in force
  mayLoad    \* history: the settings a restart may find

threads == <<pc, want, reply>>
files   == <<temp, file, durable>>
history == <<inForce, mayLoad>>

vars == <<configured, enabled, lock, threads, files, up, history>>

Settings == {"on", "off"}
Contents == Settings \cup {"absent", "torn"}
PCs == {"idle", "acquire", "write", "sync", "replace", "directory", "set", "status",
        "wake", "send", "reply"}
Replies == {"none", "on", "off", "sent", "400", "403", "409", "500"}

TypeOK ==
  /\ configured \in BOOLEAN /\ enabled \in Settings
  /\ lock \in Threads \cup {None}
  /\ pc \in [Threads -> PCs]
  /\ want \in [Threads -> Settings \cup {"none"}]
  /\ reply \in [Threads -> Replies]
  /\ temp \in [is : Contents, synced : BOOLEAN]
  /\ file \in [is : Contents, synced : BOOLEAN]
  /\ durable \in Contents
  /\ up \in BOOLEAN
  /\ inForce \subseteq Settings /\ mayLoad \subseteq Settings

(* _load: a missing file leaves the switch on. *)
LoadedRaw(c) == c  \* mutant: no default for a missing file
Loaded(c) == IF c = "absent" THEN "on" ELSE c

(* Without a MAC address it is off, whatever the file says. *)
StartsWith(mac, c) == IF mac THEN Loaded(c) ELSE "off"

Absent == [is |-> "absent", synced |-> TRUE]

Init ==
  /\ configured \in BOOLEAN
  /\ enabled = StartsWith(configured, "absent") /\ lock = None
  /\ pc = [t \in Threads |-> "idle"]
  /\ want = [t \in Threads |-> "none"]
  /\ reply = [t \in Threads |-> "none"]
  /\ temp = Absent /\ file = Absent /\ durable = "absent"
  /\ up = TRUE
  /\ inForce = {"on"} /\ mayLoad = {"on"}

-----------------------------------------------------------------------------
(* Helpers *)

Goto(t, l) == pc' = [pc EXCEPT ![t] = l]

Respond(t, r) == Goto(t, "reply") /\ reply' = [reply EXCEPT ![t] = r]

(* Leaving "with self._lock". *)
ReleaseNever == lock' = lock  \* mutant
Release == lock' = None

-----------------------------------------------------------------------------
(* set_enabled *)

Put(t, s) ==
  /\ pc[t] = "idle"
  /\ \/ /\ configured \/ s = "off"
        /\ want' = [want EXCEPT ![t] = s]
        /\ Goto(t, "acquire")
        /\ UNCHANGED reply
     \/ /\ ~configured /\ s = "on"
        /\ Respond(t, "409")
        /\ UNCHANGED want
  /\ UNCHANGED <<enabled, lock, files, up, history>>

AcquireUnlocked(t) ==  \* mutant: settings are not serialized
  /\ pc[t] = "acquire"
  /\ lock' = t
  /\ mayLoad' = mayLoad \cup {want[t]}
  /\ Goto(t, "write")
  /\ UNCHANGED <<enabled, want, reply, files, up, inForce>>
Acquire(t) ==
  /\ pc[t] = "acquire" /\ lock = None
  /\ lock' = t
  /\ mayLoad' = mayLoad \cup {want[t]}
  /\ Goto(t, "write")
  /\ UNCHANGED <<enabled, want, reply, files, up, inForce>>

(* open("w") truncates the temporary file; the setting is written to it. *)
Write(t) ==
  /\ pc[t] = "write"
  /\ temp' = [is |-> want[t], synced |-> FALSE]
  /\ Goto(t, "sync")
  /\ UNCHANGED <<enabled, lock, want, reply, file, durable, up, history>>

SyncSkipped(t) ==  \* mutant: the file is not synced before it is renamed
  /\ pc[t] = "sync"
  /\ Goto(t, "replace")
  /\ UNCHANGED <<enabled, lock, want, reply, files, up, history>>
Sync(t) ==
  /\ pc[t] = "sync"
  /\ temp' = [temp EXCEPT !.synced = TRUE]
  /\ Goto(t, "replace")
  /\ UNCHANGED <<enabled, lock, want, reply, file, durable, up, history>>

Replace(t) ==
  /\ pc[t] = "replace" /\ temp.is # "absent"
  /\ file' = temp /\ temp' = Absent
  /\ Goto(t, "directory")
  /\ UNCHANGED <<enabled, lock, want, reply, durable, up, history>>

SyncDirectory(t) ==
  /\ pc[t] = "directory"
  /\ durable' = IF file.synced THEN file.is ELSE "torn"
  /\ Goto(t, "set")
  /\ UNCHANGED <<enabled, lock, want, reply, temp, file, up, history>>

(* _persist has returned: the setting is in force from here on. *)
SetEnabled(t) ==
  /\ pc[t] = "set"
  /\ enabled' = want[t]
  /\ inForce' = {want[t]} /\ mayLoad' = {want[t]}
  /\ Release
  /\ Goto(t, "status")
  /\ UNCHANGED <<want, reply, files, up>>

(* _persist raises: 500. *)
PersistFails(t) ==
  /\ "io" \in Faults /\ pc[t] \in {"write", "sync", "replace", "directory"}
  /\ \/ UNCHANGED temp
     \/ pc[t] = "write" /\ temp' = [is |-> "torn", synced |-> FALSE]
  /\ Release
  /\ Respond(t, "500")
  /\ UNCHANGED <<enabled, want, file, durable, up, history>>

-----------------------------------------------------------------------------
(* status and wake *)

Get(t) ==
  /\ pc[t] = "idle"
  /\ Goto(t, "status")
  /\ UNCHANGED <<enabled, lock, want, reply, files, up, history>>

(* For a GET, and for the answer of a PUT. *)
Status(t) ==
  /\ pc[t] = "status" /\ lock = None
  /\ Respond(t, enabled)
  /\ UNCHANGED <<enabled, lock, want, files, up, history>>

Wake(t) ==
  /\ pc[t] = "idle"
  /\ Goto(t, "wake")
  /\ UNCHANGED <<enabled, lock, want, reply, files, up, history>>

CheckEnabledUnlocked(t) ==  \* mutant: the packet is sent outside the lock
  /\ pc[t] = "wake" /\ lock = None
  /\ IF configured /\ enabled = "on" THEN Goto(t, "send") /\ UNCHANGED reply ELSE Respond(t, "403")
  /\ UNCHANGED <<enabled, lock, want, files, up, history>>
CheckEnabled(t) ==
  /\ pc[t] = "wake" /\ lock = None
  /\ \/ /\ configured /\ enabled = "on"
        /\ lock' = t
        /\ Goto(t, "send")
        /\ UNCHANGED reply
     \/ /\ ~configured
        /\ Respond(t, "400")
        /\ UNCHANGED lock
     \/ /\ configured /\ enabled = "off"
        /\ Respond(t, "403")
        /\ UNCHANGED lock
  /\ UNCHANGED <<enabled, want, files, up, history>>

(* _send_magic_packet, still under the lock *)
SendPacket(t) ==
  /\ pc[t] = "send"
  /\ \/ Respond(t, "sent")
     \/ "send" \in Faults /\ Respond(t, "500")
  /\ Release
  /\ UNCHANGED <<enabled, want, files, up, history>>

Answer(t) ==
  /\ pc[t] = "reply"
  /\ Goto(t, "idle")
  /\ want' = [want EXCEPT ![t] = "none"]
  /\ reply' = [reply EXCEPT ![t] = "none"]
  /\ UNCHANGED <<enabled, lock, files, up, history>>

-----------------------------------------------------------------------------
(* Restarts *)

(* The process is gone; a new one loads f and refuses to start if it cannot. *)
Restart(f) ==
  /\ configured' \in BOOLEAN
  /\ lock' = None
  /\ pc' = [t \in Threads |-> "idle"]
  /\ want' = [t \in Threads |-> "none"]
  /\ reply' = [t \in Threads |-> "none"]
  /\ up' = (configured' => f # "torn")
  /\ enabled' = IF up' THEN StartsWith(configured', f) ELSE enabled
  /\ inForce' = mayLoad
  /\ UNCHANGED mayLoad

Crash ==
  /\ "crash" \in Faults
  /\ Restart(file.is)
  /\ UNCHANGED files

(* The state file is what was durable or what the rename left. *)
PowerLoss ==
  /\ "power" \in Faults
  /\ \E c \in {durable, file.is} \cup (IF file.synced THEN {} ELSE {"torn"}) :
       /\ file' = [is |-> c, synced |-> TRUE]
       /\ durable' = c
       /\ Restart(c)
  /\ UNCHANGED temp

-----------------------------------------------------------------------------
Work(t) ==
  /\ \/ Write(t) \/ Sync(t) \/ Replace(t) \/ SyncDirectory(t) \/ SetEnabled(t)
     \/ SendPacket(t) \/ Answer(t)
  /\ UNCHANGED configured

Enter(t) == (Acquire(t) \/ Status(t) \/ CheckEnabled(t)) /\ UNCHANGED configured

Request(t) == up /\ ((\E s \in Settings : Put(t, s)) \/ Get(t) \/ Wake(t)) /\ UNCHANGED configured

Fails(t) == PersistFails(t) /\ UNCHANGED configured

Next ==
  \/ \E t \in Threads : Request(t) \/ Enter(t) \/ Work(t) \/ Fails(t)
  \/ Crash \/ PowerLoss

Spec == Init /\ [][Next]_vars

(* Threads are scheduled, and the lock is not withheld for ever from one of *)
(* them: it is held for a few file operations only, and requests are rare.  *)
Fairness == \A t \in Threads : WF_vars(Work(t)) /\ SF_vars(Enter(t))

FairSpec == Spec /\ Fairness

-----------------------------------------------------------------------------
(* Properties *)

(* The switch is what the last accepted PUT asked for (or one of the        *)
(* settings a restart may have found): a PUT answered with 500 changes      *)
(* nothing until a restart.  Without a MAC address it stays off.            *)
SettingHolds == up => enabled \in (IF configured THEN inForce ELSE {"off"})

(* _lock is held by the thread that is inside "with self._lock": a PUT that *)
(* fails, a packet that is not sent and a restart give it up.               *)
NoLockLeftBehind ==
  \A t \in Threads :
    lock = t <=> pc[t] \in {"write", "sync", "replace", "directory", "set", "send"}

(* No packet leaves once a PUT that disables the switch has been accepted.  *)
NoPacketAfterDisable == \A t \in Threads : pc[t] = "send" => configured /\ "on" \in inForce

(* Whatever is lost now, a restart finds the last accepted setting, or one  *)
(* whose PUT was in progress or failed since.                               *)
SettingSurvives == Loaded(file.is) \in mayLoad /\ Loaded(durable) \in mayLoad

(* The service never finds a state file it cannot read, which would keep it *)
(* from starting.                                                           *)
AlwaysStarts == up

(* Lock, memory and state file together are a durable switch: one that is   *)
(* set atomically, never under a packet, and never found in a state nobody  *)
(* asked for.                                                               *)
Switch == INSTANCE DurableSwitch
            WITH usable <- configured,
                 value <- enabled,
                 asked <- IF lock # None /\ pc[lock] # "send" THEN want[lock] ELSE "none",
                 possible <- mayLoad,
                 sending <- \E t \in Threads : pc[t] = "send"
Implements == Switch!SwitchSpec

(* Every request is answered, unless the service dies. *)
RequestAnswered == \A t \in Threads : pc[t] # "idle" ~> pc[t] = "idle"
=============================================================================
