--------------------------- MODULE WakeOnLanProofs ---------------------------
(***************************************************************************)
(* Proofs about WakeOnLan, for any number of threads and under every fault. *)
(***************************************************************************)
EXTENDS WakeOnLan, TLAPS

(* Where a thread is inside _persist or about to take over the setting, and *)
(* where it holds the lock.                                                 *)
Persisting == {"write", "sync", "replace", "directory", "set"}
Critical == Persisting \cup {"send"}

(* A PUT has its setting, which is "off" unless there is a MAC address. *)
Equipped ==
  \A t \in Threads :
    pc[t] \in Persisting \cup {"acquire"} =>
      want[t] \in (IF configured THEN Settings ELSE {"off"})

LockInv == \A t \in Threads : pc[t] \in Critical <=> lock = t

(* How far the setting has got on its way to the disk. *)
Progress ==
  \A t \in Threads :
    /\ pc[t] \in Persisting => want[t] \in mayLoad
    /\ pc[t] = "sync" => temp.is = want[t]
    /\ pc[t] = "replace" => temp = [is |-> want[t], synced |-> TRUE]
    /\ pc[t] \in {"directory", "set"} => file.is = want[t]
    /\ pc[t] = "set" => durable = want[t]

(* The state file is whole, and nothing is lost that is in force. *)
FilesWhole == file.synced /\ file.is # "torn" /\ durable # "torn" /\ inForce \subseteq mayLoad

WakeInv == /\ TypeOK /\ Equipped /\ LockInv /\ Progress /\ FilesWhole
           /\ SettingHolds /\ NoPacketAfterDisable /\ SettingSurvives /\ AlwaysStarts

-----------------------------------------------------------------------------
LEMMA WakeInitially == Init => WakeInv
PROOF
<1>. SUFFICES ASSUME Init PROVE WakeInv OBVIOUS
<1>1. TypeOK BY DEF Init, TypeOK, StartsWith, Loaded, Absent, Settings, Contents, PCs, Replies
<1>2. Equipped /\ LockInv /\ Progress
  BY NoneAssumption DEF Init, Equipped, LockInv, Progress, Critical, Persisting
<1>3. FilesWhole /\ SettingSurvives /\ AlwaysStarts
  BY DEF Init, FilesWhole, SettingSurvives, AlwaysStarts, Absent, Loaded
<1>4. SettingHolds /\ NoPacketAfterDisable
  BY DEF Init, SettingHolds, NoPacketAfterDisable, StartsWith, Loaded
<1>. QED BY <1>1, <1>2, <1>3, <1>4 DEF WakeInv

(* The steps inside _persist, one thread at a time. *)
LEMMA PersistingKeeps ==
  ASSUME WakeInv, NEW t \in Threads, UNCHANGED configured,
         \/ Write(t) \/ Sync(t) \/ Replace(t) \/ SyncDirectory(t) \/ SetEnabled(t) \/ PersistFails(t)
  PROVE  WakeInv'
PROOF
<1>. USE NoneAssumption
         DEF WakeInv, TypeOK, Equipped, LockInv, Progress, FilesWhole, SettingHolds,
             NoPacketAfterDisable, SettingSurvives, AlwaysStarts, Persisting, Critical,
             Settings, Contents, PCs, Replies, Loaded, Absent,
             Goto, Respond, Release, files, history
<1>1. CASE Write(t)
  <2>1. TypeOK' BY <1>1 DEF Write
  <2>2. Equipped' /\ LockInv' /\ Progress' BY <1>1 DEF Write
  <2>3. FilesWhole' /\ SettingSurvives' /\ AlwaysStarts' /\ SettingHolds' /\ NoPacketAfterDisable'
    BY <1>1 DEF Write
  <2>. QED BY <2>1, <2>2, <2>3
<1>2. CASE Sync(t)
  <2>1. temp'.is = temp.is /\ temp'.synced /\ temp' \in [is : Contents, synced : BOOLEAN]
    BY <1>2 DEF Sync
  <2>2. temp' = [is |-> want'[t], synced |-> TRUE] BY <1>2, <2>1 DEF Sync
  <2>3. \A s \in Threads : s # t => pc'[s] = pc[s] /\ pc[s] \notin Critical
    BY <1>2 DEF Sync
  <2>4. TypeOK' BY <1>2, <2>1 DEF Sync
  <2>5. Equipped' /\ LockInv' /\ Progress'
    <3>1. pc'[t] = "replace" /\ UNCHANGED <<configured, lock, want, file, durable, mayLoad>>
      BY <1>2 DEF Sync
    <3>2. Equipped' /\ LockInv' BY <1>2, <2>3, <3>1 DEF Sync
    <3>3. Progress' BY <1>2, <2>2, <2>3, <3>1 DEF Sync
    <3>. QED BY <3>2, <3>3
  <2>6. FilesWhole' /\ SettingSurvives' /\ AlwaysStarts' /\ SettingHolds' /\ NoPacketAfterDisable'
    BY <1>2 DEF Sync
  <2>. QED BY <2>4, <2>5, <2>6
<1>3. CASE Replace(t)
  <2>1. TypeOK' BY <1>3 DEF Replace
  <2>2. Equipped' /\ LockInv' /\ Progress' BY <1>3 DEF Replace
  <2>3. FilesWhole' /\ SettingSurvives' /\ AlwaysStarts' /\ SettingHolds' /\ NoPacketAfterDisable'
    BY <1>3 DEF Replace
  <2>. QED BY <2>1, <2>2, <2>3
<1>4. CASE SyncDirectory(t)
  <2>1. TypeOK' BY <1>4 DEF SyncDirectory
  <2>2. Equipped' /\ LockInv' /\ Progress' BY <1>4 DEF SyncDirectory
  <2>3. FilesWhole' /\ SettingSurvives' /\ AlwaysStarts' /\ SettingHolds' /\ NoPacketAfterDisable'
    BY <1>4 DEF SyncDirectory
  <2>. QED BY <2>1, <2>2, <2>3
<1>5. CASE SetEnabled(t)
  <2>1. TypeOK' BY <1>5 DEF SetEnabled
  <2>2. Equipped' /\ LockInv' /\ Progress' BY <1>5 DEF SetEnabled
  <2>3. FilesWhole' /\ SettingSurvives' /\ AlwaysStarts' /\ SettingHolds' /\ NoPacketAfterDisable'
    BY <1>5 DEF SetEnabled
  <2>. QED BY <2>1, <2>2, <2>3
<1>6. CASE PersistFails(t)
  <2>1. TypeOK'
    <3>1. temp' \in [is : Contents, synced : BOOLEAN]
      <4>1. CASE UNCHANGED temp BY <4>1
      <4>2. CASE temp' = [is |-> "torn", synced |-> FALSE] BY <4>2
      <4>. QED BY <1>6, <4>1, <4>2 DEF PersistFails
    <3>2. /\ pc' \in [Threads -> PCs] /\ reply' \in [Threads -> Replies] /\ lock' = None
          /\ UNCHANGED <<configured, enabled, want, file, durable, up, inForce, mayLoad>>
      BY <1>6 DEF PersistFails
    <3>. QED BY <3>1, <3>2
  <2>2. \A s \in Threads : s # t => pc'[s] = pc[s] /\ pc[s] \notin Critical
    BY <1>6 DEF PersistFails
  <2>3. Equipped' /\ LockInv' /\ Progress' BY <1>6, <2>2 DEF PersistFails
  <2>4. FilesWhole' /\ SettingSurvives' /\ AlwaysStarts' /\ SettingHolds' /\ NoPacketAfterDisable'
    BY <1>6 DEF PersistFails
  <2>. QED BY <2>1, <2>3, <2>4
<1>. QED BY <1>1, <1>2, <1>3, <1>4, <1>5, <1>6

(* The other steps of a thread leave the files alone. *)
LEMMA OthersKeep ==
  ASSUME WakeInv, NEW t \in Threads, UNCHANGED configured,
         \/ \E s \in Settings : Put(t, s)
         \/ Get(t) \/ Wake(t) \/ Acquire(t) \/ Status(t) \/ CheckEnabled(t) \/ SendPacket(t) \/ Answer(t)
  PROVE  WakeInv'
PROOF
<1>. USE NoneAssumption
     DEF WakeInv, TypeOK, Equipped, LockInv, Progress, FilesWhole, SettingHolds,
         NoPacketAfterDisable, SettingSurvives, AlwaysStarts, Persisting, Critical,
         Settings, Contents, PCs, Replies, Loaded, Absent,
         Goto, Respond, Release, files, history
<1>1. CASE \E s \in Settings : Put(t, s)
  <2>1. TypeOK' BY <1>1 DEF Put
  <2>2. Equipped' /\ LockInv' /\ Progress' BY <1>1 DEF Put
  <2>3. FilesWhole' /\ SettingSurvives' /\ AlwaysStarts' /\ SettingHolds' /\ NoPacketAfterDisable'
    BY <1>1 DEF Put
  <2>. QED BY <2>1, <2>2, <2>3
<1>2. CASE Get(t) BY <1>2 DEF Get
<1>3. CASE Wake(t) BY <1>3 DEF Wake
<1>4. CASE Acquire(t)
  <2>1. TypeOK' BY <1>4 DEF Acquire
  <2>2. Equipped' /\ LockInv' /\ Progress' BY <1>4 DEF Acquire
  <2>3. FilesWhole' /\ SettingSurvives' /\ AlwaysStarts' /\ SettingHolds' /\ NoPacketAfterDisable'
    BY <1>4 DEF Acquire
  <2>. QED BY <2>1, <2>2, <2>3
<1>5. CASE Status(t)
  <2>1. TypeOK' BY <1>5 DEF Status
  <2>2. Equipped' /\ LockInv' /\ Progress' BY <1>5 DEF Status
  <2>3. FilesWhole' /\ SettingSurvives' /\ AlwaysStarts' /\ SettingHolds' /\ NoPacketAfterDisable'
    BY <1>5 DEF Status
  <2>. QED BY <2>1, <2>2, <2>3
<1>6. CASE CheckEnabled(t)
  <2>1. TypeOK' BY <1>6 DEF CheckEnabled
  <2>2. Equipped' /\ LockInv' /\ Progress' BY <1>6 DEF CheckEnabled
  <2>3. FilesWhole' /\ SettingSurvives' /\ AlwaysStarts' /\ SettingHolds' /\ NoPacketAfterDisable'
    BY <1>6 DEF CheckEnabled
  <2>. QED BY <2>1, <2>2, <2>3
<1>7. CASE SendPacket(t)
  <2>1. TypeOK' BY <1>7 DEF SendPacket
  <2>2. Equipped' /\ LockInv' /\ Progress' BY <1>7 DEF SendPacket
  <2>3. FilesWhole' /\ SettingSurvives' /\ AlwaysStarts' /\ SettingHolds' /\ NoPacketAfterDisable'
    BY <1>7 DEF SendPacket
  <2>. QED BY <2>1, <2>2, <2>3
<1>8. CASE Answer(t) BY <1>8 DEF Answer
<1>. QED BY <1>1, <1>2, <1>3, <1>4, <1>5, <1>6, <1>7, <1>8

(* A restart loads a whole file with a setting that may be loaded. *)
LEMMA RestartKeeps ==
  ASSUME WakeInv, NEW f \in Contents, f # "torn", Loaded(f) \in mayLoad, Restart(f),
         file' \in [is : Contents, synced : BOOLEAN], file'.synced, file'.is # "torn",
         Loaded(file'.is) \in mayLoad,
         durable' \in Contents \ {"torn"}, Loaded(durable') \in mayLoad, UNCHANGED temp
  PROVE  WakeInv'
BY NoneAssumption
   DEF Restart, WakeInv, TypeOK, Equipped, LockInv, Progress, FilesWhole, SettingHolds,
       NoPacketAfterDisable, SettingSurvives, AlwaysStarts, Persisting, Critical,
       Settings, Contents, PCs, Replies, Loaded, StartsWith

LEMMA WakeKept == WakeInv /\ [Next]_vars => WakeInv'
PROOF
<1>. SUFFICES ASSUME WakeInv, [Next]_vars PROVE WakeInv' OBVIOUS
<1>1. ASSUME NEW t \in Threads, Request(t) \/ Enter(t) \/ Work(t) \/ Fails(t) PROVE WakeInv'
  BY <1>1, PersistingKeeps, OthersKeep DEF Request, Enter, Work, Fails
<1>2. CASE Crash
  BY <1>2, RestartKeeps DEF Crash, files, WakeInv, TypeOK, FilesWhole, SettingSurvives
<1>3. CASE PowerLoss
  <2>1. PICK c \in {durable, file.is} :
          file' = [is |-> c, synced |-> TRUE] /\ durable' = c /\ Restart(c) /\ UNCHANGED temp
    BY <1>3 DEF PowerLoss, WakeInv, FilesWhole
  <2>2. c \in Contents /\ c # "torn" /\ Loaded(c) \in mayLoad
    BY <2>1 DEF WakeInv, TypeOK, FilesWhole, SettingSurvives
  <2>. QED BY <2>1, <2>2, RestartKeeps
<1>4. CASE UNCHANGED vars
  BY <1>4 DEF vars, threads, files, history, WakeInv, TypeOK, Equipped, LockInv, Progress,
       FilesWhole, SettingHolds, NoPacketAfterDisable, SettingSurvives, AlwaysStarts, Loaded
<1>. QED BY <1>1, <1>2, <1>3, <1>4 DEF Next

LEMMA WakeInvariant == Spec => []WakeInv
BY WakeInitially, WakeKept, PTL DEF Spec

-----------------------------------------------------------------------------
(* Type correctness, for the threads, the memory and the files.             *)
THEOREM TypeCorrect == Spec => []TypeOK
PROOF
<1>1. WakeInv => TypeOK BY DEF WakeInv
<1>. QED BY <1>1, WakeInvariant, PTL

(* The switch is what the last accepted PUT asked for, and off without a    *)
(* MAC address; a PUT answered with 500 changes nothing until a restart.    *)
THEOREM LastSettingHolds == Spec => []SettingHolds
PROOF
<1>1. WakeInv => SettingHolds BY DEF WakeInv
<1>. QED BY <1>1, WakeInvariant, PTL

(* No packet leaves after a PUT that disables the switch was accepted.      *)
THEOREM NoLatePacket == Spec => []NoPacketAfterDisable
PROOF
<1>1. WakeInv => NoPacketAfterDisable BY DEF WakeInv
<1>. QED BY <1>1, WakeInvariant, PTL

(* Crashes, power losses and failed writes lose no accepted setting.        *)
THEOREM SettingIsDurable == Spec => []SettingSurvives
PROOF
<1>1. WakeInv => SettingSurvives BY DEF WakeInv
<1>. QED BY <1>1, WakeInvariant, PTL

(* No failure and no restart leaves the lock with a thread that is not in   *)
(* the critical section.                                                    *)
THEOREM LockIsGivenUp == Spec => []NoLockLeftBehind
PROOF
<1>1. WakeInv => NoLockLeftBehind
  BY DEF WakeInv, LockInv, NoLockLeftBehind, Critical, Persisting
<1>. QED BY <1>1, WakeInvariant, PTL

(* No restart finds a state file that keeps the service from starting.      *)
THEOREM NeverRefusesToStart == Spec => []AlwaysStarts
PROOF
<1>1. WakeInv => AlwaysStarts BY DEF WakeInv
<1>. QED BY <1>1, WakeInvariant, PTL
-----------------------------------------------------------------------------
(* The lock, the memory and the state file implement a durable switch *)

Asked == IF lock # None /\ pc[lock] # "send" THEN want[lock] ELSE "none"
Sending == \E t \in Threads : pc[t] = "send"

(* The lock says what goes on: nothing, a PUT on its way, or a packet.      *)
LEMMA LockTells ==
  ASSUME WakeInv
  PROVE  /\ lock = None => Asked = "none" /\ ~Sending
         /\ \A t \in Threads :
              /\ pc[t] \in Persisting => Asked = want[t] /\ want[t] \in Settings /\ ~Sending
              /\ pc[t] = "send" => Asked = "none" /\ Sending
BY NoneAssumption
   DEF WakeInv, LockInv, TypeOK, Equipped, Asked, Sending, Critical, Persisting, Settings

(* The same after a step.                                                   *)
LEMMA LockTellsNext ==
  ASSUME WakeInv, WakeInv'
  PROVE  /\ lock' = None => Asked' = "none" /\ ~Sending'
         /\ \A t \in Threads :
              /\ pc'[t] \in Persisting => Asked' = want'[t] /\ ~Sending'
              /\ pc'[t] = "send" => Asked' = "none" /\ Sending'
BY NoneAssumption
   DEF WakeInv, LockInv, TypeOK, Equipped, Asked, Sending, Critical, Persisting, Settings

SwitchStep == [Switch!SwitchNext]_(Switch!switchVars)

(* _persist, from the lock to the setting in force or the answer 500.       *)
LEMMA PutSteps ==
  ASSUME WakeInv, WakeInv', NEW t \in Threads, UNCHANGED configured,
         Acquire(t) \/ Write(t) \/ Sync(t) \/ Replace(t) \/ SyncDirectory(t) \/ SetEnabled(t)
           \/ PersistFails(t)
  PROVE  SwitchStep
PROOF
<1>1. pc \in [Threads -> PCs] /\ t # None BY NoneAssumption DEF WakeInv, TypeOK
<1>2. CASE Acquire(t)
  <2>1. /\ Asked = "none" /\ ~Sending /\ Asked' = want[t] /\ ~Sending'
        /\ mayLoad' = mayLoad \cup {want[t]} /\ UNCHANGED <<configured, enabled>>
        /\ want[t] \in Settings /\ (want[t] = "on" => configured)
    BY <1>1, <1>2, LockTells, LockTellsNext
       DEF Acquire, Goto, Persisting, files, WakeInv, Equipped, Settings
  <2>2. Switch!Ask(want[t])
    BY <2>1 DEF Switch!Ask, Switch!Quiet, Asked, Sending
  <2>. QED BY <2>1, <2>2 DEF SwitchStep, Switch!SwitchNext, Settings
<1>3. CASE Write(t) \/ Sync(t) \/ Replace(t) \/ SyncDirectory(t)
  <2>1. /\ pc[t] \in Persisting /\ pc'[t] \in Persisting
        /\ UNCHANGED <<configured, enabled, want, mayLoad>>
    BY <1>1, <1>3 DEF Write, Sync, Replace, SyncDirectory, Goto, Persisting, files, history
  <2>2. Asked' = Asked /\ (Sending' <=> Sending) BY <2>1, LockTells, LockTellsNext
  <2>. QED BY <2>1, <2>2 DEF SwitchStep, Switch!switchVars, Asked, Sending
<1>4. CASE SetEnabled(t)
  <2>1. /\ Asked = want[t] /\ want[t] \in Settings /\ ~Sending /\ Asked' = "none" /\ ~Sending'
        /\ enabled' = want[t] /\ mayLoad' = {want[t]} /\ UNCHANGED configured
    BY <1>4, LockTells, LockTellsNext DEF SetEnabled, Release, Persisting
  <2>2. Switch!Set BY <2>1 DEF Switch!Set, Asked, Sending, Settings
  <2>. QED BY <2>2 DEF SwitchStep, Switch!SwitchNext
<1>5. CASE PersistFails(t)
  <2>1. /\ Asked = want[t] /\ want[t] \in Settings /\ ~Sending /\ Asked' = "none" /\ ~Sending'
        /\ UNCHANGED <<configured, enabled, mayLoad>>
    BY <1>5, LockTells, LockTellsNext DEF PersistFails, Release, Persisting, history
  <2>2. Switch!Fail BY <2>1 DEF Switch!Fail, Asked, Sending, Settings
  <2>. QED BY <2>2 DEF SwitchStep, Switch!SwitchNext
<1>. QED BY <1>2, <1>3, <1>4, <1>5

(* A packet is sent while the lock is held; waiting and answering is not    *)
(* seen.                                                                    *)
LEMMA OtherSteps ==
  ASSUME WakeInv, WakeInv', NEW t \in Threads, UNCHANGED configured,
         \/ \E s \in Settings : Put(t, s)
         \/ Get(t) \/ Wake(t) \/ Status(t) \/ CheckEnabled(t) \/ SendPacket(t) \/ Answer(t)
  PROVE  SwitchStep
PROOF
<1>1. pc \in [Threads -> PCs] /\ t # None BY NoneAssumption DEF WakeInv, TypeOK
<1>2. CASE \/ \E s \in Settings : Put(t, s)
           \/ Get(t) \/ Wake(t) \/ Status(t) \/ Answer(t) \/ (CheckEnabled(t) /\ pc'[t] # "send")
  <2>1. /\ \A s \in Threads : s # t => pc'[s] = pc[s] /\ want'[s] = want[s]
        /\ pc[t] \notin Critical /\ pc'[t] \notin Critical
        /\ UNCHANGED <<configured, enabled, lock, mayLoad>>
    BY <1>1, <1>2
       DEF Put, Get, Wake, Status, Answer, CheckEnabled, Goto, Respond, Critical, Persisting,
           files, history, WakeInv, TypeOK
  <2>2. lock # t BY <2>1 DEF WakeInv, LockInv
  <2>3. Asked' = Asked BY <2>1, <2>2 DEF Asked, WakeInv, TypeOK
  <2>4. Sending' <=> Sending BY <2>1 DEF Sending, Critical
  <2>. QED BY <2>1, <2>3, <2>4 DEF SwitchStep, Switch!switchVars, Asked, Sending
<1>3. CASE CheckEnabled(t) /\ pc'[t] = "send"
  <2>1. /\ Asked = "none" /\ ~Sending /\ Asked' = "none" /\ Sending'
        /\ configured /\ enabled = "on" /\ UNCHANGED <<configured, enabled, mayLoad>>
    BY <1>1, <1>3, LockTells, LockTellsNext DEF CheckEnabled, Respond, history
  <2>2. Switch!Send BY <2>1 DEF Switch!Send, Switch!Quiet, Asked, Sending
  <2>. QED BY <2>2 DEF SwitchStep, Switch!SwitchNext
<1>4. CASE SendPacket(t)
  <2>1. /\ Asked = "none" /\ Sending /\ Asked' = "none" /\ ~Sending'
        /\ UNCHANGED <<configured, enabled, mayLoad>>
    BY <1>4, LockTells, LockTellsNext DEF SendPacket, Release, history
  <2>2. Switch!Sent BY <2>1 DEF Switch!Sent, Asked, Sending
  <2>. QED BY <2>2 DEF SwitchStep, Switch!SwitchNext
<1>. QED BY <1>2, <1>3, <1>4

(* What a restart loads is one of the settings it may find.                 *)
LEMMA RestartSteps ==
  ASSUME WakeInv, WakeInv', NEW f \in Contents, Loaded(f) \in mayLoad, Restart(f)
  PROVE  SwitchStep
PROOF
<1>1. Asked' = "none" /\ ~Sending' /\ UNCHANGED mayLoad
  BY LockTellsNext DEF Restart
<1>2. /\ configured' \in BOOLEAN
      /\ IF configured' THEN enabled' \in mayLoad ELSE enabled' = "off"
  BY DEF Restart, StartsWith, WakeInv, AlwaysStarts
<1>3. Switch!Restart BY <1>1, <1>2 DEF Switch!Restart, Asked, Sending
<1>. QED BY <1>3 DEF SwitchStep, Switch!SwitchNext

LEMMA StepsImplementSwitch == WakeInv /\ WakeInv' /\ [Next]_vars => SwitchStep
PROOF
<1>. SUFFICES ASSUME WakeInv, WakeInv', [Next]_vars PROVE SwitchStep OBVIOUS
<1>1. ASSUME NEW t \in Threads, Request(t) \/ Enter(t) \/ Work(t) \/ Fails(t) PROVE SwitchStep
  BY <1>1, PutSteps, OtherSteps DEF Request, Enter, Work, Fails
<1>2. CASE Crash
  BY <1>2, RestartSteps DEF Crash, WakeInv, TypeOK, SettingSurvives
<1>3. CASE PowerLoss
  <2>1. PICK c \in {durable, file.is} : Restart(c) BY <1>3 DEF PowerLoss, WakeInv, FilesWhole
  <2>2. c \in Contents /\ Loaded(c) \in mayLoad BY DEF WakeInv, TypeOK, SettingSurvives
  <2>. QED BY <2>1, <2>2, RestartSteps
<1>4. CASE UNCHANGED vars
  BY <1>4 DEF vars, threads, history, SwitchStep, Switch!switchVars, Sending
<1>. QED BY <1>1, <1>2, <1>3, <1>4 DEF Next

(* The switch is a durable register: set in one step, never while a packet  *)
(* is sent, found after a restart as somebody has set or tried to set it.   *)
THEOREM WakeImplementsSwitch == Spec => Implements
PROOF
<1>1. Init => Switch!SwitchInit
  BY NoneAssumption DEF Init, Switch!SwitchInit, StartsWith, Loaded
<1>. QED
  BY <1>1, WakeInvariant, StepsImplementSwitch, PTL
     DEF Spec, Implements, Switch!SwitchSpec, SwitchStep
=============================================================================
