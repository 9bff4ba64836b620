------------------------ MODULE TransactionSyncProofs ------------------------
(***************************************************************************)
(* Proofs about TransactionSync, for any numbers of events, accounts and    *)
(* threads and under every fault.                                           *)
(***************************************************************************)
EXTENDS TransactionSync, TLAPS

(* Where a thread works on an import, and where it holds the lock. *)
Importing == {"acquire", "check", "record", "spawn", "bridge", "failed", "missing", "complete"}
Critical == (Importing \ {"acquire"}) \cup {"probe"}

(* A thread on an import has its event, account and request; so has one     *)
(* that is about to say that an event is imported.                          *)
Equipped ==
  \A t \in Threads :
    /\ pc[t] \in Importing =>
         event[t] \in Events /\ account[t] \in Accounts /\ request[t] \in Requests
    /\ reply[t] \in {"201", "409"} => event[t] \in Events

TypeInv == TypeOK /\ Equipped

(* The lock keeps the critical sections apart, and children live in them.   *)
LockInv ==
  \A t \in Threads :
    /\ pc[t] \in Critical <=> lock = t
    /\ child[t] # "none" <=> pc[t] \in {"bridge", "probe"}

(* What holds of the attempt of t: its row is open, how far it has got in    *)
(* Actual, and that what it claims is true.                                 *)
Attempt(t) ==
  /\ pc[t] = "record" => state[event[t]] # "completed"
  /\ pc[t] \in {"spawn", "bridge", "failed", "missing", "complete"} =>
       state[event[t]] = "processing"
  /\ child[t] = "sync" => pc[t] = "bridge" /\ <<event[t], account[t]>> \in cache
  /\ (child[t] = "ok" /\ pc[t] = "bridge") \/ pc[t] = "complete" =>
       <<event[t], account[t]>> \in budget /\ cache \subseteq budget
  /\ reply[t] \in {"201", "409"} => pc[t] = "reply" /\ state[event[t]] = "completed"

AttemptInv == \A t \in Threads : Attempt(t)

(* Nothing of a completed event waits in the local copy. *)
NothingPending ==
  \A e \in Events, a \in Accounts :
    state[e] = "completed" /\ <<e, a>> \in cache => <<e, a>> \in budget

SyncInv == /\ TypeInv /\ LockInv /\ AttemptInv
           /\ CompletedIsBooked /\ EveryImportHasRow /\ NothingPending

-----------------------------------------------------------------------------
(* The steps, sorted *)

(* Steps that leave rows and Actual alone. *)
Moves(t) ==
  \/ \E e \in Events, a \in Accounts, r \in Requests : Arrive(t, e, a, r)
  \/ \E e \in Events, r \in Requests : Refuse(t, e, r)
  \/ HealthRequest(t) \/ Acquire(t) \/ Poll(t) \/ Check(t) \/ Spawn(t) \/ ImportEnds(t)
  \/ ProbeEnds(t) \/ CheckAccounts(t) \/ DateFails(t) \/ BridgeFails(t) \/ Timeout(t)
  \/ DatabaseFails(t) \/ Undecodable(t)

(* Steps that change them, or tell. *)
Changes(t) ==
  \/ RecordProcessing(t) \/ RecordFailure(t) \/ RecordCompleted(t) \/ Reply(t)
  \/ Connect(t) \/ ImportTransactions(t) \/ SyncBudget(t)

LEMMA StepsSorted ==
  ASSUME Next
  PROVE  (\E t \in Threads : Moves(t) \/ Changes(t)) \/ Crash \/ CacheExpires
PROOF
<1>1. ASSUME NEW e \in Events, Send(e) PROVE \E t \in Threads : Moves(t)
  BY <1>1, TargetsAssumption DEF Send, Moves
<1>2. ASSUME NEW t \in Threads, Enter(t) \/ Work(t) \/ ThreadFails(t)
      PROVE  Moves(t) \/ Changes(t)
  BY <1>2 DEF Enter, Work, ChildStep, ThreadFails, Moves, Changes
<1>3. CASE \E t \in Threads, e \in Events, r \in Requests : Refuse(t, e, r)
  BY <1>3 DEF Moves
<1>4. CASE \E t \in Threads : HealthRequest(t) BY <1>4 DEF Moves
<1>. QED BY <1>1, <1>2, <1>3, <1>4 DEF Next, Calm

-----------------------------------------------------------------------------
(* Types and the lock *)

LEMMA TypesInitially == Init => TypeInv
PROOF
<1>. SUFFICES ASSUME Init PROVE TypeInv OBVIOUS
<1>1. /\ state \in [Events -> {"none", "processing", "completed", "failed"}]
      /\ rowRequest \in [Events -> Requests \cup {None}]
      /\ lock \in Threads \cup {None}
  BY DEF Init
<1>2. healthy \in BOOLEAN /\ fresh \in BOOLEAN /\ lastRun \in {"none", "ok", "failed", "lost"}
  BY DEF Init, FreshAtStart
<1>3. /\ pc \in [Threads -> PCs] /\ reply \in [Threads -> Replies]
      /\ child \in [Threads -> ChildStates]
  BY DEF Init, PCs, Replies, ChildStates
<1>4. /\ event \in [Threads -> Events \cup {None}]
      /\ account \in [Threads -> Accounts \cup {None}]
      /\ request \in [Threads -> Requests \cup {None}]
  BY DEF Init
<1>5. /\ existing \subseteq Accounts /\ told \subseteq Events
      /\ cache \subseteq Events \X Accounts /\ budget \subseteq Events \X Accounts
  BY DEF Init
<1>6. Equipped BY DEF Init, Equipped, Importing
<1>. QED BY <1>1, <1>2, <1>3, <1>4, <1>5, <1>6 DEF TypeInv, TypeOK

LEMMA MovesKeepTypes ==
  ASSUME TypeInv, NEW t \in Threads, Moves(t)
  PROVE  TypeInv'
PROOF
<1>. USE NoneAssumption DEF TypeInv, TypeOK, Equipped, Importing, PCs, ChildStates, Replies,
             Goto, Respond, RespondAndRelease, Ended, table, health, threads, actual
<1>1. CASE \E e \in Events, a \in Accounts, r \in Requests : Arrive(t, e, a, r)
  BY <1>1 DEF Arrive
<1>2. CASE \E e \in Events, r \in Requests : Refuse(t, e, r) BY <1>2 DEF Refuse
<1>3. CASE HealthRequest(t) BY <1>3 DEF HealthRequest
<1>4. CASE Acquire(t) BY <1>4 DEF Acquire
<1>5. CASE Poll(t) BY <1>5 DEF Poll
<1>6. CASE Check(t) BY <1>6 DEF Check
<1>7. CASE Spawn(t) BY <1>7 DEF Spawn
<1>8. CASE ImportEnds(t) BY <1>8 DEF ImportEnds, Outcome
<1>9. CASE ProbeEnds(t) BY <1>9 DEF ProbeEnds
<1>10. CASE CheckAccounts(t) BY <1>10 DEF CheckAccounts, Exits
<1>11. CASE DateFails(t) BY <1>11 DEF DateFails
<1>12. CASE BridgeFails(t) BY <1>12 DEF BridgeFails, Exits
<1>13. CASE Timeout(t) BY <1>13 DEF Timeout, Exits
<1>14. CASE DatabaseFails(t) BY <1>14 DEF DatabaseFails
<1>15. CASE Undecodable(t) BY <1>15 DEF Undecodable
<1>. QED BY <1>1, <1>2, <1>3, <1>4, <1>5, <1>6, <1>7, <1>8, <1>9, <1>10, <1>11, <1>12,
         <1>13, <1>14, <1>15 DEF Moves

LEMMA ChangesKeepTypes ==
  ASSUME TypeInv, NEW t \in Threads, Changes(t)
  PROVE  TypeInv'
PROOF
<1>. USE NoneAssumption DEF TypeInv, TypeOK, Equipped, Importing, PCs, ChildStates, Replies,
             Goto, Respond, RespondAndRelease, SetState, SetHealth, Ended, Exits,
             table, health, threads, actual
<1>1. CASE RecordProcessing(t) BY <1>1 DEF RecordProcessing, Upsert
<1>2. CASE RecordFailure(t) BY <1>2 DEF RecordFailure
<1>3. CASE RecordCompleted(t) BY <1>3 DEF RecordCompleted
<1>4. CASE Reply(t) BY <1>4 DEF Reply
<1>5. CASE Connect(t) BY <1>5 DEF Connect
<1>6. CASE ImportTransactions(t) BY <1>6 DEF ImportTransactions
<1>7. CASE SyncBudget(t) BY <1>7 DEF SyncBudget
<1>. QED BY <1>1, <1>2, <1>3, <1>4, <1>5, <1>6, <1>7 DEF Changes

LEMMA TypesKept == TypeInv /\ [Next]_vars => TypeInv'
PROOF
<1>. SUFFICES ASSUME TypeInv, [Next]_vars PROVE TypeInv' OBVIOUS
<1>1. CASE \E t \in Threads : Moves(t) \/ Changes(t) BY <1>1, MovesKeepTypes, ChangesKeepTypes
<1>2. CASE Crash
  BY <1>2, NoneAssumption DEF Crash, TypeInv, TypeOK, Equipped, Importing, PCs, ChildStates,
       Replies, FreshAtStart, table, actual
<1>3. CASE CacheExpires
  BY <1>3 DEF CacheExpires, TypeInv, TypeOK, Equipped, table, threads, actual
<1>4. CASE UNCHANGED vars
  BY <1>4 DEF vars, TypeInv, TypeOK, Equipped, table, health, threads, actual
<1>. QED BY <1>1, <1>2, <1>3, <1>4, StepsSorted

(* Type correctness, for the table, the threads, the children and Actual.   *)
THEOREM TypeCorrect == Spec => []TypeOK
PROOF
<1>1. TypeInv => TypeOK BY DEF TypeInv
<1>. QED BY <1>1, TypesInitially, TypesKept, PTL DEF Spec

LEMMA OthersStay ==
  ASSUME TypeInv, NEW t \in Threads, Moves(t) \/ Changes(t), NEW s \in Threads, s # t
  PROVE  /\ pc'[s] = pc[s] /\ child'[s] = child[s] /\ reply'[s] = reply[s]
         /\ event'[s] = event[s] /\ account'[s] = account[s]
PROOF
<1>. USE DEF TypeInv, TypeOK, Goto, Respond, RespondAndRelease, Exits, threads, actual
<1>1. CASE Moves(t)
  BY <1>1 DEF Moves, Arrive, Refuse, HealthRequest, Acquire, Poll, Check, Spawn, ImportEnds,
       ProbeEnds, CheckAccounts, DateFails, BridgeFails, Timeout, DatabaseFails, Undecodable
<1>2. CASE Changes(t)
  BY <1>2 DEF Changes, RecordProcessing, RecordFailure, RecordCompleted, Reply, Connect,
       ImportTransactions, SyncBudget
<1>. QED BY <1>1, <1>2

LEMMA MovesLeaveRows ==
  ASSUME NEW t \in Threads, Moves(t)
  PROVE  UNCHANGED <<state, rowRequest, cache, budget, told>>
BY DEF Moves, Arrive, Refuse, HealthRequest, Acquire, Poll, Check, Spawn, ImportEnds,
     ProbeEnds, CheckAccounts, DateFails, BridgeFails, Timeout, DatabaseFails, Undecodable,
     table, actual

LEMMA LockKept == TypeInv /\ LockInv /\ [Next]_vars => LockInv'
PROOF
<1>. SUFFICES ASSUME TypeInv, LockInv, [Next]_vars PROVE LockInv' OBVIOUS
<1>. USE NoneAssumption
     DEF TypeInv, TypeOK, LockInv, Critical, Importing, PCs, ChildStates,
             Goto, Respond, RespondAndRelease, Exits, table, health, threads, actual
<1>1. ASSUME NEW t \in Threads, Moves(t) PROVE LockInv'
  <2>1. CASE \E e \in Events, a \in Accounts, r \in Requests : Arrive(t, e, a, r)
    BY <2>1 DEF Arrive
  <2>2. CASE \E e \in Events, r \in Requests : Refuse(t, e, r) BY <2>2 DEF Refuse
  <2>3. CASE HealthRequest(t) BY <2>3 DEF HealthRequest
  <2>4. CASE Acquire(t) BY <2>4 DEF Acquire
  <2>5. CASE Poll(t) BY <2>5 DEF Poll
  <2>6. CASE Check(t) BY <2>6 DEF Check
  <2>7. CASE Spawn(t) BY <2>7 DEF Spawn
  <2>8. CASE ImportEnds(t) BY <2>8 DEF ImportEnds, Outcome
  <2>9. CASE ProbeEnds(t) BY <2>9 DEF ProbeEnds
  <2>10. CASE CheckAccounts(t) BY <2>10 DEF CheckAccounts
  <2>11. CASE DateFails(t) BY <2>11 DEF DateFails
  <2>12. CASE BridgeFails(t) BY <2>12 DEF BridgeFails
  <2>13. CASE Timeout(t) BY <2>13 DEF Timeout
  <2>14. CASE DatabaseFails(t) BY <2>14 DEF DatabaseFails
  <2>15. CASE Undecodable(t) BY <2>15 DEF Undecodable
  <2>. QED BY <1>1, <2>1, <2>2, <2>3, <2>4, <2>5, <2>6, <2>7, <2>8, <2>9, <2>10, <2>11,
           <2>12, <2>13, <2>14, <2>15 DEF Moves
<1>2. ASSUME NEW t \in Threads, Changes(t) PROVE LockInv'
  <2>1. CASE RecordProcessing(t) BY <2>1 DEF RecordProcessing
  <2>2. CASE RecordFailure(t) BY <2>2 DEF RecordFailure
  <2>3. CASE RecordCompleted(t) BY <2>3 DEF RecordCompleted
  <2>4. CASE Reply(t) BY <2>4 DEF Reply
  <2>5. CASE Connect(t) BY <2>5 DEF Connect
  <2>6. CASE ImportTransactions(t) BY <2>6 DEF ImportTransactions
  <2>7. CASE SyncBudget(t) BY <2>7 DEF SyncBudget
  <2>. QED BY <1>2, <2>1, <2>2, <2>3, <2>4, <2>5, <2>6, <2>7 DEF Changes
<1>3. CASE Crash BY <1>3 DEF Crash
<1>4. CASE CacheExpires BY <1>4 DEF CacheExpires
<1>5. CASE UNCHANGED vars BY <1>5 DEF vars
<1>. QED BY <1>1, <1>2, <1>3, <1>4, <1>5, StepsSorted

(* Never two children at work on the local copy of the budget.              *)
THEOREM ChildrenApart == Spec => []OneChild
PROOF
<1>1. Init => LockInv BY NoneAssumption DEF Init, LockInv, Critical, Importing
<1>2. TypeInv /\ LockInv => OneChild BY DEF LockInv, OneChild, Critical, Importing
<1>. QED BY <1>1, <1>2, TypesInitially, TypesKept, LockKept, PTL DEF Spec

(* No way out of the critical section keeps the lock or leaves a child.     *)
THEOREM LockIsGivenUp == Spec => []NoLockLeftBehind
PROOF
<1>1. Init => LockInv BY NoneAssumption DEF Init, LockInv, Critical, Importing
<1>2. LockInv => NoLockLeftBehind BY DEF LockInv, NoLockLeftBehind, Critical, Importing
<1>. QED BY <1>1, <1>2, TypesInitially, TypesKept, LockKept, PTL DEF Spec

-----------------------------------------------------------------------------
(* The table and Actual *)

(* Only the thread in the critical section has a child. *)
LEMMA Alone ==
  ASSUME TypeInv, LockInv, NEW s \in Threads, NEW t \in Threads, s # t,
         pc[t] \in Critical \/ child[t] # "none"
  PROVE  pc[s] \notin Critical /\ child[s] = "none"
BY DEF LockInv, Critical, Importing

LEMMA CompletedKept ==
  ASSUME SyncInv, NEW t \in Threads, Changes(t), NEW e \in Events, state[e] = "completed"
  PROVE  /\ state'[e] = "completed" /\ rowRequest'[e] = rowRequest[e]
         /\ \A a \in Accounts : <<e, a>> \in budget' => <<e, a>> \in budget
PROOF
<1>. USE DEF SyncInv, TypeInv, TypeOK
<1>1. CASE RecordProcessing(t) BY <1>1 DEF RecordProcessing, Upsert, table, actual
<1>2. CASE RecordFailure(t)
  BY <1>2 DEF RecordFailure, SetState, AttemptInv, Attempt, actual
<1>3. CASE RecordCompleted(t)
  BY <1>3 DEF RecordCompleted, SetState, AttemptInv, Attempt, actual
<1>4. CASE Reply(t) BY <1>4 DEF Reply, table, actual
<1>5. CASE Connect(t) BY <1>5 DEF Connect, NothingPending, table
<1>6. CASE ImportTransactions(t) BY <1>6 DEF ImportTransactions, table
<1>7. CASE SyncBudget(t) BY <1>7 DEF SyncBudget, NothingPending, table
<1>. QED BY <1>1, <1>2, <1>3, <1>4, <1>5, <1>6, <1>7 DEF Changes

LEMMA MovesKeepAttempts ==
  ASSUME SyncInv, NEW t \in Threads, Moves(t)
  PROVE  AttemptInv'
PROOF
<1>1. UNCHANGED <<state, cache, budget>> BY MovesLeaveRows
<1>2. ASSUME NEW s \in Threads, s # t PROVE Attempt(s)'
  BY <1>1, <1>2, OthersStay DEF SyncInv, AttemptInv, Attempt
<1>3. Attempt(t)'
  <2>. USE <1>1 DEF SyncInv, TypeInv, TypeOK, LockInv, AttemptInv, Attempt, Goto, Respond,
                    RespondAndRelease, Exits, threads
  <2>1. CASE \E e \in Events, a \in Accounts, r \in Requests : Arrive(t, e, a, r)
    BY <2>1 DEF Arrive
  <2>2. CASE \E e \in Events, r \in Requests : Refuse(t, e, r) BY <2>2 DEF Refuse
  <2>3. CASE HealthRequest(t) BY <2>3 DEF HealthRequest
  <2>4. CASE Acquire(t) BY <2>4 DEF Acquire
  <2>5. CASE Poll(t) BY <2>5 DEF Poll
  <2>6. CASE Check(t) BY <2>6 DEF Check, IsCompleted
  <2>7. CASE Spawn(t) BY <2>7 DEF Spawn
  <2>8. CASE ImportEnds(t) BY <2>8 DEF ImportEnds, Outcome
  <2>9. CASE ProbeEnds(t) BY <2>9 DEF ProbeEnds
  <2>10. CASE CheckAccounts(t) BY <2>10 DEF CheckAccounts
  <2>11. CASE DateFails(t) BY <2>11 DEF DateFails
  <2>12. CASE BridgeFails(t) BY <2>12 DEF BridgeFails
  <2>13. CASE Timeout(t) BY <2>13 DEF Timeout
  <2>14. CASE DatabaseFails(t) BY <2>14 DEF DatabaseFails
  <2>15. CASE Undecodable(t) BY <2>15 DEF Undecodable
  <2>. QED BY <2>1, <2>2, <2>3, <2>4, <2>5, <2>6, <2>7, <2>8, <2>9, <2>10, <2>11,
           <2>12, <2>13, <2>14, <2>15 DEF Moves
<1>. QED BY <1>2, <1>3 DEF AttemptInv

LEMMA ChangesKeepAttempts ==
  ASSUME SyncInv, NEW t \in Threads, Changes(t)
  PROVE  AttemptInv'
PROOF
<1>1. ASSUME NEW s \in Threads, s # t PROVE Attempt(s)'
  <2>1. CASE Reply(t)
    BY <1>1, <2>1, OthersStay DEF SyncInv, AttemptInv, Attempt, Reply, table, actual
  <2>2. CASE ~Reply(t)
    <3>1. pc[t] \in Critical \/ child[t] # "none"
      BY <2>2 DEF Changes, RecordProcessing, RecordFailure, RecordCompleted, Connect,
           ImportTransactions, SyncBudget, Critical, Importing
    <3>2. pc[s] \notin Critical /\ child[s] = "none"
      BY <1>1, <3>1, Alone DEF SyncInv
    <3>3. pc'[s] \notin Critical /\ child'[s] = "none"
      BY <1>1, <3>2, OthersStay DEF SyncInv
    <3>4. reply'[s] \in {"201", "409"} => pc'[s] = "reply" /\ state'[event'[s]] = "completed"
      <4>. SUFFICES ASSUME reply'[s] \in {"201", "409"}
                    PROVE  pc'[s] = "reply" /\ state'[event'[s]] = "completed"
        OBVIOUS
      <4>1. /\ pc'[s] = pc[s] /\ event'[s] = event[s] /\ reply[s] \in {"201", "409"}
        BY <1>1, OthersStay DEF SyncInv
      <4>2. pc[s] = "reply" /\ event[s] \in Events /\ state[event[s]] = "completed"
        BY <4>1 DEF SyncInv, TypeInv, Equipped, AttemptInv, Attempt
      <4>3. state'[event[s]] = "completed" BY <4>2, CompletedKept
      <4>. QED BY <4>1, <4>2, <4>3
    <3>. QED BY <3>3, <3>4 DEF Attempt, Critical, Importing
  <2>. QED BY <2>1, <2>2
<1>2. Attempt(t)'
  <2>. USE DEF SyncInv, TypeInv, TypeOK, Equipped, Importing, AttemptInv, Attempt, Goto,
               Respond, RespondAndRelease, SetState, Exits, threads, actual, table
  <2>1. CASE RecordProcessing(t) BY <2>1 DEF RecordProcessing, Upsert
  <2>2. CASE RecordFailure(t) BY <2>2 DEF RecordFailure
  <2>3. CASE RecordCompleted(t) BY <2>3 DEF RecordCompleted
  <2>4. CASE Reply(t) BY <2>4 DEF Reply
  <2>5. CASE Connect(t) BY <2>5 DEF Connect
  <2>6. CASE ImportTransactions(t) BY <2>6 DEF ImportTransactions
  <2>7. CASE SyncBudget(t) BY <2>7 DEF SyncBudget
  <2>. QED BY <2>1, <2>2, <2>3, <2>4, <2>5, <2>6, <2>7 DEF Changes
<1>. QED BY <1>1, <1>2 DEF AttemptInv

LEMMA BudgetGrows ==
  ASSUME SyncInv, NEW t \in Threads, Changes(t)
  PROVE  budget \subseteq budget'
BY DEF Changes, RecordProcessing, RecordFailure, RecordCompleted, Reply, Connect,
     ImportTransactions, SyncBudget, actual

LEMMA ChangesKeepBooked ==
  ASSUME SyncInv, NEW t \in Threads, Changes(t)
  PROVE  CompletedIsBooked'
PROOF
<1>1. ASSUME NEW e \in Events, state'[e] = "completed"
      PROVE  \E a \in Accounts : <<e, a>> \in budget'
  <2>1. CASE state[e] = "completed"
    BY <2>1, BudgetGrows DEF SyncInv, CompletedIsBooked
  <2>2. CASE state[e] # "completed"
    <3>1. RecordCompleted(t) /\ e = event[t]
      BY <1>1, <2>2 DEF SyncInv, TypeInv, TypeOK, Changes, RecordProcessing, Upsert,
           RecordFailure, RecordCompleted, SetState, Reply, Connect, ImportTransactions,
           SyncBudget, table
    <3>2. account[t] \in Accounts /\ <<event[t], account[t]>> \in budget
      BY <3>1 DEF RecordCompleted, SyncInv, TypeInv, Equipped, Importing, AttemptInv, Attempt
    <3>. QED BY <3>1, <3>2, BudgetGrows
  <2>. QED BY <2>1, <2>2
<1>2. ASSUME NEW e \in told' PROVE state'[e] = "completed"
  <2>1. e \in Events /\ state[e] = "completed"
    <3>1. CASE e \in told BY <3>1 DEF SyncInv, TypeInv, TypeOK, CompletedIsBooked
    <3>2. CASE e \notin told
      <4>1. Reply(t) /\ e = event[t] /\ reply[t] \in {"201", "409"}
        BY <1>2, <3>2 DEF Changes, RecordProcessing, RecordFailure, RecordCompleted, Reply,
             Connect, ImportTransactions, SyncBudget
      <4>. QED BY <4>1 DEF SyncInv, TypeInv, Equipped, AttemptInv, Attempt
    <3>. QED BY <3>1, <3>2
  <2>. QED BY <2>1, CompletedKept
<1>. QED BY <1>1, <1>2 DEF CompletedIsBooked

LEMMA ChangesKeepRows ==
  ASSUME SyncInv, NEW t \in Threads, Changes(t)
  PROVE  EveryImportHasRow' /\ NothingPending'
PROOF
<1>. USE DEF SyncInv, TypeInv, TypeOK, Equipped, Importing, AttemptInv, Attempt,
             EveryImportHasRow, NothingPending, table, actual
<1>1. CASE RecordProcessing(t) BY <1>1 DEF RecordProcessing, Upsert
<1>2. CASE RecordFailure(t) BY <1>2 DEF RecordFailure, SetState
<1>3. CASE RecordCompleted(t) BY <1>3 DEF RecordCompleted, SetState
<1>4. CASE Reply(t) BY <1>4 DEF Reply
<1>5. CASE Connect(t) BY <1>5 DEF Connect
<1>6. CASE ImportTransactions(t) BY <1>6 DEF ImportTransactions
<1>7. CASE SyncBudget(t) BY <1>7 DEF SyncBudget
<1>. QED BY <1>1, <1>2, <1>3, <1>4, <1>5, <1>6, <1>7 DEF Changes

LEMMA SyncInitially == Init => SyncInv
PROOF
<1>. SUFFICES ASSUME Init PROVE SyncInv OBVIOUS
<1>1. TypeInv BY TypesInitially
<1>2. LockInv /\ AttemptInv
  BY NoneAssumption DEF Init, LockInv, AttemptInv, Attempt, Critical, Importing
<1>3. CompletedIsBooked /\ EveryImportHasRow /\ NothingPending
  BY DEF Init, CompletedIsBooked, EveryImportHasRow, NothingPending
<1>. QED BY <1>1, <1>2, <1>3 DEF SyncInv

LEMMA SyncKept == SyncInv /\ [Next]_vars => SyncInv'
PROOF
<1>. SUFFICES ASSUME SyncInv, [Next]_vars PROVE SyncInv' OBVIOUS
<1>1. TypeInv' /\ LockInv' BY TypesKept, LockKept DEF SyncInv
<1>2. ASSUME NEW t \in Threads, Moves(t) PROVE SyncInv'
  <2>1. AttemptInv' BY <1>2, MovesKeepAttempts
  <2>2. CompletedIsBooked' /\ EveryImportHasRow' /\ NothingPending'
    BY <1>2, MovesLeaveRows DEF SyncInv, CompletedIsBooked, EveryImportHasRow, NothingPending
  <2>. QED BY <1>1, <2>1, <2>2 DEF SyncInv
<1>3. ASSUME NEW t \in Threads, Changes(t) PROVE SyncInv'
  BY <1>1, <1>3, ChangesKeepAttempts, ChangesKeepBooked, ChangesKeepRows DEF SyncInv
<1>4. ASSUME UNCHANGED <<state, cache, budget, told>>,
             AttemptInv' PROVE SyncInv'
  BY <1>1, <1>4 DEF SyncInv, CompletedIsBooked, EveryImportHasRow, NothingPending
<1>5. CASE Crash
  <2>1. AttemptInv' BY <1>5 DEF Crash, AttemptInv, Attempt, table, actual
  <2>. QED BY <1>4, <1>5, <2>1 DEF Crash, table, actual
<1>6. CASE CacheExpires
  <2>1. AttemptInv'
    BY <1>6 DEF CacheExpires, SyncInv, AttemptInv, Attempt, table, threads, actual
  <2>. QED BY <1>4, <1>6, <2>1 DEF CacheExpires, table, actual
<1>7. CASE UNCHANGED vars
  <2>1. AttemptInv' BY <1>7 DEF vars, SyncInv, AttemptInv, Attempt, table, threads, actual
  <2>. QED BY <1>4, <1>7, <2>1 DEF vars, table, actual
<1>. QED BY <1>2, <1>3, <1>5, <1>6, <1>7, StepsSorted

-----------------------------------------------------------------------------
(* Theorems *)

LEMMA Inductive == Spec => []SyncInv
BY SyncInitially, SyncKept, PTL DEF Spec

(* What the table calls completed, and what a client was told is imported,  *)
(* is on the Actual server, through crashes, killed children, lost answers  *)
(* and database errors.                                                     *)
THEOREM CompletedIsTrue == Spec => []CompletedIsBooked
PROOF
<1>1. SyncInv => CompletedIsBooked BY DEF SyncInv
<1>. QED BY <1>1, Inductive, PTL

(* No attempt reaches Actual, or its local copy, without a row.             *)
THEOREM NoImportWithoutRow == Spec => []EveryImportHasRow
PROOF
<1>1. SyncInv => EveryImportHasRow BY DEF SyncInv
<1>. QED BY <1>1, Inductive, PTL

(* A completed event stays completed, keeps its request id and is never     *)
(* booked again.                                                            *)
THEOREM CompletedForGood == Spec => CompletedIsFinal
PROOF
<1>1. SyncInv /\ [Next]_vars =>
        [\A e \in Events : state[e] = "completed" =>
           /\ state'[e] = "completed" /\ rowRequest'[e] = rowRequest[e]
           /\ \A a \in Accounts : <<e, a>> \in budget' => <<e, a>> \in budget]_vars
  <2>. SUFFICES ASSUME SyncInv, Next, NEW e \in Events, state[e] = "completed"
                PROVE  /\ state'[e] = "completed" /\ rowRequest'[e] = rowRequest[e]
                       /\ \A a \in Accounts : <<e, a>> \in budget' => <<e, a>> \in budget
    OBVIOUS
  <2>1. CASE \E t \in Threads : Moves(t) BY <2>1, MovesLeaveRows
  <2>2. CASE \E t \in Threads : Changes(t) BY <2>2, CompletedKept
  <2>3. CASE Crash \/ CacheExpires BY <2>3 DEF Crash, CacheExpires, table, actual
  <2>. QED BY <2>1, <2>2, <2>3, StepsSorted
<1>. QED BY <1>1, Inductive, PTL DEF Spec, CompletedIsFinal

LEMMA StepsImplementLedger ==
  SyncInv /\ [Next]_vars => [Ledger!LedgerNext]_(Ledger!ledgerVars)
PROOF
<1>. DEFINE settled == {e \in Events : state[e] = "completed"}
<1>. SUFFICES ASSUME SyncInv, [Next]_vars PROVE [Ledger!LedgerNext]_(Ledger!ledgerVars) OBVIOUS
<1>. USE DEF SyncInv, TypeInv, TypeOK
<1>1. CASE UNCHANGED <<state, budget, told>> BY <1>1 DEF Ledger!ledgerVars
<1>2. ASSUME NEW t \in Threads, Connect(t) \/ SyncBudget(t) PROVE Ledger!Book
  <2>1. budget' = budget \cup cache /\ UNCHANGED <<state, told>>
    BY <1>2 DEF Connect, SyncBudget, table
  <2>2. cache \ budget \in SUBSET ((Events \ settled) \X Accounts)
    BY DEF NothingPending
  <2>3. budget' = budget \cup (cache \ budget) BY <2>1
  <2>. QED BY <2>1, <2>2, <2>3 DEF Ledger!Book
<1>3. ASSUME NEW t \in Threads, RecordCompleted(t) PROVE \E e \in Events : Ledger!Settle(e)
  <2>1. /\ event[t] \in Events /\ account[t] \in Accounts /\ state[event[t]] = "processing"
        /\ <<event[t], account[t]>> \in budget
    BY <1>3 DEF RecordCompleted, Equipped, Importing, AttemptInv, Attempt
  <2>2. settled' = settled \cup {event[t]}
    BY <1>3, <2>1 DEF RecordCompleted, SetState
  <2>3. UNCHANGED <<budget, told>> BY <1>3 DEF RecordCompleted, actual
  <2>. QED BY <2>1, <2>2, <2>3 DEF Ledger!Settle
<1>4. ASSUME NEW t \in Threads, Reply(t), ~UNCHANGED <<state, budget, told>>
      PROVE  \E e \in Events : Ledger!Tell(e)
  <2>1. reply[t] \in {"201", "409"} /\ told' = told \cup {event[t]} /\ UNCHANGED <<state, budget>>
    BY <1>4 DEF Reply, table, actual
  <2>2. event[t] \in settled BY <2>1 DEF Equipped, AttemptInv, Attempt
  <2>. QED BY <2>1, <2>2 DEF Ledger!Tell
<1>5. ASSUME NEW t \in Threads, RecordProcessing(t) \/ RecordFailure(t) \/ ImportTransactions(t)
      PROVE  UNCHANGED <<settled, budget, told>>
  BY <1>5 DEF RecordProcessing, Upsert, RecordFailure, SetState, ImportTransactions,
       AttemptInv, Attempt, table, actual
<1>6. CASE \E t \in Threads : Moves(t) BY <1>1, <1>6, MovesLeaveRows
<1>7. CASE \E t \in Threads : Changes(t)
  BY <1>1, <1>2, <1>3, <1>4, <1>5, <1>7 DEF Changes, Ledger!LedgerNext, Ledger!ledgerVars
<1>8. CASE Crash \/ CacheExpires BY <1>1, <1>8 DEF Crash, CacheExpires, table, actual
<1>9. CASE UNCHANGED vars BY <1>1, <1>9 DEF vars, table, actual
<1>. QED BY <1>6, <1>7, <1>8, <1>9, StepsSorted

(* The transaction sync implements the ledger: booked before settled,       *)
(* settled before told, nothing lost and nothing booked twice.              *)
THEOREM SyncImplementsLedger == Spec => Implements
PROOF
<1>1. Init => Ledger!LedgerInit BY DEF Init, Ledger!LedgerInit
<1>. QED BY <1>1, StepsImplementLedger, Inductive, PTL DEF Spec, Implements, Ledger!LedgerSpec

-----------------------------------------------------------------------------
(* The request id of an attempt *)

(* From _record_processing to its end, an attempt has its id in the table:  *)
(* who would overwrite it waits for the lock.                               *)
OwnRow(t) ==
  pc[t] \in {"spawn", "bridge", "failed", "missing", "complete"} => rowRequest[event[t]] = request[t]

OwnRows == \A t \in Threads : OwnRow(t)

LEMMA OwnRowsKept == SyncInv /\ OwnRows /\ [Next]_vars => OwnRows'
PROOF
<1>. SUFFICES ASSUME SyncInv, OwnRows, [Next]_vars PROVE OwnRows' OBVIOUS
<1>. USE DEF SyncInv, TypeInv, TypeOK, Equipped, OwnRows, OwnRow, Importing
<1>1. ASSUME NEW t \in Threads, Moves(t) PROVE OwnRows'
  <2>1. UNCHANGED rowRequest BY <1>1, MovesLeaveRows
  <2>2. ASSUME NEW s \in Threads, s # t PROVE OwnRow(s)'
    <3>1. pc'[s] = pc[s] /\ event'[s] = event[s] BY <1>1, <2>2, OthersStay
    <3>2. request'[s] = request[s]
      BY <1>1, <2>2 DEF Moves, Arrive, Refuse, HealthRequest, Acquire, Poll, Check, Spawn,
           ImportEnds, ProbeEnds, CheckAccounts, DateFails, BridgeFails, Timeout, DatabaseFails,
           Undecodable, threads
    <3>. QED BY <2>1, <3>1, <3>2
  <2>3. OwnRow(t)'
    BY <1>1, <2>1 DEF Moves, Arrive, Refuse, HealthRequest, Acquire, Poll, Check, Spawn,
         ImportEnds, Outcome, ProbeEnds, CheckAccounts, DateFails, BridgeFails, Timeout,
         DatabaseFails, Undecodable, Goto, Respond, RespondAndRelease, threads
  <2>. QED BY <2>2, <2>3
<1>2. ASSUME NEW t \in Threads, Changes(t) PROVE OwnRows'
  <2>1. CASE RecordProcessing(t)
    <3>1. \A s \in Threads : s # t => pc[s] \notin Critical
      BY <2>1, Alone DEF RecordProcessing, Critical
    <3>2. rowRequest'[event[t]] = request[t] /\ UNCHANGED <<event, request>>
      BY <2>1 DEF RecordProcessing, Upsert, AttemptInv, Attempt, threads
    <3>3. \A s \in Threads : s # t => pc'[s] = pc[s] BY <2>1 DEF RecordProcessing, Goto
    <3>. QED BY <3>1, <3>2, <3>3 DEF Critical
  <2>2. CASE RecordFailure(t) \/ RecordCompleted(t)
    BY <2>2 DEF RecordFailure, RecordCompleted, Goto, Respond, RespondAndRelease
  <2>3. CASE Reply(t) BY <2>3 DEF Reply, Goto, table
  <2>4. CASE Connect(t) \/ ImportTransactions(t) \/ SyncBudget(t)
    BY <2>4 DEF Connect, ImportTransactions, SyncBudget, table, threads
  <2>. QED BY <1>2, <2>1, <2>2, <2>3, <2>4 DEF Changes
<1>3. CASE Crash BY <1>3 DEF Crash, table
<1>4. CASE CacheExpires BY <1>4 DEF CacheExpires, table, threads
<1>5. CASE UNCHANGED vars BY <1>5 DEF vars, table, threads
<1>. QED BY <1>1, <1>2, <1>3, <1>4, <1>5, StepsSorted

(* What is answered with 201 or 502 is in the table under the id of its     *)
(* attempt when the answer is decided.  (An attempt answered with 409 is    *)
(* not: its row keeps the id of another one.)                               *)
THEOREM AnswersAreRecorded == Spec => DecidedIsRecorded
PROOF
<1>. DEFINE Recorded(t) == reply'[t] \in {"201", "502"} /\ reply'[t] # reply[t] =>
               /\ rowRequest'[event[t]] = request[t]
               /\ state'[event[t]] = IF reply'[t] = "201" THEN "completed" ELSE "failed"
<1>1. Init => OwnRows BY DEF Init, OwnRows, OwnRow
<1>2. SyncInv /\ OwnRows /\ [Next]_vars => [\A t \in Threads : Recorded(t)]_vars
  <2>. SUFFICES ASSUME SyncInv, OwnRows, Next, NEW s \in Threads PROVE Recorded(s) OBVIOUS
  <2>. USE DEF SyncInv, TypeInv, TypeOK
  <2>1. CASE \E t \in Threads : Moves(t) \/ Changes(t)
    <3>1. PICK t \in Threads : Moves(t) \/ Changes(t) BY <2>1
    <3>2. CASE s # t BY <3>1, <3>2, OthersStay
    <3>3. CASE s = t /\ (RecordFailure(t) \/ RecordCompleted(t))
      <4>1. event[t] \in Events /\ state[event[t]] = "processing" /\ rowRequest[event[t]] = request[t]
        BY <3>3 DEF RecordFailure, RecordCompleted, Equipped, Importing, AttemptInv, Attempt,
             OwnRows, OwnRow
      <4>. QED BY <3>3, <4>1 DEF RecordFailure, RecordCompleted, SetState, Respond, RespondAndRelease
    <3>4. CASE s = t /\ ~RecordFailure(t) /\ ~RecordCompleted(t)
      BY <3>1, <3>4 DEF Moves, Changes, Arrive, Refuse, HealthRequest, Acquire, Poll, Check, Spawn,
           ImportEnds, ProbeEnds, CheckAccounts, DateFails, BridgeFails, Timeout, DatabaseFails,
           Undecodable, RecordProcessing, Reply, Connect, ImportTransactions, SyncBudget,
           Respond, RespondAndRelease, threads
    <3>. QED BY <3>2, <3>3, <3>4
  <2>2. CASE Crash BY <2>2 DEF Crash
  <2>3. CASE CacheExpires BY <2>3 DEF CacheExpires, threads
  <2>. QED BY <2>1, <2>2, <2>3, StepsSorted
<1>3. Spec => []OwnRows BY <1>1, OwnRowsKept, Inductive, PTL DEF Spec
<1>. QED BY <1>2, <1>3, Inductive, PTL DEF Spec, DecidedIsRecorded

-----------------------------------------------------------------------------
(* The health cache *)

(* A healthy cache comes from the last contact, or from the one before it   *)
(* and the failure of the last was lost.                                    *)
HealthInv == healthy => lastRun \in {"ok", "lost"}

LEMMA HealthKept ==
  ASSUME TypeInv, HealthInv, [Next]_vars
  PROVE  HealthInv'
PROOF
<1>. USE DEF TypeInv, TypeOK, HealthInv
<1>1. ASSUME NEW t \in Threads, Moves(t) \/ Changes(t) PROVE HealthInv'
  <2>1. CASE ProbeEnds(t) BY <2>1 DEF ProbeEnds, Ended
  <2>2. CASE RecordFailure(t) BY <2>2 DEF RecordFailure, SetHealth
  <2>3. CASE RecordCompleted(t) BY <2>3 DEF RecordCompleted, SetHealth, Ended
  <2>4. CASE DatabaseFails(t) BY <2>4 DEF DatabaseFails, Ended
  <2>5. CASE Undecodable(t) BY <2>5 DEF Undecodable, Ended
  <2>6. CASE ~(ProbeEnds(t) \/ RecordFailure(t) \/ RecordCompleted(t) \/ DatabaseFails(t)
                 \/ Undecodable(t))
    <3>1. UNCHANGED <<healthy, lastRun>>
      BY <1>1, <2>6 DEF Moves, Changes, Arrive, Refuse, HealthRequest, Acquire, Poll, Check,
           Spawn, ImportEnds, CheckAccounts, DateFails, BridgeFails, Timeout,
           RecordProcessing, Reply, Connect, ImportTransactions, SyncBudget, health
    <3>. QED BY <3>1
  <2>. QED BY <2>1, <2>2, <2>3, <2>4, <2>5, <2>6
<1>2. CASE Crash BY <1>2 DEF Crash
<1>3. CASE CacheExpires BY <1>3 DEF CacheExpires
<1>4. CASE UNCHANGED vars BY <1>4 DEF vars, health
<1>. QED BY <1>1, <1>2, <1>3, <1>4, StepsSorted

(* Whatever fails, "healthy" is never said before a first contact with      *)
(* Actual succeeded, nor after a failed one, unless that failure was lost   *)
(* and the contact before it had succeeded.                                 *)
THEOREM HealthyByContact == Spec => HealthyUnlessLost
PROOF
<1>1. Init => HealthInv BY DEF Init, HealthInv
<1>2. TypeInv /\ HealthInv /\ [Next]_vars => HealthInv' BY HealthKept
<1>3. SyncInv /\ HealthInv /\ [Next]_vars =>
        [\A t \in Threads : reply'[t] = "healthy" /\ reply[t] # "healthy"
                              => lastRun' \in {"ok", "lost"}]_vars
  <2>. SUFFICES ASSUME SyncInv, HealthInv, Next, NEW s \in Threads,
                       reply'[s] = "healthy", reply[s] # "healthy"
                PROVE  lastRun' \in {"ok", "lost"}
    OBVIOUS
  <2>. USE DEF SyncInv, TypeInv, TypeOK
  <2>1. CASE \E t \in Threads : Moves(t) \/ Changes(t)
    <3>1. Moves(s) \/ Changes(s) BY <2>1, OthersStay
    <3>2. Poll(s) \/ ProbeEnds(s)
      BY <3>1 DEF Moves, Changes, Arrive, Refuse, HealthRequest, Acquire, Check, Spawn,
           ImportEnds, CheckAccounts, DateFails, BridgeFails, Timeout, DatabaseFails,
           Undecodable, RecordProcessing, RecordFailure, RecordCompleted, Reply, Connect,
           ImportTransactions, SyncBudget, Respond, RespondAndRelease, threads
    <3>3. CASE Poll(s)
      <4>1. healthy /\ UNCHANGED lastRun BY <3>3 DEF Poll, Respond, health
      <4>. QED BY <4>1 DEF HealthInv
    <3>4. CASE ProbeEnds(s) BY <3>4 DEF ProbeEnds, Ended, Respond, RespondAndRelease
    <3>. QED BY <3>2, <3>3, <3>4
  <2>2. CASE Crash BY <2>2 DEF Crash
  <2>3. CASE CacheExpires BY <2>3 DEF CacheExpires, threads
  <2>. QED BY <2>1, <2>2, <2>3, StepsSorted
<1>4. SyncInv => TypeInv BY DEF SyncInv
<1>. QED BY <1>1, <1>2, <1>3, <1>4, Inductive, PTL DEF Spec, HealthyUnlessLost

(* What a child has found is true of the account it looked for, and of all  *)
(* accounts when it was a check.                                            *)
FoundInv ==
  \A t \in Threads :
    /\ (child[t] \in {"sync", "ok"} /\ pc[t] = "bridge") \/ pc[t] = "complete" =>
         account[t] \in existing
    /\ child[t] = "ok" /\ pc[t] = "probe" => Accounts \subseteq existing

SomeAccount == Accounts = {} \/ \E a \in Accounts : a \in existing

(* "Healthy", in the cache or in an answer, was said of some account. *)
SomeFound == healthy \/ (\E t \in Threads : reply[t] = "healthy") => SomeAccount

LEMMA FoundKept ==
  ASSUME SyncInv, FoundInv, SomeFound, [Next]_vars PROVE FoundInv' /\ SomeFound'
PROOF
<1>. USE DEF SyncInv, TypeInv, TypeOK, FoundInv, SomeFound, SomeAccount
<1>1. UNCHANGED existing
  <2>1. ASSUME NEW t \in Threads, Moves(t) \/ Changes(t) PROVE UNCHANGED existing
    BY <2>1 DEF Moves, Changes, Arrive, Refuse, HealthRequest, Acquire, Poll, Check, Spawn,
         ImportEnds, ProbeEnds, CheckAccounts, DateFails, BridgeFails, Timeout, DatabaseFails,
         Undecodable, RecordProcessing, RecordFailure, RecordCompleted, Reply, Connect,
         ImportTransactions, SyncBudget, actual
  <2>. QED BY <2>1, StepsSorted DEF Crash, CacheExpires, vars, actual
<1>2. ASSUME NEW t \in Threads, Moves(t) \/ Changes(t) PROVE FoundInv' /\ SomeFound'
  <2>1. \A s \in Threads : s # t => /\ pc'[s] = pc[s] /\ child'[s] = child[s]
                                    /\ account'[s] = account[s] /\ reply'[s] = reply[s]
    BY <1>2, OthersStay
  <2>2. CASE Moves(t) /\ ~ProbeEnds(t) /\ ~ImportEnds(t) /\ ~CheckAccounts(t) /\ ~Poll(t)
    <3>1. UNCHANGED healthy /\ (reply'[t] = "healthy" => reply[t] = "healthy")
      BY <2>2 DEF Moves, Arrive, Refuse, HealthRequest, Acquire, Check, Spawn, DateFails,
           BridgeFails, Timeout, DatabaseFails, Undecodable, Respond, RespondAndRelease, health,
           threads
    <3>2. pc'[t] \in {"bridge", "probe", "complete"} =>
            child'[t] \in {"connect", "failed"} \/ (UNCHANGED <<pc, child, account>>)
      BY <2>2 DEF Moves, Arrive, Refuse, HealthRequest, Acquire, Check, Spawn, DateFails,
           BridgeFails, Timeout, DatabaseFails, Undecodable, Goto, Respond, RespondAndRelease,
           Exits, threads
    <3>3. pc'[t] = "complete" => pc[t] = "complete" /\ UNCHANGED account
      BY <2>2 DEF Moves, Arrive, Refuse, HealthRequest, Acquire, Check, Spawn, DateFails,
           BridgeFails, Timeout, DatabaseFails, Undecodable, Goto, Respond, RespondAndRelease,
           threads
    <3>4. FoundInv' BY <1>1, <2>1, <3>2, <3>3
    <3>5. SomeFound' BY <1>1, <2>1, <3>1
    <3>. QED BY <3>4, <3>5
  <2>3. CASE ProbeEnds(t)
    BY <1>1, <2>1, <2>3 DEF ProbeEnds, Goto, Respond, RespondAndRelease
  <2>4. CASE ImportEnds(t) BY <1>1, <2>1, <2>4 DEF ImportEnds, Outcome, Goto, health, threads
  <2>5. CASE CheckAccounts(t) BY <1>1, <2>1, <2>5 DEF CheckAccounts, Exits, health, threads
  <2>6. CASE Poll(t) BY <1>1, <2>1, <2>6 DEF Poll, Goto, Respond, health
  <2>7. CASE RecordCompleted(t)
    <3>1. account[t] \in Accounts /\ account[t] \in existing
      BY <2>7 DEF RecordCompleted, Equipped, Importing
    <3>. QED BY <1>1, <2>1, <2>7, <3>1 DEF RecordCompleted, Goto, Respond, RespondAndRelease
  <2>8. CASE RecordProcessing(t) \/ RecordFailure(t) \/ Reply(t)
    <3>1. CASE RecordProcessing(t)
      BY <1>1, <2>1, <3>1 DEF RecordProcessing, Goto, health, threads
    <3>2. CASE RecordFailure(t)
      BY <1>1, <2>1, <3>2 DEF RecordFailure, SetHealth, Goto, Respond, RespondAndRelease
    <3>3. CASE Reply(t) BY <1>1, <2>1, <3>3 DEF Reply, Goto, health
    <3>. QED BY <2>8, <3>1, <3>2, <3>3
  <2>9. CASE Connect(t) \/ ImportTransactions(t) \/ SyncBudget(t)
    <3>1. UNCHANGED <<healthy, reply, pc, account>>
      BY <2>9 DEF Connect, ImportTransactions, SyncBudget, health, threads
    <3>2. CASE Connect(t) BY <1>1, <2>1, <3>1, <3>2 DEF Connect, Exits
    <3>3. CASE ImportTransactions(t) BY <1>1, <2>1, <3>1, <3>3 DEF ImportTransactions, Exits
    <3>4. CASE SyncBudget(t)
      <4>1. pc[t] = "bridge" /\ account[t] \in existing
        BY <3>4 DEF SyncBudget, AttemptInv, Attempt
      <4>. QED BY <1>1, <2>1, <3>1, <3>4, <4>1 DEF SyncBudget, Exits
    <3>. QED BY <2>9, <3>2, <3>3, <3>4
  <2>. QED BY <1>2, <2>2, <2>3, <2>4, <2>5, <2>6, <2>7, <2>8, <2>9 DEF Moves, Changes
<1>3. CASE Crash BY <1>1, <1>3 DEF Crash
<1>4. CASE CacheExpires BY <1>1, <1>4 DEF CacheExpires, threads
<1>5. CASE UNCHANGED vars BY <1>1, <1>5 DEF vars, health, threads
<1>. QED BY <1>2, <1>3, <1>4, <1>5, StepsSorted

(* With one mapped account, "healthy" does mean what the document says; the  *)
(* counterexample needs an import to vouch for an account it did not look   *)
(* for.                                                                     *)
THEOREM HealthyOfOneAccount ==
  ASSUME \A a, b \in Accounts : a = b PROVE Spec => []HealthyMeansAllAccounts
PROOF
<1>1. Init => FoundInv /\ SomeFound BY DEF Init, FoundInv, SomeFound
<1>2. SyncInv /\ FoundInv /\ SomeFound /\ [Next]_vars => FoundInv' /\ SomeFound' BY FoundKept
<1>3. SomeFound => HealthyMeansAllAccounts
  BY DEF SomeFound, SomeAccount, HealthyMeansAllAccounts
<1>. QED BY <1>1, <1>2, <1>3, Inductive, PTL DEF Spec
=============================================================================
