--------------------------- MODULE TransactionSync ---------------------------
(***************************************************************************)
(* The transaction sync of OwnNode Agent (pi_backend/transaction_sync.py):  *)
(* threads that serve import and health requests under one lock, the SQLite *)
(* table of imports, the Node child process each of them runs               *)
(* (pi_backend/actual_bridge.cjs) and the Actual budget behind it.          *)
(*                                                                          *)
(* A step is one database statement, one step of the child process, or one  *)
(* outcome of waiting for it.  Parsing, currency check and mapping lookup   *)
(* touch no state: a request is refused by them or arrives with the account *)
(* they resolve it to.                                                      *)
(***************************************************************************)
EXTENDS Naturals, FiniteSets

CONSTANTS Events,    \* event ids, which are the idempotency keys
          Accounts,  \* the Actual accounts of the mapping file
          Targets,   \* Targets[e]: the accounts requests for e may resolve to
          Threads,   \* request-handling threads of the HTTP server
          Requests,  \* request ids of the attempts
          None,      \* no event, account, thread or request
          Faults     \* the faults of the environment that may happen

(***************************************************************************)
(* actual: the API client or the Actual server fails.  timeout: the child   *)
(* outlives actual_timeout_seconds and is killed.  date: the time stamp of a *)
(* request is no local date.  db: SQLite raises.  garbled: what the child    *)
(* printed is no UTF-8.                                                      *)
(* crash: the process dies, its children with it, and is restarted.         *)
(* early: the process may start within actual_health_cache_seconds of the   *)
(* boot of the machine, where the monotonic clock starts at zero.           *)
(***************************************************************************)
ASSUME FaultsAssumption == Faults \subseteq {"actual", "timeout", "date", "db", "garbled", "crash", "early"}
ASSUME NoneAssumption == None \notin Events \cup Accounts \cup Threads \cup Requests
ASSUME TargetsAssumption == Targets \in [Events -> SUBSET Accounts]

VARIABLES
  \* the table transaction_imports, a function per column
  state,      \* "none" (no row), "processing", "completed" or "failed"
  rowRequest, \* column request_id
  \* the process
  lock,       \* the thread that holds TransactionSyncService._lock
  healthy,    \* _healthy
  fresh,      \* _health_checked_at is less than the cache time ago
  pc, event, account, request, reply,  \* the threads
  child,      \* child[t]: where the child process of thread t is
  \* Actual Budget (external)
  existing,   \* its accounts
  cache,      \* <<event, account>> pairs in the local copy of the budget
  budget,     \* <<event, account>> pairs on the server
  \* history
  told,       \* the events answered with 201 or 409
  lastRun     \* how the last child ended: "ok", "failed", or "lost", a failure
              \* after an "ok" of which the process has taken no note

table   == <<state, rowRequest>>
health  == <<healthy, fresh, lastRun>>
threads == <<event, account, request, reply>>
actual  == <<existing, cache, budget>>

vars == <<table, lock, health, pc, threads, child, actual, told>>

PCs == {"idle", "acquire", "check", "record", "spawn", "bridge", "failed", "missing",
        "complete", "poll", "probe", "reply"}
ChildStates == {"none", "connect", "select", "sync", "ok", "failed", "missing"}
Replies == {"none", "201", "409", "422", "500", "502", "dropped", "healthy", "unhealthy"}

TypeOK ==
  /\ state \in [Events -> {"none", "processing", "completed", "failed"}]
  /\ rowRequest \in [Events -> Requests \cup {None}]
  /\ lock \in Threads \cup {None}
  /\ healthy \in BOOLEAN /\ fresh \in BOOLEAN
  /\ pc \in [Threads -> PCs]
  /\ event \in [Threads -> Events \cup {None}]
  /\ account \in [Threads -> Accounts \cup {None}]
  /\ request \in [Threads -> Requests \cup {None}]
  /\ reply \in [Threads -> Replies]
  /\ child \in [Threads -> ChildStates]
  /\ existing \subseteq Accounts
  /\ cache \subseteq Events \X Accounts
  /\ budget \subseteq Events \X Accounts
  /\ told \subseteq Events
  /\ lastRun \in {"none", "ok", "failed", "lost"}

(* _health_checked_at is 0.0 at first. *)
FreshAtStart == IF "early" \in Faults THEN {TRUE, FALSE} ELSE {FALSE}

Init ==
  /\ state = [e \in Events |-> "none"]
  /\ rowRequest = [e \in Events |-> None]
  /\ lock = None
  /\ healthy = FALSE
  /\ fresh \in FreshAtStart
  /\ pc = [t \in Threads |-> "idle"]
  /\ event = [t \in Threads |-> None]
  /\ account = [t \in Threads |-> None]
  /\ request = [t \in Threads |-> None]
  /\ reply = [t \in Threads |-> "none"]
  /\ child = [t \in Threads |-> "none"]
  /\ existing \in SUBSET Accounts
  /\ cache = {} /\ budget = {}
  /\ told = {}
  /\ lastRun = "none"

-----------------------------------------------------------------------------
(* Helpers *)

Goto(t, l) == pc' = [pc EXCEPT ![t] = l]

(* The response is determined; the handler sends it. *)
Respond(t, r) == Goto(t, "reply") /\ reply' = [reply EXCEPT ![t] = r]

(* ... after leaving "with self._lock". *)
RespondLocked(t, r) == Respond(t, r) /\ lock' = lock  \* mutant: the lock is kept
RespondAndRelease(t, r) == Respond(t, r) /\ lock' = None

(* The health cache after an import. *)
SetHealthOnce(h) ==  \* mutant: a failure leaves the cache healthy
  healthy' = (healthy \/ h) /\ fresh' = TRUE
SetHealth(h) == healthy' = h /\ fresh' = TRUE

(* A child has ended with c, and the health cache is told, or is not.       *)
Ended(c, noted) ==
  lastRun' = IF c = "ok" THEN "ok"
             ELSE IF noted \/ lastRun \in {"none", "failed"} THEN "failed" ELSE "lost"

(* UPDATE ... WHERE idempotency_key = e *)
SetState(e, s) == state' = [state EXCEPT ![e] = IF @ = "none" THEN @ ELSE s]

(* A request id no attempt and no row has. *)
FreshRequest(r) == /\ \A t \in Threads : request[t] # r
                   /\ \A e \in Events : rowRequest[e] # r

-----------------------------------------------------------------------------
(* import_event *)

(* A well-formed request for e, in the configured currency, resolved to a. *)
Arrive(t, e, a, r) ==
  /\ pc[t] = "idle" /\ FreshRequest(r)
  /\ event' = [event EXCEPT ![t] = e]
  /\ account' = [account EXCEPT ![t] = a]
  /\ request' = [request EXCEPT ![t] = r]
  /\ Goto(t, "acquire")
  /\ UNCHANGED <<table, lock, health, reply, child, actual, told>>

(* Malformed, wrong currency, no mapping or an ambiguous one. *)
Refuse(t, e, r) ==
  /\ pc[t] = "idle" /\ FreshRequest(r)
  /\ event' = [event EXCEPT ![t] = e]
  /\ request' = [request EXCEPT ![t] = r]
  /\ Respond(t, "422")
  /\ UNCHANGED <<table, lock, health, account, child, actual, told>>

AcquireUnlocked(t) ==  \* mutant: imports are not serialized
  /\ pc[t] = "acquire"
  /\ lock' = t
  /\ Goto(t, "check")
  /\ UNCHANGED <<table, health, threads, child, actual, told>>
AcquireNotProcessing(t) ==  \* mutant: a processing row is left to its attempt
  /\ pc[t] = "acquire" /\ lock = None /\ state[event[t]] # "processing"
  /\ lock' = t
  /\ Goto(t, "check")
  /\ UNCHANGED <<table, health, threads, child, actual, told>>
Acquire(t) ==
  /\ pc[t] = "acquire" /\ lock = None
  /\ lock' = t
  /\ Goto(t, "check")
  /\ UNCHANGED <<table, health, threads, child, actual, told>>

(* _is_completed *)
IsCompletedForgotten(e) == FALSE  \* mutant: the row is not looked up
IsCompletedKnown(e) == state[e] # "none"  \* mutant: any row counts as completed
IsCompleted(e) == state[e] = "completed"

Check(t) ==
  /\ pc[t] = "check"
  /\ \/ /\ IsCompleted(event[t])
        /\ RespondAndRelease(t, "409")
     \/ /\ ~IsCompleted(event[t])
        /\ Goto(t, "record")
        /\ UNCHANGED <<reply, lock>>
  /\ UNCHANGED <<table, health, event, account, request, child, actual, told>>

(* INSERT ... ON CONFLICT DO UPDATE ... WHERE state != 'completed' *)
UpsertPending(e, r) ==  \* mutant: a state the CHECK of the table refuses
  /\ state' = [state EXCEPT ![e] = IF @ = "completed" THEN @ ELSE "pending"]
  /\ rowRequest' = [rowRequest EXCEPT ![e] = r]
UpsertUpdates(e, r) ==  \* mutant: an UPDATE only, which no row matches at first
  /\ state' = [state EXCEPT ![e] = IF @ = "failed" THEN "processing" ELSE @]
  /\ UNCHANGED rowRequest
UpsertKeepsId(e, r) ==  \* mutant: a retry does not take over the request id
  /\ state' = [state EXCEPT ![e] = IF @ = "completed" THEN @ ELSE "processing"]
  /\ rowRequest' = [rowRequest EXCEPT ![e] = IF @ = None THEN r ELSE @]
Upsert(e, r) ==
  IF state[e] = "completed" THEN UNCHANGED table
  ELSE /\ state' = [state EXCEPT ![e] = "processing"]
       /\ rowRequest' = [rowRequest EXCEPT ![e] = r]

(* _record_processing *)
RecordProcessing(t) ==
  /\ pc[t] = "record"
  /\ Upsert(event[t], request[t])
  /\ Goto(t, "spawn")
  /\ UNCHANGED <<lock, health, threads, child, actual, told>>

Spawn(t) ==
  /\ pc[t] = "spawn"
  /\ child' = [child EXCEPT ![t] = "connect"]
  /\ Goto(t, "bridge")
  /\ UNCHANGED <<table, lock, health, threads, actual, told>>

(* actual_date raises, after the attempt was recorded, and nothing catches  *)
(* it before the handler: the row is left "processing".                     *)
DateFails(t) ==
  /\ "date" \in Faults /\ pc[t] = "spawn"
  /\ RespondAndRelease(t, "422")
  /\ UNCHANGED <<table, health, event, account, request, child, actual, told>>

(* What subprocess.run and the result line say. *)
OutcomeIgnored(c) == "complete"  \* mutant: the result is not checked
Outcome(c) == IF c = "ok" THEN "complete" ELSE c

(* subprocess.run returns. *)
ImportEnds(t) ==
  /\ pc[t] = "bridge" /\ child[t] \in {"ok", "failed", "missing"}
  /\ child' = [child EXCEPT ![t] = "none"]
  /\ Goto(t, Outcome(child[t]))
  /\ UNCHANGED <<table, lock, health, threads, actual, told>>

(* _record_failure; the health cache; 422 if the account is gone, or 502. *)
RecordFailure(t) ==
  /\ pc[t] \in {"failed", "missing"}
  /\ SetState(event[t], "failed") /\ SetHealth(FALSE) /\ Ended("failed", TRUE)
  /\ RespondAndRelease(t, IF pc[t] = "missing" THEN "422" ELSE "502")
  /\ UNCHANGED <<rowRequest, event, account, request, child, actual, told>>

(* _record_completed; the health cache; 201. *)
RecordCompleted(t) ==
  /\ pc[t] = "complete"
  /\ SetState(event[t], "completed") /\ SetHealth(TRUE) /\ Ended("ok", TRUE)
  /\ RespondAndRelease(t, "201")
  /\ UNCHANGED <<rowRequest, event, account, request, child, actual, told>>

(* The handler answers, or drops the connection, and the thread ends. *)
Reply(t) ==
  /\ pc[t] = "reply"
  /\ told' = told \cup {e \in {event[t]} : reply[t] \in {"201", "409"}}
  /\ Goto(t, "idle")
  /\ event' = [event EXCEPT ![t] = None]
  /\ account' = [account EXCEPT ![t] = None]
  /\ request' = [request EXCEPT ![t] = None]
  /\ reply' = [reply EXCEPT ![t] = "none"]
  /\ UNCHANGED <<table, lock, health, child, actual>>

-----------------------------------------------------------------------------
(* is_healthy *)

HealthRequest(t) ==
  /\ pc[t] = "idle"
  /\ Goto(t, "poll")
  /\ UNCHANGED <<table, lock, health, threads, child, actual, told>>

(* Under the lock: answer from the cache, or run the bridge's check. *)
Poll(t) ==
  /\ pc[t] = "poll" /\ lock = None
  /\ \/ /\ fresh
        /\ Respond(t, IF healthy THEN "healthy" ELSE "unhealthy")
        /\ UNCHANGED <<lock, child>>
     \/ /\ ~fresh
        /\ lock' = t
        /\ child' = [child EXCEPT ![t] = "connect"]
        /\ Goto(t, "probe")
        /\ UNCHANGED reply
  /\ UNCHANGED <<table, health, event, account, request, actual, told>>

(* The check returns.  Its time stamp was taken before it started: it may   *)
(* be outdated by now.                                                      *)
ProbeEnds(t) ==
  /\ pc[t] = "probe" /\ child[t] \in {"ok", "failed", "missing"}
  /\ child' = [child EXCEPT ![t] = "none"]
  /\ healthy' = (child[t] = "ok")
  /\ fresh' \in BOOLEAN
  /\ Ended(child[t], TRUE)
  /\ RespondAndRelease(t, IF child[t] = "ok" THEN "healthy" ELSE "unhealthy")
  /\ UNCHANGED <<table, event, account, request, actual, told>>

-----------------------------------------------------------------------------
(* main() of actual_bridge.cjs *)

Exits(t, s) == child' = [child EXCEPT ![t] = s]

(* init and downloadBudget: the local copy and the server exchange changes. *)
Connect(t) ==
  /\ child[t] = "connect"
  /\ budget' = budget \cup cache
  /\ Exits(t, "select")
  /\ UNCHANGED <<table, lock, health, pc, threads, existing, cache, told>>

(* check: every mapped account exists. *)
CheckAccounts(t) ==
  /\ child[t] = "select" /\ pc[t] = "probe"
  /\ Exits(t, IF Accounts \subseteq existing THEN "ok" ELSE "missing")
  /\ UNCHANGED <<table, lock, health, pc, threads, actual, told>>

(* import: Actual skips an imported_id the account has. *)
ImportTransactions(t) ==
  /\ child[t] = "select" /\ pc[t] = "bridge"
  /\ \/ /\ account[t] \notin existing
        /\ Exits(t, "missing")
        /\ UNCHANGED cache
     \/ /\ account[t] \in existing
        /\ cache' = cache \cup {<<event[t], account[t]>>}
        /\ Exits(t, "sync")
  /\ UNCHANGED <<table, lock, health, pc, threads, existing, budget, told>>

(* api.sync, then the result line. *)
SyncBudget(t) ==
  /\ child[t] = "sync"
  /\ budget' = budget \cup cache
  /\ Exits(t, "ok")
  /\ UNCHANGED <<table, lock, health, pc, threads, existing, cache, told>>

(* The API throws or Actual rejects the import: an error result. *)
BridgeFails(t) ==
  /\ "actual" \in Faults /\ child[t] \in {"connect", "select", "sync"}
  /\ Exits(t, "failed")
  /\ UNCHANGED <<table, lock, health, pc, threads, actual, told>>

(* The child is killed, whatever it had done. *)
Timeout(t) ==
  /\ "timeout" \in Faults /\ child[t] \in {"connect", "select", "sync", "ok"}
  /\ Exits(t, "failed")
  /\ UNCHANGED <<table, lock, health, pc, threads, actual, told>>

-----------------------------------------------------------------------------
(* Database errors, crashes, time *)

(* sqlite3.Error leaves the lock and skips the health cache, whatever the   *)
(* child has reported: a 500.                                               *)
DatabaseFails(t) ==
  /\ "db" \in Faults /\ pc[t] \in {"check", "record", "failed", "missing", "complete"}
  /\ RespondAndRelease(t, "500")
  /\ IF pc[t] \in {"check", "record"} THEN UNCHANGED lastRun
     ELSE Ended(IF pc[t] = "complete" THEN "ok" ELSE "failed", FALSE)
  /\ UNCHANGED <<table, healthy, fresh, event, account, request, child, actual, told>>

(* subprocess.run raises UnicodeDecodeError, which nothing catches: the row  *)
(* stays "processing", the health cache as it is, and nobody is answered.    *)
Undecodable(t) ==
  /\ "garbled" \in Faults /\ pc[t] \in {"bridge", "probe"}
  /\ child[t] \in {"ok", "failed", "missing"}
  /\ child' = [child EXCEPT ![t] = "none"]
  /\ Ended(child[t], FALSE)
  /\ RespondAndRelease(t, "dropped")
  /\ UNCHANGED <<table, healthy, fresh, event, account, request, actual, told>>

(* The process dies with its children and is restarted. *)
Crash ==
  /\ "crash" \in Faults
  /\ lock' = None
  /\ healthy' = FALSE
  /\ fresh' \in FreshAtStart
  /\ lastRun' = "none"
  /\ pc' = [t \in Threads |-> "idle"]
  /\ event' = [t \in Threads |-> None]
  /\ account' = [t \in Threads |-> None]
  /\ request' = [t \in Threads |-> None]
  /\ reply' = [t \in Threads |-> "none"]
  /\ child' = [t \in Threads |-> "none"]
  /\ UNCHANGED <<table, actual, told>>

(* The health cache runs out. *)
CacheExpires ==
  /\ fresh /\ fresh' = FALSE
  /\ UNCHANGED <<table, lock, healthy, lastRun, pc, threads, child, actual, told>>

-----------------------------------------------------------------------------
ChildStep(t) == Connect(t) \/ CheckAccounts(t) \/ ImportTransactions(t) \/ SyncBudget(t)

(* What a thread with a request does, apart from waiting for the lock. *)
Work(t) ==
  \/ Check(t) \/ RecordProcessing(t) \/ Spawn(t) \/ ImportEnds(t)
  \/ RecordFailure(t) \/ RecordCompleted(t) \/ Reply(t) \/ ProbeEnds(t) \/ ChildStep(t)

Enter(t) == Acquire(t) \/ Poll(t)

ThreadFails(t) == DateFails(t) \/ BridgeFails(t) \/ Timeout(t) \/ DatabaseFails(t)
                    \/ Undecodable(t)

Send(e) == \E t \in Threads, a \in Targets[e], r \in Requests : Arrive(t, e, a, r)

(* What happens without failures. *)
Calm ==
  \/ \E e \in Events : Send(e)
  \/ \E t \in Threads, e \in Events, r \in Requests : Refuse(t, e, r)
  \/ \E t \in Threads : HealthRequest(t) \/ Enter(t) \/ Work(t)
  \/ CacheExpires

Next == Calm \/ Crash \/ \E t \in Threads : ThreadFails(t)

Spec == Init /\ [][Next]_vars

(***************************************************************************)
(* Threads and children are scheduled, subprocess.run has a timeout and the *)
(* lock is not withheld for ever from one thread, as requests come minutes  *)
(* apart.  The app retries an event until it is told that it is imported.   *)
(* Failures stop one day.                                                   *)
(***************************************************************************)
Fairness ==
  /\ \A t \in Threads : WF_vars(Work(t)) /\ SF_vars(Enter(t))
  /\ \A e \in Events : SF_vars(e \notin told /\ Send(e))
  /\ <>[][Calm]_vars

FairSpec == Spec /\ Fairness

-----------------------------------------------------------------------------
(* Safety *)

(* Imports and checks are serialized: never two children on one budget.     *)
OneChild == \A s, t \in Threads : child[s] # "none" /\ child[t] # "none" => s = t

(* Whoever waits for _lock waits for a thread inside "with self._lock", and *)
(* that one for nothing but its own child: no way out of the critical       *)
(* section, by an answer, an error or a crash, keeps the lock or leaves a   *)
(* child behind.                                                            *)
NoLockLeftBehind ==
  \A t \in Threads :
    /\ lock = t <=> pc[t] \in {"check", "record", "spawn", "bridge", "failed", "missing",
                              "complete", "probe"}
    /\ child[t] # "none" <=> pc[t] \in {"bridge", "probe"}

(* The import the table calls completed, and every client that was told     *)
(* so, can rely on: the transaction is on the Actual server.                *)
CompletedIsBooked ==
  /\ \A e \in Events : state[e] = "completed" => \E a \in Accounts : <<e, a>> \in budget
  /\ \A e \in told : state[e] = "completed"

(* A completed event is never touched again, neither in Actual nor in the   *)
(* table, by whatever attempt was under way or left something behind.       *)
CompletedIsFinal ==
  [][\A e \in Events : state[e] = "completed" =>
       /\ state'[e] = "completed" /\ rowRequest'[e] = rowRequest[e]
       /\ \A a \in Accounts : <<e, a>> \in budget' => <<e, a>> \in budget]_vars

(* What an attempt did to Actual is never without trace in the table.       *)
EveryImportHasRow == \A e \in Events, a \in Accounts : <<e, a>> \in cache => state[e] # "none"


(* What does hold: is_healthy never says "healthy" before a first contact   *)
(* succeeded, nor after a failed one, however long ago the cache was filled,*)
(* unless a database error or undecodable output kept that failure from the *)
(* cache and the contact before it had succeeded.                           *)
HealthyUnlessLost ==
  [][\A t \in Threads : reply'[t] = "healthy" /\ reply[t] # "healthy"
                          => lastRun' \in {"ok", "lost"}]_vars

(* When it is decided that an attempt is answered with 201 or 502, its row  *)
(* says completed or failed, under the id of that attempt.                  *)
DecidedIsRecorded ==
  [][\A t \in Threads : reply'[t] \in {"201", "502"} /\ reply'[t] # reply[t] =>
       /\ rowRequest'[event[t]] = request[t]
       /\ state'[event[t]] = IF reply'[t] = "201" THEN "completed" ELSE "failed"]_vars

(* "Healthy" is said only when every mapped account was found.              *)
HealthyMeansAllAccounts ==
  \A t \in Threads : reply[t] = "healthy" => Accounts \subseteq existing

(* The transaction sync implements the ledger. *)
Ledger == INSTANCE ImportLedger WITH booked <- budget,
            settled <- {e \in Events : state[e] = "completed"}
Implements == Ledger!LedgerSpec

-----------------------------------------------------------------------------
(* Liveness *)

(* An event whose accounts exist is imported in the end and its client told, *)
(* whatever attempts died, timed out or left a row "processing" before.      *)
EventuallyImported == \A e \in Events : Targets[e] \subseteq existing ~> e \in told

(* Every request comes to its end, an answer or, after undecodable output,  *)
(* a dropped connection: neither the lock nor a child blocks for ever.      *)
RequestAnswered == \A t \in Threads : pc[t] # "idle" ~> pc[t] = "idle"
=============================================================================
