----------------------------- MODULE ActualBridge -----------------------------
(***************************************************************************)
(* One run of the Node child process, line by line: main() of               *)
(* pi_backend/actual_bridge.cjs on one side, ActualBridge._run and          *)
(* _parse_bridge_result of pi_backend/transaction_sync.py on the other.     *)
(* The child prints a result line; the API library may print other things   *)
(* before and after it, throw, hang, or let the process end early.          *)
(***************************************************************************)
EXTENDS Integers, Sequences

CONSTANTS Thrown,     \* the error codes the API library and the bridge throw
          MaxLines    \* bound: the lines the library prints

ASSUME MaxLinesAssumption == MaxLines \in Nat

VARIABLES at,       \* where main() is
          output,   \* stdout: result lines ("ok" or an error code) and noise
          error,    \* the safe code of what main() threw, or "none"
          exit,     \* "none" while it runs, "0", "2", "signal", "timeout";
                    \* "missing" or "refused" if it did not start
          applied   \* the import: "no", "local" (in the copy), "server"

bridgeVars == <<at, output, error, exit, applied>>

(* A complete line, one without its end, more than a megabyte, no UTF-8. *)
Noise == {"line", "open", "flood", "garbled"}

Hyphenated == {"network-failure", "invalid-password", "token-expired", "budget-not-found",
               "missing-key", "decrypt-failure", "old-key-style", "out-of-sync-migrations"}
Allowed == Hyphenated \cup {"network", "unauthorized", "account_not_found",
              "actual_import_rejected", "bridge_not_configured", "invalid_bridge_request"}

Idle == /\ at = "none" /\ output = <<>> /\ error = "none" /\ exit = "none"
        /\ applied = "no"

-----------------------------------------------------------------------------
(* actual_bridge.cjs *)

Begins(where, status) ==
  /\ at' = where /\ exit' = status
  /\ output' = <<>> /\ error' = "none" /\ applied' = "no"

(* subprocess.run; the command may not exist or not start. *)
Start == Begins("start", "none")
StartFails(how) == Begins("ended", how)
(* The service is restarted between two runs. *)
Forget == Begins("none", "none")

(* Text after an unfinished line does not start a line. *)
Printed(x) == IF output # <<>> /\ output[Len(output)] = "open"
              THEN Append(output, "line") ELSE Append(output, x)

SafeErrorCode(c) == IF c \in Allowed THEN c ELSE "actual_api_error"

(* The awaits of main(): readRequest with require, init, downloadBudget,    *)
(* getAccounts with the look-up, importTransactions, sync.                  *)
After == [start |-> "init", init |-> "download", download |-> "accounts",
          accounts |-> "import", import |-> "sync", sync |-> "result"]

(* What they do to the budget. *)
Effect == [import |-> "local", sync |-> "server"]

Advance ==
  /\ at \in DOMAIN After
  /\ at' = After[at]
  /\ applied' = IF at \in DOMAIN Effect THEN Effect[at] ELSE applied
  /\ UNCHANGED <<output, error, exit>>

(* They throw, before or after their effect; finally calls shutdown. *)
Throw(c) ==
  /\ at \in DOMAIN After
  /\ error' = SafeErrorCode(c)
  /\ applied' \in {applied} \cup {Effect[a] : a \in {at} \cap DOMAIN Effect}
  /\ at' = IF at \in {"start", "init"} THEN "caught" ELSE "finally"
  /\ UNCHANGED <<output, exit>>

(* result({ ok: true }) *)
Report ==
  /\ at = "result"
  /\ output' = Printed("ok")
  /\ at' = "finally"
  /\ UNCHANGED <<error, exit, applied>>

(* shutdown returns; main() returns or rejects. *)
Shutdown ==
  /\ at = "finally"
  /\ at' = IF error = "none" THEN "ended" ELSE "caught"
  /\ exit' = IF error = "none" THEN "0" ELSE exit
  /\ UNCHANGED <<output, error, applied>>

(* main().catch *)
Catch ==
  /\ at = "caught"
  /\ output' = Printed(error)
  /\ at' = "ended" /\ exit' = "2"
  /\ UNCHANGED <<error, applied>>

Awaits == at \in DOMAIN After \cup {"finally"}

(* The library prints. *)
Prints(x) ==
  /\ Awaits /\ Len(output) < MaxLines
  /\ output' = Append(output, x)
  /\ UNCHANGED <<at, error, exit, applied>>

(* A promise never settles: Node ends with 0 when nothing is left to wait   *)
(* for, or hangs until the timeout of subprocess.run.  Or a signal ends it. *)
EndsEarly(how) ==
  /\ Awaits
  /\ at' = "ended" /\ exit' = how
  /\ UNCHANGED <<output, error, applied>>

BridgeStep ==
  \/ Advance \/ (\E c \in Thrown : Throw(c)) \/ Report \/ Shutdown \/ Catch
  \/ \E x \in Noise : Prints(x)
  \/ \E how \in {"0", "signal", "timeout"} : EndsEarly(how)

-----------------------------------------------------------------------------
(* ActualBridge._run *)

Has(x) == \E i \in DOMAIN output : output[i] = x

(* _parse_bridge_result: the last result line, or "none". *)
Results == {i \in DOMAIN output : output[i] \notin Noise}
Response ==
  LET last == {i \in Results : \A j \in Results : j <= i}
  IN IF Has("flood") \/ last = {} THEN "none" ELSE output[CHOOSE i \in last : TRUE]

CodeOfLetters(response) ==  \* mutant: the pattern has no underscore
  IF response \in {"network", "unauthorized"} THEN response ELSE "actual_api_error"
(* re.fullmatch of [a-z0-9_]{1,64} *)
CodeOf(response) == IF response \in Hyphenated \cup {"ok"} THEN "actual_api_error" ELSE response

OutcomeByExit ==  \* mutant: an exit status of 0 is enough
  CASE exit = "missing" -> "actual_bridge_not_found"
    [] exit \in {"refused", "timeout"} -> "actual_bridge_failed"
    [] OTHER -> IF Has("garbled") THEN "undecodable"
                ELSE IF exit = "0" THEN "ok"
                ELSE IF Response = "none" THEN "actual_bridge_invalid_response"
                ELSE CodeOf(Response)
(* "ok", the code of the ActualBridgeError, or an exception nobody expects. *)
Outcome ==
  CASE exit = "missing" -> "actual_bridge_not_found"
    [] exit \in {"refused", "timeout"} -> "actual_bridge_failed"
    [] OTHER -> IF Has("garbled") THEN "undecodable"
                ELSE IF Response = "none" THEN "actual_bridge_invalid_response"
                ELSE IF exit = "0" /\ Response = "ok" THEN "ok"
                ELSE CodeOf(Response)
=============================================================================
