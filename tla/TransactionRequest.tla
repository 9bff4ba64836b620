-------------------------- MODULE TransactionRequest --------------------------
(***************************************************************************)
(* parse_transaction_request and _parse_event                               *)
(* (pi_backend/transaction_sync.py): which POST bodies are accepted, and    *)
(* what is made of them for Actual.                                         *)
(*                                                                          *)
(* A request is a record: chunked (Transfer-Encoding), type, length,        *)
(* arrived (bytes that can be read), key (Idempotency-Key), device (a       *)
(* canonical UUID), body.  A body that is no JSON is None, others have the  *)
(* set of their keys (none if it is no object) and of those whose value     *)
(* _required_int, _required_string or strptime refuses (ill).  Words        *)
(* (direction, source) are in lower case.  A date has a form and a day;     *)
(* without one it is None.                                                  *)
(***************************************************************************)
EXTENDS AccountMappings, FiniteSets

CONSTANTS MaxBytes, MaxAmount, MaxTimestamp,
          Letters,   \* the ASCII letters
          EventIds,  \* the strings of the form sms-v1:<sha256>
          Day(_)     \* the local day of a time stamp, None if out of range

ASSUME LimitsAssumption == MaxBytes \in Nat /\ MaxAmount \in Nat /\ MaxTimestamp \in Nat

Required == {"event_id", "received_at_millis", "amount_minor", "currency", "direction",
             "payee", "account_hint", "sender", "source", "cleared"}
Optional == {"transaction_date", "transaction_time", "account_mapping_id", "bank_reference"}

(* date.fromisoformat of Python 3.11 *)
DateForms == {"YYYY-MM-DD", "YYYYMMDD", "YYYY-Www-D", "YYYYWwwD", "YYYY-Www", "YYYYWww"}

(* Content-Length, the headers and the body: the status of a refusal, or "ok". *)
Framing(r) ==
  CASE r.chunked -> "400"
    [] ~r.chunked /\ r.type # "application/json" -> "415"
    [] OTHER -> IF r.length <= 0 THEN "400"
                ELSE IF r.length > MaxBytes THEN "413"
                ELSE IF r.arrived < r.length \/ r.body = None THEN "400" ELSE "ok"

(* The keys of the object and its event_id. *)
HasShape(b) ==
  /\ Required \subseteq b.keys /\ b.keys \subseteq Required \cup Optional
  /\ "event_id" \notin b.ill /\ b.event \in EventIds

SignFits(b) ==
  \/ b.direction = "debit" /\ b.amount < 0
  \/ b.direction = "credit" /\ b.amount > 0

IsCurrency(c) == Len(Normalize(c)) = 3 /\ \A i \in 1..3 : Normalize(c)[i] \in Letters

(* The values of the other keys. *)
HasValues(b) ==
  /\ b.ill = {}
  /\ b.received \in 0..MaxTimestamp
  /\ b.amount # 0 /\ b.amount \in -MaxAmount..MaxAmount
  /\ SignFits(b)
  /\ IsCurrency(b.currency)
  /\ IsText(b.sender, MaxSender) /\ IsText(b.hint, MaxHint)
  /\ b.date # None => b.date.form \in DateForms
  /\ b.source = "bank_sms" /\ b.cleared = FALSE

(* The status of the refusal, or "ok". *)
Parsed(r) ==
  IF Framing(r) # "ok" THEN Framing(r)
  ELSE IF ~HasShape(r.body) THEN "422"
  ELSE IF r.key # r.body.event \/ ~r.device THEN "400"
  ELSE IF ~HasValues(r.body) THEN "422"
  ELSE "ok"

ActualDateOfReceipt(b) ==  \* mutant: the day of the receipt is booked
  IF Day(b.received) = None THEN None ELSE [form |-> "YYYY-MM-DD", day |-> Day(b.received)]
(* actual_date: the date as it was sent; None if it raises. *)
ActualDate(b) ==
  IF b.date # None THEN b.date
  ELSE IF Day(b.received) = None THEN None
  ELSE [form |-> "YYYY-MM-DD", day |-> Day(b.received)]

(* bridge_payload *)
Payload(b, account) ==
  [account |-> account, date |-> ActualDate(b), amount |-> b.amount, imported_id |-> b.event]
=============================================================================
