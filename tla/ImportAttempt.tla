---------------------------- MODULE ImportAttempt ----------------------------
(***************************************************************************)
(* The attempts for one transaction, from the POST to the answer: parsing,  *)
(* mapping, the journal and one run of the child process each (do_POST of   *)
(* pi_backend/server.py, import_event of pi_backend/transaction_sync.py).   *)
(* The app repeats a request unchanged; between attempts an administrator   *)
(* edits the mapping file and restarts the service.  Concurrent attempts    *)
(* and what Actual keeps of an earlier one are the subject of               *)
(* TransactionSync.                                                         *)
(***************************************************************************)
EXTENDS TransactionRequest, ActualBridge

CONSTANTS Rows,      \* the rows an administrator writes
          Requests,  \* the requests an app sends, without account_mapping_id
          Currency,  \* PISTATS_ACTUAL_CURRENCY
          MaxRows    \* bound: the rows of the file

ASSUME MaxRowsAssumption == MaxRows \in Nat \ {0}
ASSUME SentinelsAssumption == NotFound # Ambiguous /\ None \notin {NotFound, Ambiguous}
ASSUME RowsAssumption ==
  \A r \in Rows : /\ r.sender \in Seq(DOMAIN UpperCase) /\ r.hint \in Seq(DOMAIN UpperCase)
                  /\ r.account \in Seq(DOMAIN UpperCase)
                  /\ MappingOf(r).id # None
                  /\ MappingOf(r).account \notin {None, NotFound, Ambiguous}
ASSUME RequestsAssumption ==
  /\ None \notin Requests
  /\ \A r \in Requests : r.body # None => /\ r.body.sender \in Seq(DOMAIN UpperCase)
                                          /\ r.body.hint \in Seq(DOMAIN UpperCase)

VARIABLES given,    \* the Actual settings that have a value
          file,     \* the mapping file the service was started with
          request,  \* what the app sends until it has its answer, or None
          choice,   \* the id of an account option it sends with it, or None
          busy,     \* import_event is waiting for the child
          lookup,   \* what the last attempt found: an account or a refusal
          sent,     \* the transaction the last child was given, or None
          state, code,  \* the row of the journal
          reply,    \* status of the last answer; "none" before it and after a
                    \* restart, "dropped" if the connection just ended
          \* history
          chosen,   \* the account of the option when the app chose it
          found     \* the account found since a row was last removed

attemptVars ==
  <<given, file, request, choice, busy, lookup, sent, state, code, reply, chosen, found>>
vars == <<attemptVars, bridgeVars>>

Needed == {"server_url", "password", "sync_id", "currency", "mappings_file"}

(* actual_budget_configured *)
Configured == given = Needed

(* _validate_settings lets the service start. *)
AcceptsSettings(s) == s # {} => s = Needed

Init ==
  /\ given \in {s \in SUBSET Needed : AcceptsSettings(s)}
  /\ file \in {<<r>> : r \in Rows} /\ Loads(file)
  /\ request = None /\ choice = None /\ busy = FALSE /\ lookup = None /\ sent = None
  /\ state = "none" /\ code = None /\ reply = "none" /\ chosen = None /\ found = None
  /\ Idle

-----------------------------------------------------------------------------
(* The administrator *)

Restart(f) ==
  /\ ~busy /\ Loads(f) /\ Len(f) <= MaxRows
  /\ file' = f /\ reply' = "none" /\ sent' = None /\ Forget
  /\ UNCHANGED <<given, request, choice, busy, lookup, state, code, chosen>>

AddRow == \E r \in Rows : Restart(Append(file, r)) /\ UNCHANGED found

DropRow ==
  /\ \E i \in DOMAIN file : Restart(SubSeq(file, 1, i - 1) \o SubSeq(file, i + 1, Len(file)))
  /\ found' = None

-----------------------------------------------------------------------------
(* do_POST, import_event *)

Ready(account) == account \notin {NotFound, Ambiguous}

Found(account) == IF Ready(account) THEN account ELSE found

(* Answer without a child. *)
Refuse(r, id, status) ==
  LET account == Find(file, r.body, id) IN
  \/ /\ Parsed(r) # "ok" /\ status = Parsed(r)
     /\ UNCHANGED <<lookup, state, code, found>>
  \/ /\ Parsed(r) = "ok" /\ ~Configured /\ status = "403"
     /\ UNCHANGED <<lookup, state, code, found>>
  \/ /\ Parsed(r) = "ok" /\ Configured /\ Normalize(r.body.currency) # Currency
     /\ status = "422"
     /\ UNCHANGED <<lookup, state, code, found>>
  \/ /\ Parsed(r) = "ok" /\ Configured /\ Normalize(r.body.currency) = Currency
     /\ lookup' = account /\ found' = Found(account)
     /\ \/ ~Ready(account) /\ status = "422" /\ UNCHANGED <<state, code>>
        \/ Ready(account) /\ state = "completed" /\ status = "409" /\ UNCHANGED <<state, code>>
        \/ /\ Ready(account) /\ state # "completed" /\ ActualDate(r.body) = None
           /\ status = "422"
           /\ state' = "processing" /\ code' = None

(* _record_processing and the start of the child *)
Begin(r, id) ==
  LET account == Find(file, r.body, id) IN
  /\ Parsed(r) = "ok" /\ Configured /\ Normalize(r.body.currency) = Currency
  /\ Ready(account) /\ state # "completed" /\ ActualDate(r.body) # None
  /\ lookup' = account /\ found' = Found(account)
  /\ state' = "processing" /\ code' = None
  /\ busy' = TRUE /\ reply' = "none" /\ sent' = Payload(r.body, account)
  /\ Start \/ \E how \in {"missing", "refused"} : StartFails(how)

Attempt(r, id) ==
  \/ \E status \in {"400", "403", "409", "413", "415", "422"} :
       Refuse(r, id, status) /\ reply' = status /\ UNCHANGED <<busy, sent, bridgeVars>>
  \/ Begin(r, id)

(* What an app may send with an event: the id of a mapping it was shown     *)
(* (account_options), or none.                                              *)
NoOption == [id |-> None, account |-> None]
Options == {NoOption} \cup {[id |-> m.id, account |-> m.account] : m \in Mappings(file)}

(* The app sends a request. *)
Arrive ==
  /\ request = None
  /\ \E r \in Requests, option \in Options :
       /\ request' = r /\ choice' = option.id /\ chosen' = option.account
       /\ Attempt(r, option.id)
  /\ UNCHANGED <<given, file>>

(* It sends it again. *)
Retry ==
  /\ request # None /\ ~busy
  /\ Attempt(request, choice)
  /\ UNCHANGED <<given, file, request, choice, chosen>>

(* The child has ended. *)
Finish ==
  /\ busy /\ at = "ended"
  /\ busy' = FALSE
  /\ \/ /\ Outcome = "ok"
        /\ state' = "completed" /\ code' = None /\ reply' = "201"
     \/ /\ Outcome = "undecodable"
        /\ reply' = "dropped" /\ UNCHANGED <<state, code>>
     \/ /\ Outcome \notin {"ok", "undecodable"}
        /\ state' = "failed" /\ code' = Outcome
        /\ reply' = IF Outcome = "account_not_found" THEN "422" ELSE "502"
  /\ UNCHANGED <<given, file, request, choice, lookup, sent, chosen, found, bridgeVars>>

Child == busy /\ BridgeStep /\ UNCHANGED attemptVars

Next == AddRow \/ DropRow \/ Arrive \/ Retry \/ Finish \/ Child

Spec == Init /\ [][Next]_vars

-----------------------------------------------------------------------------
(* Properties *)

SameCase(s, t) == Len(s) = Len(t) /\ \A i \in DOMAIN s : UpperCase[s[i]] = UpperCase[t[i]]

(* The administrator's reading of a row: the hint is the event's and the    *)
(* sender occurs in the event's, apart from case and outer blanks.          *)
Speaks(row, e) ==
  LET sender == Strip(e.sender) IN
  /\ SameCase(Strip(row.hint), Strip(e.hint))
  /\ \E i, j \in DOMAIN sender : SameCase(Strip(row.sender), SubSeq(sender, i, j))

(* The accounts of the rows that speak of an event, of those with this id   *)
(* if the event has one.                                                    *)
Told(e, id) ==
  {Strip(file[i].account) : i \in {j \in DOMAIN file : /\ Speaks(file[j], e)
                                                       /\ id \in {None, MappingOf(file[j]).id}}}

(* Two accounts that the joined text of an id may confuse: one is what      *)
(* follows a colon of the other.                                            *)
Colliding(a, b) == EndsIn(a, b) \/ EndsIn(b, a)

(* Every account option the app is shown can be used: an event with the     *)
(* row's sender and hint that chooses its id gets the row's account, even   *)
(* where other rows overlap; it is refused only where colons have given     *)
(* another row with another account the same id.                            *)
EveryOptionWorks ==
  \A i \in DOMAIN file :
    LET m == MappingOf(file[i])
        account == Find(file, [sender |-> file[i].sender, hint |-> file[i].hint], m.id)
    IN \/ account = m.account
       \/ account = Ambiguous /\ \E n \in Mappings(file) : /\ n.id = m.id
                                                           /\ Colliding(n.account, m.account)

(* An attempt goes to the one account named by the rows of the file that    *)
(* speak of the event (and have the id it chose), whatever the case and the *)
(* blanks around it; it is refused only if they name none or several.       *)
AnsweredAsTold ==
  reply # "none" /\ lookup # None /\ request.body # None =>
    LET told == Told(request.body, choice) IN
    /\ Ready(lookup) => told = {lookup}
    /\ lookup = NotFound => told = {}
    /\ lookup = Ambiguous => \E a, b \in told : a # b

(* A choice holds for ever: however the file is edited between attempts, an *)
(* event whose sender chose an account goes there or nowhere, but for an    *)
(* account that a colon in it lets the id confuse with the chosen one.      *)
ChoiceHolds ==
  chosen # None /\ lookup # None /\ Ready(lookup) => lookup = chosen \/ Colliding(lookup, chosen)

(* Adding rows may make an event ambiguous but never moves a retry of it to *)
(* another account than an earlier attempt went to.                         *)
NewRowsMoveNothing == [][found # None => found' \in {found, None}]_vars

(* 201 is only sent for a transaction that has reached the server, however  *)
(* the child ended and whatever was printed around its result.              *)
ImportedMeansBooked == reply = "201" => applied = "server"

(* What a child books is what the app sent and the file says, however often *)
(* it was sent: into the account the rows name, under the key that makes a  *)
(* repetition harmless, an amount with the sign of its direction and within *)
(* bounds, on the day of the transaction or, if that was not sent, of its   *)
(* receipt.  The date is in the documented form unless the app sent another.*)
BookedAsSent ==
  applied # "no" =>
    LET b == request.body IN
    /\ Told(b, choice) = {sent.account}
    /\ sent.imported_id = request.key
    /\ IF b.direction = "debit" THEN sent.amount \in -MaxAmount..-1
                                ELSE sent.amount \in 1..MaxAmount
    /\ Normalize(b.currency) = Currency
    /\ sent.date.day = IF b.date = None THEN Day(b.received) ELSE b.date.day
    /\ (b.date # None => b.date.form = "YYYY-MM-DD") => sent.date.form = "YYYY-MM-DD"

(* The code the child reported is the code in the journal, unless it has a  *)
(* hyphen.                                                                  *)
CodeIsKept ==
  ~busy /\ state = "failed" /\ exit = "2" /\ Response = error /\ error \notin Hyphenated
    => code = error
=============================================================================
