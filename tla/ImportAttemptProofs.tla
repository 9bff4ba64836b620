------------------------- MODULE ImportAttemptProofs -------------------------
(***************************************************************************)
(* Proofs about ImportAttempt, for any rows, requests and settings, however *)
(* many attempts there are and whatever the child prints.                   *)
(***************************************************************************)
EXTENDS ImportAttempt, AccountMappingsProofs

(* What may be printed, or be the code of an error, which starts as "none". *)
Lines == Noise \cup Allowed \cup {"ok", "actual_api_error", "none"}

(* "ok" is printed after the last synchronisation only, and no error is     *)
(* called "ok".                                                             *)
BridgeInv ==
  /\ output \in Seq(Lines)
  /\ Has("ok") => applied = "server" /\ at \in {"finally", "caught", "ended"}
  /\ at = "result" => applied = "server"
  /\ error # "ok" /\ error \in Lines

(* The child of the attempt in progress has not been answered for. *)
ReplyInv ==
  /\ busy => reply # "201"
  /\ reply = "201" => applied = "server"

AttemptInv == BridgeInv /\ ReplyInv

-----------------------------------------------------------------------------
(* The child *)

(* Printing something else than a success makes no success. *)
LEMMA PrintedIsNoSuccess ==
  ASSUME BridgeInv, NEW x \in Lines, x # "ok",
         output' = Append(output, x) \/ output' = Printed(x)
  PROVE  /\ output' \in Seq(Lines)
         /\ Has("ok")' => Has("ok")
PROOF
<1>1. PICK y \in Lines : y # "ok" /\ output' = Append(output, y)
  BY DEF Printed, Lines, Noise
<1>. QED BY <1>1 DEF BridgeInv, Has

LEMMA BridgeKept ==
  ASSUME BridgeInv, BridgeStep
  PROVE  BridgeInv'
PROOF
<1>. USE DEF BridgeInv
<1>1. CASE Advance
  <2>1. UNCHANGED <<output, error>> BY <1>1 DEF Advance
  <2>2. ~Has("ok") BY <1>1 DEF Advance, After
  <2>3. at' = "result" => applied' = "server"
    <3>. SUFFICES ASSUME at' = "result" PROVE applied' = "server" OBVIOUS
    <3>1. at = "sync" BY <1>1 DEF Advance, After
    <3>. QED BY <1>1, <3>1 DEF Advance, Effect
  <2>. QED BY <2>1, <2>2, <2>3 DEF Has
<1>2. CASE \E c \in Thrown : Throw(c)
  <2>1. PICK c \in Thrown : Throw(c) BY <1>2
  <2>2. ~Has("ok") /\ UNCHANGED output /\ at' # "result" BY <2>1 DEF Throw, After
  <2>3. error' \in Allowed \cup {"actual_api_error"} BY <2>1 DEF Throw, SafeErrorCode
  <2>. QED BY <2>2, <2>3 DEF Has, Lines, Allowed, Hyphenated
<1>3. CASE Report
  <2>1. output' \in Seq(Lines) BY <1>3 DEF Report, Printed, Lines, Noise
  <2>. QED BY <1>3, <2>1 DEF Report
<1>4. CASE Shutdown BY <1>4 DEF Shutdown, Has
<1>5. CASE Catch BY <1>5, PrintedIsNoSuccess DEF Catch
<1>6. CASE \E x \in Noise : Prints(x)
  <2>1. PICK x \in Noise : Prints(x) BY <1>6
  <2>. QED BY <2>1, PrintedIsNoSuccess DEF Prints, Awaits, After, Lines, Noise
<1>7. CASE \E how \in {"0", "signal", "timeout"} : EndsEarly(how) BY <1>7 DEF EndsEarly, Has
<1>. QED BY <1>1, <1>2, <1>3, <1>4, <1>5, <1>6, <1>7 DEF BridgeStep

LEMMA FreshBridge ==
  ASSUME NEW where \in {"start", "none", "ended"}, NEW status, Begins(where, status)
  PROVE  BridgeInv' /\ applied' = "no"
BY DEF Begins, BridgeInv, Has, Lines

(* Python takes a run for a success only if there is a result line that says so. *)
LEMMA SuccessIsPrinted == Outcome = "ok" => Has("ok")
PROOF
<1>. SUFFICES ASSUME Outcome = "ok" PROVE Has("ok") OBVIOUS
<1>. DEFINE last == {i \in Results : \A j \in Results : j <= i}
<1>1. \A r : CodeOf(r) # "ok" BY DEF CodeOf
<1>2. Response = "ok" BY <1>1 DEF Outcome
<1>3. last # {} BY <1>2 DEF Response
<1>4. (CHOOSE i \in last : TRUE) \in DOMAIN output BY <1>3 DEF Results
<1>5. output[CHOOSE i \in last : TRUE] = "ok" BY <1>2, <1>3 DEF Response
<1>. QED BY <1>4, <1>5 DEF Has

-----------------------------------------------------------------------------
(* The attempts *)

LEMMA AttemptKept == AttemptInv /\ [Next]_vars => AttemptInv'
PROOF
<1>. SUFFICES ASSUME AttemptInv, [Next]_vars PROVE AttemptInv' OBVIOUS
<1>. USE DEF AttemptInv
<1>1. ASSUME NEW f, Restart(f) PROVE AttemptInv'
  BY <1>1, FreshBridge DEF Restart, Forget, ReplyInv
<1>2. ASSUME NEW r, NEW id, Attempt(r, id) PROVE AttemptInv'
  <2>1. CASE \E status \in {"400", "403", "409", "413", "415", "422"} :
               reply' = status /\ UNCHANGED <<busy, bridgeVars>>
    BY <2>1 DEF ReplyInv, BridgeInv, Has, bridgeVars
  <2>2. CASE Begin(r, id)
    <3>1. BridgeInv' BY <2>2, FreshBridge DEF Begin, Start, StartFails
    <3>2. reply' = "none" BY <2>2 DEF Begin
    <3>. QED BY <3>1, <3>2 DEF ReplyInv
  <2>. QED BY <1>2, <2>1, <2>2 DEF Attempt
<1>3. CASE Finish
  <2>1. BridgeInv' /\ UNCHANGED applied BY <1>3 DEF Finish, BridgeInv, Has, bridgeVars
  <2>2. ~busy' BY <1>3 DEF Finish
  <2>3. CASE Outcome = "ok" BY <2>1, <2>2, <2>3, SuccessIsPrinted DEF BridgeInv, ReplyInv
  <2>4. CASE Outcome # "ok"
    <3>1. reply' # "201" BY <1>3, <2>4 DEF Finish
    <3>. QED BY <2>1, <2>2, <3>1 DEF ReplyInv
  <2>. QED BY <2>3, <2>4
<1>4. CASE Child
  <2>1. BridgeInv' BY <1>4, BridgeKept DEF Child
  <2>2. busy /\ UNCHANGED <<busy, reply>> BY <1>4 DEF Child, attemptVars
  <2>. QED BY <2>1, <2>2 DEF ReplyInv
<1>5. CASE UNCHANGED vars BY <1>5 DEF vars, attemptVars, bridgeVars, BridgeInv, ReplyInv, Has
<1>. QED BY <1>1, <1>2, <1>3, <1>4, <1>5 DEF Next, AddRow, DropRow, Arrive, Retry

(* Whatever the library prints, throws or leaves hanging: 201 is only sent  *)
(* for a transaction that has reached the server.                           *)
THEOREM CreatedMeansBooked == Spec => []ImportedMeansBooked
PROOF
<1>1. Init => AttemptInv BY DEF Init, Idle, AttemptInv, BridgeInv, ReplyInv, Has, Lines
<1>2. AttemptInv => ImportedMeansBooked BY DEF AttemptInv, ReplyInv, ImportedMeansBooked
<1>. QED BY <1>1, <1>2, AttemptKept, PTL DEF Spec

-----------------------------------------------------------------------------
(* The code in the journal *)

(* Where main() has thrown, there is an error; Node ends with status 2 then *)
(* only.                                                                    *)
CaughtInv ==
  /\ at = "caught" \/ exit = "2" => error # "none"
  /\ exit = "2" => at = "ended"
  /\ error # "ok"

CodeInv ==
  /\ CaughtInv
  /\ busy => state = "processing"
  /\ CodeIsKept

LEMMA CaughtKept == CaughtInv /\ BridgeStep => CaughtInv'
PROOF
<1>. SUFFICES ASSUME CaughtInv, BridgeStep PROVE CaughtInv' OBVIOUS
<1>. USE DEF CaughtInv
<1>1. CASE Advance BY <1>1 DEF Advance, After
<1>2. CASE \E c \in Thrown : Throw(c)
  BY <1>2 DEF Throw, After, SafeErrorCode, Allowed, Hyphenated
<1>3. CASE Report BY <1>3 DEF Report
<1>4. CASE Shutdown BY <1>4 DEF Shutdown
<1>5. CASE Catch BY <1>5 DEF Catch
<1>6. CASE \E x \in Noise : Prints(x) BY <1>6 DEF Prints
<1>7. CASE \E how \in {"0", "signal", "timeout"} : EndsEarly(how)
  BY <1>7 DEF EndsEarly, Awaits, After
<1>. QED BY <1>1, <1>2, <1>3, <1>4, <1>5, <1>6, <1>7 DEF BridgeStep

(* What the child reports is what the journal gets, but for a hyphen.       *)
LEMMA CodeIsReported == ASSUME CodeInv, Finish PROVE CodeIsKept'
PROOF
<1>. SUFFICES ASSUME error \notin Hyphenated, state' = "failed", exit = "2", Response = error
              PROVE  code' = error
  BY DEF Finish, bridgeVars, CodeIsKept, Response, Results, Has
<1>1. Outcome \notin {"ok", "undecodable"} /\ code' = Outcome
  BY DEF Finish, CodeInv
<1>2. Response \notin {"none", "ok"} BY DEF CodeInv, CaughtInv
<1>3. Outcome = CodeOf(Response) BY <1>1, <1>2 DEF Outcome
<1>. QED BY <1>2, <1>3, <1>1 DEF CodeOf

LEMMA CodeKept == CodeInv /\ [Next]_vars => CodeInv'
PROOF
<1>. SUFFICES ASSUME CodeInv, [Next]_vars PROVE CodeInv' OBVIOUS
<1>1. ASSUME NEW f, Restart(f) PROVE CodeInv'
  BY <1>1 DEF Restart, Forget, Begins, CodeInv, CaughtInv, CodeIsKept
<1>2. ASSUME NEW r, NEW id, Attempt(r, id) PROVE CodeInv'
  <2>1. CASE /\ \/ UNCHANGED <<state, code>>
                \/ state' = "processing"
             /\ UNCHANGED <<busy, bridgeVars>>
    BY <2>1 DEF bridgeVars, CodeInv, CaughtInv, CodeIsKept, Response, Results, Has
  <2>2. CASE Begin(r, id)
    BY <2>2 DEF Begin, Start, StartFails, Begins, CodeInv, CaughtInv, CodeIsKept
  <2>. QED BY <1>2, <2>1, <2>2 DEF Attempt, Refuse
<1>3. CASE Finish
  <2>1. CaughtInv' /\ ~busy' BY <1>3 DEF Finish, bridgeVars, CodeInv, CaughtInv
  <2>. QED BY <1>3, <2>1, CodeIsReported DEF CodeInv
<1>4. CASE Child
  BY <1>4, CaughtKept DEF Child, attemptVars, CodeInv, CodeIsKept
<1>5. CASE UNCHANGED vars
  BY <1>5 DEF vars, attemptVars, bridgeVars, CodeInv, CaughtInv, CodeIsKept,
              Response, Results, Has
<1>. QED BY <1>1, <1>2, <1>3, <1>4, <1>5 DEF Next, AddRow, DropRow, Arrive, Retry

(* The codes with a hyphen are the only ones that are lost: every other one *)
(* the child reports is the code in the journal, whatever is printed around *)
(* it and however often the attempt is repeated.                            *)
THEOREM OtherCodesAreKept == Spec => []CodeIsKept
PROOF
<1>1. Init => CodeInv BY DEF Init, Idle, CodeInv, CaughtInv, CodeIsKept
<1>2. CodeInv => CodeIsKept BY DEF CodeInv
<1>. QED BY <1>1, <1>2, CodeKept, PTL DEF Spec

-----------------------------------------------------------------------------
(* Where the attempts go *)

FileInv == file \in Seq(Rows)

Text == Seq(DOMAIN UpperCase)

(* The characters of an id. *)
IdChars == {UpperCase[c] : c \in DOMAIN UpperCase} \cup DOMAIN UpperCase \cup {":"}

(* A choice is an id that ends in the account chosen.                       *)
ChoiceInv ==
  /\ request = None => lookup = None
  /\ chosen # None => /\ choice # None /\ choice \in Seq(IdChars)
                      /\ chosen \in Text /\ EndsIn(choice, chosen)
  /\ ChoiceHolds

(* The file still has a mapping that leads to the account found.            *)
FoundInv ==
  found # None =>
    /\ request # None
    /\ \E m \in Mappings(file) :
         Matches(m, request.body.sender, request.body.hint, choice) /\ m.account = found

LEMMA IdsEndInAccounts ==
  ASSUME NEW f \in Seq(Rows), NEW m \in Mappings(f)
  PROVE  /\ m.id # None /\ m.id \in Seq(IdChars)
         /\ m.account \in Text /\ m.account \notin {None, NotFound, Ambiguous}
         /\ EndsIn(m.id, m.account)
PROOF
<1>1. PICK row \in Rows : m = MappingOf(row) BY DEF Mappings
<1>. DEFINE sender == Normalize(row.sender)
            hint == Normalize(row.hint)
            account == Strip(row.account)
            upper == {UpperCase[c] : c \in DOMAIN UpperCase}
<1>2. sender \in Seq(upper) /\ hint \in Seq(upper) BY RowsAssumption, NormalizedIsString
<1>3. account \in Seq(DOMAIN UpperCase) BY RowsAssumption, StripIsString
<1>4. m.id = MappingId(sender, hint, account) /\ m.account = account BY <1>1 DEF MappingOf
<1>5. sender \in Seq(IdChars) /\ hint \in Seq(IdChars) /\ account \in Seq(IdChars)
  BY <1>2, <1>3 DEF IdChars
<1>. HIDE DEF sender, hint, account, upper
<1>6. EndsIn(m.id, m.account) BY <1>4, <1>5, IdEndsInAccount
<1>7. m.id \in Seq(IdChars)
  <2>1. <<":">> \in Seq(IdChars) BY DEF IdChars
  <2>. QED BY <1>4, <1>5, <2>1, ConcatProperties DEF MappingId
<1>. QED BY <1>1, <1>3, <1>4, <1>6, <1>7, RowsAssumption DEF Text

LEMMA FileInit == Init => FileInv
PROOF
<1>. SUFFICES ASSUME Init PROVE FileInv OBVIOUS
<1>1. PICK r \in Rows : file = <<r>> BY DEF Init
<1>. QED BY <1>1 DEF FileInv

LEMMA FileKept == FileInv /\ [Next]_vars => FileInv'
PROOF
<1>. SUFFICES ASSUME FileInv, [Next]_vars PROVE FileInv' OBVIOUS
<1>1. CASE AddRow BY <1>1 DEF AddRow, Restart, FileInv
<1>2. CASE DropRow
  <2>1. PICK i \in DOMAIN file :
          file' = SubSeq(file, 1, i - 1) \o SubSeq(file, i + 1, Len(file))
    BY <1>2 DEF DropRow, Restart
  <2>2. SubSeq(file, 1, i - 1) \in Seq(Rows) /\ SubSeq(file, i + 1, Len(file)) \in Seq(Rows)
    BY DEF FileInv
  <2>. QED BY <2>1, <2>2, ConcatProperties DEF FileInv
<1>3. CASE UNCHANGED file BY <1>3 DEF FileInv
<1>. QED BY <1>1, <1>2, <1>3 DEF Next, Arrive, Retry, Finish, Child, vars, attemptVars

(* Every account option the app is shown leads to the account of its row,   *)
(* whatever the other rows are, unless colons have given another one its id.*)
THEOREM OptionsWork == Spec => []EveryOptionWorks
PROOF
<1>1. FileInv => EveryOptionWorks
  <2>. SUFFICES ASSUME FileInv, NEW i \in DOMAIN file,
                       NEW e, e = [sender |-> file[i].sender, hint |-> file[i].hint],
                       NEW m, m = MappingOf(file[i])
                PROVE  \/ Find(file, e, m.id) = m.account
                       \/ /\ Find(file, e, m.id) = Ambiguous
                          /\ \E n \in Mappings(file) :
                               n.id = m.id /\ Colliding(n.account, m.account)
    BY DEF EveryOptionWorks
  <2>1. m \in Mappings(file) BY DEF Mappings
  <2>2. m.sender = Normalize(e.sender) /\ m.hint = Normalize(e.hint) BY DEF MappingOf
  <2>3. IsIn(m.sender, m.sender)
    <3>1. file[i] \in Rows BY DEF FileInv
    <3>2. m.sender \in Seq({UpperCase[c] : c \in DOMAIN UpperCase})
      BY <2>2, <3>1, RowsAssumption, NormalizedIsString
    <3>. QED BY <3>2, WholeIsPart
  <2>4. Matches(m, e.sender, e.hint, m.id) BY <2>2, <2>3 DEF Matches
  <2>5. ASSUME NEW n \in Mappings(file), Matches(n, e.sender, e.hint, m.id),
               n.account # m.account
        PROVE  n.id = m.id /\ Colliding(n.account, m.account)
    <3>1. n.id = m.id BY <2>1, <2>5, IdsEndInAccounts DEF FileInv, Matches
    <3>2. /\ m.id \in Seq(IdChars) /\ n.account \in Text /\ m.account \in Text
          /\ EndsIn(m.id, n.account) /\ EndsIn(m.id, m.account)
      BY <2>1, <3>1, IdsEndInAccounts DEF FileInv
    <3>. QED BY <2>5, <3>1, <3>2, EndsInBoth DEF Text, Colliding
  <2>. QED BY <2>1, <2>4, <2>5, FindsOrDoubts
<1>. QED BY <1>1, FileInit, FileKept, PTL DEF Spec

(* What an attempt with a choice finds is the account chosen, one that the  *)
(* id confuses with it, or nothing.                                         *)
LEMMA ChoiceKept == FileInv /\ ChoiceInv /\ [Next]_vars => ChoiceInv'
PROOF
<1>. SUFFICES ASSUME FileInv, ChoiceInv, [Next]_vars PROVE ChoiceInv' OBVIOUS
<1>1. ASSUME NEW r, NEW id, Attempt(r, id), Ready(lookup'), lookup' # lookup,
             NEW account \in Text, id # None, id \in Seq(IdChars), EndsIn(id, account)
      PROVE  lookup' = account \/ Colliding(lookup', account)
  <2>1. lookup' = Find(file, r.body, id) BY <1>1 DEF Attempt, Refuse, Begin
  <2>2. PICK m \in Mappings(file) :
          Matches(m, r.body.sender, r.body.hint, id) /\ m.account = lookup'
    BY <1>1, <2>1, FindsMatch DEF Ready
  <2>3. EndsIn(id, lookup') /\ lookup' \in Text
    BY <1>1, <2>2, IdsEndInAccounts DEF FileInv, Matches
  <2>. QED BY <1>1, <2>3, EndsInBoth DEF Text, Colliding
<1>2. CASE Arrive
  <2>1. PICK r \in Requests, option \in Options :
          /\ request' = r /\ choice' = option.id /\ chosen' = option.account
          /\ Attempt(r, option.id)
    BY <1>2 DEF Arrive
  <2>2. request' # None BY <2>1, RequestsAssumption
  <2>3. chosen' # None => /\ choice' # None /\ choice' \in Seq(IdChars)
                          /\ chosen' \in Text /\ EndsIn(choice', chosen')
    <3>. SUFFICES ASSUME chosen' # None
                  PROVE  /\ choice' # None /\ choice' \in Seq(IdChars)
                         /\ chosen' \in Text /\ EndsIn(choice', chosen')
      OBVIOUS
    <3>1. PICK m \in Mappings(file) : choice' = m.id /\ chosen' = m.account
      BY <2>1 DEF Options, NoOption
    <3>. QED BY <3>1, IdsEndInAccounts DEF FileInv
  <2>4. lookup = None BY <1>2 DEF Arrive, ChoiceInv
  <2>5. ChoiceHolds'
    <3>. SUFFICES ASSUME chosen' # None, lookup' # None, Ready(lookup')
                  PROVE  lookup' = chosen' \/ Colliding(lookup', chosen')
      BY DEF ChoiceHolds, Ready, Colliding, EndsIn
    <3>. QED BY <1>1, <2>1, <2>3, <2>4
  <2>. QED BY <2>2, <2>3, <2>5 DEF ChoiceInv
<1>3. CASE Retry
  <2>1. /\ Attempt(request, choice) /\ request # None
        /\ UNCHANGED <<request, choice, chosen>>
    BY <1>3 DEF Retry
  <2>2. ChoiceHolds'
    <3>. SUFFICES ASSUME chosen # None, lookup' # None, Ready(lookup')
                  PROVE  lookup' = chosen \/ Colliding(lookup', chosen)
      BY <2>1 DEF ChoiceHolds, Ready, Colliding, EndsIn
    <3>1. CASE lookup' = lookup BY <3>1 DEF ChoiceInv, ChoiceHolds
    <3>2. CASE lookup' # lookup BY <1>1, <2>1, <3>2 DEF ChoiceInv
    <3>. QED BY <3>1, <3>2
  <2>. QED BY <2>1, <2>2 DEF ChoiceInv
<1>4. CASE UNCHANGED <<request, choice, lookup, chosen>>
  BY <1>4 DEF ChoiceInv, ChoiceHolds, Ready, Colliding, EndsIn
<1>. QED BY <1>2, <1>3, <1>4
     DEF Next, AddRow, DropRow, Restart, Finish, Child, vars, attemptVars

(* However the file is edited between attempts, an event whose sender chose *)
(* an account goes there or nowhere, or to an account one of whose colons   *)
(* (or one of the chosen account's) lets the id stand for both.             *)
THEOREM ChoicesHold == Spec => []ChoiceHolds
PROOF
<1>1. Init => ChoiceInv BY DEF Init, ChoiceInv, ChoiceHolds
<1>2. ChoiceInv => ChoiceHolds BY DEF ChoiceInv
<1>. QED BY <1>1, <1>2, FileInit, FileKept, ChoiceKept, PTL DEF Spec

(* What an attempt finds is found again as long as no row is removed.       *)
LEMMA FoundKept ==
  FileInv /\ FoundInv /\ [Next]_vars => FoundInv' /\ (found # None => found' \in {found, None})
PROOF
<1>. SUFFICES ASSUME FileInv, FoundInv, [Next]_vars
              PROVE  FoundInv' /\ (found # None => found' \in {found, None})
  OBVIOUS
<1>1. CASE AddRow
  <2>1. PICK r \in Rows : file' = Append(file, r) /\ UNCHANGED <<request, choice, found>>
    BY <1>1 DEF AddRow, Restart
  <2>2. Mappings(file) \subseteq Mappings(file')
    <3>1. DOMAIN file \subseteq DOMAIN file' /\ \A i \in DOMAIN file : file'[i] = file[i]
      BY <2>1 DEF FileInv
    <3>. QED BY <3>1 DEF Mappings
  <2>. QED BY <2>1, <2>2 DEF FoundInv
<1>2. CASE DropRow BY <1>2 DEF DropRow, FoundInv
<1>3. ASSUME NEW r, NEW id, Attempt(r, id)
      PROVE  \/ found' = found
             \/ /\ \E m \in Mappings(file) :
                     Matches(m, r.body.sender, r.body.hint, id) /\ m.account = found'
                /\ \A m \in Mappings(file) :
                     Matches(m, r.body.sender, r.body.hint, id) => m.account = found'
  <2>1. found' = found \/ /\ Find(file, r.body, id) \notin {NotFound, Ambiguous}
                          /\ found' = Find(file, r.body, id)
    BY <1>3 DEF Attempt, Refuse, Begin, Found, Ready
  <2>. QED BY <2>1, FindsMatch
<1>4. CASE Arrive
  <2>1. PICK r \in Requests, option \in Options :
          request' = r /\ choice' = option.id /\ Attempt(r, option.id) /\ file' = file
    BY <1>4 DEF Arrive
  <2>2. found = None BY <1>4 DEF Arrive, FoundInv
  <2>. QED BY <1>3, <2>1, <2>2, RequestsAssumption DEF FoundInv
<1>5. CASE Retry
  <2>1. Attempt(request, choice) /\ request # None /\ UNCHANGED <<file, request, choice>>
    BY <1>5 DEF Retry
  <2>. QED BY <1>3, <2>1 DEF FoundInv
<1>6. CASE UNCHANGED <<file, request, choice, found>> BY <1>6 DEF FoundInv
<1>. QED BY <1>1, <1>2, <1>4, <1>5, <1>6 DEF Next, Finish, Child, vars, attemptVars

(* Adding rows never moves a retry to another account.                      *)
THEOREM RowsMoveNothing == Spec => NewRowsMoveNothing
PROOF
<1>1. Init => FoundInv BY DEF Init, FoundInv
<1>2. FileInv /\ FoundInv /\ [Next]_vars => [found # None => found' \in {found, None}]_vars
  BY FoundKept
<1>. QED BY <1>1, <1>2, FileInit, FileKept, FoundKept, PTL DEF Spec, NewRowsMoveNothing

-----------------------------------------------------------------------------
(* The rows and what is read out of them *)

Upper(s) == [i \in DOMAIN s |-> UpperCase[s[i]]]

LEMMA UpperIsSameCase ==
  ASSUME NEW s \in Text, NEW t \in Text
  PROVE  Upper(s) = Upper(t) <=> SameCase(s, t)
PROOF
<1>1. ASSUME Upper(s) = Upper(t) PROVE SameCase(s, t)
  <2>1. DOMAIN s = DOMAIN t BY <1>1 DEF Upper
  <2>2. Len(s) = Len(t) BY <2>1 DEF Text
  <2>3. \A i \in DOMAIN s : Upper(s)[i] = UpperCase[s[i]] /\ Upper(t)[i] = UpperCase[t[i]]
    BY <2>1 DEF Upper
  <2>. QED BY <1>1, <2>2, <2>3 DEF SameCase
<1>2. ASSUME SameCase(s, t) PROVE Upper(s) = Upper(t)
  <2>1. DOMAIN s = DOMAIN t BY <1>2 DEF SameCase, Text
  <2>. QED BY <1>2, <2>1 DEF SameCase, Upper
<1>. QED BY <1>1, <1>2

LEMMA UpperIsText ==
  ASSUME NEW s \in Text
  PROVE  /\ Upper(s) \in Seq({UpperCase[c] : c \in DOMAIN UpperCase})
         /\ Len(Upper(s)) = Len(s)
         /\ \A i \in 1..Len(s) : Upper(s)[i] = UpperCase[s[i]]
PROOF
<1>1. Len(s) \in Nat /\ DOMAIN s = 1..Len(s) /\ \A i \in 1..Len(s) : s[i] \in DOMAIN UpperCase
  BY DEF Text
<1>2. Upper(s) = [i \in 1..Len(s) |-> UpperCase[s[i]]] BY <1>1 DEF Upper
<1>. QED BY <1>1, <1>2

(* A fragment occurs in upper case where it occurs apart from case.         *)
LEMMA IsInIsOccurs ==
  ASSUME NEW s \in Text, NEW t \in Text, s # <<>>
  PROVE  IsIn(Upper(s), Upper(t)) <=> \E i, j \in DOMAIN t : SameCase(s, SubSeq(t, i, j))
PROOF
<1>. DEFINE part(i) == SubSeq(t, i + 1, i + Len(s))
<1>1. Len(s) \in Nat \ {0} /\ Len(t) \in Nat /\ DOMAIN s = 1..Len(s) /\ DOMAIN t = 1..Len(t)
  BY DEF Text
<1>2. ASSUME NEW i \in 0..(Len(t) - Len(s))
      PROVE  /\ part(i) \in Text
             /\ SubSeq(Upper(t), i + 1, i + Len(s)) = Upper(part(i))
  <2>1. /\ part(i) \in Text /\ Len(part(i)) = Len(s)
        /\ \A k \in 1..Len(s) : part(i)[k] = t[i + k]
    BY <1>1 DEF Text
  <2>2. \A k \in 1..Len(s) : i + k \in 1..Len(t) BY <1>1
  <2>. DEFINE u == Upper(t)
              v == SubSeq(u, i + 1, i + Len(s))
              w == Upper(part(i))
  <2>3. u \in Seq({UpperCase[c] : c \in DOMAIN UpperCase}) /\ Len(u) = Len(t)
    BY UpperIsText
  <2>4. \A k \in 1..Len(t) : u[k] = UpperCase[t[k]] BY UpperIsText
  <2>5. /\ w \in Seq({UpperCase[c] : c \in DOMAIN UpperCase}) /\ Len(w) = Len(s)
        /\ \A k \in 1..Len(s) : w[k] = UpperCase[part(i)[k]]
    <3>. HIDE DEF part
    <3>. QED BY <2>1, UpperIsText
  <2>. HIDE DEF u, w, part
  <2>6. /\ v \in Seq({UpperCase[c] : c \in DOMAIN UpperCase}) /\ Len(v) = Len(s)
        /\ \A k \in 1..Len(s) : v[k] = u[i + k]
    BY <1>1, <2>3
  <2>. HIDE DEF v
  <2>7. \A k \in 1..Len(s) : v[k] = w[k] BY <2>1, <2>2, <2>4, <2>5, <2>6
  <2>8. v = w
    <3>1. v \in Seq({UpperCase[c] : c \in DOMAIN UpperCase}) /\ Len(v) = Len(w) BY <2>5, <2>6
    <3>. QED BY <2>5, <2>7, <3>1, SeqEqual
  <2>. QED BY <2>1, <2>8 DEF u, v, w
<1>3. IsIn(Upper(s), Upper(t)) <=>
        \E i \in 0..(Len(t) - Len(s)) : Upper(part(i)) = Upper(s)
  BY <1>2, UpperIsText DEF IsIn
<1>4. \A i \in 0..(Len(t) - Len(s)) : Upper(part(i)) = Upper(s) <=> SameCase(s, part(i))
  BY <1>2, UpperIsSameCase
<1>5. ASSUME NEW i \in 0..(Len(t) - Len(s)), SameCase(s, part(i))
      PROVE  \E k, j \in DOMAIN t : SameCase(s, SubSeq(t, k, j))
  <2>1. i + 1 \in DOMAIN t /\ i + Len(s) \in DOMAIN t BY <1>1
  <2>. QED BY <1>5, <2>1
<1>6. ASSUME NEW i \in DOMAIN t, NEW j \in DOMAIN t, SameCase(s, SubSeq(t, i, j))
      PROVE  \E k \in 0..(Len(t) - Len(s)) : SameCase(s, part(k))
  <2>1. Len(SubSeq(t, i, j)) = Len(s) BY <1>6 DEF SameCase
  <2>2. j = (i - 1) + Len(s) BY <1>1, <2>1 DEF Text
  <2>3. i - 1 \in 0..(Len(t) - Len(s)) /\ i = (i - 1) + 1 BY <1>1, <2>2
  <2>. QED BY <1>6, <2>2, <2>3
<1>. HIDE DEF part
<1>. QED BY <1>3, <1>4, <1>5, <1>6

(* A mapping matches where its row speaks of the event.                     *)
LEMMA MatchIsSpeaking ==
  ASSUME NEW row, row.sender \in Text, row.hint \in Text, Strip(row.sender) # <<>>,
         NEW e, e.sender \in Text, e.hint \in Text,
         NEW m, m = MappingOf(row)
  PROVE  m.hint = Normalize(e.hint) /\ IsIn(m.sender, Normalize(e.sender)) <=> Speaks(row, e)
PROOF
<1>1. /\ Strip(row.sender) \in Text /\ Strip(row.hint) \in Text
      /\ Strip(e.sender) \in Text /\ Strip(e.hint) \in Text
  BY StripIsString DEF Text
<1>2. \A s : Normalize(s) = Upper(Strip(s)) BY DEF Normalize, Upper
<1>3. m.sender = Upper(Strip(row.sender)) /\ m.hint = Upper(Strip(row.hint))
  BY <1>2 DEF MappingOf
<1>4. m.hint = Normalize(e.hint) <=> SameCase(Strip(row.hint), Strip(e.hint))
  BY <1>1, <1>2, <1>3, UpperIsSameCase
<1>5. IsIn(m.sender, Normalize(e.sender)) <=>
        \E i, j \in DOMAIN Strip(e.sender) :
          SameCase(Strip(row.sender), SubSeq(Strip(e.sender), i, j))
  BY <1>1, <1>2, <1>3, IsInIsOccurs
<1>. QED BY <1>4, <1>5 DEF Speaks

(* The attempts that get as far as _find_mapping.                           *)
Passes(r) == Parsed(r) = "ok" /\ Configured /\ Normalize(r.body.currency) = Currency

(* The file is one the service starts with, and until a restart the last    *)
(* attempt's account is what the file still gives for the request.          *)
ToldInv ==
  /\ Loads(file)
  /\ request \in Requests \cup {None}
  /\ request = None => lookup = None
  /\ lookup # None => Passes(request)
  /\ (busy \/ reply # "none") /\ lookup # None => lookup = Find(file, request.body, choice)

LEMMA ToldInit == Init => ToldInv
BY DEF Init, ToldInv

LEMMA ToldKept == FileInv /\ ToldInv /\ [Next]_vars => ToldInv'
PROOF
<1>. SUFFICES ASSUME FileInv, ToldInv, [Next]_vars PROVE ToldInv' OBVIOUS
<1>1. ASSUME NEW f, Restart(f) PROVE ToldInv'
  BY <1>1 DEF Restart, ToldInv, Passes, Configured
<1>2. ASSUME NEW r, NEW id, Attempt(r, id), UNCHANGED given, lookup # None => Passes(r)
      PROVE  /\ lookup' # None => Passes(r)'
             /\ lookup' # None => lookup' = Find(file, r.body, id)
  <2>1. \/ Passes(r) /\ lookup' = Find(file, r.body, id)
        \/ ~Passes(r) /\ lookup' = lookup
    BY <1>2 DEF Attempt, Refuse, Begin, Passes
  <2>2. Passes(r)' = Passes(r) BY <1>2 DEF Passes, Configured
  <2>. QED BY <1>2, <2>1, <2>2
<1>3. CASE Arrive
  <2>1. PICK r \in Requests, option \in Options :
          request' = r /\ choice' = option.id /\ Attempt(r, option.id)
    BY <1>3 DEF Arrive
  <2>2. lookup = None BY <1>3 DEF Arrive, ToldInv
  <2>3. UNCHANGED <<given, file>> BY <1>3 DEF Arrive
  <2>4. /\ lookup' # None => Passes(r)'
        /\ lookup' # None => lookup' = Find(file, r.body, option.id)
    BY <1>2, <2>1, <2>2, <2>3
  <2>. QED BY <2>1, <2>3, <2>4, RequestsAssumption DEF ToldInv, Passes, Configured
<1>4. CASE Retry
  <2>1. Attempt(request, choice) /\ UNCHANGED <<given, file, request, choice, chosen>>
    BY <1>4 DEF Retry
  <2>2. request # None BY <1>4 DEF Retry
  <2>3. lookup # None => Passes(request) BY DEF ToldInv
  <2>4. /\ lookup' # None => Passes(request)'
        /\ lookup' # None => lookup' = Find(file, request.body, choice)
    BY <1>2, <2>1, <2>3
  <2>. QED BY <2>1, <2>2, <2>4 DEF ToldInv, Passes, Configured
<1>5. CASE Finish
  <2>1. busy /\ UNCHANGED <<given, file, request, choice, lookup, chosen>> BY <1>5 DEF Finish
  <2>. QED BY <2>1 DEF ToldInv, Passes, Configured
<1>6. CASE UNCHANGED attemptVars BY <1>6 DEF attemptVars, ToldInv, Passes, Configured
<1>. QED BY <1>1, <1>3, <1>4, <1>5, <1>6 DEF Next, AddRow, DropRow, Child, vars

(* What _find_mapping compares is what the administrator reads in the rows. *)
LEMMA TellsWhatMatches ==
  ASSUME FileInv, Loads(file), NEW e, e.sender \in Text, e.hint \in Text, NEW id
  PROVE  Told(e, id) = {m.account : m \in {n \in Mappings(file) :
                                           Matches(n, e.sender, e.hint, id)}}
PROOF
<1>1. ASSUME NEW i \in DOMAIN file, NEW m, m = MappingOf(file[i])
      PROVE  /\ Matches(m, e.sender, e.hint, id) <=> Speaks(file[i], e) /\ id \in {None, m.id}
             /\ m.account = Strip(file[i].account)
  <2>1. file[i].sender \in Text /\ file[i].hint \in Text
    BY RowsAssumption DEF FileInv, Text
  <2>2. Strip(file[i].sender) # <<>> BY DEF Loads, IsRow, IsText
  <2>3. m.hint = Normalize(e.hint) /\ IsIn(m.sender, Normalize(e.sender))
          <=> Speaks(file[i], e)
    BY <1>1, <2>1, <2>2, MatchIsSpeaking
  <2>. QED BY <1>1, <2>3 DEF Matches, MappingOf
<1>. QED BY <1>1 DEF Mappings, Told

(* _find_mapping and what the rows of the file say of an event.             *)
LEMMA FoundIsTold ==
  ASSUME FileInv, Loads(file), NEW e, e.sender \in Text, e.hint \in Text, NEW id,
         NEW account, account = Find(file, e, id)
  PROVE  /\ Ready(account) => Told(e, id) = {account}
         /\ account = NotFound => Told(e, id) = {}
         /\ account = Ambiguous => \E a, b \in Told(e, id) : a # b
PROOF
<1>. DEFINE told == Told(e, id)
<1>1. told = {m.account : m \in {n \in Mappings(file) : Matches(n, e.sender, e.hint, id)}}
  BY TellsWhatMatches
<1>2. account = IF told = {} THEN NotFound
                ELSE IF \E a, b \in told : a # b THEN Ambiguous
                ELSE CHOOSE a \in told : TRUE
  BY <1>1 DEF Find
<1>3. \A a \in told : a \notin {NotFound, Ambiguous} BY <1>1, IdsEndInAccounts DEF FileInv
<1>. HIDE DEF told
<1>4. CASE told = {} BY <1>2, <1>4, SentinelsAssumption DEF Ready, told
<1>5. CASE \E a, b \in told : a # b BY <1>2, <1>5, SentinelsAssumption DEF Ready, told
<1>6. CASE told # {} /\ ~(\E a, b \in told : a # b)
  <2>1. account \in told BY <1>2, <1>6
  <2>2. told = {account} BY <1>6, <2>1
  <2>. QED BY <1>3, <2>1, <2>2 DEF told
<1>. QED BY <1>4, <1>5, <1>6

(* An attempt goes to the one account that the rows of the file say,        *)
(* whatever the case and the blanks, and is refused only if they say none   *)
(* or several.                                                              *)
THEOREM GoesAsTold == Spec => []AnsweredAsTold
PROOF
<1>1. FileInv /\ ToldInv => AnsweredAsTold
  <2>. SUFFICES ASSUME FileInv, ToldInv, reply # "none", lookup # None, request.body # None,
                       NEW told, told = Told(request.body, choice)
                PROVE  /\ Ready(lookup) => told = {lookup}
                       /\ lookup = NotFound => told = {}
                       /\ lookup = Ambiguous => \E a, b \in told : a # b
    BY DEF AnsweredAsTold
  <2>1. request \in Requests /\ Loads(file) /\ lookup = Find(file, request.body, choice)
    BY DEF ToldInv
  <2>2. request.body.sender \in Text /\ request.body.hint \in Text
    BY <2>1, RequestsAssumption DEF Text
  <2>. QED BY <2>1, <2>2, FoundIsTold
<1>. QED BY <1>1, FileInit, FileKept, ToldInit, ToldKept, PTL DEF Spec

-----------------------------------------------------------------------------
(* What reaches Actual *)

(* A child runs, and books, for a request that was accepted only, and what  *)
(* it was given is what the file says now: no restart has come between.     *)
BookedInv ==
  busy \/ applied # "no" =>
    /\ request # None /\ Passes(request) /\ ActualDate(request.body) # None
    /\ Ready(Find(file, request.body, choice))
    /\ sent = Payload(request.body, Find(file, request.body, choice))

LEMMA BookedInit == Init => BookedInv
BY DEF Init, Idle, BookedInv

LEMMA BookedKept == BookedInv /\ AttemptInv /\ [Next]_vars => BookedInv'
PROOF
<1>. SUFFICES ASSUME BookedInv, AttemptInv, [Next]_vars PROVE BookedInv' OBVIOUS
<1>1. ASSUME NEW f, Restart(f) PROVE BookedInv'
  BY <1>1, FreshBridge DEF Restart, Forget, BookedInv
<1>2. ASSUME NEW r, NEW id, Attempt(r, id), request' = r, choice' = id, r # None, ~busy,
             given' = given, file' = file, request # None => r = request /\ id = choice
      PROVE  BookedInv'
  <2>1. CASE Begin(r, id)
    <3>1. /\ Passes(r) /\ ActualDate(r.body) # None /\ Ready(Find(file, r.body, id))
          /\ sent' = Payload(r.body, Find(file, r.body, id))
      BY <2>1 DEF Begin, Passes
    <3>. QED BY <1>2, <3>1 DEF BookedInv, Passes, Configured
  <2>2. CASE UNCHANGED <<busy, sent, bridgeVars>>
    BY <1>2, <2>2 DEF BookedInv, Passes, Configured, bridgeVars
  <2>. QED BY <1>2, <2>1, <2>2 DEF Attempt
<1>3. CASE Arrive
  <2>1. PICK r \in Requests, id \in {option.id : option \in Options} :
          request' = r /\ choice' = id /\ Attempt(r, id)
    BY <1>3 DEF Arrive
  <2>2. request = None /\ ~busy /\ given' = given /\ file' = file BY <1>3 DEF Arrive, BookedInv
  <2>3. r # None BY RequestsAssumption
  <2>. QED BY <1>2, <2>1, <2>2, <2>3
<1>4. CASE Retry BY <1>2, <1>4 DEF Retry
<1>5. CASE Finish
  <2>1. busy /\ UNCHANGED <<given, file, request, choice, sent, bridgeVars>>
    BY <1>5 DEF Finish
  <2>. QED BY <2>1 DEF BookedInv, Passes, Configured
<1>6. CASE Child BY <1>6 DEF Child, attemptVars, BookedInv, Passes, Configured
<1>7. CASE UNCHANGED vars
  BY <1>7 DEF vars, attemptVars, bridgeVars, BookedInv, Passes, Configured
<1>. QED BY <1>1, <1>3, <1>4, <1>5, <1>6, <1>7 DEF Next, AddRow, DropRow

(* Whatever a child books, local or on the server, is what the app sent and *)
(* what the rows of the file say, under the key of the request.             *)
THEOREM BooksWhatWasSent == Spec => []BookedAsSent
PROOF
<1>1. FileInv /\ ToldInv /\ BookedInv => BookedAsSent
  <2>. SUFFICES ASSUME FileInv, ToldInv, BookedInv, applied # "no",
                       NEW b, b = request.body
                PROVE  /\ Told(b, choice) = {sent.account}
                       /\ sent.imported_id = request.key
                       /\ IF b.direction = "debit" THEN sent.amount \in -MaxAmount..-1
                                                   ELSE sent.amount \in 1..MaxAmount
                       /\ Normalize(b.currency) = Currency
                       /\ sent.date.day = IF b.date = None THEN Day(b.received)
                                          ELSE b.date.day
                       /\ (b.date # None => b.date.form = "YYYY-MM-DD")
                            => sent.date.form = "YYYY-MM-DD"
    BY DEF BookedAsSent
  <2>. DEFINE account == Find(file, b, choice)
  <2>1. Passes(request) /\ ActualDate(b) # None /\ Ready(account) BY DEF BookedInv
  <2>2. sent = Payload(b, account) BY DEF BookedInv
  <2>. HIDE DEF account
  <2>3. Parsed(request) = "ok" /\ Normalize(b.currency) = Currency BY <2>1 DEF Passes
  <2>4. b # None /\ HasValues(b) /\ request.key = b.event BY <2>3 DEF Parsed, Framing
  <2>5. IF b.direction = "debit" THEN b.amount \in -MaxAmount..-1 ELSE b.amount \in 1..MaxAmount
    BY <2>4, LimitsAssumption DEF HasValues, SignFits
  <2>6. Told(b, choice) = {account}
    <3>1. request \in Requests /\ Loads(file) BY DEF ToldInv, BookedInv
    <3>2. b.sender \in Text /\ b.hint \in Text BY <2>4, <3>1, RequestsAssumption DEF Text
    <3>. QED BY <2>1, <3>1, <3>2, FoundIsTold DEF account
  <2>7. sent.date = ActualDate(b) /\ sent.amount = b.amount /\ sent.account = account
        /\ sent.imported_id = b.event
    BY <2>2 DEF Payload
  <2>8. sent.date.day = IF b.date = None THEN Day(b.received) ELSE b.date.day
    BY <2>1, <2>7 DEF ActualDate
  <2>9. (b.date # None => b.date.form = "YYYY-MM-DD") => sent.date.form = "YYYY-MM-DD"
    BY <2>1, <2>7 DEF ActualDate
  <2>. QED BY <2>3, <2>4, <2>5, <2>6, <2>7, <2>8, <2>9
<1>2. Init => AttemptInv
  BY DEF Init, Idle, AttemptInv, BridgeInv, ReplyInv, Has, Lines
<1>. QED BY <1>1, <1>2, FileInit, FileKept, ToldInit, ToldKept, BookedInit, BookedKept,
            AttemptKept, PTL DEF Spec
=============================================================================
