--------------------------- MODULE MCImportAttempt ---------------------------
EXTENDS ImportAttempt

Chars == {"a", "A", "b", "B", "1", " ", ":", "nl", "e", "u", "r", "E", "U", "R"}
MCUpperCase == [c \in Chars |-> CASE c = "a" -> "A" [] c = "b" -> "B" [] c = "e" -> "E"
                                  [] c = "u" -> "U" [] c = "r" -> "R" [] OTHER -> c]
MCLetters == {"a", "A", "b", "B", "e", "u", "r", "E", "U", "R"}
MCCurrency == <<"E", "U", "R">>
MCDay(t) == IF t = 9 THEN None ELSE "today"

Row(s, h, a) == [sender |-> s, hint |-> h, account |-> a]
(* The second and the third row have one id, for two accounts. *)
MCRows ==
  {Row(<<"a">>, <<"1">>, <<"a">>), Row(<<"a">>, <<"1">>, <<"1", ":", "b">>),
   Row(<<"a", ":", "1">>, <<"1">>, <<"b">>),
   Row(<<"A", " ">>, <<" ", "b">>, <<"b", " ">>), Row(<<"A", "b">>, <<"1">>, <<"b">>),
   Row(<<"a", "nl", "b">>, <<"1">>, <<"a">>), Row(<<"b">>, <<"1", "1", "1">>, <<"a">>),
   Row(<<"b">>, <<"1">>, <<"a", "nl", "a">>), Row(<<"b">>, <<"1">>, <<"a", "a", "a", "a">>)}

Body == [keys |-> Required \cup {"account_mapping_id"}, ill |-> {}, event |-> "id",
         received |-> 5, amount |-> -2, direction |-> "debit", currency |-> <<"e", "u", "R">>,
         sender |-> <<"b", "a">>, hint |-> <<"1">>, date |-> None,
         source |-> "bank_sms", cleared |-> FALSE]
Good == [chunked |-> FALSE, type |-> "application/json", length |-> 5, arrived |-> 5,
         key |-> "id", device |-> TRUE, body |-> Body]

(* Senders and hints that the rows tell apart. *)
Texts == {[Good EXCEPT !.body.sender = s, !.body.hint = h] :
            s \in {<<"A", "B", " ">>, <<"a", ":", "1">>}, h \in {<<"1">>, <<"B">>}}

(* Requests with one thing wrong or at its limit. *)
Odd ==
  {[Good EXCEPT !.chunked = TRUE], [Good EXCEPT !.type = "text/plain"],
   [Good EXCEPT !.length = 0], [Good EXCEPT !.length = 7, !.arrived = 7],
   [Good EXCEPT !.arrived = 4], [Good EXCEPT !.body = None],
   [Good EXCEPT !.body.keys = {}],
   [Good EXCEPT !.body.keys = @ \ {"payee"}], [Good EXCEPT !.body.keys = @ \cup {"mood"}],
   [Good EXCEPT !.body.ill = {"payee"}], [Good EXCEPT !.body.ill = {"event_id"}],
   [Good EXCEPT !.body.event = "other", !.key = "other"], [Good EXCEPT !.key = "other"],
   [Good EXCEPT !.device = FALSE], [Good EXCEPT !.body.received = 10],
   [Good EXCEPT !.body.received = 9],
   [Good EXCEPT !.body.received = 9, !.body.date = [form |-> "YYYY-MM-DD", day |-> "today"]],
   [Good EXCEPT !.body.currency = <<"E", "U">>], [Good EXCEPT !.body.currency = <<"E", "U", "1">>],
   [Good EXCEPT !.body.currency = <<"E", "U", "A">>], [Good EXCEPT !.body.sender = <<" ">>],
   [Good EXCEPT !.body.source = "app"], [Good EXCEPT !.body.cleared = TRUE]}
  \cup {[Good EXCEPT !.body.date = [form |-> f, day |-> "yesterday"]] :
          f \in {"YYYY-MM-DD", "YYYYMMDD", "DD.MM.YYYY"}}
  \cup {[Good EXCEPT !.body.amount = n, !.body.direction = d] :
          n \in {-4, -3, 0, 3, 4}, d \in {"debit", "credit", "refund"}}

MCRequests == Texts \cup Odd
=============================================================================
