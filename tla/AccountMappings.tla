--------------------------- MODULE AccountMappings ---------------------------
(***************************************************************************)
(* Strings and account mappings of the transaction sync (_mapping_string,   *)
(* _load_mappings and _find_mapping in pi_backend/transaction_sync.py).     *)
(* Strings are sequences of characters, account ids too, and none of them   *)
(* changes its length in upper case.                                        *)
(***************************************************************************)
EXTENDS Integers, Sequences

CONSTANTS UpperCase,  \* the upper case of each character
          Blanks,     \* the white space
          Controls,   \* the control characters
          MaxSender, MaxHint, MaxAccount,  \* the longest of each
          None,       \* no choice, no event, no value
          NotFound, Ambiguous  \* what _find_mapping finds if no account

-----------------------------------------------------------------------------
(* Strings *)

Strip(s) ==
  LET kept == {i \in DOMAIN s : s[i] \notin Blanks}
  IN IF kept = {} THEN <<>>
     ELSE SubSeq(s, CHOOSE i \in kept : \A j \in kept : i <= j,
                    CHOOSE i \in kept : \A j \in kept : i >= j)

(* _mapping_string or _required_string accepts s. *)
IsText(s, max) ==
  LET cleaned == Strip(s)
  IN /\ Len(cleaned) \in 1..max
     /\ \A i \in DOMAIN cleaned : cleaned[i] \notin Controls

(* _normalize_sender, _normalize_hint *)
Normalize(s) == LET cleaned == Strip(s) IN [i \in DOMAIN cleaned |-> UpperCase[cleaned[i]]]

(* fragment in s *)
IsIn(fragment, s) ==
  \E i \in 0..(Len(s) - Len(fragment)) : SubSeq(s, i + 1, i + Len(fragment)) = fragment

-----------------------------------------------------------------------------
(* _load_mappings *)

MappingIdOfRow(sender, hint, account) == sender \o <<":">> \o hint  \* mutant: no account
(* _account_mapping_id: a hash, taken to be injective, of the text that the *)
(* parts are joined to; the text alone does not tell where they end.        *)
MappingId(sender, hint, account) == sender \o <<":">> \o hint \o <<":">> \o account

MappingOf(row) ==
  LET sender == Normalize(row.sender)
      hint == Normalize(row.hint)
      account == Strip(row.account)
  IN [sender |-> sender, hint |-> hint, account |-> account,
      id |-> MappingId(sender, hint, account)]

IsRow(row) == /\ IsText(row.sender, MaxSender) /\ IsText(row.hint, MaxHint)
              /\ IsText(row.account, MaxAccount)

Duplicate(r, q) ==
  Normalize(r.sender) = Normalize(q.sender) /\ Normalize(r.hint) = Normalize(q.hint)

(* The service starts with this list of rows. *)
Loads(f) ==
  /\ f # <<>>
  /\ \A i \in DOMAIN f : IsRow(f[i])
  /\ \A i, j \in DOMAIN f : Duplicate(f[i], f[j]) => i = j

Mappings(f) == {MappingOf(f[i]) : i \in DOMAIN f}

(* The text of an id or an account ends in a colon and this account. *)
EndsIn(s, account) ==
  LET rest == Len(s) - Len(account)
  IN /\ rest > 0 /\ s[rest] = ":"
     /\ \A k \in 1..Len(account) : s[rest + k] = account[k]

-----------------------------------------------------------------------------
(* _find_mapping *)

MatchesAnyHint(m, sender, hint, choice) ==  \* mutant: the hint of a choice is not compared
  /\ choice = None \/ m.id = choice
  /\ choice # None \/ m.hint = Normalize(hint)
  /\ IsIn(m.sender, Normalize(sender))
Matches(m, sender, hint, choice) ==
  /\ choice = None \/ m.id = choice
  /\ m.hint = Normalize(hint)
  /\ IsIn(m.sender, Normalize(sender))

FindLongest(f, e, choice) ==  \* mutant: the longest fragment wins
  LET matches == {m \in Mappings(f) : Matches(m, e.sender, e.hint, choice)}
  IN IF matches = {} THEN NotFound
     ELSE (CHOOSE m \in matches : \A n \in matches : Len(n.sender) <= Len(m.sender)).account
FindUnchosen(f, e, choice) ==  \* mutant: the choice is not passed on
  LET accounts == {m.account : m \in {n \in Mappings(f) : Matches(n, e.sender, e.hint, None)}}
  IN IF accounts = {} THEN NotFound
     ELSE IF \E a, b \in accounts : a # b THEN Ambiguous
     ELSE CHOOSE a \in accounts : TRUE
Find(f, e, choice) ==
  LET accounts == {m.account : m \in {n \in Mappings(f) : Matches(n, e.sender, e.hint, choice)}}
  IN IF accounts = {} THEN NotFound
     ELSE IF \E a, b \in accounts : a # b THEN Ambiguous
     ELSE CHOOSE a \in accounts : TRUE
=============================================================================
