---------------------------- MODULE ImportLedger ----------------------------
(***************************************************************************)
(* What the transaction sync promises, without the mechanism.  An event is  *)
(* booked in Actual Budget before it is settled, a client is told           *)
(* "imported" (201) or "already imported" (409) only when it is settled,    *)
(* nothing booked disappears, and a settled event is never booked again.    *)
(***************************************************************************)
CONSTANTS Events,    \* event ids, which are the idempotency keys
          Accounts   \* accounts of the Actual budget

VARIABLES booked,    \* the <<event, account>> pairs in the budget
          settled,   \* the events whose import is recorded as completed
          told       \* the events some client was told are imported

ledgerVars == <<booked, settled, told>>

LedgerInit == booked = {} /\ settled = {} /\ told = {}

(* One synchronisation may book what several attempts left behind. *)
Book == /\ \E new \in SUBSET ((Events \ settled) \X Accounts) : booked' = booked \cup new
        /\ UNCHANGED <<settled, told>>

Settle(e) == /\ \E a \in Accounts : <<e, a>> \in booked
             /\ settled' = settled \cup {e}
             /\ UNCHANGED <<booked, told>>

Tell(e) == /\ e \in settled
           /\ told' = told \cup {e}
           /\ UNCHANGED <<booked, settled>>

LedgerNext == Book \/ \E e \in Events : Settle(e) \/ Tell(e)

LedgerSpec == LedgerInit /\ [][LedgerNext]_ledgerVars
=============================================================================
