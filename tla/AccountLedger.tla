---------------------------- MODULE AccountLedger ----------------------------
(***************************************************************************)
(* What the position service promises about a user's account, with no      *)
(* session, column or expiry in sight.  A position is opened, settled once *)
(* and at last removed.  The balance moves by what a settled position      *)
(* earned, at once and once, follows a correction of that position, and    *)
(* gives it back when the position is removed; the size the user states is *)
(* the only other thing that moves it.                                     *)
(***************************************************************************)
EXTENDS Integers, FiniteSetsExt

CONSTANTS Position

VARIABLES
  stage,    \* stage[p]: none, open, settled or removed
  credit,   \* credit[p]: what position p contributes to the balance
  size,     \* the user's own money
  balance   \* what the user's account shows

accountVars == <<stage, credit, size, balance>>

Init ==
  /\ stage = [p \in Position |-> "none"]
  /\ credit = [p \in Position |-> 0]
  /\ balance = size

\* Nothing but the positions in S moves, and the balance moves with them.
OnlyMoves(S) ==
  /\ \A p \in Position \ S : stage'[p] = stage[p] /\ credit'[p] = credit[p]
  /\ balance' - balance = SumFunction([p \in S |-> credit'[p] - credit[p]])
  /\ size' = size

Open(p) ==
  /\ stage[p] = "none" /\ stage'[p] = "open"
  /\ credit'[p] = 0
  /\ OnlyMoves({p})

\* One sale, or all that expired together.
Settle(S) ==
  /\ \A p \in S : stage[p] = "open" /\ stage'[p] = "settled"
  /\ OnlyMoves(S)

Correct(p) ==
  /\ stage[p] = "settled" /\ stage'[p] = "settled"
  /\ OnlyMoves({p})

Remove(p) ==
  /\ stage[p] \in {"open", "settled"} /\ stage'[p] = "removed"
  /\ credit'[p] = 0
  /\ OnlyMoves({p})

Resize ==
  /\ size' - size = balance' - balance
  /\ UNCHANGED <<stage, credit>>

Next ==
  \/ \E p \in Position : Open(p) \/ Correct(p) \/ Remove(p)
  \/ \E S \in SUBSET Position : Settle(S)
  \/ Resize

Spec == Init /\ [][Next]_accountVars

=============================================================================
