------------------------------ MODULE RunLedger ------------------------------
(***************************************************************************)
(* What the scan service promises, with no lock, session or message in     *)
(* sight: scans of one user take turns, a scan opens at most one record,   *)
(* concludes it at most once and only while it runs, and a recommendation  *)
(* appears exactly with a successful conclusion.  A scan may also vanish   *)
(* and leave its record open.                                              *)
(***************************************************************************)
CONSTANTS User, Inv

VARIABLES
  owner,        \* owner[w]: the user scan w is for
  stage,        \* stage[w]: waiting, scanning or over
  record,       \* record[w]: the visible record of scan w
  recommended   \* scans with a visible recommendation

ledgerVars == <<owner, stage, record, recommended>>

Conclusion == {"success", "no_trade", "failed"}

Init ==
  /\ owner \in [Inv -> User]
  /\ stage = [w \in Inv |-> "waiting"]
  /\ record = [w \in Inv |-> "absent"]
  /\ recommended = {}

Begin(w) ==
  /\ stage[w] = "waiting"
  /\ \A v \in Inv : owner[v] = owner[w] => stage[v] # "scanning"
  /\ stage' = [stage EXCEPT ![w] = "scanning"]
  /\ UNCHANGED <<owner, record, recommended>>

Refuse(w) ==
  /\ stage[w] = "waiting"
  /\ stage' = [stage EXCEPT ![w] = "over"]
  /\ UNCHANGED <<owner, record, recommended>>

Open(w) ==
  /\ stage[w] = "scanning"
  /\ record[w] = "absent"
  /\ record' = [record EXCEPT ![w] = "running"]
  /\ UNCHANGED <<owner, stage, recommended>>

Conclude(w, c) ==
  /\ stage[w] = "scanning"
  /\ record[w] = "running"
  /\ record' = [record EXCEPT ![w] = c]
  /\ recommended' = IF c = "success" THEN recommended \cup {w} ELSE recommended
  /\ UNCHANGED <<owner, stage>>

\* One scan leaves, or a process takes several with it.
Leave(S) ==
  /\ S # {}
  /\ \A w \in S : stage[w] = "scanning"
  /\ stage' = [w \in Inv |-> IF w \in S THEN "over" ELSE stage[w]]
  /\ UNCHANGED <<owner, record, recommended>>

Next ==
  \/ \E w \in Inv : Begin(w) \/ Refuse(w) \/ Open(w)
  \/ \E w \in Inv, c \in Conclusion : Conclude(w, c)
  \/ \E S \in SUBSET Inv : Leave(S)

Spec == Init /\ [][Next]_ledgerVars

=============================================================================
