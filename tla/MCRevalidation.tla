---------------------------- MODULE MCRevalidation ----------------------------
(* TLC instances of Revalidation: one long call, bought at 40 with the        *)
(* underlying at 100, stop 12, target 80, an expected move of 8%.             *)
EXTENDS Revalidation, TLC
CONSTANT p1
RecOf == p1 :> [type |-> "call", side |-> "long", source |-> "coiled_setup", stop |-> 12,
                underlyingStop |-> 90, target |-> 80, move |-> 8, holding |-> 4,
                earnings |-> NoDay, exitBy |-> NoDay, expiry |-> 5]
EntryOf == p1 :> [day |-> 0, premium |-> 40, snap |-> [underlying |-> None, iv |-> 30],
                  card |-> 100, artifact |-> {}, sql |-> {}]
Contract(bid, iv) == {[source |-> "alpaca", bid |-> bid, ask |-> bid + 2, mid |-> bid + 1,
                       last |-> bid, iv |-> iv]}
\* The underlying has fallen and the stop is near, broken if raised to 20; or
\* nothing is quoted at all.
Markets == {[contracts |-> Contract(18, 30), underlying |-> 94],
            [contracts |-> {}, underlying |-> None]}
\* A stop of 16 tightens 12 and widens 20, an underlying stop of 85 widens 90.
Say(action, evidence, stop, underlying) ==
  [action |-> action, evidence |-> evidence,
   proposed |-> [target |-> None, stop |-> stop, underlyingStop |-> underlying]]
Answers == {Say("hold", {"option_stop_breach"}, None, None),
            Say("close", {"snapshot"}, 16, 85),
            Say("adjust_stop", {"snapshot"}, 16, None)}
=============================================================================
