--------------------------- MODULE MCPositionAlerts ---------------------------
(* TLC instance of PositionAlerts: a long row with both levels and a short    *)
(* one without a stop, of one ticker and owned by two users; the short row    *)
(* expires on day 0, so from day 1 on the long row is polled alone.           *)
EXTENDS PositionAlerts, TLC
CONSTANTS p1, p2, u1, u2, AAPL
OwnerOf == p1 :> u1 @@ p2 :> u2
PlanOf == p1 :> [target |-> 2, stop |-> 1] @@ p2 :> [target |-> 1, stop |-> NoPrice]
ExitOf == p1 :> 1 @@ p2 :> NoDate
ExpiryOf == p1 :> 2 @@ p2 :> 0
TickerOf == p1 :> AAPL @@ p2 :> AAPL
=============================================================================
