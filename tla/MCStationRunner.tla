-------------------------- MODULE MCStationRunner --------------------------
(* StationRunner for TLC: any goroutine may call anything.  Bound of the   *)
(* search: once calls that start the key have crossed, those under way run *)
(* to their end, and only Status is still called.                          *)
EXTENDS StationRunner

CrossedCallsEnd ==
    crossed # {} =>
        \A t \in Threads : pc[t] = "idle" => op'[t] \in {None, "status"}

=============================================================================
