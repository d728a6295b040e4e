--------------------------- MODULE MCStationPage ---------------------------
(* Instances of StationPage for TLC.                                       *)
EXTENDS StationPage, TLC

=============================================================================
