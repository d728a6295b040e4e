-------------------------- MODULE MCStationEditor --------------------------
(* Instances of StationEditor for TLC.                                     *)
EXTENDS StationEditor, TLC

=============================================================================
