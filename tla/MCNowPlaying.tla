--------------------------- MODULE MCNowPlaying ----------------------------
(* Instances of NowPlaying for TLC.                                        *)
EXTENDS NowPlaying, TLC

=============================================================================
