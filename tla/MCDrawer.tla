----------------------------- MODULE MCDrawer ------------------------------
(* Instances of Drawer for TLC: the drawer takes two thirds of the screen, *)
(* so that a touch beside it can push it all the way back.                 *)
EXTENDS Drawer, TLC

=============================================================================
