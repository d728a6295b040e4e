----------------------------- MODULE MCAccounts -----------------------------
(* Instances of Accounts for TLC.                                          *)
EXTENDS Accounts, TLC

\* Operators have the same rights.
OperatorSymmetry == Permutations(Operators)

=============================================================================
