---------------------------- MODULE MCAccounts ----------------------------
(* Instances of Accounts for TLC.                                          *)
EXTENDS Accounts, TLC

Interchangeable == Permutations(Person) \cup Permutations(Request)

=============================================================================
