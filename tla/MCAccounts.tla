----------------------------- MODULE MCAccounts -----------------------------
(***************************************************************************)
(* Small instances of Accounts.                                            *)
(***************************************************************************)
EXTENDS Accounts, TLC

MCMoved == <<"sessions", "reads">>
Twins == Permutations(Calls) \union Permutations(Users) \union Permutations(Emails)
=============================================================================
