------------------------------ MODULE MCAccounts ------------------------------
(***************************************************************************)
(* Accounts for TLC.                                                       *)
(***************************************************************************)
EXTENDS Accounts, TLC

Interchangeable ==
    Permutations(Request) \cup Permutations(Email) \cup Permutations(UserId)
        \cup Permutations(Token)

=============================================================================
