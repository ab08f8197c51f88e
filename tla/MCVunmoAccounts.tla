-------------------------- MODULE MCVunmoAccounts --------------------------
(* Two users, two workers, balances of two bits.                           *)
EXTENDS VunmoAccounts

MCTyped == {1, -1}
\* One of the two accounts is at the largest balance.
MCOpening == <<1, 3>>
=============================================================================
