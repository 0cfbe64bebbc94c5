--------------------------- MODULE MCVivienda ---------------------------
(* A small city for Vivienda.                                              *)
EXTENDS Vivienda, TLC

CONSTANT Coins   \* what every account starts with

MCBalance == [a \in Accounts |-> Coins]
Interchangeable == Permutations(Accounts)
=========================================================================
