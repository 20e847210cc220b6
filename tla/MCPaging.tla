------------------------------ MODULE MCPaging ------------------------------
(***************************************************************************)
(* A small instance of Paging: a list of up to four restaurants in two     *)
(* categories.                                                             *)
(***************************************************************************)
EXTENDS Paging, TLC

CONSTANTS chicken, pizza

MCRows == 1 .. 4

Interchangeable == Permutations(Categories)
=============================================================================
