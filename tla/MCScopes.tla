------------------------------ MODULE MCScopes ------------------------------
(* Programs of six statements, ifs nested in ifs: a scalar that is asked     *)
(* only and one that is asked and assigned, an array that is assigned and    *)
(* one it is copied from, of two bits each.                                  *)
EXTENDS Scopes
=============================================================================
