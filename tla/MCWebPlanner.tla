----------------------------- MODULE MCWebPlanner -----------------------------
(* WebPlanner on a matrix of three keys, one of them reserved.             *)
EXTENDS WebPlanner

SmallBase == <<"k1", "k2", "k9">>
SmallFunction == <<"f1">>
SmallReserved == {"k9"}
=============================================================================
