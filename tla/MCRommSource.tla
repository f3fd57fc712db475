---------------------------- MODULE MCRommSource ----------------------------
(* Two accounts and two requests at a time; lists that fill no page, one,   *)
(* more than one, and one that is too long.                                 *)
EXTENDS RommSource, TLC

MCCatalogs == [a |-> {<<1, 2>>, <<2, 1, 3>>, <<1, 2, 3, 4>>}, b |-> {<<1>>}]
Alike == Permutations(Requests)
=============================================================================
