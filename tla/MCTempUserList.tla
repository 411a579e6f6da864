--------------------------- MODULE MCTempUserList ---------------------------
(* Instances of TempUserList for TLC: three sockets and three addresses    *)
(* make the shortest list with a user in the middle.                       *)
EXTENDS TempUserListPropiedades, TLC

Simetria == Permutations(Nodos) \cup Permutations(Sockets)
=============================================================================
