---------------------- MODULE TempUserListPropiedades ----------------------
(***************************************************************************)
(* What the list of temporary users must keep true.                        *)
(***************************************************************************)
EXTENDS TempUserList

Anterior(i) == IF i = 1 THEN NULL ELSE lista[i - 1]
Siguiente(i) == IF i = Len(lista) THEN NULL ELSE lista[i + 1]

(* The pointers are the queue of users: whatever was inserted and deleted, *)
(* both directions and both ends agree, and every node linked is in use.   *)
BienEnlazada ==
    /\ usuarioPrimero = IF lista = <<>> THEN NULL ELSE lista[1]
    /\ usuarioUltimo = IF lista = <<>> THEN NULL ELSE lista[Len(lista)]
    /\ \A i \in 1..Len(lista) :
        /\ lista[i] \in reservado
        /\ previous[lista[i]] = Anterior(i)
        /\ next[lista[i]] = Siguiente(i)
        /\ \A j \in 1..Len(lista) : lista[j] = lista[i] => j = i

(* A pointer that was got under the mutex and is used without it, or in a  *)
(* later critical section, still points to the user of the thread's socket *)
(* and not to memory that was given back.                                  *)
SinUsoTrasLiberar ==
    \A h \in Hilos : Corre(h) /\ pc[h] \in {"tiene", "desenlaza", "libera"} =>
        /\ aux[h] \in reservado
        /\ socket[aux[h]] = arg[h]
        /\ pc[h] # "libera" => \E i \in 1..Len(lista) : lista[i] = aux[h]

(* Memory is in the list or in the hands of the thread that puts it there  *)
(* or gives it back: none is lost.                                         *)
SinFugas ==
    \A n \in reservado :
        \/ \E i \in 1..Len(lista) : lista[i] = n
        \/ \E h \in Hilos : pc[h] \in {"enlaza", "libera"} /\ aux[h] = n

(* A socket has one temporary user: nuevaConexion deletes before it adds.  *)
UnoPorSocket ==
    \A i, j \in 1..Len(lista) : socket[lista[i]] = socket[lista[j]] => i = j

-----------------------------------------------------------------------------
(* The inductive invariant behind them, in parts.                          *)

ListaTypeOK ==
    /\ {usuarioPrimero, usuarioUltimo} \subseteq Nodos \cup {NULL}
    /\ previous \in [Nodos -> Nodos \cup {NULL}]
    /\ next \in [Nodos -> Nodos \cup {NULL}]
    /\ socket \in [Nodos -> Sockets \cup {NULL}]
    /\ nick \in [Nodos -> Nicks \cup {NULL}]
    /\ reservado \subseteq Nodos
    /\ mutexTempUser \in Hilos \cup {NULL}
    /\ pc \in [Hilos -> {"fuera", "new", "enlaza", "pull", "busca", "tiene",
                         "desenlaza", "libera"}]
    /\ op \in [Hilos -> {"nada", "nueva", "pull", "delete"}]
    /\ arg \in [Hilos -> Sockets \cup {NULL}]
    /\ aux \in [Hilos -> Nodos \cup {NULL}]
    /\ manejador \in {"no", "dentro", "exit", "fin"}
    /\ lista \in Seq(Nodos)

(* Which function a thread is in, for which socket, and whether it has the *)
(* mutex and a node.                                                       *)
Turnos ==
    /\ \A h \in Hilos :
        /\ mutexTempUser = h <=> pc[h] = "busca"
        /\ pc[h] # "fuera" => arg[h] \in Sockets /\ op[h] # "nada"
        /\ pc[h] \in {"new", "enlaza"} => op[h] = "nueva"
        /\ pc[h] = "tiene" => op[h] = "pull"
        /\ pc[h] \in {"desenlaza", "libera"} => op[h] # "pull"
        /\ pc[h] \in {"enlaza", "tiene", "desenlaza", "libera"} => aux[h] \in Nodos
    /\ \A g, h \in Hilos :
        pc[g] # "fuera" /\ pc[h] # "fuera" /\ arg[g] = arg[h] => g = h

(* liberaTodosTempUser has not freed the list under the threads.           *)
Intacta == manejador \in {"no", "dentro"}

EnLista(n) == \E i \in 1..Len(lista) : lista[i] = n
ConSocket(s) == \E i \in 1..Len(lista) : socket[lista[i]] = s

(* A user that is not linked yet, or not any more, is one thread's alone;  *)
(* one that was found stays linked until that thread unlinks it; and       *)
(* nuevaConexion adds a user only for a socket that has none.              *)
Punteros ==
    \A h \in Hilos :
        /\ pc[h] \in {"new", "enlaza", "libera"} => ~ConSocket(arg[h])
        /\ pc[h] \in {"enlaza", "tiene", "desenlaza", "libera"} =>
            aux[h] \in reservado /\ socket[aux[h]] = arg[h]
        /\ pc[h] \in {"tiene", "desenlaza"} => EnLista(aux[h])
        /\ pc[h] = "enlaza" =>
            previous[aux[h]] = NULL /\ next[aux[h]] = NULL /\ nick[aux[h]] = NULL

(* How far the search under the mutex has got.                             *)
Buscado ==
    \A h \in Hilos : pc[h] = "busca" =>
        \/ aux[h] = NULL /\ ~ConSocket(arg[h])
        \/ \E k \in 1..Len(lista) :
            /\ lista[k] = aux[h]
            /\ \A j \in 1..(k - 1) : socket[lista[j]] # arg[h]

Ordenada == BienEnlazada /\ UnoPorSocket /\ Punteros /\ Buscado /\ SinFugas

ListaInv == ListaTypeOK /\ Turnos /\ (Intacta => Ordenada)

-----------------------------------------------------------------------------
(* Each function as its callers see it: done when it unlinks, links or     *)
(* finds.                                                                  *)
Pendiente(h) ==
    CASE pc[h] \in {"new", "enlaza"} -> "new"
      [] pc[h] \in {"pull", "busca"} -> IF op[h] = "pull" THEN "pull" ELSE "delete"
      [] pc[h] = "desenlaza" -> "delete"
      [] pc[h] = "libera" -> IF op[h] = "nueva" THEN "new" ELSE "nada"
      [] pc[h] = "tiene" -> "tiene"
      [] OTHER -> "nada"

Usuarios ==
    [i \in 1..Len(lista) |-> [socket |-> socket[lista[i]], nick |-> nick[lista[i]]]]
Pedidos == [h \in Hilos |-> Pendiente(h)]
Pedido == [h \in Hilos |-> IF Pendiente(h) = "nada" THEN NULL ELSE arg[h]]

Cola == INSTANCE UsuariosTemporales WITH usuarios <- Usuarios, op <- Pedidos, arg <- Pedido

(* Looking up in one critical section and unlinking in the next, the list  *)
(* behaves as if each function happened at once.                           *)
ImplementaCola == Cola!Spec

-----------------------------------------------------------------------------

(* The search under the mutex comes to the end of the list, and whoever    *)
(* waits for the mutex can have it, unless SIGINT stops the searching      *)
(* thread for good.                                                        *)
BusquedaTermina == \A h \in Hilos : (mutexTempUser = h) ~> (mutexTempUser # h \/ ~Corre(h))

(* SIGINT ends the server.                                                 *)
SigintTermina == (manejador = "dentro") ~> (manejador = "fin")

(* It does unless it finds the main thread itself with the mutex: another  *)
(* thread that has it gives it back.                                       *)
SigintTerminaSinMutex ==
    (manejador = "dentro" /\ mutexTempUser # principal) ~> (manejador = "fin")
=============================================================================
