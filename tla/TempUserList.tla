---------------------------- MODULE TempUserList ----------------------------
(***************************************************************************)
(* The list of temporary users (conexion_temp.c): a doubly linked list     *)
(* between usuarioPrimero and usuarioUltimo under mutexTempUser, the       *)
(* handlers that use it (nuevaConexion, cerrarConexion, nick, user) and    *)
(* the SIGINT handler, which frees it in the main thread.                  *)
(*                                                                         *)
(* deleteTempUser looks its user up in one critical section and unlinks it *)
(* in another; pullTempUser returns a pointer its callers use without the  *)
(* mutex.  Both are right only because no two threads work for one socket  *)
(* at a time, which module Servidor shows: Llama asks for it.  The search  *)
(* under the mutex goes node by node; the other critical sections are      *)
(* single steps, as nothing else reads the links.                          *)
(***************************************************************************)
EXTENDS Naturals, Sequences

CONSTANTS
    Hilos,      \* threads
    principal,  \* the main thread
    Sockets,
    Nicks,
    Nodos,      \* addresses calloc can return
    NULL,
    Sigint      \* TRUE when the server may be interrupted from the terminal

ASSUME TempUserListAssumption ==
    /\ principal \in Hilos
    /\ NULL \notin Nodos
    /\ NULL \notin Nicks
    /\ NULL \notin Hilos
    /\ NULL \notin Sockets
    /\ Sigint \in BOOLEAN

VARIABLES
    usuarioPrimero, usuarioUltimo,
    previous, next, socket, nick,   \* fields of the node at each address
    reservado,      \* addresses in use
    mutexTempUser,  \* the thread that has the mutex, or NULL
    pc,             \* pc[h]: where thread h is in a function of the list
    op,             \* op[h]: the function its handler called
    arg,            \* arg[h]: the socket it works for
    aux,            \* aux[h]: the local pointer (usuario, useri, tuser)
    manejador,      \* "no", or how far manejadorSigint is: "dentro", "exit", "fin"
    lista           \* history: the nodes linked, in order of insertion

nodos == <<previous, next, socket, nick>>
extremos == <<usuarioPrimero, usuarioUltimo, lista>>
hilo == <<op, arg>>
vars == <<extremos, nodos, reservado, mutexTempUser, pc, hilo, aux, manejador>>

-----------------------------------------------------------------------------

Va(h, lugar) == pc' = [pc EXCEPT ![h] = lugar]

(* The handler of thread h is over, and its variables with it.             *)
Vuelve(h) ==
    /\ Va(h, "fuera")
    /\ op' = [op EXCEPT ![h] = "nada"]
    /\ arg' = [arg EXCEPT ![h] = NULL]
    /\ aux' = [aux EXCEPT ![h] = NULL]

(* Thread h runs: the process lives, and its main thread is not held by    *)
(* the signal handler.                                                     *)
Corre(h) == manejador = "no" \/ (h # principal /\ manejador # "fin")

SinPosicion(l, i) == [j \in 1..(Len(l) - 1) |-> IF j < i THEN l[j] ELSE l[j + 1]]

SinNodo(l, n) ==
    IF \E i \in 1..Len(l) : l[i] = n
    THEN SinPosicion(l, CHOOSE i \in 1..Len(l) : l[i] = n)
    ELSE l

Init ==
    /\ usuarioPrimero = NULL
    /\ usuarioUltimo = NULL
    /\ previous = [n \in Nodos |-> NULL]
    /\ next = [n \in Nodos |-> NULL]
    /\ socket = [n \in Nodos |-> NULL]
    /\ nick = [n \in Nodos |-> NULL]
    /\ reservado = {}
    /\ mutexTempUser = NULL
    /\ pc = [h \in Hilos |-> "fuera"]
    /\ op = [h \in Hilos |-> "nada"]
    /\ arg = [h \in Hilos |-> NULL]
    /\ aux = [h \in Hilos |-> NULL]
    /\ manejador = "no"
    /\ lista = <<>>

(* Mutant: nuevaConexion does not delete a user left at the descriptor.    *)
Llama_SinDelete(h, o, s) ==
    /\ Corre(h)
    /\ pc[h] = "fuera"
    /\ \A g \in Hilos : pc[g] # "fuera" => arg[g] # s
    /\ o = "nueva" => h = principal
    /\ op' = [op EXCEPT ![h] = o]
    /\ arg' = [arg EXCEPT ![h] = s]
    /\ Va(h, IF o = "nueva" THEN "new" ELSE "pull")
    /\ UNCHANGED <<extremos, nodos, reservado, mutexTempUser, aux, manejador>>

(* A handler starts to work for socket s, which no other thread has:       *)
(* nuevaConexion (the main thread: delete, then new), cerrarConexion       *)
(* (delete), nick or user (pull).                                          *)
Llama(h, o, s) ==
    /\ Corre(h)
    /\ pc[h] = "fuera"
    /\ \A g \in Hilos : pc[g] # "fuera" => arg[g] # s
    /\ o = "nueva" => h = principal
    /\ op' = [op EXCEPT ![h] = o]
    /\ arg' = [arg EXCEPT ![h] = s]
    /\ Va(h, "pull")
    /\ UNCHANGED <<extremos, nodos, reservado, mutexTempUser, aux, manejador>>

-----------------------------------------------------------------------------
(* newTempUser                                                             *)

(* Mutant: the node's next keeps what the memory had.                      *)
Calloc_SinNext(h, n) ==
    /\ Corre(h)
    /\ pc[h] = "new"
    /\ n \in Nodos \ reservado
    /\ reservado' = reservado \cup {n}
    /\ socket' = [socket EXCEPT ![n] = arg[h]]
    /\ nick' = [nick EXCEPT ![n] = NULL]
    /\ previous' = [previous EXCEPT ![n] = NULL]
    /\ aux' = [aux EXCEPT ![h] = n]
    /\ Va(h, "enlaza")
    /\ UNCHANGED <<extremos, next, mutexTempUser, hilo, manejador>>

Calloc(h, n) ==
    /\ Corre(h)
    /\ pc[h] = "new"
    /\ n \in Nodos \ reservado
    /\ reservado' = reservado \cup {n}
    /\ socket' = [socket EXCEPT ![n] = arg[h]]
    /\ nick' = [nick EXCEPT ![n] = NULL]
    /\ previous' = [previous EXCEPT ![n] = NULL]
    /\ next' = [next EXCEPT ![n] = NULL]
    /\ aux' = [aux EXCEPT ![h] = n]
    /\ Va(h, "enlaza")
    /\ UNCHANGED <<extremos, mutexTempUser, hilo, manejador>>

(* calloc finds no memory: CON_ERROR.                                      *)
CallocFalla(h) ==
    /\ Corre(h)
    /\ pc[h] = "new"
    /\ Vuelve(h)
    /\ UNCHANGED <<extremos, nodos, reservado, mutexTempUser, manejador>>

(* Mutant: the new node is linked forwards only.                           *)
Enlaza_SinPrevious(h) ==
    /\ Corre(h)
    /\ pc[h] = "enlaza"
    /\ mutexTempUser = NULL
    /\ usuarioPrimero' = IF usuarioPrimero = NULL THEN aux[h] ELSE usuarioPrimero
    /\ usuarioUltimo' = aux[h]
    /\ next' = IF usuarioPrimero = NULL THEN next
               ELSE [next EXCEPT ![usuarioUltimo] = aux[h]]
    /\ lista' = Append(lista, aux[h])
    /\ Vuelve(h)
    /\ UNCHANGED <<previous, socket, nick, reservado, mutexTempUser, manejador>>

Enlaza(h) ==
    /\ Corre(h)
    /\ pc[h] = "enlaza"
    /\ mutexTempUser = NULL
    /\ usuarioUltimo' = aux[h]
    /\ \/ /\ usuarioPrimero = NULL
          /\ usuarioPrimero' = aux[h]
          /\ UNCHANGED <<previous, next>>
       \/ /\ usuarioPrimero # NULL
          /\ next' = [next EXCEPT ![usuarioUltimo] = aux[h]]
          /\ previous' = [previous EXCEPT ![aux[h]] = usuarioUltimo]
          /\ UNCHANGED usuarioPrimero
    /\ lista' = Append(lista, aux[h])
    /\ Vuelve(h)
    /\ UNCHANGED <<socket, nick, reservado, mutexTempUser, manejador>>

-----------------------------------------------------------------------------
(* pullTempUser, called by a handler or by deleteTempUser                  *)

PullTempUser(h) ==
    /\ Corre(h)
    /\ pc[h] = "pull"
    /\ mutexTempUser = NULL
    /\ mutexTempUser' = h
    /\ aux' = [aux EXCEPT ![h] = usuarioPrimero]
    /\ Va(h, "busca")
    /\ UNCHANGED <<extremos, nodos, reservado, hilo, manejador>>

Avanza(h) ==
    /\ Corre(h)
    /\ pc[h] = "busca"
    /\ aux[h] # NULL
    /\ socket[aux[h]] # arg[h]
    /\ aux' = [aux EXCEPT ![h] = next[aux[h]]]
    /\ UNCHANGED <<extremos, nodos, reservado, mutexTempUser, pc, hilo, manejador>>

(* Mutant: the return inside the loop forgets the mutex.                   *)
Encuentra_SinUnlock(h) ==
    /\ Corre(h)
    /\ pc[h] = "busca"
    /\ aux[h] # NULL
    /\ socket[aux[h]] = arg[h]
    /\ Va(h, IF op[h] = "pull" THEN "tiene" ELSE "desenlaza")
    /\ UNCHANGED <<extremos, nodos, reservado, mutexTempUser, hilo, aux, manejador>>

(* Mutant: the socket of the record is not compared.                        *)
Encuentra_SinComparar(h) ==
    /\ Corre(h)
    /\ pc[h] = "busca"
    /\ aux[h] # NULL
    /\ mutexTempUser' = NULL
    /\ Va(h, IF op[h] = "pull" THEN "tiene" ELSE "desenlaza")
    /\ UNCHANGED <<extremos, nodos, reservado, hilo, aux, manejador>>

Encuentra(h) ==
    /\ Corre(h)
    /\ pc[h] = "busca"
    /\ aux[h] # NULL
    /\ socket[aux[h]] = arg[h]
    /\ mutexTempUser' = NULL
    /\ Va(h, IF op[h] = "pull" THEN "tiene" ELSE "desenlaza")
    /\ UNCHANGED <<extremos, nodos, reservado, hilo, aux, manejador>>

(* The handler goes on after deleteTempUser: nuevaConexion creates a user. *)
TrasDelete(h) ==
    \/ /\ op[h] = "nueva"
       /\ aux' = [aux EXCEPT ![h] = NULL]
       /\ Va(h, "new")
       /\ UNCHANGED hilo
    \/ /\ op[h] # "nueva"
       /\ Vuelve(h)

NoEncuentra(h) ==
    /\ Corre(h)
    /\ pc[h] = "busca"
    /\ aux[h] = NULL
    /\ mutexTempUser' = NULL
    /\ TrasDelete(h)
    /\ UNCHANGED <<extremos, nodos, reservado, manejador>>

-----------------------------------------------------------------------------
(* What nick and user do with the pointer, without the mutex               *)

SetNickTemporal(h, n) ==
    /\ Corre(h)
    /\ pc[h] = "tiene"
    /\ nick' = [nick EXCEPT ![aux[h]] = n]
    /\ Vuelve(h)
    /\ UNCHANGED <<extremos, previous, next, socket, reservado, mutexTempUser,
                   manejador>>

(* user without a nick, or with one IRCTADUser_New refuses, leaves it.     *)
UserNoRegistra(h) ==
    /\ Corre(h)
    /\ pc[h] = "tiene"
    /\ Vuelve(h)
    /\ UNCHANGED <<extremos, nodos, reservado, mutexTempUser, manejador>>

(* Registered: usuarioTemporal = NULL and deleteTempUser.                  *)
UserRegistra(h) ==
    /\ Corre(h)
    /\ pc[h] = "tiene"
    /\ nick[aux[h]] # NULL
    /\ op' = [op EXCEPT ![h] = "delete"]
    /\ aux' = [aux EXCEPT ![h] = NULL]
    /\ Va(h, "pull")
    /\ UNCHANGED <<extremos, nodos, reservado, mutexTempUser, arg, manejador>>

-----------------------------------------------------------------------------
(* deleteTempUser, once the user is found                                  *)

(* Mutant: usuarioUltimo stays at the node that goes.                      *)
Desenlaza_SinUltimo(h) ==
    LET p == previous[aux[h]]
        n == next[aux[h]]
    IN  /\ Corre(h)
        /\ pc[h] = "desenlaza"
        /\ mutexTempUser = NULL
        /\ usuarioPrimero' = IF p = NULL THEN n ELSE usuarioPrimero
        /\ next' = IF p = NULL THEN next ELSE [next EXCEPT ![p] = n]
        /\ previous' = IF n = NULL THEN previous ELSE [previous EXCEPT ![n] = p]
        /\ lista' = SinNodo(lista, aux[h])
        /\ Va(h, "libera")
        /\ UNCHANGED <<usuarioUltimo, socket, nick, reservado, mutexTempUser, hilo,
                       aux, manejador>>

(* The four cases of the code: only user, first, last, in the middle.      *)
Desenlaza(h) ==
    LET p == previous[aux[h]]
        n == next[aux[h]]
    IN  /\ Corre(h)
        /\ pc[h] = "desenlaza"
        /\ mutexTempUser = NULL
        /\ usuarioPrimero' = IF p = NULL THEN n ELSE usuarioPrimero
        /\ usuarioUltimo' = IF n = NULL THEN p ELSE usuarioUltimo
        /\ next' = IF p = NULL THEN next ELSE [next EXCEPT ![p] = n]
        /\ previous' = IF n = NULL THEN previous ELSE [previous EXCEPT ![n] = p]
        /\ lista' = SinNodo(lista, aux[h])
        /\ Va(h, "libera")
        /\ UNCHANGED <<socket, nick, reservado, mutexTempUser, hilo, aux, manejador>>

(* Mutant: the memory is not given back.                                   *)
LiberaTempUser_Omitido(h) ==
    /\ Corre(h)
    /\ pc[h] = "libera"
    /\ TrasDelete(h)
    /\ UNCHANGED <<extremos, nodos, reservado, mutexTempUser, manejador>>

LiberaTempUser(h) ==
    /\ Corre(h)
    /\ pc[h] = "libera"
    /\ reservado' = reservado \ {aux[h]}
    /\ TrasDelete(h)
    /\ UNCHANGED <<extremos, nodos, mutexTempUser, manejador>>

-----------------------------------------------------------------------------
(* SIGINT: the kernel gives it to the main thread, whatever that is doing. *)

ManejadorSigint ==
    /\ Sigint
    /\ manejador = "no"
    /\ manejador' = "dentro"
    /\ UNCHANGED <<extremos, nodos, reservado, mutexTempUser, pc, hilo, aux>>

(* cerrarServidor frees every user of the list.                            *)
LiberaTodosTempUser ==
    /\ manejador = "dentro"
    /\ mutexTempUser = NULL
    /\ reservado' = reservado \ {lista[i] : i \in 1..Len(lista)}
    /\ usuarioPrimero' = NULL
    /\ usuarioUltimo' = NULL
    /\ lista' = <<>>
    /\ manejador' = "exit"
    /\ UNCHANGED <<nodos, mutexTempUser, pc, hilo, aux>>

Exit ==
    /\ manejador = "exit"
    /\ manejador' = "fin"
    /\ UNCHANGED <<extremos, nodos, reservado, mutexTempUser, pc, hilo, aux>>

-----------------------------------------------------------------------------

Funcion(h) ==
    \/ \E n \in Nodos : Calloc(h, n)
    \/ CallocFalla(h)
    \/ Enlaza(h)
    \/ PullTempUser(h)
    \/ Avanza(h)
    \/ Encuentra(h)
    \/ NoEncuentra(h)
    \/ \E n \in Nicks : SetNickTemporal(h, n)
    \/ UserNoRegistra(h)
    \/ UserRegistra(h)
    \/ Desenlaza(h)
    \/ LiberaTempUser(h)

Next ==
    \/ \E h \in Hilos, o \in {"nueva", "pull", "delete"}, s \in Sockets : Llama(h, o, s)
    \/ \E h \in Hilos : Funcion(h)
    \/ ManejadorSigint
    \/ LiberaTodosTempUser
    \/ Exit

Spec == Init /\ [][Next]_vars

(* The scheduler runs every thread that can run; nothing orders those that *)
(* wait for the mutex.                                                     *)
FairSpec == Spec /\ \A h \in Hilos : WF_vars(Funcion(h))

(* The handler also gets a mutex that is free again and again.             *)
SigintSpec == FairSpec /\ SF_vars(LiberaTodosTempUser) /\ WF_vars(Exit)
=============================================================================
