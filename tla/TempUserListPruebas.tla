------------------------ MODULE TempUserListPruebas ------------------------
(***************************************************************************)
(* Proofs about the list of temporary users, for any number of threads,    *)
(* sockets and addresses.                                                  *)
(***************************************************************************)
EXTENDS TempUserListPropiedades, SequenceTheorems, TLAPS

(* A sequence without position i: what the others are.                     *)
LEMMA SinPosicionDa ==
    ASSUME NEW S, NEW l \in Seq(S), NEW i \in 1..Len(l)
    PROVE  /\ SinPosicion(l, i) \in Seq(S)
           /\ Len(SinPosicion(l, i)) = Len(l) - 1
           /\ \A j \in 1..(Len(l) - 1) :
                SinPosicion(l, i)[j] = IF j < i THEN l[j] ELSE l[j + 1]
<1>1. Len(l) \in Nat /\ Len(l) - 1 \in Nat
  BY LenProperties
<1>2. ASSUME NEW j \in 1..(Len(l) - 1)
      PROVE  l[j] \in S /\ l[j + 1] \in S
  BY <1>1, <1>2, ElementOfSeq
<1>3. SinPosicion(l, i) \in [1..(Len(l) - 1) -> S]
  BY <1>2 DEF SinPosicion
<1>4. SinPosicion(l, i) \in Seq(S) /\ Len(SinPosicion(l, i)) = Len(l) - 1
  BY <1>1, <1>3, SeqDef
<1> QED
  BY <1>4 DEF SinPosicion

(* Taking a node out of the list leaves a list, whatever the list was.     *)
LEMMA SinNodoTipo ==
    ASSUME NEW S, NEW l \in Seq(S), NEW n
    PROVE  SinNodo(l, n) \in Seq(S)
<1>1. CASE \E i \in 1..Len(l) : l[i] = n
  <2>1. (CHOOSE i \in 1..Len(l) : l[i] = n) \in 1..Len(l)
    BY <1>1
  <2> QED
    BY <1>1, <2>1, SinPosicionDa DEF SinNodo
<1>2. CASE ~\E i \in 1..Len(l) : l[i] = n
  BY <1>2 DEF SinNodo
<1> QED
  BY <1>1, <1>2

(* Where no node is twice, the position taken out is the node's.           *)
LEMMA SinNodoEn ==
    ASSUME NEW S, NEW l \in Seq(S), NEW k \in 1..Len(l),
           \A j \in 1..Len(l) : l[j] = l[k] => j = k
    PROVE  SinNodo(l, l[k]) = SinPosicion(l, k)
<1>1. (CHOOSE i \in 1..Len(l) : l[i] = l[k]) = k
  OBVIOUS
<1> QED
  BY <1>1 DEF SinNodo

-----------------------------------------------------------------------------
(* Types and turns                                                         *)

(* The variables of a thread keep their types when its handler ends.       *)
LEMMA VuelveTipo ==
    ASSUME ListaTypeOK, NEW h \in Hilos, Vuelve(h)
    PROVE  /\ pc' \in [Hilos -> {"fuera", "new", "enlaza", "pull", "busca", "tiene",
                                 "desenlaza", "libera"}]
           /\ op' \in [Hilos -> {"nada", "nueva", "pull", "delete"}]
           /\ arg' \in [Hilos -> Sockets \cup {NULL}]
           /\ aux' \in [Hilos -> Nodos \cup {NULL}]
  BY DEF ListaTypeOK, Vuelve, Va

(* ... and after deleteTempUser, whatever it does next.                    *)
LEMMA TrasDeleteTipo ==
    ASSUME ListaTypeOK, NEW h \in Hilos, TrasDelete(h)
    PROVE  /\ pc' \in [Hilos -> {"fuera", "new", "enlaza", "pull", "busca", "tiene",
                                 "desenlaza", "libera"}]
           /\ op' \in [Hilos -> {"nada", "nueva", "pull", "delete"}]
           /\ arg' \in [Hilos -> Sockets \cup {NULL}]
           /\ aux' \in [Hilos -> Nodos \cup {NULL}]
<1>1. CASE Vuelve(h)
  BY <1>1, VuelveTipo
<1>2. CASE ~Vuelve(h)
  BY <1>2 DEF TrasDelete, ListaTypeOK, Va, hilo
<1> QED
  BY <1>1, <1>2

(* Every step keeps the types: a pointer is NULL or an address.            *)
LEMMA TipoLista ==
    ASSUME ListaTypeOK, Turnos, [Next]_vars
    PROVE  ListaTypeOK'
<1> USE TempUserListAssumption
<1>1. ASSUME NEW h \in Hilos, NEW o \in {"nueva", "pull", "delete"},
             NEW s \in Sockets, Llama(h, o, s)
      PROVE  ListaTypeOK'
  BY <1>1 DEF ListaTypeOK, Llama, Va, extremos, nodos
<1>2. ASSUME NEW h \in Hilos, Funcion(h)
      PROVE  ListaTypeOK'
  <2>1. ASSUME NEW n \in Nodos, Calloc(h, n)
        PROVE  ListaTypeOK'
    BY <2>1 DEF ListaTypeOK, Calloc, Va, extremos, hilo
  <2>2. CASE CallocFalla(h)
    BY <2>2, VuelveTipo DEF ListaTypeOK, CallocFalla, extremos, nodos
  <2>3. CASE Enlaza(h)
    <3>1. aux[h] \in Nodos
      BY <2>3 DEF Enlaza, Turnos
    <3>2. lista' \in Seq(Nodos)
      BY <2>3, <3>1 DEF Enlaza, ListaTypeOK
    <3>3. /\ {usuarioPrimero', usuarioUltimo'} \subseteq Nodos \cup {NULL}
          /\ previous' \in [Nodos -> Nodos \cup {NULL}]
          /\ next' \in [Nodos -> Nodos \cup {NULL}]
      BY <2>3, <3>1 DEF Enlaza, ListaTypeOK
    <3> QED
      BY <2>3, <3>2, <3>3, VuelveTipo DEF ListaTypeOK, Enlaza
  <2>4. CASE PullTempUser(h)
    BY <2>4 DEF ListaTypeOK, PullTempUser, Va, extremos, nodos, hilo
  <2>5. CASE Avanza(h)
    BY <2>5 DEF ListaTypeOK, Avanza, extremos, nodos, hilo
  <2>6. CASE Encuentra(h)
    BY <2>6 DEF ListaTypeOK, Encuentra, Va, extremos, nodos, hilo
  <2>7. CASE NoEncuentra(h)
    BY <2>7, TrasDeleteTipo DEF ListaTypeOK, NoEncuentra, extremos, nodos
  <2>8. ASSUME NEW n \in Nicks, SetNickTemporal(h, n)
        PROVE  ListaTypeOK'
    <3>1. nick' \in [Nodos -> Nicks \cup {NULL}]
      BY <2>8 DEF ListaTypeOK, SetNickTemporal
    <3> QED
      BY <2>8, <3>1, VuelveTipo DEF ListaTypeOK, SetNickTemporal, extremos
  <2>9. CASE UserNoRegistra(h)
    BY <2>9, VuelveTipo DEF ListaTypeOK, UserNoRegistra, extremos, nodos
  <2>10. CASE UserRegistra(h)
    BY <2>10 DEF ListaTypeOK, UserRegistra, Va, extremos, nodos
  <2>11. CASE Desenlaza(h)
    <3>1. aux[h] \in Nodos
      BY <2>11 DEF Desenlaza, Turnos
    <3>2. lista' \in Seq(Nodos)
      BY <2>11, SinNodoTipo DEF Desenlaza, ListaTypeOK
    <3>3. previous[aux[h]] \in Nodos \cup {NULL} /\ next[aux[h]] \in Nodos \cup {NULL}
      BY <3>1 DEF ListaTypeOK
    <3>4. /\ {usuarioPrimero', usuarioUltimo'} \subseteq Nodos \cup {NULL}
          /\ previous' \in [Nodos -> Nodos \cup {NULL}]
          /\ next' \in [Nodos -> Nodos \cup {NULL}]
      BY <2>11, <3>3 DEF Desenlaza, ListaTypeOK
    <3> QED
      BY <2>11, <3>2, <3>4 DEF ListaTypeOK, Desenlaza, Va, hilo
  <2>12. CASE LiberaTempUser(h)
    BY <2>12, TrasDeleteTipo DEF ListaTypeOK, LiberaTempUser, extremos, nodos
  <2> QED
    BY <1>2, <2>1, <2>2, <2>3, <2>4, <2>5, <2>6, <2>7, <2>8, <2>9, <2>10, <2>11, <2>12
       DEF Funcion
<1>3. CASE ManejadorSigint
  BY <1>3 DEF ListaTypeOK, ManejadorSigint, extremos, nodos, hilo
<1>4. CASE LiberaTodosTempUser
  BY <1>4 DEF ListaTypeOK, LiberaTodosTempUser, nodos, hilo
<1>5. CASE Exit
  BY <1>5 DEF ListaTypeOK, Exit, extremos, nodos, hilo
<1>6. CASE UNCHANGED vars
  BY <1>6 DEF ListaTypeOK, vars, extremos, nodos, hilo
<1> QED
  BY <1>1, <1>2, <1>3, <1>4, <1>5, <1>6 DEF Next

(* No thread's search has the mutex while it is free.                      *)
LEMMA NadieBusca ==
    ASSUME ListaTypeOK, Turnos, mutexTempUser = NULL, NEW h \in Hilos
    PROVE  pc[h] # "busca"
  BY TempUserListAssumption DEF Turnos

(* The search of the thread that has the mutex is the only one.            *)
LEMMA UnoBusca ==
    ASSUME Turnos, NEW g \in Hilos, NEW h \in Hilos, pc[g] = "busca", pc[h] = "busca"
    PROVE  g = h
  BY TempUserListAssumption DEF Turnos

(* Every step keeps the turns: one thread per socket, the mutex with the   *)
(* thread that searches, and each function called by the right handler.    *)
LEMMA TurnosLista ==
    ASSUME ListaTypeOK, Turnos, [Next]_vars
    PROVE  Turnos'
<1> USE TempUserListAssumption
<1>1. ASSUME NEW h \in Hilos, NEW o \in {"nueva", "pull", "delete"},
             NEW s \in Sockets, Llama(h, o, s)
      PROVE  Turnos'
  BY <1>1 DEF ListaTypeOK, Turnos, Llama, Va
<1>2. ASSUME NEW h \in Hilos, Funcion(h)
      PROVE  Turnos'
  <2>1. ASSUME NEW n \in Nodos, Calloc(h, n)
        PROVE  Turnos'
    BY <2>1 DEF ListaTypeOK, Turnos, Calloc, Va, hilo
  <2>2. CASE CallocFalla(h)
    BY <2>2 DEF ListaTypeOK, Turnos, CallocFalla, Vuelve, Va
  <2>3. CASE Enlaza(h)
    BY <2>3 DEF ListaTypeOK, Turnos, Enlaza, Vuelve, Va
  <2>4. CASE PullTempUser(h)
    BY <2>4 DEF ListaTypeOK, Turnos, PullTempUser, Va, hilo
  <2>5. CASE Avanza(h)
    BY <2>5 DEF ListaTypeOK, Turnos, Avanza, hilo
  <2>6. CASE Encuentra(h)
    BY <2>6 DEF ListaTypeOK, Turnos, Encuentra, Va, hilo
  <2>7. CASE NoEncuentra(h)
    BY <2>7 DEF ListaTypeOK, Turnos, NoEncuentra, TrasDelete, Vuelve, Va, hilo
  <2>8. ASSUME NEW n \in Nicks, SetNickTemporal(h, n)
        PROVE  Turnos'
    BY <2>8 DEF ListaTypeOK, Turnos, SetNickTemporal, Vuelve, Va
  <2>9. CASE UserNoRegistra(h)
    BY <2>9 DEF ListaTypeOK, Turnos, UserNoRegistra, Vuelve, Va
  <2>10. CASE UserRegistra(h)
    BY <2>10 DEF ListaTypeOK, Turnos, UserRegistra, Va
  <2>11. CASE Desenlaza(h)
    BY <2>11 DEF ListaTypeOK, Turnos, Desenlaza, Va, hilo
  <2>12. CASE LiberaTempUser(h)
    <3>1. /\ pc[h] = "libera" /\ mutexTempUser' = mutexTempUser
          /\ \/ pc' = [pc EXCEPT ![h] = "new"] /\ op' = op /\ arg' = arg /\ op[h] = "nueva"
                /\ aux' = [aux EXCEPT ![h] = NULL]
             \/ Vuelve(h)
      BY <2>12 DEF LiberaTempUser, TrasDelete, Va, hilo
    <3>2. CASE Vuelve(h)
      BY <3>1, <3>2 DEF ListaTypeOK, Turnos, Vuelve, Va
    <3> QED
      BY <3>1, <3>2 DEF ListaTypeOK, Turnos
  <2> QED
    BY <1>2, <2>1, <2>2, <2>3, <2>4, <2>5, <2>6, <2>7, <2>8, <2>9, <2>10, <2>11, <2>12
       DEF Funcion
<1>3. CASE ManejadorSigint \/ LiberaTodosTempUser \/ Exit \/ UNCHANGED vars
  BY <1>3 DEF ManejadorSigint, LiberaTodosTempUser, Exit, Turnos, vars, hilo
<1> QED
  BY <1>1, <1>2, <1>3 DEF Next

-----------------------------------------------------------------------------
(* The links                                                               *)

(* The list has a length and its members are addresses.                    *)
LEMMA Miembros ==
    ASSUME ListaTypeOK
    PROVE  Len(lista) \in Nat /\ \A i \in 1..Len(lista) : lista[i] \in Nodos
  BY LenProperties, ElementOfSeq DEF ListaTypeOK

(* A step that leaves the links, the memory and the nodes' sockets alone,  *)
(* leaves the list as it was.                                              *)
LEMMA EnlacesQuietos ==
    ASSUME UNCHANGED <<extremos, previous, next, socket, reservado>>
    PROVE  /\ BienEnlazada => BienEnlazada'
           /\ UnoPorSocket => UnoPorSocket'
           /\ \A n : EnLista(n) <=> EnLista(n)'
           /\ \A s : ConSocket(s) <=> ConSocket(s)'
  BY DEF extremos, BienEnlazada, Anterior, Siguiente, UnoPorSocket, EnLista, ConSocket

-----------------------------------------------------------------------------
(* The steps that leave the links alone                                    *)

LEMMA OrdenadaLlama ==
    ASSUME ListaTypeOK, Turnos, Ordenada, NEW h \in Hilos,
           NEW o \in {"nueva", "pull", "delete"}, NEW s \in Sockets, Llama(h, o, s)
    PROVE  Ordenada'
<1>1. UNCHANGED <<extremos, previous, next, socket, reservado>>
  BY DEF Llama, nodos
<1>2. Punteros'
  BY <1>1, EnlacesQuietos DEF ListaTypeOK, Ordenada, Punteros, Llama, Va, nodos
<1>3. Buscado'
  BY <1>1, EnlacesQuietos DEF ListaTypeOK, Ordenada, Buscado, Llama, Va, nodos, extremos
<1>4. SinFugas'
  BY <1>1 DEF ListaTypeOK, Ordenada, SinFugas, Llama, Va, extremos
<1> QED
  BY <1>1, <1>2, <1>3, <1>4, EnlacesQuietos DEF Ordenada

(* A handler that ends outside newTempUser and deleteTempUser leaves       *)
(* nothing behind.                                                         *)
LEMMA OrdenadaVuelve ==
    ASSUME ListaTypeOK, Turnos, Ordenada, NEW h \in Hilos, Vuelve(h),
           pc[h] \notin {"enlaza", "libera"},
           UNCHANGED <<extremos, previous, next, socket, reservado>>,
           \A g \in Hilos : pc[g] = "enlaza" => nick'[aux[g]] = nick[aux[g]]
    PROVE  Ordenada'
<1>1. Punteros'
  <2>1. pc'[h] = "fuera"
    BY DEF ListaTypeOK, Vuelve, Va
  <2>2. \A g \in Hilos : g # h => pc'[g] = pc[g] /\ aux'[g] = aux[g] /\ arg'[g] = arg[g]
    BY DEF ListaTypeOK, Vuelve, Va
  <2>3. Punteros
    BY DEF Ordenada
  <2> QED
    BY <2>1, <2>2, <2>3, EnlacesQuietos DEF Punteros
<1>2. Buscado'
  <2>1. \A g \in Hilos : pc'[g] = "busca" => g # h
    BY DEF ListaTypeOK, Vuelve, Va
  <2>2. \A g \in Hilos : g # h => pc'[g] = pc[g] /\ aux'[g] = aux[g] /\ arg'[g] = arg[g]
    BY DEF ListaTypeOK, Vuelve, Va
  <2>3. Buscado
    BY DEF Ordenada
  <2> QED
    BY <2>1, <2>2, <2>3, EnlacesQuietos DEF Buscado, extremos
<1>3. SinFugas'
  BY DEF ListaTypeOK, Ordenada, SinFugas, Vuelve, Va, extremos
<1> QED
  BY <1>1, <1>2, <1>3, EnlacesQuietos DEF Ordenada

LEMMA OrdenadaPull ==
    ASSUME ListaTypeOK, Turnos, Ordenada, NEW h \in Hilos, PullTempUser(h)
    PROVE  Ordenada'
<1>1. UNCHANGED <<extremos, previous, next, socket, reservado>>
  BY DEF PullTempUser, nodos
<1>2. Punteros'
  BY <1>1, EnlacesQuietos DEF ListaTypeOK, Ordenada, Punteros, PullTempUser, Va, nodos, hilo
<1>3. Buscado'
  <2>1. Len(lista) \in Nat
    BY Miembros
  <2>2. ASSUME NEW g \in Hilos, pc'[g] = "busca"
        PROVE  g = h
    BY <2>2, NadieBusca DEF ListaTypeOK, PullTempUser, Va
  <2>3. \/ aux'[h] = NULL /\ lista = <<>>
        \/ lista # <<>> /\ aux'[h] = lista[1]
    BY DEF ListaTypeOK, Ordenada, BienEnlazada, PullTempUser
  <2>4. CASE lista = <<>>
    BY <2>2, <2>3, <2>4, <1>1 DEF Buscado, ConSocket, extremos
  <2>5. CASE lista # <<>>
    <3>1. 1 \in 1..Len(lista)
      BY <2>5, <2>1, EmptySeq DEF ListaTypeOK
    <3>2. lista' = lista /\ aux'[h] = lista'[1]
      BY <1>1, <2>3, <2>5 DEF extremos
    <3>3. /\ 1 \in 1..Len(lista') /\ lista'[1] = aux'[h]
          /\ \A j \in 1..(1 - 1) : socket'[lista'[j]] # arg'[h]
      BY <3>1, <3>2
    <3> QED
      BY <2>2, <3>3 DEF Buscado
  <2> QED
    BY <2>4, <2>5
<1>4. SinFugas'
  BY <1>1 DEF ListaTypeOK, Ordenada, SinFugas, PullTempUser, Va, extremos
<1> QED
  BY <1>1, <1>2, <1>3, <1>4, EnlacesQuietos DEF Ordenada

(* The search goes from a node to the next one, or past the last.          *)
LEMMA OrdenadaAvanza ==
    ASSUME ListaTypeOK, Turnos, Ordenada, NEW h \in Hilos, Avanza(h)
    PROVE  Ordenada'
<1>1. UNCHANGED <<extremos, previous, next, socket, reservado>>
  BY DEF Avanza, nodos
<1>2. Punteros'
  BY <1>1, EnlacesQuietos DEF ListaTypeOK, Ordenada, Punteros, Avanza, nodos, hilo
<1>3. Buscado'
  <2>1. Len(lista) \in Nat
    BY Miembros
  <2>2. ASSUME NEW g \in Hilos, pc'[g] = "busca"
        PROVE  g = h
    BY <2>2, UnoBusca DEF Avanza
  <2>3. PICK k \in 1..Len(lista) :
            /\ lista[k] = aux[h]
            /\ \A j \in 1..(k - 1) : socket[lista[j]] # arg[h]
    BY DEF Ordenada, Buscado, Avanza
  <2>4. \A j \in 1..k : socket[lista[j]] # arg[h]
    BY <2>1, <2>3 DEF Avanza
  <2>5. aux'[h] = Siguiente(k)
    BY <2>3 DEF Ordenada, BienEnlazada, ListaTypeOK, Avanza
  <2>6. CASE k = Len(lista)
    <3>1. aux'[h] = NULL /\ ~ConSocket(arg[h])'
      BY <1>1, <2>4, <2>5, <2>6 DEF Siguiente, ConSocket, Avanza, extremos, hilo
    <3> QED
      BY <2>2, <3>1 DEF Buscado
  <2>7. CASE k # Len(lista)
    <3>1. k + 1 \in 1..Len(lista) /\ (k + 1) - 1 = k
      BY <2>1, <2>7
    <3>2. /\ k + 1 \in 1..Len(lista') /\ lista'[k + 1] = aux'[h]
          /\ \A j \in 1..((k + 1) - 1) : socket'[lista'[j]] # arg'[h]
      BY <1>1, <2>4, <2>5, <2>7, <3>1 DEF Siguiente, Avanza, extremos, hilo
    <3> QED
      BY <2>2, <3>2 DEF Buscado
  <2> QED
    BY <2>6, <2>7
<1>4. SinFugas'
  BY <1>1 DEF ListaTypeOK, Ordenada, Turnos, SinFugas, Avanza, extremos
<1> QED
  BY <1>1, <1>2, <1>3, <1>4, EnlacesQuietos DEF Ordenada

LEMMA OrdenadaEncuentra ==
    ASSUME ListaTypeOK, Turnos, Ordenada, NEW h \in Hilos, Encuentra(h)
    PROVE  Ordenada'
<1>1. UNCHANGED <<extremos, previous, next, socket, reservado>>
  BY DEF Encuentra, nodos
<1>2. EnLista(aux[h]) /\ aux[h] \in reservado
  BY DEF Ordenada, Buscado, BienEnlazada, Encuentra, EnLista
<1>3. Punteros'
  BY <1>1, <1>2, EnlacesQuietos
     DEF ListaTypeOK, Ordenada, Punteros, Encuentra, Va, nodos, hilo
<1>4. Buscado'
  BY UnoBusca DEF ListaTypeOK, Buscado, Encuentra, Va
<1>5. SinFugas'
  BY <1>1 DEF ListaTypeOK, Ordenada, SinFugas, Encuentra, Va, extremos
<1> QED
  BY <1>1, <1>3, <1>4, <1>5, EnlacesQuietos DEF Ordenada

(* Past the last node: no user of the socket is linked.                    *)
LEMMA OrdenadaNoEncuentra ==
    ASSUME ListaTypeOK, Turnos, Ordenada, NEW h \in Hilos, NoEncuentra(h)
    PROVE  Ordenada'
<1>1. UNCHANGED <<extremos, previous, next, socket, reservado>>
  BY DEF NoEncuentra, nodos
<1>2. ~ConSocket(arg[h])
  <2>1. ASSUME NEW k \in 1..Len(lista), lista[k] = NULL
        PROVE  FALSE
    BY <2>1, Miembros, TempUserListAssumption
  <2> QED
    BY <2>1 DEF Ordenada, Buscado, NoEncuentra
<1>3. CASE Vuelve(h)
  BY <1>1, <1>3, OrdenadaVuelve DEF NoEncuentra, nodos
<1>4. CASE ~Vuelve(h)
  <2>1. /\ pc' = [pc EXCEPT ![h] = "new"] /\ aux' = [aux EXCEPT ![h] = NULL]
        /\ UNCHANGED <<op, arg, nick>>
    BY <1>4 DEF NoEncuentra, TrasDelete, Va, hilo, nodos
  <2>2. Punteros'
    BY <1>1, <1>2, <2>1, EnlacesQuietos DEF ListaTypeOK, Ordenada, Punteros
  <2>3. Buscado'
    BY <2>1, UnoBusca DEF ListaTypeOK, Buscado, NoEncuentra
  <2>4. SinFugas'
    BY <1>1, <2>1 DEF ListaTypeOK, Ordenada, SinFugas, NoEncuentra, extremos
  <2> QED
    BY <1>1, <2>2, <2>3, <2>4, EnlacesQuietos DEF Ordenada
<1> QED
  BY <1>3, <1>4

LEMMA OrdenadaUserRegistra ==
    ASSUME ListaTypeOK, Turnos, Ordenada, NEW h \in Hilos, UserRegistra(h)
    PROVE  Ordenada'
<1>1. UNCHANGED <<extremos, previous, next, socket, reservado>>
  BY DEF UserRegistra, nodos
<1>2. Punteros'
  BY <1>1, EnlacesQuietos DEF ListaTypeOK, Ordenada, Punteros, UserRegistra, Va, nodos
<1>3. Buscado'
  BY <1>1, EnlacesQuietos DEF ListaTypeOK, Ordenada, Buscado, UserRegistra, Va, extremos
<1>4. SinFugas'
  BY <1>1 DEF ListaTypeOK, Ordenada, SinFugas, UserRegistra, Va, extremos
<1> QED
  BY <1>1, <1>2, <1>3, <1>4, EnlacesQuietos DEF Ordenada

-----------------------------------------------------------------------------
(* The steps that change the links or the memory                           *)

(* A fresh node is nobody's, and not linked.                               *)
LEMMA OrdenadaCalloc ==
    ASSUME ListaTypeOK, Turnos, Ordenada, NEW h \in Hilos, NEW n \in Nodos, Calloc(h, n)
    PROVE  Ordenada'
<1>1. /\ UNCHANGED <<usuarioPrimero, usuarioUltimo, lista>>
      /\ \A m \in Nodos : m # n =>
            /\ socket'[m] = socket[m] /\ nick'[m] = nick[m]
            /\ previous'[m] = previous[m] /\ next'[m] = next[m]
      /\ socket'[n] = arg[h] /\ nick'[n] = NULL
      /\ previous'[n] = NULL /\ next'[n] = NULL
  BY DEF ListaTypeOK, Calloc, extremos
<1>2. \A i \in 1..Len(lista) : lista[i] \in reservado /\ lista[i] # n /\ lista[i] \in Nodos
  BY Miembros DEF Ordenada, BienEnlazada, Calloc
<1>3. /\ \A m : EnLista(m) <=> EnLista(m)'
      /\ \A s : ConSocket(s) <=> ConSocket(s)'
  BY <1>1, <1>2 DEF EnLista, ConSocket
<1>4. BienEnlazada'
  <2>1. BienEnlazada
    BY DEF Ordenada
  <2>2. \A i \in 1..Len(lista) :
            lista[i] \in reservado' /\ previous'[lista[i]] = previous[lista[i]]
            /\ next'[lista[i]] = next[lista[i]]
    BY <1>1, <1>2 DEF Calloc
  <2>3. \A i \in 1..Len(lista) : Anterior(i)' = Anterior(i) /\ Siguiente(i)' = Siguiente(i)
    BY <1>1 DEF Anterior, Siguiente
  <2> QED
    BY <1>1, <2>1, <2>2, <2>3 DEF BienEnlazada
<1>5. UnoPorSocket'
  BY <1>1, <1>2 DEF Ordenada, UnoPorSocket
<1>6. Punteros'
  <2>1. ASSUME NEW g \in Hilos, g # h
        PROVE  /\ pc'[g] = pc[g] /\ aux'[g] = aux[g] /\ arg'[g] = arg[g]
               /\ pc[g] \in {"enlaza", "tiene", "desenlaza", "libera"} =>
                    aux[g] \in Nodos /\ aux[g] # n /\ aux[g] \in reservado'
    BY <2>1 DEF ListaTypeOK, Ordenada, Punteros, Calloc, Va, hilo
  <2>2. /\ pc'[h] = "enlaza" /\ aux'[h] = n /\ arg'[h] = arg[h] /\ n \in reservado'
        /\ ~ConSocket(arg[h])
    BY DEF ListaTypeOK, Ordenada, Punteros, Calloc, Va, hilo
  <2>3. Punteros
    BY DEF Ordenada
  <2> QED
    BY <1>1, <1>3, <2>1, <2>2, <2>3 DEF Punteros
<1>7. Buscado'
  <2>1. ASSUME NEW g \in Hilos, pc'[g] = "busca"
        PROVE  pc[g] = "busca" /\ aux'[g] = aux[g] /\ arg'[g] = arg[g]
    BY <2>1 DEF ListaTypeOK, Calloc, Va, hilo
  <2>2. \A i \in 1..Len(lista) : socket'[lista[i]] = socket[lista[i]]
    BY <1>1, <1>2
  <2>3. Buscado /\ Len(lista) \in Nat
    BY Miembros DEF Ordenada
  <2>4. ASSUME NEW g \in Hilos, pc'[g] = "busca", NEW k \in 1..Len(lista),
               \A j \in 1..(k - 1) : socket[lista[j]] # arg[g]
        PROVE  \A j \in 1..(k - 1) : socket'[lista'[j]] # arg'[g]
    BY <1>1, <2>1, <2>2, <2>3, <2>4
  <2> QED
    BY <1>1, <1>3, <2>1, <2>3, <2>4 DEF Buscado
<1>8. SinFugas'
  BY <1>1 DEF ListaTypeOK, Ordenada, SinFugas, Calloc, Va
<1> QED
  BY <1>4, <1>5, <1>6, <1>7, <1>8 DEF Ordenada

(* The list with one more node at the end.                                 *)
LEMMA ListaCrece ==
    ASSUME ListaTypeOK, NEW n \in Nodos, lista' = Append(lista, n)
    PROVE  /\ Len(lista) \in Nat /\ Len(lista') = Len(lista) + 1
           /\ \A i \in 1..Len(lista) : lista'[i] = lista[i]
           /\ lista'[Len(lista) + 1] = n
           /\ \A i \in 1..Len(lista') : i \in 1..Len(lista) \/ i = Len(lista) + 1
           /\ socket' = socket =>
                \A s : ConSocket(s)' <=> ConSocket(s) \/ s = socket[n]
           /\ \A m : EnLista(m)' <=> EnLista(m) \/ m = n
<1>1. /\ Len(lista) \in Nat /\ Len(lista') = Len(lista) + 1
      /\ \A i \in 1..Len(lista) : lista'[i] = lista[i]
      /\ lista'[Len(lista) + 1] = n
  BY AppendProperties, LenProperties DEF ListaTypeOK
<1>2. \A i \in 1..Len(lista') : i \in 1..Len(lista) \/ i = Len(lista) + 1
  BY <1>1
<1>3. Len(lista) + 1 \in 1..Len(lista') /\ 1..Len(lista) \subseteq 1..Len(lista')
  BY <1>1
<1>4. \A m : EnLista(m)' <=> EnLista(m) \/ m = n
  BY <1>1, <1>2, <1>3 DEF EnLista
<1>5. ASSUME socket' = socket
      PROVE  \A s : ConSocket(s)' <=> ConSocket(s) \/ s = socket[n]
  BY <1>1, <1>2, <1>3, <1>5 DEF ConSocket
<1> QED
  BY <1>1, <1>2, <1>4, <1>5

(* newTempUser puts the user of a socket that has none at the end.         *)
LEMMA OrdenadaEnlaza ==
    ASSUME ListaTypeOK, Turnos, Ordenada, NEW h \in Hilos, Enlaza(h)
    PROVE  Ordenada'
<1> DEFINE n == aux[h]
           L == Len(lista)
<1>1. /\ n \in Nodos /\ lista' = Append(lista, n) /\ socket' = socket /\ nick' = nick
      /\ reservado' = reservado /\ usuarioUltimo' = n
  BY DEF Turnos, Enlaza
<1>2. /\ L \in Nat /\ Len(lista') = L + 1 /\ lista'[L + 1] = n
      /\ \A i \in 1..L : lista'[i] = lista[i] /\ lista[i] \in Nodos
      /\ \A i \in 1..(L + 1) : i \in 1..L \/ i = L + 1
      /\ \A s : ConSocket(s)' <=> ConSocket(s) \/ s = socket[n]
      /\ \A m : EnLista(m)' <=> EnLista(m) \/ m = n
  <2> HIDE DEF n
  <2> QED
    BY <1>1, ListaCrece, Miembros
<1>3. /\ n \in reservado /\ socket[n] = arg[h] /\ ~ConSocket(arg[h])
      /\ previous[n] = NULL /\ next[n] = NULL
  BY DEF Ordenada, Punteros, Enlaza
<1>4. \A i \in 1..L : lista[i] # n
  BY <1>3 DEF ConSocket
<1>5. /\ BienEnlazada
      /\ lista = <<>> <=> L = 0
      /\ usuarioPrimero = NULL <=> L = 0
  <2>1. BienEnlazada /\ (lista = <<>> <=> L = 0)
    BY EmptySeq DEF Ordenada, ListaTypeOK
  <2>2. L # 0 => lista[1] \in Nodos
    BY <1>2
  <2> QED
    BY <2>1, <2>2, TempUserListAssumption DEF BienEnlazada
<1>6. BienEnlazada'
  <2> HIDE DEF n, L
  <2>1. lista' # <<>> /\ usuarioUltimo' = lista'[Len(lista')]
    BY <1>1, <1>2, EmptySeq DEF ListaTypeOK
  <2>2. CASE L = 0
    <3>1. usuarioPrimero' = n /\ previous' = previous /\ next' = next
      BY <1>5, <2>2 DEF Enlaza, n
    <3>2. Len(lista') = 1 /\ lista'[1] = n
      BY <1>2, <2>2
    <3> QED
      BY <1>1, <1>3, <2>1, <3>1, <3>2 DEF BienEnlazada, Anterior, Siguiente
  <2>3. CASE L # 0
    <3>1. /\ usuarioPrimero' = usuarioPrimero
          /\ next' = [next EXCEPT ![usuarioUltimo] = n]
          /\ previous' = [previous EXCEPT ![n] = usuarioUltimo]
      BY <1>5, <2>3 DEF Enlaza, n
    <3>2. /\ L \in 1..L /\ usuarioUltimo = lista[L] /\ usuarioPrimero = lista[1]
          /\ 1 \in 1..L /\ lista # <<>>
      BY <1>2, <1>5, <2>3 DEF BienEnlazada, L
    <3>3. usuarioPrimero' = lista'[1]
      BY <1>2, <3>1, <3>2
    <3>4. ASSUME NEW i \in 1..L
          PROVE  /\ lista'[i] \in reservado' /\ previous'[lista'[i]] = Anterior(i)'
                 /\ next'[lista'[i]] = Siguiente(i)'
      <4>1. lista'[i] = lista[i] /\ lista[i] \in Nodos /\ lista[i] # n
        BY <1>2, <1>4
      <4>2. /\ lista[i] \in reservado /\ previous[lista[i]] = Anterior(i)
            /\ next[lista[i]] = Siguiente(i)
            /\ lista[L] = lista[i] => i = L
        BY <1>5, <3>2 DEF BienEnlazada, L
      <4>3. previous'[lista'[i]] = previous[lista[i]] /\ Anterior(i)' = Anterior(i)
        <5>1. i = 1 \/ i - 1 \in 1..L
          BY <1>2
        <5> QED
          BY <1>2, <3>1, <4>1, <5>1 DEF Anterior, ListaTypeOK
      <4>4. next'[lista'[i]] = Siguiente(i)'
        <5>1. CASE i = L
          BY <1>2, <3>1, <3>2, <4>1, <5>1 DEF Siguiente, ListaTypeOK
        <5>2. CASE i # L
          <6>1. i + 1 \in 1..L /\ i # L + 1
            BY <1>2, <5>2
          <6>2. next'[lista'[i]] = next[lista[i]]
            BY <3>1, <3>2, <4>1, <4>2, <5>2 DEF ListaTypeOK
          <6> QED
            BY <1>2, <4>2, <5>2, <6>1, <6>2 DEF Siguiente, L
        <5> QED
          BY <5>1, <5>2
      <4> QED
        BY <1>1, <4>1, <4>2, <4>3, <4>4
    <3>5. ASSUME NEW i, i = L + 1
          PROVE  /\ lista'[i] \in reservado' /\ previous'[lista'[i]] = Anterior(i)'
                 /\ next'[lista'[i]] = Siguiente(i)'
      <4>1. usuarioUltimo # n
        BY <1>4, <3>2
      <4>2. next'[n] = NULL /\ previous'[n] = lista[L]
        BY <1>1, <1>3, <3>1, <3>2, <4>1 DEF ListaTypeOK
      <4>3. /\ i # 1 /\ i - 1 = L /\ lista'[L] = lista[L]
            /\ i = Len(lista') /\ lista'[i] = n
        BY <1>2, <2>3, <3>2, <3>5
      <4>4. Anterior(i)' = lista[L] /\ Siguiente(i)' = NULL
        BY <4>3 DEF Anterior, Siguiente
      <4> QED
        BY <1>1, <1>3, <4>2, <4>3, <4>4
    <3>6. \A i, j \in 1..(L + 1) : lista'[j] = lista'[i] => j = i
      <4>1. \A i, j \in 1..L : lista[j] = lista[i] => j = i
        BY <1>5 DEF BienEnlazada, L
      <4> QED
        BY <1>2, <1>4, <4>1
    <3>7. \A i \in 1..(L + 1) :
            /\ lista'[i] \in reservado' /\ previous'[lista'[i]] = Anterior(i)'
            /\ next'[lista'[i]] = Siguiente(i)'
      BY <1>2, <3>4, <3>5
    <3>8. Len(lista') = L + 1
      BY <1>2
    <3> QED
      BY <2>1, <3>3, <3>6, <3>7, <3>8 DEF BienEnlazada
  <2> QED
    BY <2>2, <2>3
<1>7. UnoPorSocket'
  <2>1. \A i, j \in 1..L : socket[lista[i]] = socket[lista[j]] => i = j
    BY DEF Ordenada, UnoPorSocket
  <2>2. \A i \in 1..L : socket[lista[i]] # socket[n]
    BY <1>3 DEF ConSocket
  <2> HIDE DEF n, L
  <2> QED
    BY <1>1, <1>2, <2>1, <2>2 DEF UnoPorSocket
<1>8. Punteros'
  <2>1. pc'[h] = "fuera"
    BY DEF ListaTypeOK, Enlaza, Vuelve, Va
  <2>2. ASSUME NEW g \in Hilos, g # h
        PROVE  /\ pc'[g] = pc[g] /\ aux'[g] = aux[g] /\ arg'[g] = arg[g]
               /\ pc[g] # "fuera" => arg[g] # arg[h]
    BY <2>2 DEF ListaTypeOK, Turnos, Enlaza, Vuelve, Va
  <2>3. ASSUME NEW g \in Hilos, g # h, pc[g] = "enlaza"
        PROVE  previous'[aux[g]] = NULL /\ next'[aux[g]] = NULL
    <3>1. /\ socket[aux[g]] = arg[g] /\ ~ConSocket(arg[g]) /\ aux[g] \in Nodos
          /\ previous[aux[g]] = NULL /\ next[aux[g]] = NULL
      BY <2>3 DEF Ordenada, Punteros, Turnos
    <3>2. aux[g] # n
      BY <1>3, <2>2, <2>3, <3>1
    <3>3. usuarioPrimero # NULL => usuarioUltimo # aux[g]
      <4>1. ASSUME usuarioPrimero # NULL
            PROVE  L \in 1..L /\ usuarioUltimo = lista[L]
        BY <1>2, <1>5, <4>1 DEF BienEnlazada
      <4> QED
        BY <3>1, <4>1 DEF ConSocket
    <3> QED
      BY <3>1, <3>2, <3>3 DEF Enlaza, ListaTypeOK
  <2>4. Punteros
    BY DEF Ordenada
  <2> HIDE DEF n, L
  <2> QED
    BY <1>1, <1>2, <1>3, <2>1, <2>2, <2>3, <2>4 DEF Punteros
<1>9. Buscado'
  BY NadieBusca DEF ListaTypeOK, Buscado, Enlaza, Vuelve, Va
<1>10. SinFugas'
  <2>1. SinFugas <=> \A m \in reservado :
            EnLista(m) \/ \E g \in Hilos : pc[g] \in {"enlaza", "libera"} /\ aux[g] = m
    BY DEF SinFugas, EnLista
  <2>2. SinFugas' <=> \A m \in reservado' :
            EnLista(m)' \/ \E g \in Hilos : pc'[g] \in {"enlaza", "libera"} /\ aux'[g] = m
    BY DEF SinFugas, EnLista
  <2>3. \A g \in Hilos : g # h => pc'[g] = pc[g] /\ aux'[g] = aux[g]
    BY DEF ListaTypeOK, Enlaza, Vuelve, Va
  <2>4. SinFugas
    BY DEF Ordenada
  <2> QED
    BY <1>1, <1>2, <2>1, <2>2, <2>3, <2>4
<1> QED
  BY <1>6, <1>7, <1>8, <1>9, <1>10 DEF Ordenada

(* The list without position k: every other node keeps its place or moves  *)
(* one forward, and the socket of the node that went has none left.        *)
LEMMA ListaMengua ==
    ASSUME ListaTypeOK, BienEnlazada, UnoPorSocket, NEW k \in 1..Len(lista),
           lista' = SinNodo(lista, lista[k])
    PROVE  /\ Len(lista') = Len(lista) - 1
           /\ \A j \in 1..(Len(lista) - 1) :
                lista'[j] = IF j < k THEN lista[j] ELSE lista[j + 1]
           /\ \A m : EnLista(m)' <=> EnLista(m) /\ m # lista[k]
           /\ socket' = socket =>
                \A s : ConSocket(s)' <=> ConSocket(s) /\ s # socket[lista[k]]
<1> DEFINE L == Len(lista)
<1>1. L \in Nat /\ lista \in Seq(Nodos)
  BY Miembros DEF ListaTypeOK
<1>2. \A i, j \in 1..L : lista[j] = lista[i] => j = i
  BY DEF BienEnlazada
<1>3. lista' = SinPosicion(lista, k)
  BY <1>1, <1>2, SinNodoEn
<1>4. /\ Len(lista') = L - 1
      /\ \A j \in 1..(L - 1) : lista'[j] = IF j < k THEN lista[j] ELSE lista[j + 1]
  BY <1>1, <1>3, SinPosicionDa
<1>5. ASSUME NEW j \in 1..(L - 1)
      PROVE  \E i \in 1..L : i # k /\ lista'[j] = lista[i]
  <2>1. CASE j < k
    BY <1>1, <1>4, <2>1
  <2>2. CASE ~(j < k)
    <3>1. j + 1 \in 1..L /\ j + 1 # k
      BY <1>1, <2>2
    <3> QED
      BY <1>4, <2>2, <3>1
  <2> QED
    BY <2>1, <2>2
<1>6. ASSUME NEW i \in 1..L, i # k
      PROVE  \E j \in 1..(L - 1) : lista'[j] = lista[i]
  <2>1. CASE i < k
    <3>1. i \in 1..(L - 1)
      BY <1>1, <2>1
    <3> QED
      BY <1>4, <2>1, <3>1
  <2>2. CASE i > k
    <3>1. i - 1 \in 1..(L - 1) /\ ~(i - 1 < k) /\ (i - 1) + 1 = i
      BY <1>1, <2>2
    <3> QED
      BY <1>4, <3>1
  <2> QED
    BY <1>6, <2>1, <2>2
<1> HIDE DEF L
<1>7. L = Len(lista)
  BY DEF L
<1>8. \A m : EnLista(m)' <=> EnLista(m) /\ m # lista[k]
  <2>1. \A m : EnLista(m)' <=> \E j \in 1..(L - 1) : lista'[j] = m
    BY <1>4 DEF EnLista
  <2>2. \A m : EnLista(m) <=> \E i \in 1..L : lista[i] = m
    BY <1>7 DEF EnLista
  <2>3. ASSUME NEW m, NEW j \in 1..(L - 1), lista'[j] = m
        PROVE  EnLista(m) /\ m # lista[k]
    BY <1>2, <1>5, <1>7, <2>2, <2>3
  <2>4. ASSUME NEW m, m # lista[k], NEW i \in 1..L, lista[i] = m
        PROVE  EnLista(m)'
    BY <1>6, <2>1, <2>4
  <2> QED
    BY <2>1, <2>2, <2>3, <2>4
<1>9. ASSUME socket' = socket
      PROVE  \A s : ConSocket(s)' <=> ConSocket(s) /\ s # socket[lista[k]]
  <2>1. \A s : ConSocket(s)' <=> \E j \in 1..(L - 1) : socket[lista'[j]] = s
    BY <1>4, <1>9 DEF ConSocket
  <2>2. \A s : ConSocket(s) <=> \E i \in 1..L : socket[lista[i]] = s
    BY <1>7 DEF ConSocket
  <2>3. \A i, j \in 1..L : socket[lista[i]] = socket[lista[j]] => i = j
    BY <1>7 DEF UnoPorSocket
  <2>4. ASSUME NEW s, NEW j \in 1..(L - 1), socket[lista'[j]] = s
        PROVE  ConSocket(s) /\ s # socket[lista[k]]
    BY <1>5, <1>7, <2>2, <2>3, <2>4
  <2>5. ASSUME NEW s, s # socket[lista[k]], NEW i \in 1..L, socket[lista[i]] = s
        PROVE  ConSocket(s)'
    BY <1>6, <2>1, <2>5
  <2> QED
    BY <2>1, <2>2, <2>4, <2>5
<1> QED
  BY <1>4, <1>7, <1>8, <1>9

(* The four cases of deleteTempUser leave both directions and both ends    *)
(* right.                                                                  *)
LEMMA EnlacesDesenlaza ==
    ASSUME ListaTypeOK, Turnos, BienEnlazada, UnoPorSocket, NEW h \in Hilos, Desenlaza(h),
           NEW k \in 1..Len(lista), lista[k] = aux[h]
    PROVE  BienEnlazada'
<1> DEFINE L == Len(lista)
           p == Anterior(k)
           n == Siguiente(k)
<1>1. /\ L \in Nat /\ k \in 1..L /\ Len(lista') = L - 1
      /\ \A j \in 1..(L - 1) : lista'[j] = IF j < k THEN lista[j] ELSE lista[j + 1]
      /\ \A i \in 1..L : lista[i] \in Nodos
  BY Miembros, ListaMengua DEF Desenlaza
<1>2. \A i \in 1..L :
        /\ lista[i] \in reservado
        /\ previous[lista[i]] = Anterior(i)
        /\ next[lista[i]] = Siguiente(i)
        /\ \A j \in 1..L : lista[j] = lista[i] => j = i
  BY DEF BienEnlazada
<1>3. /\ usuarioPrimero' = IF p = NULL THEN n ELSE usuarioPrimero
      /\ usuarioUltimo' = IF n = NULL THEN p ELSE usuarioUltimo
      /\ next' = IF p = NULL THEN next ELSE [next EXCEPT ![p] = n]
      /\ previous' = IF n = NULL THEN previous ELSE [previous EXCEPT ![n] = p]
      /\ reservado' = reservado
  BY <1>1, <1>2 DEF Desenlaza
<1>4. /\ p = NULL <=> k = 1
      /\ n = NULL <=> k = L
  <2>1. k # 1 => k - 1 \in 1..L
    BY <1>1
  <2>2. k # L => k + 1 \in 1..L
    BY <1>1
  <2> QED
    BY <1>1, <2>1, <2>2, TempUserListAssumption DEF Anterior, Siguiente
<1>5. /\ usuarioPrimero = lista[1] /\ usuarioUltimo = lista[L]
      /\ 1 \in 1..L /\ L \in 1..L
  <2>1. lista # <<>>
    BY EmptySeq, <1>1
  <2> QED
    BY <1>1, <2>1 DEF BienEnlazada
<1>6. lista' = <<>> <=> L = 1
  <2>1. lista' \in Seq(Nodos)
    BY SinNodoTipo DEF ListaTypeOK, Desenlaza
  <2> QED
    BY <1>1, <2>1, EmptySeq
<1> HIDE DEF L, p, n
<1>7. /\ k = 1 => p = NULL
      /\ k # 1 => p = lista[k - 1] /\ k - 1 \in 1..L /\ p \in Nodos
      /\ k = L => n = NULL
      /\ k # L => n = lista[k + 1] /\ k + 1 \in 1..L /\ n \in Nodos
  <2>1. /\ k # 1 => k - 1 \in 1..L
        /\ k # L => k + 1 \in 1..L
    BY <1>1
  <2> QED
    BY <1>1, <2>1 DEF Anterior, Siguiente, L, p, n
<1>8. usuarioPrimero' = IF lista' = <<>> THEN NULL ELSE lista'[1]
  <2>1. CASE k = 1
    BY <1>1, <1>3, <1>4, <1>6, <1>7, <2>1
  <2>2. CASE k # 1
    BY <1>1, <1>3, <1>4, <1>5, <1>6, <2>2
  <2> QED
    BY <2>1, <2>2
<1>9. usuarioUltimo' = IF lista' = <<>> THEN NULL ELSE lista'[Len(lista')]
  <2>1. CASE L = 1
    BY <1>1, <1>3, <1>4, <1>6, <1>7, <2>1
  <2>2. CASE L # 1 /\ k = L
    <3>1. L - 1 \in 1..(L - 1) /\ L - 1 < k
      BY <1>1, <2>2
    <3> QED
      BY <1>1, <1>3, <1>4, <1>6, <1>7, <2>2, <3>1
  <2>3. CASE L # 1 /\ k # L
    <3>1. L - 1 \in 1..(L - 1) /\ ~(L - 1 < k) /\ (L - 1) + 1 = L
      BY <1>1, <2>3
    <3> QED
      BY <1>1, <1>3, <1>4, <1>5, <1>6, <2>3, <3>1
  <2> QED
    BY <2>1, <2>2, <2>3
<1>10. ASSUME NEW j \in 1..(L - 1), NEW i \in 1..L, i = IF j < k THEN j ELSE j + 1
       PROVE  /\ lista'[j] \in reservado' /\ lista'[j] = lista[i]
              /\ previous'[lista'[j]] = Anterior(j)'
              /\ next'[lista'[j]] = Siguiente(j)'
  <2>1. lista'[j] = lista[i] /\ lista[i] \in Nodos /\ lista[i] \in reservado' /\ i # k
    BY <1>1, <1>2, <1>3, <1>10
  <2>2. previous[lista[i]] = Anterior(i) /\ next[lista[i]] = Siguiente(i)
    BY <1>2
  <2>3. previous'[lista[i]] = Anterior(j)'
    <3>1. CASE i = k + 1
      <4>1. j = k /\ k # L
        BY <1>1, <1>10, <3>1
      <4>2. previous'[lista[i]] = p
        BY <1>3, <1>4, <1>7, <2>1, <3>1, <4>1 DEF ListaTypeOK
      <4>3. Anterior(j)' = p
        <5>1. CASE k = 1
          BY <1>7, <4>1, <5>1 DEF Anterior
        <5>2. CASE k # 1
          <6>1. k - 1 \in 1..(L - 1) /\ k - 1 < k
            BY <1>1, <5>2
          <6>2. lista'[k - 1] = lista[k - 1]
            BY <1>1, <6>1
          <6> QED
            BY <1>7, <4>1, <5>2, <6>2 DEF Anterior
        <5> QED
          BY <5>1, <5>2
      <4> QED
        BY <4>2, <4>3
    <3>2. CASE i # k + 1
      <4>1. previous'[lista[i]] = previous[lista[i]]
        <5>1. n # NULL => n # lista[i]
          BY <1>2, <1>4, <1>7, <3>2
        <5> QED
          BY <1>3, <2>1, <5>1 DEF ListaTypeOK
      <4>2. CASE j = 1
        BY <1>1, <1>10, <2>2, <3>2, <4>1, <4>2 DEF Anterior
      <4>3. CASE j # 1
        <5>1. /\ j - 1 \in 1..(L - 1) /\ i # 1
              /\ j < k => i - 1 = j - 1 /\ j - 1 < k
              /\ ~(j < k) => i - 1 = (j - 1) + 1 /\ ~(j - 1 < k)
          BY <1>1, <1>10, <3>2, <4>3
        <5>2. lista'[j - 1] = lista[i - 1]
          BY <1>1, <5>1
        <5> QED
          BY <2>2, <4>1, <4>3, <5>1, <5>2 DEF Anterior
      <4> QED
        BY <4>2, <4>3
    <3> QED
      BY <3>1, <3>2
  <2>4. next'[lista[i]] = Siguiente(j)'
    <3>1. CASE i = k - 1
      <4>1. j = k - 1 /\ k # 1
        BY <1>1, <1>10, <3>1
      <4>2. next'[lista[i]] = n
        BY <1>3, <1>4, <1>7, <2>1, <3>1, <4>1 DEF ListaTypeOK
      <4>3. Siguiente(j)' = n
        <5>1. CASE k = L
          BY <1>1, <1>7, <4>1, <5>1 DEF Siguiente
        <5>2. CASE k # L
          <6>1. k \in 1..(L - 1) /\ j + 1 = k /\ j # L - 1
            BY <1>1, <4>1, <5>2
          <6>2. lista'[k] = lista[k + 1]
            BY <1>1, <6>1
          <6> QED
            BY <1>1, <1>7, <5>2, <6>1, <6>2 DEF Siguiente
        <5> QED
          BY <5>1, <5>2
      <4> QED
        BY <4>2, <4>3
    <3>2. CASE i # k - 1
      <4>1. next'[lista[i]] = next[lista[i]]
        <5>1. p # NULL => p # lista[i]
          BY <1>2, <1>4, <1>7, <3>2
        <5> QED
          BY <1>3, <2>1, <5>1 DEF ListaTypeOK
      <4>2. CASE j = L - 1
        <5>1. i = L
          BY <1>1, <1>10, <3>2, <4>2
        <5> QED
          BY <1>1, <2>2, <4>1, <4>2, <5>1 DEF Siguiente, L
      <4>3. CASE j # L - 1
        <5>1. /\ j + 1 \in 1..(L - 1) /\ i # L
              /\ j < k => i + 1 = j + 1 /\ j + 1 < k
              /\ ~(j < k) => i + 1 = (j + 1) + 1 /\ ~(j + 1 < k)
          BY <1>1, <1>10, <3>2, <4>3
        <5>2. lista'[j + 1] = lista[i + 1]
          BY <1>1, <5>1
        <5> QED
          BY <1>1, <2>2, <4>1, <4>3, <5>1, <5>2 DEF Siguiente, L
      <4> QED
        BY <4>2, <4>3
    <3> QED
      BY <3>1, <3>2
  <2> QED
    BY <2>1, <2>3, <2>4
<1>11. ASSUME NEW j \in 1..(L - 1)
       PROVE  (IF j < k THEN j ELSE j + 1) \in 1..L
  BY <1>1
<1>12. ASSUME NEW i \in 1..(L - 1), NEW j \in 1..(L - 1), lista'[j] = lista'[i]
       PROVE  j = i
  <2>1. /\ lista'[j] = lista[IF j < k THEN j ELSE j + 1]
        /\ lista'[i] = lista[IF i < k THEN i ELSE i + 1]
    BY <1>10, <1>11
  <2>2. ASSUME NEW b \in 1..L, NEW a \in 1..L, lista[b] = lista[a]
        PROVE  b = a
    BY <1>2, <2>2
  <2>3. (IF j < k THEN j ELSE j + 1) = (IF i < k THEN i ELSE i + 1)
    BY <1>11, <1>12, <2>1, <2>2
  <2> QED
    BY <1>1, <2>3
<1> QED
  BY <1>1, <1>8, <1>9, <1>10, <1>11, <1>12 DEF BienEnlazada

(* deleteTempUser takes out the only user of its socket; the node is then  *)
(* in the hands of the thread that gives it back.                          *)
LEMMA OrdenadaDesenlaza ==
    ASSUME ListaTypeOK, Turnos, Ordenada, NEW h \in Hilos, Desenlaza(h)
    PROVE  Ordenada'
<1>1. BienEnlazada /\ UnoPorSocket /\ Punteros /\ SinFugas
  BY DEF Ordenada
<1>2. /\ EnLista(aux[h]) /\ aux[h] \in reservado /\ socket[aux[h]] = arg[h]
      /\ lista' = SinNodo(lista, aux[h]) /\ socket' = socket /\ nick' = nick
      /\ aux' = aux /\ arg' = arg /\ op' = op /\ reservado' = reservado
      /\ pc' = [pc EXCEPT ![h] = "libera"]
  BY <1>1 DEF Punteros, Desenlaza, Va, hilo
<1>3. PICK k \in 1..Len(lista) : lista[k] = aux[h]
  BY <1>2 DEF EnLista
<1>4. /\ Len(lista) \in Nat /\ Len(lista') = Len(lista) - 1
      /\ \A j \in 1..(Len(lista) - 1) :
            lista'[j] = IF j < k THEN lista[j] ELSE lista[j + 1]
      /\ \A m : EnLista(m)' <=> EnLista(m) /\ m # aux[h]
      /\ \A s : ConSocket(s)' <=> ConSocket(s) /\ s # arg[h]
  BY <1>1, <1>2, <1>3, Miembros, ListaMengua
<1>5. BienEnlazada'
  BY <1>1, <1>3, EnlacesDesenlaza
<1>6. UnoPorSocket'
  <2>1. ASSUME NEW i \in 1..Len(lista'), NEW j \in 1..Len(lista'),
               socket'[lista'[i]] = socket'[lista'[j]]
        PROVE  i = j
    <3>1. i \in 1..(Len(lista) - 1) /\ j \in 1..(Len(lista) - 1)
      BY <1>4
    <3>2. /\ lista'[j] = lista[IF j < k THEN j ELSE j + 1]
          /\ lista'[i] = lista[IF i < k THEN i ELSE i + 1]
          /\ (IF j < k THEN j ELSE j + 1) \in 1..Len(lista)
          /\ (IF i < k THEN i ELSE i + 1) \in 1..Len(lista)
      BY <1>4, <3>1
    <3>3. (IF i < k THEN i ELSE i + 1) = (IF j < k THEN j ELSE j + 1)
      BY <1>1, <1>2, <2>1, <3>2 DEF UnoPorSocket
    <3> QED
      BY <3>1, <3>3
  <2> QED
    BY <2>1 DEF UnoPorSocket
<1>7. Punteros'
  <2>1. pc'[h] = "libera" /\ \A g \in Hilos : g # h => pc'[g] = pc[g]
    BY <1>2 DEF ListaTypeOK
  <2>2. ASSUME NEW g \in Hilos, g # h, pc[g] # "fuera"
        PROVE  arg[g] # arg[h]
    BY <2>2 DEF Turnos, Desenlaza
  <2>3. ASSUME NEW g \in Hilos, pc[g] \in {"enlaza", "tiene", "desenlaza", "libera"}, g # h
        PROVE  aux[g] # aux[h] /\ aux[g] \in Nodos
    BY <1>1, <1>2, <2>2, <2>3 DEF Punteros, Turnos
  <2>4. ASSUME NEW g \in Hilos, g # h, pc[g] = "enlaza"
        PROVE  previous'[aux[g]] = NULL /\ next'[aux[g]] = NULL
    <3>1. /\ ~EnLista(aux[g]) /\ aux[g] \in Nodos
          /\ previous[aux[g]] = NULL /\ next[aux[g]] = NULL
      BY <1>1, <2>4 DEF Punteros, Turnos, EnLista, ConSocket
    <3>2. /\ previous[aux[h]] = NULL \/ EnLista(previous[aux[h]])
          /\ next[aux[h]] = NULL \/ EnLista(next[aux[h]])
      <4>1. previous[aux[h]] = Anterior(k) /\ next[aux[h]] = Siguiente(k)
        BY <1>1, <1>3 DEF BienEnlazada
      <4>2. /\ k # 1 => k - 1 \in 1..Len(lista)
            /\ k # Len(lista) => k + 1 \in 1..Len(lista)
        BY <1>4
      <4> QED
        BY <4>1, <4>2 DEF Anterior, Siguiente, EnLista
    <3> QED
      BY <3>1, <3>2 DEF Desenlaza, ListaTypeOK
  <2>5. Punteros
    BY <1>1
  <2> QED
    BY <1>2, <1>4, <2>1, <2>2, <2>3, <2>4, <2>5 DEF Punteros
<1>8. Buscado'
  BY <1>2, NadieBusca DEF ListaTypeOK, Buscado, Desenlaza
<1>9. SinFugas'
  <2>1. SinFugas' <=> \A m \in reservado' :
            EnLista(m)' \/ \E g \in Hilos : pc'[g] \in {"enlaza", "libera"} /\ aux'[g] = m
    BY DEF SinFugas, EnLista
  <2>2. \A m \in reservado :
            EnLista(m) \/ \E g \in Hilos : pc[g] \in {"enlaza", "libera"} /\ aux[g] = m
    BY <1>1 DEF SinFugas, EnLista
  <2>3. pc'[h] = "libera" /\ \A g \in Hilos : g # h => pc'[g] = pc[g]
    BY <1>2 DEF ListaTypeOK
  <2> QED
    BY <1>2, <1>4, <2>1, <2>2, <2>3
<1> QED
  BY <1>5, <1>6, <1>7, <1>8, <1>9 DEF Ordenada

(* The memory that is given back is linked nowhere and nobody's pointer.   *)
LEMMA OrdenadaLibera ==
    ASSUME ListaTypeOK, Turnos, Ordenada, NEW h \in Hilos, LiberaTempUser(h)
    PROVE  Ordenada'
<1>1. BienEnlazada /\ UnoPorSocket /\ Punteros /\ Buscado /\ SinFugas
  BY DEF Ordenada
<1>2. /\ UNCHANGED <<usuarioPrimero, usuarioUltimo, lista, previous, next, socket, nick>>
      /\ reservado' = reservado \ {aux[h]}
      /\ pc[h] = "libera" /\ pc'[h] \in {"new", "fuera"}
      /\ pc'[h] = "new" => arg'[h] = arg[h]
      /\ \A g \in Hilos : g # h => pc'[g] = pc[g] /\ aux'[g] = aux[g] /\ arg'[g] = arg[g]
  BY DEF ListaTypeOK, LiberaTempUser, TrasDelete, Vuelve, Va, extremos, nodos, hilo
<1>3. /\ ~ConSocket(arg[h]) /\ socket[aux[h]] = arg[h] /\ ~EnLista(aux[h])
  BY <1>1, <1>2 DEF Punteros, ConSocket, EnLista
<1>4. /\ \A m : EnLista(m) <=> EnLista(m)'
      /\ \A s : ConSocket(s) <=> ConSocket(s)'
  BY <1>2 DEF EnLista, ConSocket
<1>5. BienEnlazada'
  <2>1. \A i \in 1..Len(lista) : lista[i] \in reservado'
    BY <1>1, <1>2, <1>3 DEF BienEnlazada, EnLista
  <2>2. \A i \in 1..Len(lista) : Anterior(i)' = Anterior(i) /\ Siguiente(i)' = Siguiente(i)
    BY <1>2 DEF Anterior, Siguiente
  <2> QED
    BY <1>1, <1>2, <2>1, <2>2 DEF BienEnlazada
<1>6. UnoPorSocket'
  BY <1>1, <1>2 DEF UnoPorSocket
<1>7. Punteros'
  <2>1. ASSUME NEW g \in Hilos, g # h,
               pc[g] \in {"enlaza", "tiene", "desenlaza", "libera"}
        PROVE  aux[g] # aux[h]
    <3>1. arg[g] # arg[h]
      BY <1>2, <2>1 DEF Turnos
    <3> QED
      BY <1>1, <1>3, <2>1, <3>1 DEF Punteros
  <2>2. Punteros
    BY <1>1
  <2> QED
    BY <1>2, <1>3, <1>4, <2>1, <2>2 DEF Punteros
<1>8. Buscado'
  <2>1. \A g \in Hilos : pc'[g] = "busca" => g # h
    BY <1>2
  <2> QED
    BY <1>1, <1>2, <1>4, <2>1 DEF Buscado
<1>9. SinFugas'
  BY <1>1, <1>2 DEF SinFugas
<1> QED
  BY <1>5, <1>6, <1>7, <1>8, <1>9 DEF Ordenada

-----------------------------------------------------------------------------
(* The inductive invariant                                                 *)

LEMMA OrdenadaFuncion ==
    ASSUME ListaTypeOK, Turnos, Ordenada, NEW h \in Hilos, Funcion(h)
    PROVE  Ordenada'
<1>1. CASE CallocFalla(h)
  BY <1>1, OrdenadaVuelve DEF CallocFalla, nodos
<1>2. ASSUME NEW n \in Nicks, SetNickTemporal(h, n)
      PROVE  Ordenada'
  <2>1. ASSUME NEW g \in Hilos, pc[g] = "enlaza"
        PROVE  aux[g] # aux[h]
    <3>1. /\ ~ConSocket(arg[g]) /\ socket[aux[g]] = arg[g] /\ EnLista(aux[h])
      BY <1>2, <2>1 DEF Ordenada, Punteros, SetNickTemporal
    <3> QED
      BY <3>1 DEF ConSocket, EnLista
  <2>2. \A g \in Hilos : pc[g] = "enlaza" => nick'[aux[g]] = nick[aux[g]]
    BY <1>2, <2>1 DEF SetNickTemporal, ListaTypeOK
  <2> QED
    BY <1>2, <2>2, OrdenadaVuelve DEF SetNickTemporal
<1>3. CASE UserNoRegistra(h)
  BY <1>3, OrdenadaVuelve DEF UserNoRegistra, nodos
<1> QED
  BY <1>1, <1>2, <1>3, OrdenadaCalloc, OrdenadaEnlaza, OrdenadaPull, OrdenadaAvanza,
     OrdenadaEncuentra, OrdenadaNoEncuentra, OrdenadaUserRegistra, OrdenadaDesenlaza,
     OrdenadaLibera
     DEF Funcion

(* The list stays in order until the signal handler frees it.              *)
LEMMA ListaSigue ==
    ASSUME ListaInv, [Next]_vars
    PROVE  ListaInv'
<1> USE DEF ListaInv
<1>1. ListaTypeOK' /\ Turnos'
  BY TipoLista, TurnosLista
<1>2. ASSUME Intacta'
      PROVE  Ordenada'
  <2>1. CASE LiberaTodosTempUser \/ Exit
    BY <1>2, <2>1 DEF LiberaTodosTempUser, Exit, Intacta
  <2>2. CASE ManejadorSigint \/ UNCHANGED vars
    <3>1. /\ UNCHANGED <<extremos, previous, next, socket, reservado>>
          /\ UNCHANGED <<pc, aux, arg, nick>> /\ Intacta
      BY <1>2, <2>2 DEF ManejadorSigint, vars, hilo, nodos, Intacta
    <3>2. Ordenada
      BY <3>1
    <3>3. Punteros' /\ Buscado' /\ SinFugas'
      BY <3>1, <3>2, EnlacesQuietos DEF Ordenada, Punteros, Buscado, SinFugas, extremos
    <3> QED
      BY <3>1, <3>2, <3>3, EnlacesQuietos DEF Ordenada
  <2>3. ASSUME NEW h \in Hilos, NEW o \in {"nueva", "pull", "delete"},
               NEW s \in Sockets, Llama(h, o, s)
        PROVE  Ordenada'
    BY <1>2, <2>3, OrdenadaLlama DEF Llama, Intacta
  <2>4. ASSUME NEW h \in Hilos, Funcion(h)
        PROVE  Ordenada'
    <3>1. manejador' = manejador
      BY <2>4 DEF Funcion, Calloc, CallocFalla, Enlaza, PullTempUser, Avanza, Encuentra,
                  NoEncuentra, SetNickTemporal, UserNoRegistra, UserRegistra, Desenlaza,
                  LiberaTempUser
    <3> QED
      BY <1>2, <2>4, <3>1, OrdenadaFuncion DEF Intacta
  <2> QED
    BY <2>1, <2>2, <2>3, <2>4 DEF Next
<1> QED
  BY <1>1, <1>2

LEMMA ListaInicial == Init => ListaInv
<1> SUFFICES ASSUME Init PROVE ListaInv
  OBVIOUS
<1>1. Len(lista) = 0 /\ lista \in Seq(Nodos) /\ \A i : i \notin 1..Len(lista)
  BY EmptySeq DEF Init
<1>2. ListaTypeOK /\ Turnos
  BY <1>1, TempUserListAssumption DEF Init, ListaTypeOK, Turnos
<1>3. Ordenada
  BY <1>1 DEF Init, Ordenada, BienEnlazada, UnoPorSocket, Punteros, Buscado, SinFugas
<1> QED
  BY <1>2, <1>3 DEF ListaInv

(* The inductive invariant of the list.                                    *)
THEOREM ListaInvSiempre == Spec => []ListaInv
<1> QED
  BY ListaInicial, ListaSigue, PTL DEF Spec

(* Without SIGINT nobody frees the list under the threads.                 *)
LEMMA SinSigintIntacta ==
    ASSUME ~Sigint
    PROVE  Spec => []Intacta
<1>1. Init => manejador = "no"
  BY DEF Init
<1>2. manejador = "no" /\ [Next]_vars => (manejador = "no")'
  BY DEF Next, Llama, Funcion, Calloc, CallocFalla, Enlaza, PullTempUser, Avanza, Encuentra,
         NoEncuentra, SetNickTemporal, UserNoRegistra, UserRegistra, Desenlaza,
         LiberaTempUser, ManejadorSigint, LiberaTodosTempUser, Exit, vars
<1>3. manejador = "no" => Intacta
  BY DEF Intacta
<1> QED
  BY <1>1, <1>2, <1>3, PTL DEF Spec

(* The pointers are the queue, both ways, until the signal handler frees   *)
(* it; where no signal comes, always.                                      *)
THEOREM BienEnlazadaSiempre ==
    /\ Spec => [](Intacta => BienEnlazada)
    /\ ~Sigint => (Spec => []BienEnlazada)
<1>1. ListaInv => (Intacta => BienEnlazada)
  BY DEF ListaInv, Ordenada
<1>2. Spec => [](Intacta => BienEnlazada)
  BY <1>1, ListaInvSiempre, PTL
<1>3. ASSUME ~Sigint PROVE Spec => []BienEnlazada
  BY <1>2, <1>3, SinSigintIntacta, PTL
<1> QED
  BY <1>2, <1>3

(* No socket ever has two temporary users.                                 *)
THEOREM UnoPorSocketSiempre ==
    /\ Spec => [](Intacta => UnoPorSocket)
    /\ ~Sigint => (Spec => []UnoPorSocket)
<1>1. ListaInv => (Intacta => UnoPorSocket)
  BY DEF ListaInv, Ordenada
<1>2. Spec => [](Intacta => UnoPorSocket)
  BY <1>1, ListaInvSiempre, PTL
<1>3. ASSUME ~Sigint PROVE Spec => []UnoPorSocket
  BY <1>2, <1>3, SinSigintIntacta, PTL
<1> QED
  BY <1>2, <1>3

(* No node is lost: it is linked, or a thread has it to link or to free.   *)
THEOREM SinFugasSiempre ==
    /\ Spec => [](Intacta => SinFugas)
    /\ ~Sigint => (Spec => []SinFugas)
<1>1. ListaInv => (Intacta => SinFugas)
  BY DEF ListaInv, Ordenada
<1>2. Spec => [](Intacta => SinFugas)
  BY <1>1, ListaInvSiempre, PTL
<1>3. ASSUME ~Sigint PROVE Spec => []SinFugas
  BY <1>2, <1>3, SinSigintIntacta, PTL
<1> QED
  BY <1>2, <1>3

(* A pointer used without the mutex points to the user it was got for.     *)
THEOREM SinUsoTrasLiberarSiempre ==
    /\ Spec => [](Intacta => SinUsoTrasLiberar)
    /\ ~Sigint => (Spec => []SinUsoTrasLiberar)
<1>1. ListaInv => (Intacta => SinUsoTrasLiberar)
  BY DEF ListaInv, Ordenada, Punteros, EnLista, SinUsoTrasLiberar
<1>2. Spec => [](Intacta => SinUsoTrasLiberar)
  BY <1>1, ListaInvSiempre, PTL
<1>3. ASSUME ~Sigint PROVE Spec => []SinUsoTrasLiberar
  BY <1>2, <1>3, SinSigintIntacta, PTL
<1> QED
  BY <1>2, <1>3

-----------------------------------------------------------------------------
(* The list implements the queue of UsuariosTemporales.                    *)

(* The queue that a list of nodes stands for, whatever the nodes hold.     *)
LEMMA ColaDe ==
    ASSUME NEW l \in Seq(Nodos), NEW so \in [Nodos -> Sockets \cup {NULL}],
           NEW ni \in [Nodos -> Nicks \cup {NULL}], NEW q,
           q = [i \in 1..Len(l) |-> [socket |-> so[l[i]], nick |-> ni[l[i]]]]
    PROVE  /\ q \in Seq([socket : Sockets \cup {NULL}, nick : Nicks \cup {NULL}])
           /\ Len(q) = Len(l)
<1> DEFINE U == [socket : Sockets \cup {NULL}, nick : Nicks \cup {NULL}]
<1>1. Len(l) \in Nat /\ \A i \in 1..Len(l) : l[i] \in Nodos
  BY LenProperties, ElementOfSeq
<1>2. \A i \in 1..Len(l) : [socket |-> so[l[i]], nick |-> ni[l[i]]] \in U
  BY <1>1
<1> HIDE DEF U
<1>3. q \in [1..Len(l) -> U]
  BY <1>2
<1>4. q \in Seq(U)
  <2>1. q \in UNION {[1..n -> U] : n \in Nat}
    BY <1>1, <1>3
  <2> QED
    BY <2>1, SeqDef, Zenon
<1>5. Len(q) = Len(l)
  BY <1>1, <1>3, <1>4, LenProperties
<1> QED
  BY <1>4, <1>5 DEF U

LEMMA UsuariosDe ==
    ASSUME ListaTypeOK
    PROVE  /\ Usuarios \in Seq([socket : Sockets \cup {NULL}, nick : Nicks \cup {NULL}])
           /\ Len(Usuarios) = Len(lista)
           /\ \A i \in 1..Len(lista) :
                /\ Usuarios[i] = [socket |-> socket[lista[i]], nick |-> nick[lista[i]]]
                /\ Usuarios[i].socket = socket[lista[i]]
  BY ColaDe DEF ListaTypeOK, Usuarios

(* What its handler still waits for changes for one thread only.           *)
LEMMA PedidoCambia ==
    ASSUME ListaTypeOK, NEW h \in Hilos, NEW o,
           \A g \in Hilos : g # h => pc'[g] = pc[g] /\ op'[g] = op[g] /\ arg'[g] = arg[g],
           Pendiente(h)' = o
    PROVE  /\ Pedidos' = [Pedidos EXCEPT ![h] = o]
           /\ Pedido' = [Pedido EXCEPT ![h] = IF o = "nada" THEN NULL ELSE arg'[h]]
<1>1. \A g \in Hilos : g # h => Pendiente(g)' = Pendiente(g)
  BY DEF Pendiente
<1>2. Pedidos' = [Pedidos EXCEPT ![h] = o]
  BY <1>1 DEF Pedidos
<1>3. Pedido' = [Pedido EXCEPT ![h] = IF o = "nada" THEN NULL ELSE arg'[h]]
  BY <1>1 DEF Pedido
<1> QED
  BY <1>2, <1>3

(* A function that ends or goes on with another one, on the same socket.   *)
LEMMA PedidoSigue ==
    ASSUME ListaTypeOK, NEW h \in Hilos, NEW o,
           \A g \in Hilos : g # h => pc'[g] = pc[g] /\ op'[g] = op[g] /\ arg'[g] = arg[g],
           Pendiente(h)' = o, Pendiente(h) # "nada", o # "nada" => arg'[h] = arg[h]
    PROVE  Cola!Sigue(h, o)
<1>1. Pedido[h] = arg[h]
  BY DEF Pedido
<1> QED
  BY <1>1, PedidoCambia DEF Cola!Sigue, Pedido

(* The queue changes only where the list, a socket or a nick in it does.   *)
LEMMA UsuariosIgual ==
    ASSUME lista' = lista, UNCHANGED <<socket, nick>>
    PROVE  Usuarios' = Usuarios
  BY DEF Usuarios

(* A handler asks for the function it calls.                               *)
LEMMA ColaLlama ==
    ASSUME ListaTypeOK, NEW h \in Hilos, NEW o \in {"nueva", "pull", "delete"},
           NEW s \in Sockets, Llama(h, o, s)
    PROVE  \E q \in {"pull", "delete"} : Cola!Pide(h, q, s)
<1> DEFINE q == IF o = "pull" THEN "pull" ELSE "delete"
<1>1. Usuarios' = Usuarios
  BY UsuariosIgual DEF Llama, extremos, nodos
<1>2. /\ \A g \in Hilos : g # h => pc'[g] = pc[g] /\ op'[g] = op[g] /\ arg'[g] = arg[g]
      /\ Pendiente(h)' = q /\ Pendiente(h) = "nada" /\ arg'[h] = s
  BY DEF ListaTypeOK, Llama, Va, Pendiente
<1>3. Cola!Pide(h, q, s)
  BY <1>1, <1>2, PedidoCambia DEF Cola!Pide, Pedidos
<1> QED
  BY <1>3

(* The pointers move, the queue does not: the steps of a function before   *)
(* and after the one that does its work.                                   *)
LEMMA ColaQuieta ==
    ASSUME ListaTypeOK, Turnos, Ordenada, NEW h \in Hilos,
           \/ \E n \in Nodos : Calloc(h, n)
           \/ PullTempUser(h)
           \/ Avanza(h)
           \/ Encuentra(h) /\ op[h] # "pull"
           \/ LiberaTempUser(h)
    PROVE  UNCHANGED Cola!vars
<1>1. Usuarios' = Usuarios
  <2>1. ASSUME NEW n \in Nodos, Calloc(h, n)
        PROVE  Usuarios' = Usuarios
    <3>1. ASSUME NEW i \in 1..Len(lista)
          PROVE  socket'[lista[i]] = socket[lista[i]] /\ nick'[lista[i]] = nick[lista[i]]
      <4>1. lista[i] \in Nodos /\ lista[i] # n
        BY <2>1, Miembros DEF Ordenada, BienEnlazada, Calloc
      <4> QED
        BY <2>1, <4>1 DEF ListaTypeOK, Calloc
    <3>2. lista' = lista
      BY <2>1 DEF Calloc, extremos
    <3> QED
      BY <3>1, <3>2 DEF Usuarios
  <2> QED
    BY <2>1, UsuariosIgual DEF PullTempUser, Avanza, Encuentra, LiberaTempUser, extremos,
                               nodos
<1>2. ASSUME NEW g \in Hilos
      PROVE  Pendiente(g)' = Pendiente(g) /\ (Pendiente(g) # "nada" => arg'[g] = arg[g])
  BY DEF ListaTypeOK, Turnos, Calloc, PullTempUser, Avanza, Encuentra, LiberaTempUser,
         TrasDelete, Vuelve, Va, hilo, Pendiente
<1>3. Pedidos' = Pedidos /\ Pedido' = Pedido
  BY <1>2 DEF Pedidos, Pedido
<1> QED
  BY <1>1, <1>3 DEF Cola!vars

(* newTempUser: a user more at the end, or no memory for it.               *)
LEMMA ColaNew ==
    ASSUME ListaTypeOK, Turnos, Ordenada, NEW h \in Hilos, CallocFalla(h) \/ Enlaza(h)
    PROVE  Cola!New(h)
<1>1. Pedidos[h] = "new" /\ Pendiente(h) = "new" /\ Pedido[h] = arg[h]
  BY DEF CallocFalla, Enlaza, Pendiente, Pedidos, Pedido
<1>2. /\ \A g \in Hilos : g # h => pc'[g] = pc[g] /\ op'[g] = op[g] /\ arg'[g] = arg[g]
      /\ Pendiente(h)' = "nada"
  BY DEF ListaTypeOK, CallocFalla, Enlaza, Vuelve, Va, Pendiente
<1>3. Cola!Sigue(h, "nada")
  BY <1>1, <1>2, PedidoSigue
<1>4. CASE CallocFalla(h)
  <2>1. Usuarios' = Usuarios
    BY <1>4, UsuariosIgual DEF CallocFalla, extremos, nodos
  <2> QED
    BY <1>1, <1>3, <2>1 DEF Cola!New
<1>5. CASE Enlaza(h)
  <2> DEFINE S == [socket : Sockets \cup {NULL}, nick : Nicks \cup {NULL}]
             u == [socket |-> arg[h], nick |-> NULL]
  <2>1. /\ aux[h] \in Nodos /\ lista' = Append(lista, aux[h]) /\ socket' = socket
        /\ nick' = nick /\ socket[aux[h]] = arg[h] /\ nick[aux[h]] = NULL
    BY <1>5 DEF Enlaza, Turnos, Ordenada, Punteros
  <2>2. /\ Len(lista) \in Nat /\ Len(lista') = Len(lista) + 1
        /\ \A i \in 1..Len(lista) : lista'[i] = lista[i]
        /\ lista'[Len(lista) + 1] = aux[h]
    BY <2>1, ListaCrece
  <2>3. u \in S
    BY DEF ListaTypeOK
  <2>4. Usuarios \in Seq(S) /\ Len(Usuarios) = Len(lista)
    BY UsuariosDe
  <2> HIDE DEF S, u
  <2>5. /\ Append(Usuarios, u) \in Seq(S) /\ Len(Append(Usuarios, u)) = Len(lista) + 1
        /\ \A i \in 1..Len(lista) : Append(Usuarios, u)[i] = Usuarios[i]
        /\ Append(Usuarios, u)[Len(lista) + 1] = u
    BY <2>3, <2>4, AppendProperties
  <2>6. Usuarios' \in Seq(S) /\ Len(Usuarios') = Len(lista')
    <3>1. ListaTypeOK'
      BY <1>5, TipoLista DEF Next, Funcion
    <3> QED
      BY <3>1, ColaDe DEF ListaTypeOK, Usuarios, S
  <2>7. ASSUME NEW i \in 1..Len(Usuarios')
        PROVE  Usuarios'[i] = Append(Usuarios, u)[i]
    <3>1. Usuarios'[i] = [socket |-> socket[lista'[i]], nick |-> nick[lista'[i]]]
      BY <2>1, <2>6 DEF Usuarios
    <3>2. CASE i = Len(lista) + 1
      BY <2>1, <2>2, <2>5, <3>1, <3>2 DEF u
    <3>3. CASE i # Len(lista) + 1
      <4>1. i \in 1..Len(lista)
        BY <2>2, <2>6, <3>3
      <4> QED
        BY <2>2, <2>5, <3>1, <4>1 DEF Usuarios
    <3> QED
      BY <3>2, <3>3
  <2>8. Usuarios' = Append(Usuarios, u)
    BY <2>2, <2>5, <2>6, <2>7, SeqEqual
  <2> QED
    BY <1>1, <1>3, <2>8 DEF Cola!New, u
<1> QED
  BY <1>4, <1>5

(* The position of a user found is the first of its socket.                *)
LEMMA EsPrimeroDe ==
    ASSUME ListaTypeOK, UnoPorSocket, NEW i \in 1..Len(lista), NEW s, socket[lista[i]] = s
    PROVE  Cola!EsPrimero(i, s)
<1>1. Len(lista) \in Nat /\ Len(Usuarios) = Len(lista)
  BY Miembros, UsuariosDe
<1>2. ASSUME NEW j \in 1..(i - 1)
      PROVE  Usuarios[j].socket # s
  <2>1. j \in 1..Len(lista) /\ j # i
    BY <1>1
  <2> QED
    BY <2>1, UsuariosDe DEF UnoPorSocket
<1> QED
  BY <1>1, <1>2, UsuariosDe DEF Cola!EsPrimero

(* pullTempUser finds the user, or comes to the end: then there is none.   *)
LEMMA ColaBusca ==
    ASSUME ListaTypeOK, Turnos, Ordenada, NEW h \in Hilos,
           \/ Encuentra(h) /\ op[h] = "pull"
           \/ NoEncuentra(h)
    PROVE  Cola!Pull(h) \/ Cola!Delete(h)
<1>1. /\ Usuarios' = Usuarios /\ Len(Usuarios) = Len(lista)
      /\ \A i \in 1..Len(lista) : Usuarios[i].socket = socket[lista[i]]
  BY UsuariosIgual, UsuariosDe DEF Encuentra, NoEncuentra, extremos, nodos
<1>2. /\ pc[h] = "busca" /\ Pedido[h] = arg[h]
      /\ Pedidos[h] = IF op[h] = "pull" THEN "pull" ELSE "delete"
      /\ Pendiente(h) # "nada"
  BY DEF Encuentra, NoEncuentra, Pendiente, Pedidos, Pedido
<1>3. \A g \in Hilos : g # h => pc'[g] = pc[g] /\ op'[g] = op[g] /\ arg'[g] = arg[g]
  BY DEF ListaTypeOK, Encuentra, NoEncuentra, TrasDelete, Vuelve, Va, hilo
<1>4. CASE Encuentra(h) /\ op[h] = "pull"
  <2>1. Pendiente(h)' = "tiene" /\ arg'[h] = arg[h]
    BY <1>4 DEF ListaTypeOK, Encuentra, Va, hilo, Pendiente
  <2>2. Cola!Sigue(h, "tiene")
    BY <1>2, <1>3, <2>1, PedidoSigue
  <2>3. \E i \in 1..Len(Usuarios) : Usuarios[i].socket = Pedido[h]
    BY <1>1, <1>2, <1>4 DEF Ordenada, Buscado, Encuentra
  <2> QED
    BY <1>1, <1>2, <1>4, <2>2, <2>3 DEF Cola!Pull
<1>5. CASE NoEncuentra(h)
  <2>1. \A i \in 1..Len(Usuarios) : Usuarios[i].socket # Pedido[h]
    <3>1. ASSUME NEW k \in 1..Len(lista), lista[k] = NULL
          PROVE  FALSE
      BY <3>1, Miembros, TempUserListAssumption
    <3> QED
      BY <1>1, <1>2, <1>5, <3>1 DEF Ordenada, Buscado, ConSocket, NoEncuentra
  <2>2. CASE op[h] = "nueva"
    <3>1. Pendiente(h)' = "new" /\ arg'[h] = arg[h]
      BY <1>5, <2>2 DEF ListaTypeOK, NoEncuentra, TrasDelete, Vuelve, Va, hilo, Pendiente
    <3>2. Cola!Sigue(h, "new")
      BY <1>2, <1>3, <3>1, PedidoSigue
    <3> QED
      BY <1>1, <1>2, <2>1, <2>2, <3>2 DEF Cola!Delete
  <2>3. CASE op[h] # "nueva"
    <3>1. Pendiente(h)' = "nada"
      BY <1>5, <2>3 DEF ListaTypeOK, NoEncuentra, TrasDelete, Vuelve, Va, Pendiente
    <3>2. Cola!Sigue(h, "nada")
      BY <1>2, <1>3, <3>1, PedidoSigue
    <3> QED
      BY <1>1, <1>2, <2>1, <3>2 DEF Cola!Delete, Cola!Pull
  <2> QED
    BY <2>2, <2>3
<1> QED
  BY <1>4, <1>5

(* The second critical section of deleteTempUser is the whole function.    *)
LEMMA ColaDelete ==
    ASSUME ListaTypeOK, Turnos, Ordenada, NEW h \in Hilos, Desenlaza(h)
    PROVE  Cola!Delete(h)
<1>1. BienEnlazada /\ UnoPorSocket /\ EnLista(aux[h]) /\ socket[aux[h]] = arg[h]
  BY DEF Ordenada, Punteros, Desenlaza
<1>2. PICK k \in 1..Len(lista) : lista[k] = aux[h]
  BY <1>1 DEF EnLista
<1>3. /\ Len(lista) \in Nat /\ Len(lista') = Len(lista) - 1
      /\ \A j \in 1..(Len(lista) - 1) :
            lista'[j] = IF j < k THEN lista[j] ELSE lista[j + 1]
  BY <1>1, <1>2, Miembros, ListaMengua DEF Desenlaza
<1>4. /\ Pedidos[h] = "delete" /\ Pendiente(h) = "delete" /\ Pedido[h] = arg[h]
  BY DEF Desenlaza, Pendiente, Pedidos, Pedido
<1>5. /\ \A g \in Hilos : g # h => pc'[g] = pc[g] /\ op'[g] = op[g] /\ arg'[g] = arg[g]
      /\ Pendiente(h)' = (IF op[h] = "nueva" THEN "new" ELSE "nada") /\ arg'[h] = arg[h]
  BY DEF ListaTypeOK, Desenlaza, Va, hilo, Pendiente
<1>6. \E luego \in {"nada", "new"} : Cola!Sigue(h, luego)
  BY <1>4, <1>5, PedidoSigue
<1>7. Cola!EsPrimero(k, Pedido[h])
  BY <1>1, <1>2, <1>4, EsPrimeroDe
<1>8. Usuarios' = Cola!SinPosicion(Usuarios, k)
  <2>1. /\ socket' = socket /\ nick' = nick /\ Len(Usuarios) = Len(lista)
        /\ k \in 1..Len(Usuarios)
    BY UsuariosDe DEF Desenlaza
  <2>2. Usuarios' = [j \in 1..(Len(lista) - 1) |->
                        [socket |-> socket[lista'[j]], nick |-> nick[lista'[j]]]]
    BY <1>3, <2>1 DEF Usuarios
  <2>3. ASSUME NEW j \in 1..(Len(lista) - 1)
        PROVE  [socket |-> socket[lista'[j]], nick |-> nick[lista'[j]]] =
                    IF j < k THEN Usuarios[j] ELSE Usuarios[j + 1]
    <3>1. j \in 1..Len(lista) /\ j + 1 \in 1..Len(lista)
      BY <1>3
    <3>2. CASE j < k
      BY <1>3, <3>1, <3>2 DEF Usuarios
    <3>3. CASE ~(j < k)
      BY <1>3, <3>1, <3>3 DEF Usuarios
    <3> QED
      BY <3>2, <3>3
  <2> QED
    BY <2>1, <2>2, <2>3 DEF Cola!SinPosicion
<1>9. k \in 1..Len(Usuarios)
  BY UsuariosDe
<1> QED
  BY <1>4, <1>6, <1>7, <1>8, <1>9 DEF Cola!Delete

(* The pointer of nick is the user the queue has for the socket.           *)
LEMMA ColaPonNick ==
    ASSUME ListaTypeOK, Turnos, Ordenada, NEW h \in Hilos, NEW n \in Nicks,
           SetNickTemporal(h, n)
    PROVE  Cola!PonNick(h)
<1>1. BienEnlazada /\ UnoPorSocket /\ EnLista(aux[h]) /\ socket[aux[h]] = arg[h]
  BY DEF Ordenada, Punteros, SetNickTemporal
<1>2. PICK k \in 1..Len(lista) : lista[k] = aux[h]
  BY <1>1 DEF EnLista
<1>3. Pedidos[h] = "tiene" /\ Pendiente(h) = "tiene" /\ Pedido[h] = arg[h]
  BY DEF SetNickTemporal, Pendiente, Pedidos, Pedido
<1>4. /\ \A g \in Hilos : g # h => pc'[g] = pc[g] /\ op'[g] = op[g] /\ arg'[g] = arg[g]
      /\ Pendiente(h)' = "nada"
  BY DEF ListaTypeOK, SetNickTemporal, Vuelve, Va, Pendiente
<1>5. Cola!Sigue(h, "nada")
  BY <1>3, <1>4, PedidoSigue
<1>6. Cola!EsPrimero(k, Pedido[h])
  BY <1>1, <1>2, <1>3, EsPrimeroDe
<1>7. Usuarios' = [Usuarios EXCEPT ![k].nick = n]
  <2>1. ASSUME NEW i \in 1..Len(lista)
        PROVE  nick'[lista[i]] = IF i = k THEN n ELSE nick[lista[i]]
    <3>1. lista[i] \in Nodos /\ (lista[i] = lista[k] => i = k)
      BY <1>1, <1>2, Miembros DEF BienEnlazada
    <3> QED
      BY <1>2, <3>1 DEF SetNickTemporal, ListaTypeOK
  <2>2. socket' = socket /\ lista' = lista
    BY DEF SetNickTemporal, extremos
  <2> QED
    BY <1>2, <2>1, <2>2 DEF Usuarios
<1>8. k \in 1..Len(Usuarios)
  BY UsuariosDe
<1> QED
  BY <1>3, <1>5, <1>6, <1>7, <1>8 DEF Cola!PonNick

LEMMA ColaSuelta ==
    ASSUME ListaTypeOK, Turnos, NEW h \in Hilos, UserNoRegistra(h) \/ UserRegistra(h)
    PROVE  Cola!Suelta(h)
<1>1. Usuarios' = Usuarios
  BY UsuariosIgual DEF UserNoRegistra, UserRegistra, extremos, nodos
<1>2. Pedidos[h] = "tiene" /\ Pendiente(h) = "tiene"
  BY DEF UserNoRegistra, UserRegistra, Pendiente, Pedidos
<1>3. \A g \in Hilos : g # h => pc'[g] = pc[g] /\ op'[g] = op[g] /\ arg'[g] = arg[g]
  BY DEF ListaTypeOK, UserNoRegistra, UserRegistra, Vuelve, Va
<1>4. \/ Pendiente(h)' = "nada"
      \/ Pendiente(h)' = "delete" /\ arg'[h] = arg[h]
  BY DEF ListaTypeOK, UserNoRegistra, UserRegistra, Vuelve, Va, Pendiente
<1>5. \E luego \in {"nada", "delete"} : Cola!Sigue(h, luego)
  BY <1>2, <1>3, <1>4, PedidoSigue
<1> QED
  BY <1>1, <1>2, <1>5 DEF Cola!Suelta

(* Every step of the list is a step of the queue, or none.                 *)
LEMMA ColaPaso ==
    ASSUME ListaInv, Intacta', [Next]_vars
    PROVE  [Cola!Next]_Cola!vars
<1>1. ListaTypeOK /\ Turnos /\ (Intacta => Ordenada)
  BY DEF ListaInv
<1>2. CASE LiberaTodosTempUser \/ Exit
  BY <1>2 DEF LiberaTodosTempUser, Exit, Intacta
<1>3. CASE ManejadorSigint \/ UNCHANGED vars
  <2>1. UNCHANGED <<lista, socket, nick, pc, op, arg>>
    BY <1>3 DEF ManejadorSigint, vars, extremos, nodos, hilo
  <2> QED
    BY <2>1, UsuariosIgual DEF Cola!vars, Pedidos, Pedido, Pendiente
<1>4. ASSUME NEW h \in Hilos, NEW o \in {"nueva", "pull", "delete"},
             NEW s \in Sockets, Llama(h, o, s)
      PROVE  Cola!Next
  BY <1>1, <1>4, ColaLlama DEF Cola!Next
<1>5. ASSUME NEW h \in Hilos, Funcion(h)
      PROVE  [Cola!Next]_Cola!vars
  <2>1. manejador' = manejador
    BY <1>5 DEF Funcion, Calloc, CallocFalla, Enlaza, PullTempUser, Avanza, Encuentra,
                NoEncuentra, SetNickTemporal, UserNoRegistra, UserRegistra, Desenlaza,
                LiberaTempUser
  <2>2. Ordenada
    BY <1>1, <2>1 DEF Intacta
  <2>3. \/ UNCHANGED Cola!vars
        \/ Cola!New(h) \/ Cola!Pull(h) \/ Cola!Delete(h) \/ Cola!PonNick(h) \/ Cola!Suelta(h)
    BY <1>1, <1>5, <2>2, ColaQuieta, ColaNew, ColaBusca, ColaDelete, ColaPonNick, ColaSuelta
       DEF Funcion
  <2> QED
    BY <2>3 DEF Cola!Next
<1> QED
  BY <1>2, <1>3, <1>4, <1>5 DEF Next

LEMMA ColaInicial == Init => Cola!Init
<1> SUFFICES ASSUME Init PROVE Cola!Init
  OBVIOUS
<1>1. Len(lista) = 0 /\ lista \in Seq(Nodos)
  BY EmptySeq DEF Init
<1>2. Usuarios = <<>>
  BY <1>1 DEF Usuarios
<1>3. Pedidos = [h \in Hilos |-> "nada"] /\ Pedido = [h \in Hilos |-> NULL]
  BY DEF Init, Pedidos, Pedido, Pendiente
<1> QED
  BY <1>2, <1>3 DEF Cola!Init

(* Until SIGINT frees it, the list with its pointers and its mutex behaves *)
(* as a queue on which each function happens at once.                      *)
THEOREM ImplementaColaSiempre ==
    /\ Spec /\ []Intacta => ImplementaCola
    /\ ~Sigint => (Spec => ImplementaCola)
<1>1. Spec /\ []Intacta => ImplementaCola
  BY ListaInvSiempre, ColaInicial, ColaPaso, PTL DEF Spec, ImplementaCola, Cola!Spec
<1>2. ASSUME ~Sigint PROVE Spec => ImplementaCola
  BY <1>1, <1>2, SinSigintIntacta, PTL
<1> QED
  BY <1>1, <1>2
=============================================================================
