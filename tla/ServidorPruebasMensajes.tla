----------------------- MODULE ServidorPruebasMensajes -----------------------
(***************************************************************************)
(* Proofs about what the server reads from its connections: select is      *)
(* called with open descriptors only, the walk never blocks in recv, every *)
(* command that no read cuts is executed, each connection is known in one  *)
(* place, and with SSL it has its own SSL object; and, at the end, that    *)
(* what its clients see is ServicioConexiones.                             *)
(* All of them rest on Invariante, proved in ServidorPruebas.              *)
(***************************************************************************)
EXTENDS ServidorPruebas

(* A descriptor of a connection is not the listening socket.               *)
LEMMA FdNoEsSckt == \A f \in Fds : f # sckt
<1>1. ASSUME NEW f \in Fds
      PROVE  f # sckt
  <2>1. f \in Nat /\ sckt \in Nat /\ sckt < f
    BY ServidorAssumption
  <2> QED
    BY <2>1
<1> QED
  BY <1>1

(* What is watched, or left to walk, is open.                              *)
LEMMA PorLeerAbierta ==
    ASSUME Invariante, NEW f \in Fds, PorLeer(f)
    PROVE  duenno[f] \in Conns /\ duenno[f] # Nadie
<1>1. duenno[f] \in 0..MaxConns /\ f # sckt
  BY FdNoEsSckt DEF Invariante, TypeOK
<1>2. duenno[f] # Nadie
  BY <1>1 DEF Invariante, Reparto, ActivosAbiertos, LeidosAbiertos, PorLeer,
     EnManosDePrincipal
<1> QED
  BY <1>1, <1>2, ServidorAssumption DEF Conns, Nadie

(* A thread with a message keeps its descriptor from select and the walk,  *)
(* and its connection from every other thread.                             *)
LEMMA ConMensajeAparte ==
    ASSUME Invariante, NEW p \in Procs, ConMensaje(p)
    PROVE  /\ fd[p] \in Fds /\ con[p] = duenno[fd[p]] /\ con[p] \in Conns
           /\ ~PorLeer(fd[p])
           /\ \A f \in Fds : duenno[f] = con[p] => f = fd[p]
           /\ \A q \in Procs : Tiene(q) /\ fd[q] = fd[p] => q = p
<1>1. Tiene(p) /\ Exclusion /\ FueraDeSelect /\ MensajeDelDuenno /\ DuennoUnico
  BY ServidorAssumption DEF ConMensaje, Tiene, Invariante, Reparto
<1>2. fd[p] \in Fds /\ duenno[fd[p]] \in Conns /\ duenno[fd[p]] # Nadie
  BY <1>1, TieneAbierta DEF Invariante
<1>3. con[p] = duenno[fd[p]]
  BY <1>1, ServidorAssumption DEF MensajeDelDuenno, ConMensaje, Atiende, Procs
<1>4. fd[p] \notin readFD
  BY <1>1 DEF Exclusion
<1>5. fd[p] \in activeFD => EnManosDePrincipal(fd[p])
  BY <1>1, ServidorAssumption DEF FueraDeSelect, ConMensaje, EnManosDePrincipal, EnCerrar
<1>6. \A f \in Fds : duenno[f] = con[p] => f = fd[p]
  BY <1>1, <1>2, <1>3 DEF DuennoUnico
<1> QED
  BY <1>1, <1>2, <1>3, <1>4, <1>5, <1>6 DEF PorLeer, Exclusion

-----------------------------------------------------------------------------
(* LeidosListos: what is left of the walk stays readable.                  *)

(* Steps after which the walk has no more to go, and nothing went dry.     *)
LEMMA ListosMarco ==
    ASSUME LeidosListos, Recorriendo' => Recorriendo, readFD' \subseteq readFD,
           \A f \in readFD' : Listo(f) => Listo(f)'
    PROVE  LeidosListos'
BY DEF LeidosListos

(* Clients only add to what there is to read.                              *)
LEMMA ListosClientes ==
    ASSUME Invariante, LeidosListos, Clientes
    PROVE  LeidosListos'
<1>1. UNCHANGED <<pc, readFD, aceptadas, duenno, leidos>>
  BY DEF Clientes, Conecta, Envia, Desconecta, kernel, locales, mensaje, historia
<1>2. TypeOK /\ LeidosAbiertos
  BY DEF Invariante, Reparto
<1> DEFINE CreceEn(c) == /\ enviados[c] <= enviados'[c] /\ enviados'[c] \in Nat
                         /\ fin[c] # "no" => fin'[c] # "no"
           Crece == /\ llegadas <= llegadas' /\ llegadas' \in Nat
                    /\ \A c \in Conns : CreceEn(c)
<1>3. Crece
  <2>1. CASE Conecta
    BY <1>2, <2>1, ServidorAssumption DEF Conecta, kernel, TypeOK
  <2>2. ASSUME NEW c \in Conns, Envia(c)
        PROVE  Crece
    <3>1. PICK n \in Finales :
              /\ enviados[c] < n
              /\ enviados' = [enviados EXCEPT ![c] = n]
      BY <2>2 DEF Envia
    <3>2. /\ enviados \in [Conns -> Nat] /\ llegadas \in Nat /\ n \in Nat
          /\ UNCHANGED <<llegadas, fin>>
      BY <1>2, <2>2, ServidorAssumption DEF Envia, kernel, TypeOK
    <3>3. \A d \in Conns : CreceEn(d)
      BY <3>1, <3>2
    <3> QED
      BY <3>2, <3>3
  <2>3. ASSUME NEW c \in Conns, NEW modo \in {"fin", "rst"}, Desconecta(c, modo)
        PROVE  Crece
    <3>1. /\ fin' = [fin EXCEPT ![c] = modo]
          /\ enviados \in [Conns -> Nat] /\ fin \in [Conns -> {"no", "fin", "rst"}]
          /\ llegadas \in Nat /\ UNCHANGED <<llegadas, enviados>>
      BY <1>2, <2>3, ServidorAssumption DEF Desconecta, clientes, TypeOK
    <3>2. \A d \in Conns : CreceEn(d)
      BY <3>1
    <3> QED
      BY <3>1, <3>2
  <2> QED
    BY <2>1, <2>2, <2>3 DEF Clientes
<1>4. ASSUME NEW f \in readFD', Listo(f)
      PROVE  Listo(f)'
  <2>1. CASE f = sckt
    <3>1. aceptadas \in Nat /\ llegadas \in Nat
      BY <1>2, ServidorAssumption DEF TypeOK
    <3> QED
      BY <1>1, <1>3, <1>4, <2>1, <3>1 DEF Listo
  <2>2. CASE f # sckt
    <3>1. f \in Fds /\ duenno[f] # Nadie /\ duenno[f] \in 0..MaxConns
      BY <1>1, <1>2, <2>2 DEF TypeOK, LeidosAbiertos
    <3>2. duenno[f] \in Conns
      BY <3>1, ServidorAssumption DEF Conns, Nadie
    <3>3. leidos[duenno[f]] \in Nat /\ enviados[duenno[f]] \in Nat
      BY <1>2, <3>2 DEF TypeOK
    <3> QED
      <4> DEFINE d == duenno[f]
      <4>1. enviados[d] <= enviados'[d] /\ enviados'[d] \in Nat /\ (fin[d] # "no" => fin'[d] # "no")
        BY <1>3, <3>2
      <4>2. leidos[d] < enviados[d] \/ fin[d] # "no"
        BY <1>4, <2>2 DEF Listo, HayDatos
      <4>3. leidos[d] < enviados'[d] \/ fin'[d] # "no"
        BY <3>3, <4>1, <4>2
      <4> QED
        BY <1>1, <2>2, <3>1, <4>3 DEF Listo, HayDatos
  <2> QED
    BY <2>1, <2>2
<1> QED
  BY <1>1, <1>4, ListosMarco DEF Recorriendo

(* The main thread takes out of the walk whatever it reads, accepts or     *)
(* gives up.                                                               *)
LEMMA ListosPrincipal ==
    ASSUME Invariante, LeidosListos, LanzarServidor, ~CerrarConexion(principal)
    PROVE  LeidosListos'
<1> USE DEF clientes, kernel, locales, mensaje, historia, Va
<1>0. /\ pc \in [Procs -> LugaresHilo \cup LugaresPrincipal] /\ principal \in Procs
      /\ Exclusion /\ DuennoUnico /\ LeidosAbiertos /\ duenno \in [Fds -> 0..MaxConns]
      /\ readFD \subseteq Fds \cup {sckt}
  BY DEF Invariante, Reparto, TypeOK, Procs
<1>1. CASE SetReadFD \/ EntraSelect \/ SelectInterrumpido \/ FinRecorrido
  <2>1. ~Recorriendo'
    BY <1>0, <1>1 DEF SetReadFD, EntraSelect, SelectInterrumpido, FinRecorrido, Recorriendo
  <2> QED
    BY <2>1 DEF LeidosListos
<1>2. CASE SelectListo
  <2>1. readFD' = {f \in readFD : Listo(f)}
        /\ UNCHANGED <<aceptadas, llegadas, duenno, leidos, enviados, fin>>
    BY <1>2 DEF SelectListo
  <2> QED
    BY <2>1 DEF LeidosListos, Listo, HayDatos
<1>3. ASSUME NEW f \in Fds, AceptarConexion(f)
      PROVE  LeidosListos'
  <2>1. /\ duenno[f] = Nadie /\ duenno' = [duenno EXCEPT ![f] = aceptadas + 1]
        /\ readFD' = readFD \ {sckt} /\ Recorriendo
        /\ UNCHANGED <<llegadas, leidos, enviados, fin>>
    BY <1>3 DEF AceptarConexion, Turno, EsMenor, Recorriendo
  <2>2. \A g \in readFD' : g # sckt /\ duenno'[g] = duenno[g]
    BY <1>0, <2>1, FdNoEsSckt DEF LeidosAbiertos
  <2> QED
    BY <2>1, <2>2, ListosMarco DEF Listo, HayDatos
<1>4. CASE AceptarFalla
  <2>1. /\ readFD' = readFD \ {sckt} /\ Recorriendo
        /\ UNCHANGED <<duenno, llegadas, leidos, enviados, fin, pc>>
    BY <1>4 DEF AceptarFalla, Turno, Recorriendo
  <2> QED
    BY <2>1, ListosMarco DEF Listo, HayDatos
<1>5. CASE CanalNuevo \/ AceptarCanal \/ NuevaDeleteTempUser \/ NuevaNewTempUser
           \/ NuevaAddFd \/ DeleteFd \/ CreaHiloFalla
  <2>1. /\ UNCHANGED <<readFD, duenno, aceptadas, llegadas, leidos, enviados, fin>>
        /\ Recorriendo
    BY <1>5 DEF CanalNuevo, AceptarCanal, NuevaDeleteTempUser, NuevaNewTempUser,
       NuevaAddFd, DeleteFd, CreaHiloFalla, Recorriendo
  <2> QED
    BY <2>1, ListosMarco DEF Listo, HayDatos
<1>6. CASE CanalFalla
  <2>1. /\ Tiene(principal) /\ duenno' = [duenno EXCEPT ![fd[principal]] = Nadie]
        /\ UNCHANGED <<readFD, aceptadas, llegadas, leidos, enviados, fin>>
        /\ Recorriendo
    BY <1>6 DEF CanalFalla, Recorriendo, Tiene
  <2>2. fd[principal] \notin readFD
    BY <1>0, <2>1 DEF Exclusion
  <2>3. \A g \in readFD' : g # sckt => duenno'[g] = duenno[g]
    BY <1>0, <2>1, <2>2
  <2> QED
    BY <2>1, <2>3, ListosMarco DEF Listo, HayDatos
<1>7. ASSUME NEW i \in Fds, RecvDatos(i)
      PROVE  LeidosListos'
  <2>1. /\ duenno[i] # Nadie /\ i \in readFD
        /\ \E r : leidos' = [leidos EXCEPT ![duenno[i]] = r]
        /\ readFD' = readFD \ {i} /\ Recorriendo
        /\ UNCHANGED <<duenno, aceptadas, llegadas, enviados, fin>>
    BY <1>7 DEF RecvDatos, Turno, EsMenor, Recorriendo
  <2>2. \A g \in readFD' : g # sckt => duenno[g] # duenno[i] /\ g \in Fds
    BY <1>0, <2>1 DEF DuennoUnico
  <2>3. \A g \in readFD' : g # sckt => leidos'[duenno[g]] = leidos[duenno[g]]
    BY <2>1, <2>2
  <2> QED
    BY <2>1, <2>3, ListosMarco DEF Listo, HayDatos
<1>8. ASSUME NEW i \in Fds, RecvError(i)
      PROVE  LeidosListos'
  <2>1. /\ fin' = fin \/ fin' = [fin EXCEPT ![duenno[i]] = "fin"]
        /\ readFD' = readFD \ {i} /\ Recorriendo
        /\ UNCHANGED <<duenno, aceptadas, llegadas, enviados, leidos, pc>>
    BY <1>8 DEF RecvError, Turno, Recorriendo
  <2>2. \A c : fin[c] # "no" => fin'[c] # "no"
    <3>1. CASE fin' = fin
      BY <3>1
    <3>2. CASE fin' = [fin EXCEPT ![duenno[i]] = "fin"]
      BY <3>2 DEF Invariante, TypeOK
    <3> QED
      BY <2>1, <3>1, <3>2
  <2> QED
    BY <2>1, <2>2, ListosMarco DEF Listo, HayDatos
<1>9. ASSUME NEW i \in Fds, RecvCierre(i)
      PROVE  LeidosListos'
  <2>1. /\ readFD' = readFD \ {i} /\ Recorriendo
        /\ UNCHANGED <<duenno, aceptadas, llegadas, enviados, leidos, fin>>
    BY <1>9 DEF RecvCierre, Turno, Recorriendo
  <2> QED
    BY <2>1, ListosMarco DEF Listo, HayDatos
<1>10. ASSUME NEW h \in Hilos, CreaHilo(h)
       PROVE  LeidosListos'
  <2>1. /\ UNCHANGED <<readFD, duenno, aceptadas, llegadas, leidos, enviados, fin>>
        /\ Recorriendo
    BY <1>10 DEF CreaHilo, Recorriendo
  <2> QED
    BY <2>1, ListosMarco DEF Listo, HayDatos
<1> QED
  BY <1>1, <1>2, <1>3, <1>4, <1>5, <1>6, <1>7, <1>8, <1>9, <1>10 DEF LanzarServidor

(* A thread closes only a descriptor the walk has not to come to.          *)
LEMMA ListosHilo ==
    ASSUME Invariante, LeidosListos, NEW p \in Procs,
           CerrarConexion(p) \/ (p \in Hilos /\ ManejaMensaje(p)) \/ Alarma
    PROVE  LeidosListos'
<1> USE DEF clientes, kernel, locales, mensaje, historia, Va
<1>0. /\ pc \in [Procs -> LugaresHilo \cup LugaresPrincipal] /\ principal \notin Hilos
      /\ principal \in Procs
      /\ Exclusion /\ duenno \in [Fds -> 0..MaxConns]
  BY ServidorAssumption DEF Invariante, Reparto, TypeOK, Procs
<1>1. CASE CerrarClose(p)
  <2>1. /\ Tiene(p) /\ duenno' = [duenno EXCEPT ![fd[p]] = Nadie]
        /\ UNCHANGED <<readFD, aceptadas, llegadas, leidos, enviados, fin>>
        /\ pc' = [pc EXCEPT ![p] = "clrFd"] /\ pc[p] = "close"
    BY <1>1 DEF CerrarClose, Tiene, EnCerrar
  <2>2. fd[p] \notin readFD
    BY <1>0, <2>1 DEF Exclusion
  <2>3. \A g \in readFD : duenno'[g] = duenno[g]
    BY <2>1, <2>2
  <2>4. Recorriendo' => Recorriendo
    BY <1>0, <2>1 DEF Recorriendo
  <2> QED
    BY <2>1, <2>3, <2>4, ListosMarco DEF Listo, HayDatos
<1>2. CASE ~CerrarClose(p)
  <2>1. /\ UNCHANGED <<readFD, duenno, aceptadas, llegadas, leidos, enviados, fin>>
        /\ Recorriendo' => Recorriendo
    <3> DEFINE Quieto == UNCHANGED <<readFD, duenno, aceptadas, llegadas, leidos,
                                     enviados, fin>>
    <3>1. CASE CerrarConexion(p)
      <4>1. Quieto
        BY <1>2, <3>1 DEF CerrarConexion, CerrarGetData, CerrarQuit,
           CerrarDeleteTempUser, CerrarCanal, CerrarDeleteFd
      <4>2. pc[p] \in {"getData", "quitBD", "delTemp", "canal", "clrFd"}
            /\ \E lugar : pc' = [pc EXCEPT ![p] = lugar]
        BY <1>2, <3>1 DEF CerrarConexion, CerrarGetData, CerrarQuit,
           CerrarDeleteTempUser, CerrarCanal, CerrarDeleteFd
      <4>3. Recorriendo' => Recorriendo
        BY <1>0, <4>2 DEF Recorriendo
      <4> QED
        BY <4>1, <4>3
    <3>2. CASE p \in Hilos /\ ManejaMensaje(p) /\ ~CerrarConexion(p)
      <4>1. Quieto
        BY <3>2 DEF ManejaMensaje, EjecutaOtro, EjecutaUser, UserDeleteTempUser,
           EjecutaQuit, Ejecuta, AddFd, Kill
      <4>2. \A q \in Procs : q # p => pc'[q] = pc[q]
        BY <1>0, <3>2 DEF ManejaMensaje, EjecutaOtro, EjecutaUser, UserDeleteTempUser,
           EjecutaQuit, Ejecuta, AddFd, Kill
      <4>3. Recorriendo' => Recorriendo
        <5>1. p # principal
          BY <1>0, <3>2
        <5>2. pc'[principal] = pc[principal]
          BY <1>0, <4>2, <5>1
        <5> QED
          BY <5>2 DEF Recorriendo
      <4> QED
        BY <4>1, <4>3
    <3>3. CASE Alarma
      BY <3>3 DEF Alarma, Recorriendo
    <3> QED
      BY <3>1, <3>2, <3>3
  <2> QED
    BY <2>1, ListosMarco DEF Listo, HayDatos
<1> QED
  BY <1>1, <1>2

(* select never gets a closed descriptor, and what the walk has still to   *)
(* read or accept is there to be taken.                                    *)
THEOREM SelectValidoSiempre == Spec => []SelectValido
<1>1. Init => LeidosListos
  BY DEF Init, LeidosListos
<1>2. Invariante /\ LeidosListos /\ [Next]_vars => LeidosListos'
  <2> SUFFICES ASSUME Invariante, LeidosListos, [Next]_vars
               PROVE  LeidosListos'
    OBVIOUS
  <2>1. CASE Clientes
    BY <2>1, ListosClientes
  <2>2. CASE LanzarServidor
    BY <2>2, ListosPrincipal, ListosHilo DEF Procs
  <2>3. CASE Alarma
    BY <2>3, ListosHilo DEF Procs
  <2>4. ASSUME NEW h \in Hilos, ManejaMensaje(h)
        PROVE  LeidosListos'
    BY <2>4, ListosHilo DEF Procs
  <2>5. CASE UNCHANGED vars
    BY <2>5 DEF vars, clientes, kernel, LeidosListos, Recorriendo, Listo, HayDatos
  <2> QED
    BY <2>1, <2>2, <2>3, <2>4, <2>5 DEF Next
<1>3. Invariante /\ LeidosListos => SelectValido
  BY DEF Invariante, Reparto, LeidosAbiertos, LeidosListos, SelectValido
<1> QED
  BY <1>1, <1>2, <1>3, InvarianteSiempre, PTL DEF Spec

-----------------------------------------------------------------------------
(* Steps that give nobody anything to read: whoever has a message, or is   *)
(* opening a connection, had it before.                                    *)

Abriendo == EnNueva \ {"nuevaAdd"}

ConservaLeer == \A f \in Fds : PorLeer(f)' => PorLeer(f) /\ duenno'[f] = duenno[f]

ConservaMensaje ==
    \A p \in Procs : ConMensaje(p)' =>
        /\ ConMensaje(p)
        /\ con'[p] = con[p] /\ sig'[p] = sig[p] /\ ult'[p] = ult[p]
        /\ fd'[p] = fd[p] /\ duenno'[fd[p]] = duenno[fd[p]]

ConservaNueva ==
    /\ Nueva(Abriendo)' => Nueva(Abriendo)
    /\ Nueva({"nuevaAdd"})' => pc[principal] \in {"nuevaTemp", "nuevaAdd"}
    /\ Nueva(Abriendo \cup {"nuevaAdd"})' =>
        fd'[principal] = fd[principal] /\ duenno'[fd[principal]] = duenno[fd[principal]]

Conserva == ConservaLeer /\ ConservaMensaje /\ ConservaNueva

LEMMA ConservaQuieto ==
    ASSUME UNCHANGED <<pc, fd, con, sig, ult, duenno, activeFD>>, readFD' \subseteq readFD
    PROVE  Conserva
BY DEF Conserva, ConservaLeer, ConservaMensaje, ConservaNueva, PorLeer, ConMensaje,
       Nueva, EnManosDePrincipal, Abriendo, EnNueva

LEMMA ConservaPrincipal ==
    ASSUME Invariante,
           \/ SetReadFD \/ EntraSelect \/ SelectListo \/ SelectInterrumpido
           \/ FinRecorrido \/ CanalNuevo \/ AceptarCanal \/ CanalFalla
           \/ NuevaDeleteTempUser \/ NuevaNewTempUser \/ DeleteFd \/ CreaHiloFalla
           \/ \E i \in Fds : RecvCierre(i)
    PROVE  Conserva
<1> USE DEF clientes, kernel, locales, mensaje, historia, Va, PorLeer, ConMensaje, Nueva,
        EnManosDePrincipal, Abriendo, EnNueva, Conserva, ConservaLeer, ConservaMensaje,
        ConservaNueva
<1>0. /\ pc \in [Procs -> LugaresHilo \cup LugaresPrincipal] /\ principal \in Procs
      /\ Exclusion /\ FueraDeSelect /\ fd \in [Procs -> Fds \cup {sckt}]
      /\ principal \notin Hilos /\ duenno \in [Fds -> 0..MaxConns]
      /\ con \in [Procs -> 0..MaxConns] /\ sig \in [Procs -> Nat] /\ ult \in [Procs -> Nat]
  BY ServidorAssumption DEF Invariante, Reparto, TypeOK, Procs
<1>1. CASE SetReadFD \/ EntraSelect \/ SelectListo \/ SelectInterrumpido \/ FinRecorrido
  BY <1>0, <1>1 DEF SetReadFD, EntraSelect, SelectListo, SelectInterrumpido, FinRecorrido
<1>2. CASE CanalNuevo \/ AceptarCanal \/ NuevaDeleteTempUser \/ NuevaNewTempUser
  <2>1. CASE CanalNuevo
    BY <1>0, <2>1 DEF CanalNuevo
  <2>2. CASE AceptarCanal \/ NuevaDeleteTempUser \/ NuevaNewTempUser
    BY <1>0, <2>2 DEF AceptarCanal, NuevaDeleteTempUser, NuevaNewTempUser
  <2> QED
    BY <1>2, <2>1, <2>2
<1>3. CASE DeleteFd
  BY <1>0, <1>3 DEF DeleteFd
<1>4. CASE CanalFalla \/ CreaHiloFalla
  <2>1. Tiene(principal) /\ pc[principal] \in {"saluda", "pthread_create"}
    BY <1>4 DEF CanalFalla, CreaHiloFalla, Tiene
  <2>2. fd[principal] \notin activeFD /\ fd[principal] \notin readFD
    BY <1>0, <2>1 DEF FueraDeSelect, Exclusion, EnCerrar
  <2>3. \A q \in Procs : Tiene(q) /\ fd[q] = fd[principal] => q = principal
    BY <1>0, <2>1 DEF Exclusion
  <2>4. /\ pc' = [pc EXCEPT ![principal] = "recorre"]
        /\ fd' = [fd EXCEPT ![principal] = sckt]
        /\ con' = [con EXCEPT ![principal] = Nadie]
        /\ sig' = [sig EXCEPT ![principal] = 1]
        /\ ult' = [ult EXCEPT ![principal] = 0]
        /\ duenno' = duenno \/ duenno' = [duenno EXCEPT ![fd[principal]] = Nadie]
        /\ UNCHANGED <<activeFD, readFD>>
    BY <1>4 DEF CanalFalla, CreaHiloFalla, Olvida
  <2>5. ConservaLeer
    <3> SUFFICES ASSUME NEW f \in Fds, PorLeer(f)'
                 PROVE  PorLeer(f) /\ duenno'[f] = duenno[f]
      OBVIOUS
    <3>1. f \in readFD \cup activeFD
      BY <2>4
    <3>2. f # fd[principal]
      BY <2>2, <3>1
    <3> QED
      BY <1>0, <2>2, <2>4, <3>1, <3>2
  <2>6. ConservaMensaje
    <3> SUFFICES ASSUME NEW p \in Procs, ConMensaje(p)'
                 PROVE  /\ ConMensaje(p)
                        /\ con'[p] = con[p] /\ sig'[p] = sig[p] /\ ult'[p] = ult[p]
                        /\ fd'[p] = fd[p] /\ duenno'[fd[p]] = duenno[fd[p]]
      OBVIOUS
    <3>1. pc'[principal] = "recorre"
      BY <1>0, <2>4
    <3>2. p # principal /\ pc[p] \in {"procesa", "bienvenida"} /\ p \in Hilos
      BY <1>0, <2>4, <3>1
    <3>3. fd[p] # fd[principal] /\ fd[p] \in Fds
      BY <1>0, <2>3, <3>2 DEF Tiene, Exclusion
    <3> QED
      BY <1>0, <2>4, <3>2, <3>3
  <2>7. ConservaNueva
    BY <1>0, <2>4
  <2> QED
    BY <2>5, <2>6, <2>7
<1>5. ASSUME NEW i \in Fds, RecvCierre(i)
      PROVE  Conserva
  <2>1. /\ pc[principal] = "recorre" /\ pc' = [pc EXCEPT ![principal] = "getData"]
        /\ fd' = [fd EXCEPT ![principal] = i]
        /\ readFD' = readFD \ {i}
        /\ UNCHANGED <<con, sig, ult, duenno, activeFD>>
    BY <1>5 DEF RecvCierre, Turno
  <2> QED
    BY <1>0, <2>1
<1> QED
  BY <1>1, <1>2, <1>3, <1>4, <1>5

LEMMA ConservaCerrar ==
    ASSUME Invariante, NEW p \in Procs, CerrarConexion(p) \/ (p \in Hilos /\ Kill(p))
    PROVE  Conserva
<1> USE DEF clientes, kernel, locales, mensaje, historia, Va, PorLeer, ConMensaje, Nueva,
        EnManosDePrincipal, Abriendo, EnNueva, Conserva, ConservaLeer, ConservaMensaje,
        ConservaNueva
<1>0. /\ pc \in [Procs -> LugaresHilo \cup LugaresPrincipal] /\ principal \in Procs
      /\ Exclusion /\ FueraDeSelect /\ fd \in [Procs -> Fds \cup {sckt}]
      /\ principal \notin Hilos /\ Procs = Hilos \cup {principal}
  BY ServidorAssumption DEF Invariante, Reparto, TypeOK, Procs
<1>1. CASE CerrarGetData(p) \/ CerrarQuit(p) \/ CerrarDeleteTempUser(p) \/ CerrarCanal(p)
  <2>1. /\ pc[p] \in {"getData", "quitBD", "delTemp", "canal"}
        /\ \E lugar \in {"quitBD", "delTemp", "canal", "close"} :
               pc' = [pc EXCEPT ![p] = lugar]
        /\ UNCHANGED <<fd, con, sig, ult, duenno, activeFD, readFD>>
    BY <1>1 DEF CerrarGetData, CerrarQuit, CerrarDeleteTempUser, CerrarCanal
  <2>2. PICK lugar \in {"quitBD", "delTemp", "canal", "close"} :
            pc' = [pc EXCEPT ![p] = lugar]
    BY <2>1
  <2> QED
    BY <1>0, <2>1, <2>2
<1>2. CASE CerrarClose(p)
  <2>1. /\ Tiene(p) /\ pc[p] = "close" /\ pc' = [pc EXCEPT ![p] = "clrFd"]
        /\ duenno' = [duenno EXCEPT ![fd[p]] = Nadie]
        /\ UNCHANGED <<fd, con, sig, ult, activeFD, readFD>>
    BY <1>2 DEF CerrarClose, Tiene, EnCerrar
  <2>2. fd[p] \notin readFD /\ (p # principal => fd[p] \notin activeFD)
    BY <1>0, <2>1 DEF Exclusion, FueraDeSelect
  <2>3. \A q \in Procs : Tiene(q) /\ fd[q] = fd[p] => q = p
    BY <1>0, <2>1 DEF Exclusion
  <2>4. ConservaLeer
    BY <1>0, <2>1, <2>2
  <2>5. \A q \in Procs : ConMensaje(q) \/ (q = principal /\ Nueva(Abriendo \cup {"nuevaAdd"}))
                         => Tiene(q)
    BY DEF Tiene
  <2>6. ConservaMensaje
    BY <1>0, <2>1, <2>3, <2>5
  <2>7. ConservaNueva
    BY <1>0, <2>1, <2>3, <2>5
  <2> QED
    BY <2>4, <2>6, <2>7
<1>3. CASE CerrarDeleteFd(p) \/ (p \in Hilos /\ Kill(p))
  <2>1. /\ pc[p] \in {"clrFd", "kill"}
        /\ \E lugar \in {"recorre", "libre"} : pc' = [pc EXCEPT ![p] = lugar]
        /\ fd' = [fd EXCEPT ![p] = sckt]
        /\ con' = [con EXCEPT ![p] = Nadie]
        /\ sig' = [sig EXCEPT ![p] = 1]
        /\ ult' = [ult EXCEPT ![p] = 0]
        /\ activeFD' \subseteq activeFD
        /\ p = principal => activeFD' = activeFD \ {fd[p]}
        /\ UNCHANGED <<duenno, readFD>>
    BY <1>0, <1>3 DEF CerrarDeleteFd, Kill, Olvida
  <2>2. PICK lugar \in {"recorre", "libre"} : pc' = [pc EXCEPT ![p] = lugar]
    BY <2>1
  <2>3. ConservaLeer
    BY <1>0, <2>1, <2>2
  <2>4. ConservaMensaje /\ ConservaNueva
    BY <1>0, <2>1, <2>2 DEF Invariante, TypeOK
  <2> QED
    BY <2>3, <2>4
<1> QED
  BY <1>1, <1>2, <1>3 DEF CerrarConexion

(* USER keeps its message to the end.                                      *)
LEMMA ConservaUser ==
    ASSUME Invariante, NEW h \in Hilos, UserDeleteTempUser(h)
    PROVE  Conserva
<1>1. /\ pc \in [Procs -> LugaresHilo \cup LugaresPrincipal] /\ h \in Procs
      /\ h # principal /\ principal \in Procs /\ principal \notin Hilos
  BY ServidorAssumption DEF Invariante, TypeOK, Procs
<1>2. /\ pc[h] = "bienvenida" /\ pc' = [pc EXCEPT ![h] = "procesa"]
      /\ UNCHANGED <<fd, con, sig, ult, duenno, activeFD, readFD>>
  BY DEF UserDeleteTempUser, Va, kernel, locales, mensaje
<1> QED
  BY <1>1, <1>2 DEF Conserva, ConservaLeer, ConservaMensaje, ConservaNueva, PorLeer,
     ConMensaje, Nueva, EnManosDePrincipal, Abriendo, EnNueva

(* The steps that take part in neither of the two counts below.            *)
Neutral ==
    \/ Clientes
    \/ SetReadFD \/ EntraSelect \/ SelectListo \/ SelectInterrumpido \/ FinRecorrido
    \/ AceptarFalla \/ CanalNuevo \/ AceptarCanal \/ CanalFalla \/ DeleteFd
    \/ CreaHiloFalla
    \/ \E i \in Fds : RecvError(i) \/ RecvCierre(i)
    \/ \E p \in Procs : \/ CerrarGetData(p) \/ CerrarCanal(p) \/ CerrarClose(p)
                       \/ CerrarDeleteFd(p)
    \/ \E h \in Hilos : Kill(h)
    \/ Alarma
    \/ UNCHANGED vars

LEMMA NeutralConserva ==
    ASSUME Invariante, Neutral
    PROVE  Conserva /\ UNCHANGED <<aceptadas, hechos, cortados, guion, temps, bd, recibidos>>
<1> USE DEF clientes, kernel, locales, mensaje, historia, Va
<1>1. CASE Clientes \/ AceptarFalla \/ Alarma \/ UNCHANGED vars
           \/ \E i \in Fds : RecvError(i)
  <2>1. UNCHANGED <<pc, fd, con, sig, ult, duenno, activeFD>> /\ readFD' \subseteq readFD
    BY <1>1 DEF Clientes, Conecta, Envia, Desconecta, AceptarFalla, Alarma, RecvError,
       Turno, vars
  <2> QED
    BY <1>1, <2>1, ConservaQuieto DEF Clientes, Conecta, Envia, Desconecta,
       AceptarFalla, Alarma, RecvError, vars
<1>2. CASE SetReadFD \/ EntraSelect \/ SelectListo \/ SelectInterrumpido \/ FinRecorrido
           \/ CanalNuevo \/ AceptarCanal \/ CanalFalla \/ DeleteFd \/ CreaHiloFalla
           \/ \E i \in Fds : RecvCierre(i)
  <2>1. Conserva
    BY <1>2, ConservaPrincipal
  <2> QED
    BY <1>2, <2>1 DEF SetReadFD, EntraSelect, SelectListo, SelectInterrumpido,
       FinRecorrido, CanalNuevo, AceptarCanal, CanalFalla, DeleteFd, CreaHiloFalla, RecvCierre
<1>3. ASSUME NEW p \in Procs,
             \/ CerrarGetData(p) \/ CerrarCanal(p) \/ CerrarClose(p) \/ CerrarDeleteFd(p)
             \/ p \in Hilos /\ Kill(p)
      PROVE  Conserva /\ UNCHANGED <<aceptadas, hechos, cortados, guion, temps, bd, recibidos>>
  <2>1. Conserva
    BY <1>3, ConservaCerrar DEF CerrarConexion
  <2> QED
    BY <1>3, <2>1 DEF CerrarGetData, CerrarCanal, CerrarClose, CerrarDeleteFd, Kill
<1> QED
  BY <1>1, <1>2, <1>3 DEF Neutral, Procs

(* The others, one by one.                                                 *)
LEMMA PasoNoNeutral ==
    ASSUME [Next]_vars, ~Neutral
    PROVE  \/ \E f \in Fds : AceptarConexion(f)
           \/ NuevaDeleteTempUser \/ NuevaNewTempUser \/ NuevaAddFd
           \/ \E i \in Fds : RecvDatos(i)
           \/ \E h \in Hilos : \/ CreaHilo(h) \/ EjecutaOtro(h) \/ EjecutaUser(h)
                               \/ UserDeleteTempUser(h) \/ EjecutaQuit(h) \/ AddFd(h)
           \/ \E p \in Procs : CerrarQuit(p) \/ CerrarDeleteTempUser(p)
BY DEF Next, LanzarServidor, ManejaMensaje, CerrarConexion, Neutral, Procs

-----------------------------------------------------------------------------
(* Cuentas: of what was received, all that came whole is executed or in    *)
(* somebody's message.                                                     *)

(* What the counts say of connection c is what they said.                  *)
Intacta(c) ==
    /\ guion' = guion
    /\ hechos'[c] = hechos[c]
    /\ cortados'[c] = cortados[c]
    /\ recibidos'[c] = recibidos[c]

LEMMA IntactaIgual ==
    ASSUME NEW c \in Conns, Intacta(c)
    PROVE  /\ EnOrden(c)' <=> EnOrden(c)
           /\ Cortes(c)' <=> Cortes(c)
           /\ AlDia(c)' <=> AlDia(c)
           /\ SinUsar(c)' <=> SinUsar(c)
  BY DEF Intacta, EnOrden, Cortes, AlDia, Hasta, Hechos, SinUsar

LEMMA MensajeIgual ==
    ASSUME NEW c \in Conns, Intacta(c), NEW p \in Procs, sig'[p] = sig[p], ult'[p] = ult[p]
    PROVE  MensajeDe(p, c)' <=> MensajeDe(p, c)
  BY DEF Intacta, MensajeDe, Hasta, Hechos

(* The commands of a client are numbered from one.                         *)
LEMMA Numeradas ==
    ASSUME TypeOK, NEW c \in Conns
    PROVE  /\ DOMAIN guion[c] \subseteq Nat \ {0}
           /\ cortados[c] \subseteq Nat
           /\ hechos[c] \in Seq(Nat)
           /\ recibidos[c] \in Nat
<1>1. DOMAIN guion[c] \subseteq Nat \ {0}
  <2>1. DOMAIN guion[c] = 1..Len(guion[c]) /\ Len(guion[c]) \in Nat
    BY GuionFinito
  <2> QED
    BY <2>1
<1>2. cortados[c] \in SUBSET Nat
  BY DEF TypeOK
<1> QED
  BY <1>1, <1>2 DEF TypeOK

(* One more command executed, the last one sent so far.                    *)
LEMMA HechosMas ==
    ASSUME NEW s \in Seq(Nat), NEW k \in Nat
    PROVE  /\ {Append(s, k)[i] : i \in DOMAIN Append(s, k)} = {s[i] : i \in DOMAIN s} \cup {k}
           /\ /\ \A i, j \in DOMAIN s : i < j => s[i] < s[j]
              /\ \A i \in DOMAIN s : s[i] < k
              => \A i, j \in DOMAIN Append(s, k) :
                     i < j => Append(s, k)[i] < Append(s, k)[j]
<1> DEFINE t == Append(s, k)
           n == Len(s)
<1>1. /\ n \in Nat /\ DOMAIN s = 1..n /\ DOMAIN t = 1..(n + 1)
      /\ \A i \in 1..n : t[i] = s[i] /\ s[i] \in Nat
      /\ t[n + 1] = k
  BY DEF t, n
<1> HIDE DEF t, n
<1>2. {t[i] : i \in DOMAIN t} = {s[i] : i \in DOMAIN s} \cup {k}
  <2>1. \A i \in 1..(n + 1) : i \in 1..n \/ i = n + 1
    BY <1>1
  <2>2. ASSUME NEW x \in {t[i] : i \in DOMAIN t}
        PROVE  x \in {s[i] : i \in DOMAIN s} \cup {k}
    BY <1>1, <2>1, <2>2
  <2>3. ASSUME NEW x \in {s[i] : i \in DOMAIN s} \cup {k}
        PROVE  x \in {t[i] : i \in DOMAIN t}
    <3>1. n + 1 \in 1..(n + 1) /\ 1..n \subseteq 1..(n + 1)
      BY <1>1
    <3> QED
      BY <1>1, <2>3, <3>1
  <2> QED
    BY <2>2, <2>3
<1>3. ASSUME \A i, j \in DOMAIN s : i < j => s[i] < s[j], \A i \in DOMAIN s : s[i] < k
      PROVE  \A i, j \in DOMAIN t : i < j => t[i] < t[j]
  <2> SUFFICES ASSUME NEW i \in 1..(n + 1), NEW j \in 1..(n + 1), i < j
               PROVE  t[i] < t[j]
    BY <1>1
  <2>1. i \in 1..n
    BY <1>1
  <2>2. CASE j \in 1..n
    BY <1>1, <1>3, <2>1, <2>2
  <2>3. CASE j = n + 1
    BY <1>1, <1>3, <2>1, <2>3
  <2> QED
    BY <1>1, <2>2, <2>3
<1> QED
  BY <1>2, <1>3 DEF t

(* The step that changes no count, and gives nobody a message.             *)
LEMMA CuentasMarco ==
    ASSUME Cuentas, Conserva, UNCHANGED <<aceptadas, hechos, cortados, guion, recibidos>>
    PROVE  Cuentas'
<1>0. \A c \in Conns : Intacta(c)
  BY DEF Intacta
<1>1. \A c \in Conns : EnOrden(c)' /\ Cortes(c)'
  BY <1>0, IntactaIgual DEF Cuentas
<1>2. ASSUME NEW f \in Fds, NEW c \in Conns, PorLeer(f)', duenno'[f] = c
      PROVE  AlDia(c)'
  <2>1. PorLeer(f) /\ duenno[f] = c
    BY <1>2 DEF Conserva, ConservaLeer
  <2> QED
    BY <1>0, <2>1, IntactaIgual DEF Cuentas
<1>3. ASSUME NEW p \in Procs, NEW c \in Conns, ConMensaje(p)', con'[p] = c
      PROVE  MensajeDe(p, c)'
  <2>1. ConMensaje(p) /\ con[p] = c /\ sig'[p] = sig[p] /\ ult'[p] = ult[p]
    BY <1>3 DEF Conserva, ConservaMensaje
  <2> QED
    BY <1>0, <2>1, MensajeIgual DEF Cuentas
<1>4. ASSUME NEW c \in Conns,
             c > aceptadas' \/ (Nueva(EnNueva)' /\ duenno'[fd'[principal]] = c)
      PROVE  SinUsar(c)'
  <2>1. CASE c > aceptadas
    BY <1>0, <2>1, IntactaIgual DEF Cuentas
  <2>2. CASE Nueva(EnNueva)' /\ duenno'[fd'[principal]] = c
    <3>1. Nueva(Abriendo \cup {"nuevaAdd"})'
      BY <2>2 DEF Nueva, Abriendo
    <3>2. Nueva(EnNueva) /\ duenno[fd[principal]] = c
      BY <2>2, <3>1 DEF Nueva, Abriendo, EnNueva, Conserva, ConservaNueva
    <3> QED
      BY <1>0, <3>2, IntactaIgual DEF Cuentas
  <2> QED
    BY <1>4, <2>1, <2>2
<1> QED
  BY <1>1, <1>2, <1>3, <1>4 DEF Cuentas

LEMMA CuentasAcepta ==
    ASSUME Invariante, Cuentas, NEW f \in Fds, AceptarConexion(f)
    PROVE  Cuentas'
<1>1. /\ aceptadas \in Nat /\ aceptadas + 1 \in Conns
      /\ duenno \in [Fds -> 0..MaxConns] /\ pc \in [Procs -> LugaresHilo \cup LugaresPrincipal]
      /\ fd \in [Procs -> Fds \cup {sckt}] /\ principal \in Procs /\ principal \notin Hilos
      /\ ActivosAbiertos /\ LeidosAbiertos
  <2>1. aceptadas < llegadas /\ llegadas \in 0..MaxConns /\ aceptadas \in 0..llegadas
    BY DEF Invariante, TypeOK, AceptarConexion
  <2>2. aceptadas \in Nat /\ aceptadas + 1 \in Conns
    BY <2>1, ServidorAssumption DEF Conns
  <2> QED
    BY <2>2, ServidorAssumption DEF Invariante, TypeOK, Reparto, Procs
<1>2. PICK a \in Conns : a = aceptadas + 1
  BY <1>1
<1>3. /\ duenno[f] = Nadie /\ duenno' = [duenno EXCEPT ![f] = a]
      /\ fd' = [fd EXCEPT ![principal] = f] /\ aceptadas' = a
      /\ pc' = [pc EXCEPT ![principal] = IF ssl THEN "canalNuevo" ELSE "nueva"]
      /\ readFD' \subseteq readFD /\ pc[principal] = "recorre"
      /\ UNCHANGED <<activeFD, con, sig, ult, hechos, cortados, guion, recibidos>>
  BY <1>2 DEF AceptarConexion, Turno, EsMenor, mensaje, clientes, historia, Va
<1>4. f \notin readFD /\ f \notin activeFD
  BY <1>1, <1>3, FdNoEsSckt DEF ActivosAbiertos, LeidosAbiertos
<1>5. pc'[principal] \in {"canalNuevo", "nueva"} /\ fd'[principal] = f /\ duenno'[f] = a
  BY <1>1, <1>3
<1>6. \A c \in Conns : Intacta(c)
  BY <1>3 DEF Intacta
<1>7. \A c \in Conns : EnOrden(c)' /\ Cortes(c)'
  BY <1>6, IntactaIgual DEF Cuentas
<1>8. ASSUME NEW g \in Fds, NEW c \in Conns, PorLeer(g)', duenno'[g] = c
      PROVE  AlDia(c)'
  <2>1. g # f /\ PorLeer(g)
    BY <1>3, <1>4, <1>8 DEF PorLeer, EnManosDePrincipal
  <2>2. duenno[g] = c
    BY <1>1, <1>3, <1>8, <2>1
  <2> QED
    BY <1>6, <2>1, <2>2, IntactaIgual DEF Cuentas
<1>9. ASSUME NEW p \in Procs, NEW c \in Conns, ConMensaje(p)', con'[p] = c
      PROVE  MensajeDe(p, c)'
  <2>1. ConMensaje(p) /\ con[p] = c
    BY <1>1, <1>3, <1>5, <1>9 DEF ConMensaje
  <2> QED
    BY <1>3, <1>6, <2>1, MensajeIgual DEF Cuentas
<1>10. ASSUME NEW c \in Conns,
              c > aceptadas' \/ (Nueva(EnNueva)' /\ duenno'[fd'[principal]] = c)
       PROVE  SinUsar(c)'
  <2>1. c \in Nat /\ a \in Nat /\ a > aceptadas
    BY <1>1, <1>2, ServidorAssumption DEF Conns
  <2>2. c > aceptadas
    BY <1>1, <1>3, <1>5, <1>10, <2>1
  <2> QED
    BY <1>6, <2>2, IntactaIgual DEF Cuentas
<1> QED
  BY <1>7, <1>8, <1>9, <1>10 DEF Cuentas

(* A new connection comes under select with nothing received.              *)
LEMMA CuentasNuevaAdd ==
    ASSUME Invariante, Cuentas, NuevaAddFd
    PROVE  Cuentas'
<1>1. /\ pc \in [Procs -> LugaresHilo \cup LugaresPrincipal]
      /\ fd \in [Procs -> Fds \cup {sckt}] /\ principal \in Procs /\ principal \notin Hilos
      /\ con \in [Procs -> 0..MaxConns] /\ sig \in [Procs -> Nat] /\ ult \in [Procs -> Nat]
      /\ TypeOK
  BY ServidorAssumption DEF Invariante, TypeOK, Procs
<1>2. /\ activeFD' = activeFD \cup {fd[principal]} /\ pc[principal] = "nuevaAdd"
      /\ pc' = [pc EXCEPT ![principal] = "recorre"]
      /\ con' = [con EXCEPT ![principal] = Nadie]
      /\ sig' = [sig EXCEPT ![principal] = 1]
      /\ ult' = [ult EXCEPT ![principal] = 0]
      /\ UNCHANGED <<aceptadas, duenno, recibidos, readFD, hechos, cortados, guion>>
  BY DEF NuevaAddFd, Va, Olvida, kernel, clientes, historia
<1>3. pc'[principal] = "recorre"
  BY <1>1, <1>2
<1>4. \A c \in Conns : Intacta(c)
  BY <1>2 DEF Intacta
<1>5. \A c \in Conns : EnOrden(c)' /\ Cortes(c)'
  BY <1>4, IntactaIgual DEF Cuentas
<1>6. ASSUME NEW g \in Fds, NEW c \in Conns, PorLeer(g)', duenno'[g] = c
      PROVE  AlDia(c)'
  <2>1. CASE g = fd[principal]
    <3>1. SinUsar(c)
      BY <1>2, <1>6, <2>1 DEF Cuentas, Nueva, EnNueva
    <3>2. {k \in DOMAIN guion[c] : 2 * k < 0 + 1} = {}
      BY <1>1, Numeradas
    <3>3. Hechos(c) = {}
      BY <3>1 DEF SinUsar, Hechos
    <3>4. AlDia(c)
      BY <3>1, <3>2, <3>3 DEF AlDia, Hasta, SinUsar
    <3> QED
      BY <1>4, <3>4, IntactaIgual
  <2>2. CASE g # fd[principal]
    <3>1. PorLeer(g)
      BY <1>2, <1>6, <2>2 DEF PorLeer, EnManosDePrincipal
    <3> QED
      BY <1>2, <1>4, <1>6, <3>1, IntactaIgual DEF Cuentas
  <2> QED
    BY <2>1, <2>2
<1>7. ASSUME NEW p \in Procs, NEW c \in Conns, ConMensaje(p)', con'[p] = c
      PROVE  MensajeDe(p, c)'
  <2>1. p # principal /\ ConMensaje(p)
    BY <1>1, <1>2, <1>3, <1>7 DEF ConMensaje
  <2>2. con[p] = c /\ sig'[p] = sig[p] /\ ult'[p] = ult[p]
    BY <1>1, <1>2, <1>7, <2>1
  <2> QED
    BY <1>4, <2>1, <2>2, MensajeIgual DEF Cuentas
<1>8. ASSUME NEW c \in Conns,
             c > aceptadas' \/ (Nueva(EnNueva)' /\ duenno'[fd'[principal]] = c)
      PROVE  SinUsar(c)'
  <2>1. c > aceptadas
    BY <1>2, <1>3, <1>8 DEF Nueva, EnNueva
  <2> QED
    BY <1>4, <2>1, IntactaIgual DEF Cuentas
<1> QED
  BY <1>5, <1>6, <1>7, <1>8 DEF Cuentas

(* A message is all that was received now; what it cuts at its end is      *)
(* marked, and what it cuts at its beginning was marked before.            *)
LEMMA MensajeNuevo ==
    ASSUME TypeOK, NEW c \in Conns, Cortes(c), EnOrden(c), AlDia(c), NEW hasta \in Nat,
           recibidos[c] < hasta, recibidos'[c] = hasta, guion' = guion,
           hechos'[c] = hechos[c],
           cortados'[c] = cortados[c] \cup {k \in DOMAIN guion[c] : hasta = 2 * k - 1}
    PROVE  /\ EnOrden(c)' /\ Cortes(c)'
           /\ \A p \in Procs : sig'[p] = recibidos[c] + 1 /\ ult'[p] = hasta
                               => MensajeDe(p, c)'
<1> DEFINE r == recibidos[c]
           D == DOMAIN guion[c]
           K == cortados[c]
<1>1. D \subseteq Nat \ {0} /\ K \subseteq Nat /\ r \in Nat
  BY Numeradas
<1>2. EnOrden(c)'
  BY DEF EnOrden
<1>3. Cortes(c)'
  <2>1. \A k \in K : 2 * k - 1 <= hasta
    BY <1>1 DEF Cortes
  <2> QED
    BY <1>1, <2>1 DEF Cortes
<1>4. Hechos(c)' = {k \in D : 2 * k < r + 1} \ cortados'[c]
  <2>1. Hechos(c)' = {k \in D : 2 * k < r + 1} \ K
    BY DEF AlDia, Hasta, Hechos
  <2>2. \A k \in D : 2 * k < r + 1 => hasta # 2 * k - 1
    BY <1>1
  <2> QED
    BY <2>1, <2>2
<1>5. \A k \in cortados'[c] : 2 * k <= r + 1 \/ 2 * k > hasta
  BY <1>1 DEF Cortes
<1>6. \A k \in D : r + 1 = 2 * k => k \in cortados'[c]
  BY <1>1 DEF Cortes
<1>7. ASSUME NEW p \in Procs, sig'[p] = r + 1, ult'[p] = hasta
      PROVE  MensajeDe(p, c)'
  BY <1>1, <1>4, <1>5, <1>6, <1>7 DEF MensajeDe, Hasta
<1> QED
  BY <1>2, <1>3, <1>7

(* A read of c that takes its socket to piece r.                           *)
Recibe(c, r) ==
    LET hasta == IF r < recibidos[c] + MaxBuffer THEN r ELSE recibidos[c] + MaxBuffer
    IN  /\ recibidos' = [recibidos EXCEPT ![c] = hasta]
        /\ ult' = [ult EXCEPT ![principal] = hasta]
        /\ cortados' = [cortados EXCEPT
               ![c] = @ \cup {k \in DOMAIN guion[c] : hasta = 2 * k - 1}]

LEMMA CuentasRecv ==
    ASSUME Invariante, Cuentas, NEW i \in Fds, RecvDatos(i)
    PROVE  Cuentas'
<1>1. /\ pc \in [Procs -> LugaresHilo \cup LugaresPrincipal]
      /\ fd \in [Procs -> Fds \cup {sckt}] /\ principal \in Procs /\ principal \notin Hilos
      /\ con \in [Procs -> 0..MaxConns] /\ sig \in [Procs -> Nat] /\ ult \in [Procs -> Nat]
      /\ recibidos \in [Conns -> Nat] /\ hechos \in [Conns -> Seq(Nat)]
      /\ cortados \in [Conns -> SUBSET Nat]
      /\ DuennoUnico /\ DuennoAceptado /\ TypeOK /\ MaxBuffer \in Nat \ {0}
  BY ServidorAssumption DEF Invariante, TypeOK, Reparto, Procs
<1>2. i \in readFD /\ pc[principal] = "recorre" /\ duenno[i] # Nadie /\ PorRecibir(duenno[i])
  BY DEF RecvDatos, Turno, EsMenor
<1>3. PorLeer(i) /\ duenno[i] \in Conns
  BY <1>2, PorLeerAbierta DEF PorLeer
<1>12. PICK c \in Conns : c = duenno[i]
  BY <1>3
<1>4. PICK hasta \in Nat :
        /\ recibidos[c] < hasta
        /\ recibidos' = [recibidos EXCEPT ![c] = hasta]
        /\ ult' = [ult EXCEPT ![principal] = hasta]
        /\ cortados' = [cortados EXCEPT
               ![c] = @ \cup {k \in DOMAIN guion[c] : hasta = 2 * k - 1}]
  <2>1. PICK r \in Registros(c) : Recibe(c, r)
    <3>1. \E r \in Registros(duenno[i]) : Recibe(duenno[i], r)
      BY DEF RecvDatos, Recibe
    <3> QED
      BY <1>12, <3>1
  <2>2. r \in Nat /\ recibidos[c] < r
    BY <1>1, <1>2, <1>12, RegistroLeido
  <2>3. recibidos[c] \in Nat
    BY <1>1
  <2> DEFINE h == IF r < recibidos[c] + MaxBuffer THEN r ELSE recibidos[c] + MaxBuffer
  <2>4. h \in Nat /\ recibidos[c] < h
    BY <1>1, <2>2, <2>3
  <2>5. /\ recibidos' = [recibidos EXCEPT ![c] = h]
        /\ ult' = [ult EXCEPT ![principal] = h]
        /\ cortados' = [cortados EXCEPT ![c] = @ \cup {k \in DOMAIN guion[c] : h = 2 * k - 1}]
    BY <2>1 DEF Recibe
  <2> HIDE DEF h
  <2> QED
    BY <2>4, <2>5
<1>5. /\ fd' = [fd EXCEPT ![principal] = i]
      /\ con' = [con EXCEPT ![principal] = c]
      /\ sig' = [sig EXCEPT ![principal] = recibidos[c] + 1]
      /\ pc' = [pc EXCEPT ![principal] = "deleteFd"]
      /\ readFD' \subseteq readFD /\ i \notin readFD'
      /\ UNCHANGED <<activeFD, duenno, hechos, aceptadas, guion>>
  BY <1>12 DEF RecvDatos, Turno, Va, clientes
<1>6. pc'[principal] = "deleteFd" /\ fd'[principal] = i
  BY <1>1, <1>5
<1>7. \A d \in Conns : d # c => Intacta(d)
  BY <1>1, <1>4, <1>5 DEF Intacta
<1>8. /\ EnOrden(c)' /\ Cortes(c)'
      /\ \A p \in Procs : sig'[p] = recibidos[c] + 1 /\ ult'[p] = hasta => MensajeDe(p, c)'
  <2>1. EnOrden(c) /\ Cortes(c) /\ AlDia(c)
    BY <1>3, <1>12 DEF Cuentas
  <2>2. /\ recibidos'[c] = hasta /\ hechos'[c] = hechos[c]
        /\ cortados'[c] = cortados[c] \cup {k \in DOMAIN guion[c] : hasta = 2 * k - 1}
    BY <1>1, <1>4, <1>5
  <2> QED
    BY <1>1, <1>4, <1>5, <2>1, <2>2, MensajeNuevo
<1>9. ASSUME NEW g \in Fds, NEW d \in Conns, PorLeer(g)', duenno'[g] = d
      PROVE  AlDia(d)'
  <2>1. g # i
    <3>1. EnManosDePrincipal(i)'
      BY <1>6 DEF EnManosDePrincipal
    <3> QED
      BY <1>5, <1>9, <3>1 DEF PorLeer
  <2>2. PorLeer(g) /\ duenno[g] = d
    BY <1>2, <1>5, <1>9 DEF PorLeer, EnManosDePrincipal
  <2>3. d # c
    BY <1>1, <1>2, <1>12, <2>1, <2>2 DEF DuennoUnico
  <2> QED
    BY <1>7, <2>2, <2>3, IntactaIgual DEF Cuentas
<1>10. ASSUME NEW p \in Procs, NEW d \in Conns, ConMensaje(p)', con'[p] = d
       PROVE  MensajeDe(p, d)'
  <2>1. CASE p = principal
    <3>1. sig'[p] = recibidos[c] + 1 /\ ult'[p] = hasta /\ d = c
      BY <1>1, <1>4, <1>5, <1>10, <2>1
    <3> QED
      BY <1>8, <3>1
  <2>2. CASE p # principal
    <3>1. ConMensaje(p) /\ con[p] = d /\ sig'[p] = sig[p] /\ ult'[p] = ult[p]
      BY <1>1, <1>4, <1>5, <1>10, <2>2 DEF ConMensaje
    <3>2. d # c
      <4>1. ~PorLeer(fd[p]) /\ \A f \in Fds : duenno[f] = con[p] => f = fd[p]
        BY <3>1, ConMensajeAparte
      <4> QED
        BY <1>3, <1>12, <3>1, <4>1
    <3> QED
      BY <1>7, <3>1, <3>2, MensajeIgual DEF Cuentas
  <2> QED
    BY <2>1, <2>2
<1>11. ASSUME NEW d \in Conns,
              d > aceptadas' \/ (Nueva(EnNueva)' /\ duenno'[fd'[principal]] = d)
       PROVE  SinUsar(d)'
  <2>1. d > aceptadas
    BY <1>5, <1>6, <1>11 DEF Nueva, EnNueva
  <2>2. d # c
    <3>1. c <= aceptadas /\ aceptadas \in 0..llegadas /\ llegadas \in 0..MaxConns
      BY <1>1, <1>12 DEF DuennoAceptado, TypeOK
    <3> QED
      BY <2>1, <3>1, ServidorAssumption DEF Conns
  <2> QED
    BY <1>7, <2>1, <2>2, IntactaIgual DEF Cuentas
<1> QED
  BY <1>7, <1>8, <1>9, <1>10, <1>11, IntactaIgual DEF Cuentas

(* The thread gets the message as it was read.                             *)
LEMMA CuentasCreaHilo ==
    ASSUME Invariante, Cuentas, NEW h \in Hilos, CreaHilo(h)
    PROVE  Cuentas'
<1>1. /\ pc \in [Procs -> LugaresHilo \cup LugaresPrincipal]
      /\ fd \in [Procs -> Fds \cup {sckt}] /\ principal \in Procs /\ h # principal
      /\ h \in Procs
      /\ con \in [Procs -> 0..MaxConns] /\ sig \in [Procs -> Nat] /\ ult \in [Procs -> Nat]
      /\ FueraDeSelect
  BY ServidorAssumption DEF Invariante, TypeOK, Reparto, Procs
<1>2. /\ pc[principal] = "pthread_create"
      /\ pc' = [pc EXCEPT ![h] = "procesa", ![principal] = "recorre"]
      /\ con' = [con EXCEPT ![h] = con[principal], ![principal] = Nadie]
      /\ sig' = [sig EXCEPT ![h] = sig[principal], ![principal] = 1]
      /\ ult' = [ult EXCEPT ![h] = ult[principal], ![principal] = 0]
      /\ UNCHANGED <<aceptadas, duenno, recibidos, activeFD, readFD, hechos, cortados, guion>>
  BY DEF CreaHilo, kernel, clientes, historia
<1>3. pc'[principal] = "recorre" /\ ConMensaje(principal)
  BY <1>1, <1>2 DEF ConMensaje
<1>4. \A c \in Conns : Intacta(c)
  BY <1>2 DEF Intacta
<1>5. \A c \in Conns : EnOrden(c)' /\ Cortes(c)'
  BY <1>4, IntactaIgual DEF Cuentas
<1>6. ASSUME NEW g \in Fds, NEW c \in Conns, PorLeer(g)', duenno'[g] = c
      PROVE  AlDia(c)'
  <2>1. PorLeer(g)
    <3>1. fd[principal] \notin activeFD
      BY <1>1, <1>2 DEF FueraDeSelect, Tiene, EnCerrar
    <3> QED
      BY <1>2, <1>6, <3>1 DEF PorLeer, EnManosDePrincipal
  <2> QED
    BY <1>2, <1>4, <1>6, <2>1, IntactaIgual DEF Cuentas
<1>7. ASSUME NEW p \in Procs, NEW c \in Conns, ConMensaje(p)', con'[p] = c
      PROVE  MensajeDe(p, c)'
  <2>1. p # principal
    BY <1>3, <1>7 DEF ConMensaje
  <2>2. CASE p = h
    <3>1. con[principal] = c /\ sig'[h] = sig[principal] /\ ult'[h] = ult[principal]
      BY <1>1, <1>2, <1>7, <2>2
    <3>2. MensajeDe(principal, c)
      BY <1>1, <1>3, <3>1 DEF Cuentas
    <3> QED
      BY <1>4, <2>2, <3>1, <3>2 DEF MensajeDe, Hasta, Hechos, Intacta
  <2>3. CASE p # h
    <3>1. ConMensaje(p) /\ con[p] = c /\ sig'[p] = sig[p] /\ ult'[p] = ult[p]
      BY <1>1, <1>2, <1>7, <2>1, <2>3 DEF ConMensaje
    <3> QED
      BY <1>4, <3>1, MensajeIgual DEF Cuentas
  <2> QED
    BY <2>2, <2>3
<1>8. ASSUME NEW c \in Conns,
             c > aceptadas' \/ (Nueva(EnNueva)' /\ duenno'[fd'[principal]] = c)
      PROVE  SinUsar(c)'
  <2>1. c > aceptadas
    BY <1>2, <1>3, <1>8 DEF Nueva, EnNueva
  <2> QED
    BY <1>4, <2>1, IntactaIgual DEF Cuentas
<1> QED
  BY <1>5, <1>6, <1>7, <1>8 DEF Cuentas

(* A whole command goes from what is left of the message to what is done.  *)
LEMMA MensajeEntera ==
    ASSUME TypeOK, NEW h \in Procs, NEW c \in Conns, MensajeDe(h, c), EnOrden(c), Cortes(c),
           NEW k \in DOMAIN guion[c], sig[h] = 2 * k - 1, sig[h] < ult[h],
           sig'[h] = sig[h] + 2, ult'[h] = ult[h], recibidos'[c] = recibidos[c],
           guion' = guion, cortados'[c] = cortados[c], hechos'[c] = Append(hechos[c], k)
    PROVE  /\ MensajeDe(h, c)' /\ EnOrden(c)' /\ Cortes(c)'
           /\ \A i \in DOMAIN hechos[c] : hechos[c][i] < k
<1> DEFINE D == DOMAIN guion[c]
           K == cortados[c]
<1>1. /\ D \subseteq Nat \ {0} /\ K \subseteq Nat /\ hechos[c] \in Seq(Nat)
      /\ sig[h] \in Nat /\ ult[h] \in Nat
  BY Numeradas DEF TypeOK
<1>2. k \in Nat \ {0} /\ k \notin K
  <2>1. k \in Nat \ {0}
    BY <1>1
  <2>2. \A j \in K : 2 * j <= sig[h] \/ 2 * j > ult[h]
    BY DEF MensajeDe
  <2> QED
    BY <1>1, <2>1, <2>2
<1>3. Hechos(c) = {j \in D : 2 * j < 2 * k - 1} \ K
  BY DEF MensajeDe, Hasta
<1>4. ASSUME NEW i \in DOMAIN hechos[c]
      PROVE  hechos[c][i] < k
  <2>1. hechos[c][i] \in Hechos(c)
    BY DEF Hechos
  <2>2. PICK j : j = hechos[c][i]
    OBVIOUS
  <2>3. j \in D /\ 2 * j < 2 * k - 1
    BY <1>3, <2>1, <2>2
  <2>4. j \in Nat
    BY <1>1, <2>3
  <2> QED
    BY <1>2, <2>2, <2>3, <2>4
<1>5. Hechos(c)' = Hechos(c) \cup {k}
  <2>1. {Append(hechos[c], k)[i] : i \in DOMAIN Append(hechos[c], k)} =
            {hechos[c][i] : i \in DOMAIN hechos[c]} \cup {k}
    BY <1>1, <1>2, HechosMas
  <2>2. Hechos(c)' = {Append(hechos[c], k)[i] : i \in DOMAIN Append(hechos[c], k)}
    BY Zenon DEF Hechos
  <2> QED
    BY <2>1, <2>2 DEF Hechos
<1>6. EnOrden(c)'
  <2>1. \A i, j \in DOMAIN hechos[c] : i < j => hechos[c][i] < hechos[c][j]
    BY DEF EnOrden
  <2>2. \A i, j \in DOMAIN Append(hechos[c], k) :
            i < j => Append(hechos[c], k)[i] < Append(hechos[c], k)[j]
    BY <1>1, <1>2, <1>4, <2>1, HechosMas
  <2> QED
    BY <2>2 DEF EnOrden
<1>7. {j \in D : 2 * j < 2 * k + 1} = {j \in D : 2 * j < 2 * k - 1} \cup {k}
  BY <1>1, <1>2
<1>8. Hasta(c, sig[h])' /\ sig'[h] = 2 * k + 1
  <2>1. sig'[h] = 2 * k + 1
    BY <1>1, <1>2
  <2>2. Hechos(c)' = {j \in D : 2 * j < 2 * k + 1} \ K
    BY <1>2, <1>3, <1>5, <1>7
  <2> QED
    BY <2>1, <2>2 DEF Hasta
<1>9. \A j \in K : 2 * j <= sig'[h] \/ 2 * j > ult[h]
  <2>1. \A j \in K : 2 * j <= sig[h] \/ 2 * j > ult[h]
    BY DEF MensajeDe
  <2> QED
    BY <1>1, <2>1
<1>10. \A j \in D : sig'[h] # 2 * j
  BY <1>1, <1>2, <1>8
<1>11. 1 <= sig'[h] /\ sig'[h] <= ult[h] + 1
  BY <1>1
<1>12. MensajeDe(h, c)'
  BY <1>8, <1>9, <1>10, <1>11 DEF MensajeDe
<1>13. Cortes(c)'
  BY DEF Cortes
<1> QED
  BY <1>4, <1>6, <1>12, <1>13

(* Half a command is left behind: it was marked when it was received.      *)
LEMMA MensajeTrozo ==
    ASSUME TypeOK, NEW h \in Procs, NEW c \in Conns, MensajeDe(h, c), Cortes(c),
           NEW k \in DOMAIN guion[c],
           (sig[h] = 2 * k - 1 /\ sig[h] = ult[h]) \/ sig[h] = 2 * k, sig[h] <= ult[h],
           sig'[h] = sig[h] + 1, ult'[h] = ult[h], Intacta(c)
    PROVE  MensajeDe(h, c)'
<1> DEFINE D == DOMAIN guion[c]
           K == cortados[c]
<1>1. /\ D \subseteq Nat \ {0} /\ K \subseteq Nat /\ sig[h] \in Nat /\ ult[h] \in Nat
      /\ recibidos[c] \in Nat
  BY Numeradas DEF TypeOK
<1>2. k \in K /\ k \in Nat
  BY <1>1 DEF MensajeDe, Cortes
<1>3. {j \in D : 2 * j < sig[h] + 1} \ K = {j \in D : 2 * j < sig[h]} \ K
  BY <1>1, <1>2
<1>4. Hasta(c, sig[h])'
  <2>1. Hechos(c)' = Hechos(c)
    BY DEF Hechos, Intacta
  <2>2. Hechos(c) = {j \in D : 2 * j < sig[h]} \ K
    BY DEF MensajeDe, Hasta
  <2>3. cortados'[c] = K /\ guion' = guion
    BY DEF Intacta
  <2>4. Hechos(c)' = {j \in D : 2 * j < sig'[h]} \ K
    BY <1>3, <2>1, <2>2
  <2> QED
    BY <2>3, <2>4 DEF Hasta
<1>5. \A j \in K : 2 * j <= sig'[h] \/ 2 * j > ult[h]
  <2>1. \A j \in K : 2 * j <= sig[h] \/ 2 * j > ult[h]
    BY DEF MensajeDe
  <2> QED
    BY <1>1, <2>1
<1>6. ASSUME NEW j \in D, sig'[h] = 2 * j
      PROVE  j \in K
  BY <1>1, <1>2, <1>6
<1>7. 1 <= sig'[h] /\ sig'[h] <= ult[h] + 1 /\ ult[h] = recibidos[c]
  BY <1>1 DEF MensajeDe
<1> QED
  BY <1>4, <1>5, <1>6, <1>7 DEF MensajeDe, Intacta

LEMMA CuentasEjecuta ==
    ASSUME Invariante, Cuentas, NEW h \in Hilos, NEW orden \in Ordenes, Ejecuta(h, orden),
           pc' = pc \/ \E lugar \in {"bienvenida", "getData"} : pc' = [pc EXCEPT ![h] = lugar]
    PROVE  Cuentas'
<1>1. /\ pc \in [Procs -> LugaresHilo \cup LugaresPrincipal]
      /\ h # principal /\ h \in Procs /\ principal \in Procs
      /\ sig \in [Procs -> Nat] /\ ult \in [Procs -> Nat]
      /\ hechos \in [Conns -> Seq(Nat)] /\ recibidos \in [Conns -> Nat]
      /\ DuennoUnico /\ DuennoAceptado /\ TypeOK /\ Exclusion
  BY ServidorAssumption DEF Invariante, TypeOK, Reparto, Procs
<1>2. /\ pc[h] = "procesa" /\ sig[h] <= ult[h]
      /\ UNCHANGED <<aceptadas, duenno, recibidos, activeFD, readFD, fd, con, ult, guion,
                     cortados>>
  BY DEF Ejecuta, kernel, clientes
<1>3. ConMensaje(h)
  BY <1>2 DEF ConMensaje
<1>4. /\ fd[h] \in Fds /\ con[h] = duenno[fd[h]] /\ con[h] \in Conns /\ ~PorLeer(fd[h])
      /\ \A f \in Fds : duenno[f] = con[h] => f = fd[h]
      /\ \A q \in Procs : Tiene(q) /\ fd[q] = fd[h] => q = h
  BY <1>1, <1>3, ConMensajeAparte
<1>5. PICK c \in Conns : c = con[h]
  BY <1>4
<1>6. MensajeDe(h, c) /\ EnOrden(c) /\ Cortes(c)
  BY <1>1, <1>3, <1>5 DEF Cuentas
<1>7. /\ MensajeDe(h, c)' /\ EnOrden(c)' /\ Cortes(c)'
      /\ \A d \in Conns : d # c => Intacta(d)
      /\ \A p \in Procs : p # h => sig'[p] = sig[p]
  <2>1. CASE EjecutaEntera(h, orden)
    <3>1. PICK k \in DOMAIN guion[c] :
              /\ sig[h] = 2 * k - 1 /\ sig[h] < ult[h]
              /\ hechos' = [hechos EXCEPT ![c] = Append(@, k)]
              /\ sig' = [sig EXCEPT ![h] = @ + 2]
      BY <1>5, <2>1 DEF EjecutaEntera
    <3>2. /\ hechos'[c] = Append(hechos[c], k) /\ sig'[h] = sig[h] + 2
          /\ \A d \in Conns : d # c => hechos'[d] = hechos[d]
          /\ \A p \in Procs : p # h => sig'[p] = sig[p]
      BY <1>1, <3>1
    <3>3. MensajeDe(h, c)' /\ EnOrden(c)' /\ Cortes(c)'
      BY <1>1, <1>2, <1>6, <3>1, <3>2, MensajeEntera
    <3> QED
      BY <1>2, <3>2, <3>3 DEF Intacta
  <2>2. CASE EjecutaTrozo(h, orden)
    <3>1. PICK k \in DOMAIN guion[c] :
              /\ (sig[h] = 2 * k - 1 /\ sig[h] = ult[h]) \/ sig[h] = 2 * k
              /\ hechos' = hechos
              /\ sig' = [sig EXCEPT ![h] = @ + 1]
      BY <1>5, <2>2 DEF EjecutaTrozo
    <3>2. /\ sig'[h] = sig[h] + 1 /\ \A d \in Conns : Intacta(d)
          /\ \A p \in Procs : p # h => sig'[p] = sig[p]
      BY <1>1, <1>2, <3>1 DEF Intacta
    <3>3. MensajeDe(h, c)'
      BY <1>1, <1>2, <1>6, <3>1, <3>2, MensajeTrozo
    <3> QED
      BY <1>6, <3>2, <3>3, IntactaIgual
  <2> QED
    BY <2>1, <2>2 DEF Ejecuta
<1>8. pc'[principal] = pc[principal]
      /\ \A p \in Procs : ConMensaje(p)' => ConMensaje(p)
  BY <1>1, <1>2, <1>3 DEF ConMensaje
<1>9. ASSUME NEW g \in Fds, NEW d \in Conns, PorLeer(g)', duenno'[g] = d
      PROVE  AlDia(d)'
  <2>1. PorLeer(g) /\ duenno[g] = d
    BY <1>2, <1>8, <1>9 DEF PorLeer, EnManosDePrincipal
  <2>2. d # c
    BY <1>4, <1>5, <2>1
  <2> QED
    BY <1>7, <2>1, <2>2, IntactaIgual DEF Cuentas
<1>10. ASSUME NEW p \in Procs, NEW d \in Conns, ConMensaje(p)', con'[p] = d
       PROVE  MensajeDe(p, d)'
  <2>1. ConMensaje(p) /\ con[p] = d
    BY <1>2, <1>8, <1>10
  <2>2. CASE p = h
    BY <1>5, <1>7, <2>1, <2>2
  <2>3. CASE p # h
    <3>1. d # c
      <4>1. fd[p] \in Fds /\ con[p] = duenno[fd[p]] /\ Tiene(p)
        BY <2>1, ConMensajeAparte DEF ConMensaje, Tiene
      <4> QED
        BY <1>4, <1>5, <2>1, <2>3, <4>1
    <3> QED
      BY <1>2, <1>7, <2>1, <2>3, <3>1, MensajeIgual DEF Cuentas
  <2> QED
    BY <2>2, <2>3
<1>11. ASSUME NEW d \in Conns,
              d > aceptadas' \/ (Nueva(EnNueva)' /\ duenno'[fd'[principal]] = d)
       PROVE  SinUsar(d)'
  <2>1. d > aceptadas \/ (Nueva(EnNueva) /\ duenno[fd[principal]] = d)
    BY <1>2, <1>8, <1>11 DEF Nueva
  <2>2. d # c
    <3>1. CASE d > aceptadas
      <4>1. c <= aceptadas /\ aceptadas \in 0..llegadas /\ llegadas \in 0..MaxConns
        BY <1>1, <1>4, <1>5 DEF DuennoAceptado, TypeOK
      <4> QED
        BY <3>1, <4>1, ServidorAssumption DEF Conns
    <3>2. CASE Nueva(EnNueva) /\ duenno[fd[principal]] = d
      <4>1. Tiene(principal) /\ fd[principal] \in Fds
        BY <1>1, <3>2 DEF Nueva, EnNueva, Tiene, Exclusion
      <4>2. fd[principal] # fd[h]
        BY <1>1, <1>4, <4>1
      <4> QED
        BY <1>4, <1>5, <3>2, <4>1, <4>2
    <3> QED
      BY <2>1, <3>1, <3>2
  <2> QED
    BY <1>7, <2>1, <2>2, IntactaIgual DEF Cuentas
<1> QED
  BY <1>7, <1>9, <1>10, <1>11, IntactaIgual DEF Cuentas

(* The descriptor goes back when nothing of the message is left.           *)
LEMMA CuentasAddFd ==
    ASSUME Invariante, Cuentas, NEW h \in Hilos, AddFd(h)
    PROVE  Cuentas'
<1>1. /\ pc \in [Procs -> LugaresHilo \cup LugaresPrincipal]
      /\ h # principal /\ h \in Procs /\ principal \in Procs
      /\ sig \in [Procs -> Nat] /\ ult \in [Procs -> Nat]
  BY ServidorAssumption DEF Invariante, TypeOK, Reparto, Procs
<1>2. /\ pc[h] = "procesa" /\ sig[h] > ult[h]
      /\ activeFD' = activeFD \cup {fd[h]}
      /\ pc' = [pc EXCEPT ![h] = "kill"]
      /\ UNCHANGED <<aceptadas, duenno, recibidos, readFD, hechos, cortados, guion, fd, con,
                     sig, ult>>
  BY DEF AddFd, kernel, locales, mensaje, clientes, historia, Va
<1>3. ConMensaje(h) /\ pc'[principal] = pc[principal]
  BY <1>1, <1>2 DEF ConMensaje
<1>4. con[h] = duenno[fd[h]] /\ con[h] \in Conns
  BY <1>1, <1>3, ConMensajeAparte
<1>5. \A c \in Conns : Intacta(c)
  BY <1>2 DEF Intacta
<1>6. \A c \in Conns : EnOrden(c)' /\ Cortes(c)'
  BY <1>5, IntactaIgual DEF Cuentas
<1>7. ASSUME NEW g \in Fds, NEW c \in Conns, PorLeer(g)', duenno'[g] = c
      PROVE  AlDia(c)'
  <2>1. CASE g = fd[h]
    <3>1. MensajeDe(h, c)
      BY <1>1, <1>2, <1>3, <1>4, <1>7, <2>1 DEF Cuentas
    <3>2. sig[h] \in Nat /\ ult[h] \in Nat /\ ult[h] = recibidos[c] /\ sig[h] <= ult[h] + 1
      BY <1>1, <3>1 DEF MensajeDe
    <3>3. sig[h] = recibidos[c] + 1
      BY <1>2, <3>2
    <3>4. AlDia(c)
      BY <3>1, <3>3 DEF MensajeDe, AlDia
    <3> QED
      BY <1>5, <3>4, IntactaIgual
  <2>2. CASE g # fd[h]
    <3>1. PorLeer(g)
      BY <1>2, <1>3, <1>7, <2>2 DEF PorLeer, EnManosDePrincipal
    <3> QED
      BY <1>2, <1>5, <1>7, <3>1, IntactaIgual DEF Cuentas
  <2> QED
    BY <2>1, <2>2
<1>8. ASSUME NEW p \in Procs, NEW c \in Conns, ConMensaje(p)', con'[p] = c
      PROVE  MensajeDe(p, c)'
  <2>1. ConMensaje(p) /\ con[p] = c
    BY <1>1, <1>2, <1>8 DEF ConMensaje
  <2> QED
    BY <1>2, <1>5, <2>1, MensajeIgual DEF Cuentas
<1>9. ASSUME NEW c \in Conns,
             c > aceptadas' \/ (Nueva(EnNueva)' /\ duenno'[fd'[principal]] = c)
      PROVE  SinUsar(c)'
  <2>1. c > aceptadas \/ (Nueva(EnNueva) /\ duenno[fd[principal]] = c)
    BY <1>2, <1>3, <1>9 DEF Nueva
  <2> QED
    BY <1>5, <2>1, IntactaIgual DEF Cuentas
<1> QED
  BY <1>6, <1>7, <1>8, <1>9 DEF Cuentas

LEMMA CuentasPaso ==
    ASSUME Invariante, Cuentas, [Next]_vars
    PROVE  Cuentas'
<1>1. CASE Neutral
  BY <1>1, NeutralConserva, CuentasMarco
<1>2. CASE NuevaDeleteTempUser \/ NuevaNewTempUser
  <2>1. UNCHANGED <<aceptadas, hechos, cortados, guion, recibidos>>
    BY <1>2 DEF NuevaDeleteTempUser, NuevaNewTempUser, kernel, clientes, historia
  <2> QED
    BY <1>2, <2>1, ConservaPrincipal, CuentasMarco
<1>3. ASSUME NEW p \in Procs, CerrarQuit(p) \/ CerrarDeleteTempUser(p)
      PROVE  Cuentas'
  <2>1. UNCHANGED <<aceptadas, hechos, cortados, guion, recibidos>>
    BY <1>3 DEF CerrarQuit, CerrarDeleteTempUser, kernel, clientes, historia
  <2> QED
    BY <1>3, <2>1, ConservaCerrar, CuentasMarco DEF CerrarConexion
<1>4. ASSUME NEW h \in Hilos, UserDeleteTempUser(h)
      PROVE  Cuentas'
  <2>1. UNCHANGED <<aceptadas, hechos, cortados, guion, recibidos>>
    BY <1>4 DEF UserDeleteTempUser, kernel, clientes, historia
  <2> QED
    BY <1>4, <2>1, ConservaUser, CuentasMarco
<1>5. ASSUME NEW h \in Hilos, EjecutaOtro(h) \/ EjecutaUser(h) \/ EjecutaQuit(h)
      PROVE  Cuentas'
  <2>1. \E orden \in Ordenes : Ejecuta(h, orden)
    BY <1>5 DEF EjecutaOtro, EjecutaUser, EjecutaQuit, Ordenes
  <2>2. pc' = pc \/ \E lugar \in {"bienvenida", "getData"} : pc' = [pc EXCEPT ![h] = lugar]
    BY <1>5 DEF EjecutaOtro, EjecutaUser, EjecutaQuit, Va
  <2> QED
    BY <2>1, <2>2, CuentasEjecuta
<1> QED
  BY <1>1, <1>2, <1>3, <1>4, <1>5, PasoNoNeutral, CuentasAcepta, CuentasNuevaAdd, CuentasRecv,
     CuentasCreaHilo, CuentasAddFd

(* What came whole is executed once and in order, or in somebody's hands.  *)
THEOREM CuentasSiempre == Spec => []Cuentas
<1>1. Init => Cuentas
  <2> SUFFICES ASSUME Init
               PROVE  Cuentas
    OBVIOUS
  <2>1. principal \in Procs /\ pc[principal] = "setReadFD"
        /\ \A h \in Hilos : pc[h] = "libre"
    BY ServidorAssumption DEF Init, Procs
  <2>2. \A f \in Fds : ~PorLeer(f)
    BY FdNoEsSckt DEF Init, PorLeer
  <2>3. \A p \in Procs : ~ConMensaje(p)
    BY <2>1 DEF ConMensaje
  <2>4. \A c \in Conns : SinUsar(c)
    BY DEF Init, SinUsar
  <2>5. ASSUME NEW c \in Conns
        PROVE  EnOrden(c) /\ Cortes(c)
    <3>1. hechos[c] = <<>> /\ cortados[c] = {} /\ recibidos[c] = 0
      BY DEF Init
    <3>2. guion[c] \in Seq(Ordenes)
      BY ServidorAssumption DEF Init, Conns
    <3>3. \A k \in DOMAIN guion[c] : k \in Nat
      BY <3>2
    <3>4. Cortes(c)
      BY <3>1, <3>3 DEF Cortes
    <3> QED
      BY <3>1, <3>4 DEF EnOrden
  <2> QED
    BY <2>1, <2>2, <2>3, <2>4, <2>5 DEF Cuentas, Nueva
<1>2. Invariante /\ Cuentas /\ [Next]_vars => Cuentas'
  BY CuentasPaso
<1> QED
  BY <1>1, <1>2, InvarianteSiempre, PTL DEF Spec

(* While select watches a connection, every command of it that no read cut *)
(* has been executed, once and in order, and the others never as sent.     *)
THEOREM SinPerdidasSiempre == Spec => []SinPerdidas
<1>1. Invariante /\ Cuentas => SinPerdidas
  <2> SUFFICES ASSUME Invariante, Cuentas, NEW f \in activeFD \ {sckt},
                      ~EnManosDePrincipal(f)
               PROVE  /\ duenno[f] # Nadie
                      /\ Hechos(duenno[f]) = Enteros(duenno[f])
                      /\ EnOrden(duenno[f])
    BY DEF SinPerdidas
  <2>1. f \in Fds /\ PorLeer(f)
    BY DEF Invariante, TypeOK, PorLeer
  <2>2. PICK c \in Conns : c = duenno[f] /\ c # Nadie
    BY <2>1, PorLeerAbierta
  <2>3. AlDia(c) /\ EnOrden(c)
    BY <2>1, <2>2 DEF Cuentas
  <2>4. \A k \in DOMAIN guion[c] : 2 * k < recibidos[c] + 1 <=> 2 * k <= recibidos[c]
    BY Numeradas DEF Invariante
  <2>5. Hechos(c) = Enteros(c)
    BY <2>3, <2>4 DEF AlDia, Hasta, Enteros
  <2> QED
    BY <2>2, <2>3, <2>5
<1> QED
  BY <1>1, InvarianteSiempre, CuentasSiempre, PTL

-----------------------------------------------------------------------------
(* Conocidas: each connection in use has one identity.                     *)

Igual(f) ==
    /\ duenno'[f] = duenno[f] /\ bd'[f] = bd[f]
    /\ \A c \in Conns : <<f, c>> \in temps' <=> <<f, c>> \in temps

IgualEnUso ==
    /\ \A f \in Fds : EnUso(f)' => EnUso(f) /\ Igual(f)
    /\ \A h \in Hilos : pc'[h] = "bienvenida" =>
        pc[h] = "bienvenida" /\ fd'[h] = fd[h] /\ Igual(fd[h])

(* Nobody begins or ends the welcome of a new user.                        *)
MismosUser == \A p \in Procs : pc'[p] = "bienvenida" <=> pc[p] = "bienvenida"

IgualNueva ==
    Nueva(Abriendo \cup {"nuevaAdd"})' =>
        /\ pc'[principal] = "nuevaAdd" <=> pc[principal] = "nuevaAdd"
        /\ Nueva(Abriendo \cup {"nuevaAdd"})
        /\ fd'[principal] = fd[principal] /\ Igual(fd[principal])

LEMMA ConservaEnUso ==
    ASSUME Conserva, MismosUser, NEW f \in Fds, EnUso(f)'
    PROVE  EnUso(f) /\ duenno'[f] = duenno[f]
<1>1. CASE PorLeer(f)'
  BY <1>1 DEF Conserva, ConservaLeer, EnUso
<1>2. ASSUME NEW p \in Procs, ConMensaje(p)', pc'[p] # "bienvenida", fd'[p] = f
      PROVE  EnUso(f) /\ duenno'[f] = duenno[f]
  <2>1. ConMensaje(p) /\ fd'[p] = fd[p] /\ duenno'[fd[p]] = duenno[fd[p]]
    BY <1>2 DEF Conserva, ConservaMensaje
  <2> QED
    BY <1>2, <2>1 DEF EnUso, MismosUser
<1> QED
  BY <1>1, <1>2 DEF EnUso

LEMMA ConocidasMarco ==
    ASSUME Invariante, Conocidas, IgualEnUso, IgualNueva
    PROVE  Conocidas'
<1>1. ASSUME NEW f \in Fds, EnUso(f)'
      PROVE  EnUnSitio(f)'
  <2>1. EnUso(f) /\ Igual(f) /\ EnUnSitio(f)
    BY <1>1 DEF IgualEnUso, Conocidas
  <2>2. duenno[f] \in Conns
    <3>1. CASE PorLeer(f)
      BY <3>1, PorLeerAbierta
    <3>2. ASSUME NEW p \in Procs, ConMensaje(p), fd[p] = f
          PROVE  duenno[f] \in Conns
      BY <3>2, ConMensajeAparte
    <3> QED
      BY <2>1, <3>1, <3>2 DEF EnUso
  <2> QED
    BY <2>1, <2>2 DEF EnUnSitio, Igual
<1>2. ASSUME Nueva(Abriendo)'
      PROVE  bd'[fd'[principal]] = Nadie /\ TempsDe(fd[principal])' = {}
  <2>1. /\ Nueva(Abriendo)
        /\ fd'[principal] = fd[principal] /\ Igual(fd[principal])
    BY <1>2 DEF IgualNueva, Nueva, Abriendo, EnNueva
  <2>2. bd[fd[principal]] = Nadie /\ TempsDe(fd[principal]) = {}
    BY <2>1 DEF Conocidas, Abriendo
  <2> QED
    BY <2>1, <2>2 DEF Igual, TempsDe
<1>3. ASSUME Nueva({"nuevaAdd"})'
      PROVE  /\ bd'[fd'[principal]] = Nadie
             /\ <<fd'[principal], duenno'[fd'[principal]]>> \in temps'
  <2>1. /\ Nueva({"nuevaAdd"})
        /\ fd'[principal] = fd[principal] /\ Igual(fd[principal])
    BY <1>3 DEF IgualNueva, Nueva, Abriendo, EnNueva
  <2>2. bd[fd[principal]] = Nadie /\ <<fd[principal], duenno[fd[principal]]>> \in temps
    BY <2>1 DEF Conocidas
  <2>3. duenno[fd[principal]] \in Conns
    <3>1. Tiene(principal) /\ principal \in Procs
      BY <2>1 DEF Nueva, Tiene, Procs
    <3> QED
      BY <3>1, TieneAbierta DEF Invariante, Reparto
  <2> QED
    BY <2>1, <2>2, <2>3 DEF Igual
<1>4. ASSUME NEW h \in Hilos, pc'[h] = "bienvenida"
      PROVE  EnDosSitios(fd[h])'
  <2>1. pc[h] = "bienvenida" /\ fd'[h] = fd[h] /\ Igual(fd[h]) /\ EnDosSitios(fd[h])
    BY <1>4 DEF IgualEnUso, Conocidas
  <2>2. duenno[fd[h]] \in Conns
    BY <2>1, ConMensajeAparte DEF ConMensaje, Procs
  <2> QED
    BY <2>1, <2>2 DEF EnDosSitios, Igual
<1> QED
  BY <1>1, <1>2, <1>3, <1>4 DEF Conocidas, Abriendo

(* The step touches at most the identities of one descriptor, which nobody *)
(* reads or writes any more.                                               *)
LEMMA ConocidasConserva ==
    ASSUME Invariante, Conocidas, Conserva, MismosUser,
           pc[principal] = "nuevaTemp" => pc'[principal] # "nuevaAdd",
           \A f \in Fds :
               \/ bd'[f] = bd[f] /\ \A c \in Conns : <<f, c>> \in temps' <=> <<f, c>> \in temps
               \/ /\ ~EnUso(f)
                  /\ \A h \in Hilos : pc[h] = "bienvenida" => fd[h] # f
                  /\ Nueva(Abriendo \cup {"nuevaAdd"}) => fd[principal] # f
    PROVE  Conocidas'
<1>1. IgualEnUso
  <2>1. ASSUME NEW f \in Fds, EnUso(f)'
        PROVE  EnUso(f) /\ Igual(f)
    <3>1. EnUso(f) /\ duenno'[f] = duenno[f]
      BY <2>1, ConservaEnUso
    <3> QED
      BY <3>1 DEF Igual
  <2>2. ASSUME NEW h \in Hilos, pc'[h] = "bienvenida"
        PROVE  pc[h] = "bienvenida" /\ fd'[h] = fd[h] /\ Igual(fd[h])
    <3>1. pc[h] = "bienvenida" /\ h \in Procs
      BY <2>2 DEF MismosUser, Procs
    <3>2. ConMensaje(h) /\ ConMensaje(h)'
      BY <2>2, <3>1 DEF ConMensaje
    <3>3. fd'[h] = fd[h] /\ duenno'[fd[h]] = duenno[fd[h]] /\ fd[h] \in Fds
      BY <3>1, <3>2, ConMensajeAparte DEF Conserva, ConservaMensaje
    <3> QED
      BY <3>1, <3>3 DEF Igual
  <2> QED
    BY <2>1, <2>2 DEF IgualEnUso
<1>2. IgualNueva
  <2> SUFFICES ASSUME Nueva(Abriendo \cup {"nuevaAdd"})'
               PROVE  /\ pc'[principal] = "nuevaAdd" <=> pc[principal] = "nuevaAdd"
                      /\ Nueva(Abriendo \cup {"nuevaAdd"})
                      /\ fd'[principal] = fd[principal] /\ Igual(fd[principal])
    BY DEF IgualNueva
  <2>1. /\ pc'[principal] = "nuevaAdd" <=> pc[principal] = "nuevaAdd"
        /\ Nueva(Abriendo \cup {"nuevaAdd"})
        /\ fd'[principal] = fd[principal] /\ duenno'[fd[principal]] = duenno[fd[principal]]
    BY DEF Conserva, ConservaNueva, Nueva, Abriendo, EnNueva
  <2>2. fd[principal] \in Fds
    <3>1. Tiene(principal) /\ principal \in Procs
      BY <2>1 DEF Nueva, Tiene, Procs, Abriendo, EnNueva
    <3> QED
      BY <3>1, TieneAbierta DEF Invariante, Reparto
  <2> QED
    BY <2>1, <2>2 DEF Igual
<1> QED
  BY <1>1, <1>2, ConocidasMarco

LEMMA ConocidasNeutral ==
    ASSUME Invariante, Conocidas, Neutral
    PROVE  Conocidas'
<1> USE DEF clientes, kernel, locales, mensaje, historia, Va
<1>1. /\ pc \in [Procs -> LugaresHilo \cup LugaresPrincipal] /\ principal \in Procs
      /\ Hilos \subseteq Procs /\ pc[principal] # "bienvenida"
  BY DEF Invariante, TypeOK, Procs, LugaresPrincipal, EnCerrar
<1> DEFINE Aparte == /\ pc[principal] = "nuevaTemp" => pc'[principal] # "nuevaAdd"
                     /\ MismosUser
<1>2. Aparte
  <2>1. CASE Clientes \/ AceptarFalla \/ Alarma \/ UNCHANGED vars
             \/ \E i \in Fds : RecvError(i)
    <3>1. pc' = pc
      BY <2>1 DEF Clientes, Conecta, Envia, Desconecta, AceptarFalla, Alarma, RecvError, vars
    <3> QED
      BY <3>1 DEF MismosUser
  <2>2. CASE SetReadFD \/ EntraSelect \/ SelectListo \/ SelectInterrumpido \/ FinRecorrido
             \/ CanalNuevo \/ AceptarCanal \/ CanalFalla \/ DeleteFd \/ CreaHiloFalla
             \/ \E i \in Fds : RecvCierre(i)
    <3>1. PICK lugar \in {"setReadFD", "select", "bloqueado", "recorre", "saluda", "nueva",
                          "pthread_create", "getData"} :
              pc' = [pc EXCEPT ![principal] = lugar]
      BY <2>2 DEF SetReadFD, EntraSelect, SelectListo, SelectInterrumpido, FinRecorrido,
         CanalNuevo, AceptarCanal, CanalFalla, DeleteFd, CreaHiloFalla, RecvCierre, Turno
    <3> QED
      BY <1>1, <3>1 DEF MismosUser
  <2>3. ASSUME NEW p \in Procs,
               \/ CerrarGetData(p) \/ CerrarCanal(p) \/ CerrarClose(p) \/ CerrarDeleteFd(p)
               \/ Kill(p)
        PROVE  Aparte
    <3>1. PICK lugar \in {"quitBD", "close", "clrFd", "recorre", "libre"} :
              pc' = [pc EXCEPT ![p] = lugar]
      BY <2>3 DEF CerrarGetData, CerrarCanal, CerrarClose, CerrarDeleteFd, Kill
    <3>2. pc[p] # "bienvenida"
      BY <2>3 DEF CerrarGetData, CerrarCanal, CerrarClose, CerrarDeleteFd, Kill
    <3> QED
      BY <1>1, <3>1, <3>2 DEF MismosUser
  <2> HIDE DEF Aparte
  <2> QED
    BY <1>1, <2>1, <2>2, <2>3 DEF Neutral
<1> QED
  BY <1>2, NeutralConserva, ConocidasConserva

LEMMA ConocidasAcepta ==
    ASSUME Invariante, Conocidas, NEW f \in Fds, AceptarConexion(f)
    PROVE  Conocidas'
<1>1. /\ duenno \in [Fds -> 0..MaxConns] /\ pc \in [Procs -> LugaresHilo \cup LugaresPrincipal]
      /\ fd \in [Procs -> Fds \cup {sckt}] /\ principal \in Procs
      /\ bd \in [Fds -> 0..MaxConns] /\ MaxConns \in Nat
      /\ ActivosAbiertos /\ LeidosAbiertos /\ TempsDelDuenno /\ BDDelDuenno
  BY ServidorAssumption DEF Invariante, TypeOK, Reparto, Identidad, Procs
<1>2. /\ duenno[f] = Nadie /\ duenno' = [duenno EXCEPT ![f] = aceptadas + 1]
      /\ fd' = [fd EXCEPT ![principal] = f]
      /\ pc' = [pc EXCEPT ![principal] = IF ssl THEN "canalNuevo" ELSE "nueva"]
      /\ readFD' \subseteq readFD /\ pc[principal] = "recorre"
      /\ UNCHANGED <<activeFD, temps, bd>>
  BY DEF AceptarConexion, Turno, EsMenor, Va
<1>3. f \notin readFD /\ f \notin activeFD
  BY <1>1, <1>2, FdNoEsSckt DEF ActivosAbiertos, LeidosAbiertos
<1>4. pc'[principal] \in {"canalNuevo", "nueva"} /\ fd'[principal] = f
  BY <1>1, <1>2
<1>5. ASSUME NEW g \in Fds, EnUso(g)'
      PROVE  EnUnSitio(g)'
  <2>1. CASE PorLeer(g)'
    <3>1. g # f /\ PorLeer(g)
      BY <1>2, <1>3, <2>1 DEF PorLeer, EnManosDePrincipal
    <3> QED
      BY <1>1, <1>2, <3>1 DEF Conocidas, EnUso, EnUnSitio
  <2>2. ASSUME NEW p \in Procs, ConMensaje(p)', pc'[p] # "bienvenida", fd'[p] = g
        PROVE  EnUnSitio(g)'
    <3>1. p # principal /\ ConMensaje(p) /\ pc[p] # "bienvenida" /\ fd[p] = g
      BY <1>1, <1>2, <1>4, <2>2 DEF ConMensaje
    <3>2. duenno[g] # Nadie
      BY <3>1, ConMensajeAparte, ServidorAssumption DEF Conns, Nadie
    <3> QED
      BY <1>1, <1>2, <3>1, <3>2 DEF Conocidas, EnUso, EnUnSitio
  <2> QED
    BY <1>5, <2>1, <2>2 DEF EnUso
<1>6. bd[f] = Nadie /\ TempsDe(f) = {}
  <2>1. bd[f] = Nadie
    BY <1>1, <1>2 DEF BDDelDuenno, Nadie
  <2>2. ASSUME NEW c \in Conns, <<f, c>> \in temps
        PROVE  FALSE
    BY <1>1, <1>2, <2>2, ServidorAssumption DEF TempsDelDuenno, Conns, Nadie
  <2> QED
    BY <2>1, <2>2 DEF TempsDe
<1>7. bd'[fd'[principal]] = Nadie /\ TempsDe(fd[principal])' = {}
  BY <1>2, <1>4, <1>6 DEF TempsDe
<1>8. ASSUME NEW h \in Hilos, pc'[h] = "bienvenida"
      PROVE  EnDosSitios(fd[h])'
  <2>1. h \in Procs /\ h # principal
    BY ServidorAssumption DEF Procs
  <2>2. pc[h] = "bienvenida" /\ fd'[h] = fd[h]
    BY <1>1, <1>2, <1>8, <2>1
  <2>3. fd[h] \in Fds /\ duenno[fd[h]] # Nadie
    BY <2>1, <2>2, ConMensajeAparte, ServidorAssumption DEF ConMensaje, Conns, Nadie
  <2>4. EnDosSitios(fd[h]) /\ duenno'[fd[h]] = duenno[fd[h]]
    BY <1>1, <1>2, <2>2, <2>3 DEF Conocidas
  <2> QED
    BY <1>2, <2>2, <2>4 DEF EnDosSitios
<1> QED
  BY <1>4, <1>5, <1>7, <1>8 DEF Conocidas, Nueva

LEMMA ConocidasNuevaDelete ==
    ASSUME Invariante, Conocidas, NuevaDeleteTempUser
    PROVE  Conocidas'
<1>1. /\ pc[principal] = "nueva" /\ pc' = [pc EXCEPT ![principal] = "nuevaTemp"]
      /\ temps' = SinTemp(fd[principal]) /\ bd' = bd
  BY DEF NuevaDeleteTempUser, Va
<1>2. TempsDe(fd[principal]) = {}
  BY <1>1 DEF Conocidas, Nueva, EnNueva
<1>3. temps' = temps
  BY <1>1, <1>2 DEF SinTemp
<1>4. MismosUser /\ (pc[principal] = "nuevaTemp" => pc'[principal] # "nuevaAdd")
  BY <1>1 DEF MismosUser, Invariante, TypeOK
<1> QED
  BY <1>1, <1>3, <1>4, ConservaPrincipal, ConocidasConserva

LEMMA ConocidasNuevaNew ==
    ASSUME Invariante, Conocidas, NuevaNewTempUser
    PROVE  Conocidas'
<1> DEFINE f == fd[principal]
<1>1. /\ pc \in [Procs -> LugaresHilo \cup LugaresPrincipal] /\ principal \in Procs
      /\ Exclusion /\ FueraDeSelect
  BY DEF Invariante, TypeOK, Reparto, Procs
<1>2. /\ pc[principal] = "nuevaTemp" /\ pc' = [pc EXCEPT ![principal] = "nuevaAdd"]
      /\ temps' = temps \cup {<<f, duenno[f]>>}
      /\ UNCHANGED <<duenno, bd, fd, readFD, activeFD>>
  BY DEF NuevaNewTempUser, Va, kernel, locales
<1>3. f \in Fds /\ f \notin readFD /\ f \notin activeFD
      /\ \A q \in Procs : Tiene(q) /\ fd[q] = f => q = principal
  BY <1>1, <1>2 DEF Exclusion, FueraDeSelect, Tiene, EnCerrar
<1>4. pc'[principal] = "nuevaAdd"
  BY <1>1, <1>2
<1>5. ASSUME NEW g \in Fds, EnUso(g)'
      PROVE  EnUnSitio(g)'
  <2>1. g # f /\ EnUso(g)
    <3>1. CASE PorLeer(g)'
      BY <1>2, <1>3, <3>1 DEF PorLeer, EnUso, EnManosDePrincipal
    <3>2. ASSUME NEW p \in Procs, ConMensaje(p)', pc'[p] # "bienvenida", fd'[p] = g
          PROVE  g # f /\ EnUso(g)
      <4>1. p # principal /\ ConMensaje(p) /\ pc[p] # "bienvenida" /\ fd[p] = g
        BY <1>1, <1>2, <1>4, <3>2 DEF ConMensaje
      <4>2. Tiene(p)
        BY <4>1 DEF ConMensaje, Tiene
      <4> QED
        BY <1>3, <4>1, <4>2 DEF EnUso
    <3> QED
      BY <1>5, <3>1, <3>2 DEF EnUso
  <2> QED
    BY <1>2, <2>1 DEF Conocidas, EnUnSitio
<1>6. bd'[fd'[principal]] = Nadie /\ <<fd'[principal], duenno'[fd'[principal]]>> \in temps'
  BY <1>2 DEF Conocidas, Nueva, EnNueva
<1>7. ASSUME NEW h \in Hilos, pc'[h] = "bienvenida"
      PROVE  EnDosSitios(fd[h])'
  <2>1. h \in Procs /\ h # principal
    BY ServidorAssumption DEF Procs
  <2>2. pc[h] = "bienvenida"
    BY <1>1, <1>2, <1>7, <2>1
  <2>3. EnDosSitios(fd[h])
    BY <2>2 DEF Conocidas
  <2> QED
    BY <1>2, <2>3 DEF EnDosSitios
<1> QED
  BY <1>4, <1>5, <1>6, <1>7 DEF Conocidas, Nueva, EnNueva

(* Steps that hand a descriptor over, with its identity as it is.          *)
LEMMA ConocidasHereda ==
    ASSUME Invariante, Conocidas, UNCHANGED <<duenno, temps, bd>>,
           \A f \in Fds : EnUso(f)' => EnUso(f) \/ (Nueva({"nuevaAdd"}) /\ fd[principal] = f),
           Nueva(Abriendo \cup {"nuevaAdd"})' =>
               pc'[principal] = pc[principal] /\ fd'[principal] = fd[principal],
           \A h \in Hilos : pc'[h] = "bienvenida" => pc[h] = "bienvenida" /\ fd'[h] = fd[h]
    PROVE  Conocidas'
<1>1. ASSUME NEW f \in Fds, EnUso(f)'
      PROVE  EnUnSitio(f)'
  <2>1. CASE EnUso(f)
    BY <2>1 DEF Conocidas, EnUnSitio
  <2>2. CASE Nueva({"nuevaAdd"}) /\ fd[principal] = f
    <3>1. Tiene(principal) /\ principal \in Procs
      BY <2>2 DEF Nueva, Tiene, Procs
    <3>2. duenno[f] # Nadie
      BY <2>2, <3>1, TieneAbierta DEF Invariante, Reparto
    <3> QED
      BY <2>2, <3>2 DEF Conocidas, EnUnSitio
  <2> QED
    BY <1>1, <2>1, <2>2
<1>2. ASSUME NEW h \in Hilos, pc'[h] = "bienvenida"
      PROVE  EnDosSitios(fd[h])'
  <2>1. fd'[h] = fd[h] /\ EnDosSitios(fd[h])
    BY <1>2 DEF Conocidas
  <2> QED
    BY <2>1 DEF EnDosSitios
<1> QED
  BY <1>1, <1>2 DEF Conocidas, Nueva, Abriendo, EnNueva, TempsDe

LEMMA ConocidasEntrega ==
    ASSUME Invariante, Conocidas,
           \/ NuevaAddFd
           \/ \E i \in Fds : RecvDatos(i)
           \/ \E h \in Hilos : CreaHilo(h) \/ EjecutaOtro(h) \/ EjecutaQuit(h) \/ AddFd(h)
    PROVE  Conocidas'
<1> USE DEF clientes, kernel, locales, mensaje, historia, Va, Nueva, Abriendo, EnNueva
<1>0. /\ pc \in [Procs -> LugaresHilo \cup LugaresPrincipal] /\ principal \in Procs
      /\ fd \in [Procs -> Fds \cup {sckt}] /\ principal \notin Hilos
      /\ \A h \in Hilos : h \in Procs /\ h # principal
  BY ServidorAssumption DEF Invariante, TypeOK, Procs
<1>1. CASE NuevaAddFd
  <2>1. /\ pc[principal] = "nuevaAdd" /\ pc' = [pc EXCEPT ![principal] = "recorre"]
        /\ fd' = [fd EXCEPT ![principal] = sckt]
        /\ activeFD' = activeFD \cup {fd[principal]}
        /\ UNCHANGED <<readFD, duenno, temps, bd>>
    BY <1>1 DEF NuevaAddFd, Olvida
  <2>2. pc'[principal] = "recorre"
    BY <1>0, <2>1
  <2>3. ASSUME NEW f \in Fds, EnUso(f)'
        PROVE  EnUso(f) \/ fd[principal] = f
    <3>1. CASE PorLeer(f)'
      BY <2>1, <3>1 DEF PorLeer, EnUso, EnManosDePrincipal
    <3>2. ASSUME NEW p \in Procs, ConMensaje(p)', pc'[p] # "bienvenida", fd'[p] = f
          PROVE  EnUso(f)
      <4>1. ConMensaje(p) /\ pc[p] # "bienvenida" /\ fd[p] = f
        BY <1>0, <2>1, <2>2, <3>2 DEF ConMensaje
      <4> QED
        BY <4>1 DEF EnUso
    <3> QED
      BY <2>3, <3>1, <3>2 DEF EnUso
  <2> QED
    BY <1>0, <2>1, <2>2, <2>3, ConocidasHereda
<1>2. ASSUME NEW i \in Fds, RecvDatos(i)
      PROVE  Conocidas'
  <2>1. /\ pc[principal] = "recorre" /\ pc' = [pc EXCEPT ![principal] = "deleteFd"]
        /\ fd' = [fd EXCEPT ![principal] = i] /\ i \in readFD
        /\ readFD' \subseteq readFD
        /\ UNCHANGED <<activeFD, duenno, temps, bd>>
    BY <1>2 DEF RecvDatos, Turno, EsMenor
  <2>2. pc'[principal] = "deleteFd"
    BY <1>0, <2>1
  <2>3. ASSUME NEW f \in Fds, EnUso(f)'
        PROVE  EnUso(f)
    <3>1. CASE PorLeer(f)'
      BY <2>1, <3>1 DEF PorLeer, EnUso, EnManosDePrincipal
    <3>2. ASSUME NEW p \in Procs, ConMensaje(p)', pc'[p] # "bienvenida", fd'[p] = f
          PROVE  EnUso(f)
      <4>1. CASE p = principal
        BY <1>0, <2>1, <3>2, <4>1 DEF EnUso, PorLeer
      <4>2. CASE p # principal
        <5>1. ConMensaje(p) /\ pc[p] # "bienvenida" /\ fd[p] = f
          BY <1>0, <2>1, <3>2, <4>2 DEF ConMensaje
        <5> QED
          BY <5>1 DEF EnUso
      <4> QED
        BY <4>1, <4>2
    <3> QED
      BY <2>3, <3>1, <3>2 DEF EnUso
  <2> QED
    BY <1>0, <2>1, <2>2, <2>3, ConocidasHereda
<1>3. ASSUME NEW h \in Hilos, CreaHilo(h)
      PROVE  Conocidas'
  <2>1. /\ pc[principal] = "pthread_create"
        /\ pc' = [pc EXCEPT ![h] = "procesa", ![principal] = "recorre"]
        /\ fd' = [fd EXCEPT ![h] = fd[principal], ![principal] = sckt]
        /\ UNCHANGED <<activeFD, readFD, duenno, temps, bd>>
    BY <1>3 DEF CreaHilo
  <2>2. pc'[principal] = "recorre" /\ ConMensaje(principal) /\ pc[principal] # "bienvenida"
    BY <1>0, <2>1 DEF ConMensaje
  <2>3. ASSUME NEW f \in Fds, EnUso(f)'
        PROVE  EnUso(f)
    <3>1. CASE PorLeer(f)'
      <4>1. f \in activeFD \/ f \in readFD
        BY <2>1, <3>1 DEF PorLeer
      <4>2. CASE fd[principal] = f
        BY <1>0, <2>2, <4>2 DEF EnUso
      <4>3. CASE fd[principal] # f
        BY <4>1, <4>3 DEF EnUso, PorLeer, EnManosDePrincipal
      <4> QED
        BY <4>2, <4>3
    <3>2. ASSUME NEW p \in Procs, ConMensaje(p)', pc'[p] # "bienvenida", fd'[p] = f
          PROVE  EnUso(f)
      <4>1. p # principal
        BY <2>2, <3>2 DEF ConMensaje
      <4>2. CASE p = h
        BY <1>0, <2>1, <2>2, <3>2, <4>1, <4>2 DEF EnUso
      <4>3. CASE p # h
        <5>1. ConMensaje(p) /\ pc[p] # "bienvenida" /\ fd[p] = f
          BY <1>0, <2>1, <3>2, <4>1, <4>3 DEF ConMensaje
        <5> QED
          BY <5>1 DEF EnUso
      <4> QED
        BY <4>2, <4>3
    <3> QED
      BY <2>3, <3>1, <3>2 DEF EnUso
  <2> QED
    BY <1>0, <2>1, <2>2, <2>3, ConocidasHereda
<1>4. ASSUME NEW h \in Hilos, EjecutaOtro(h) \/ EjecutaQuit(h) \/ AddFd(h)
      PROVE  Conocidas'
  <2>1. /\ pc[h] = "procesa"
        /\ \E lugar : lugar # "bienvenida" /\ pc' = [pc EXCEPT ![h] = lugar]
        /\ activeFD' \subseteq activeFD \cup {fd[h]}
        /\ UNCHANGED <<readFD, duenno, temps, bd, fd>>
    <3>1. pc = [pc EXCEPT ![h] = pc[h]]
      BY <1>0
    <3> QED
      BY <1>4, <3>1 DEF EjecutaOtro, EjecutaQuit, Ejecuta, AddFd
  <2>2. pc'[principal] = pc[principal] /\ ConMensaje(h) /\ pc[h] # "bienvenida"
    BY <1>0, <2>1 DEF ConMensaje
  <2>3. \A p \in Procs : ConMensaje(p)' /\ pc'[p] # "bienvenida" =>
                              ConMensaje(p) /\ pc[p] # "bienvenida"
    BY <1>0, <2>1, <2>2 DEF ConMensaje
  <2>4. ASSUME NEW f \in Fds, EnUso(f)'
        PROVE  EnUso(f)
    <3>1. CASE PorLeer(f)'
      <4>1. CASE f = fd[h]
        BY <1>0, <2>2, <4>1 DEF EnUso
      <4>2. CASE f # fd[h]
        BY <2>1, <2>2, <3>1, <4>2 DEF EnUso, PorLeer, EnManosDePrincipal
      <4> QED
        BY <4>1, <4>2
    <3>2. ASSUME NEW p \in Procs, ConMensaje(p)', pc'[p] # "bienvenida", fd'[p] = f
          PROVE  EnUso(f)
      BY <2>1, <2>3, <3>2 DEF EnUso
    <3> QED
      BY <2>4, <3>1, <3>2 DEF EnUso
  <2> QED
    BY <1>0, <2>1, <2>2, <2>4, ConocidasHereda
<1> QED
  BY <1>1, <1>2, <1>3, <1>4

(* USER gives its connection a second identity.                            *)
LEMMA ConocidasUser ==
    ASSUME Invariante, Conocidas, NEW h \in Hilos, EjecutaUser(h)
    PROVE  Conocidas'
<1>0. /\ h \in Procs /\ principal \in Procs /\ Exclusion /\ TempsDelDuenno /\ TypeOK
      /\ h # principal /\ Hilos \subseteq Procs
      /\ pc \in [Procs -> LugaresHilo \cup LugaresPrincipal]
  BY ServidorAssumption DEF Invariante, Reparto, Identidad, TypeOK, Procs
<1>1. pc[h] = "procesa" /\ UNCHANGED <<duenno, readFD, activeFD, fd, temps>>
  BY DEF EjecutaUser, Ejecuta, kernel
<1>2. ConMensaje(h)
  BY <1>1 DEF ConMensaje
<1>3. /\ fd[h] \in Fds /\ duenno[fd[h]] \in Conns /\ ~PorLeer(fd[h])
      /\ \A q \in Procs : Tiene(q) /\ fd[q] = fd[h] => q = h
  BY <1>0, <1>2, ConMensajeAparte
<1>4. CASE UNCHANGED <<pc, bd>>
  <2>1. \A f \in Fds : EnUso(f)' => EnUso(f)
    BY <1>1, <1>4 DEF EnUso, PorLeer, ConMensaje, EnManosDePrincipal
  <2> QED
    BY <1>1, <1>4, <2>1, ConocidasHereda
<1>5. ASSUME NEW c \in Conns, EsMenor(c, TempsDe(fd[h])),
             bd' = [bd EXCEPT ![fd[h]] = c], pc' = [pc EXCEPT ![h] = "bienvenida"]
      PROVE  Conocidas'
  <2>1. c = duenno[fd[h]] /\ <<fd[h], c>> \in temps
    BY <1>0, <1>3, <1>5, SinTempBorra DEF EsMenor, TempsDe
  <2>2. bd \in [Fds -> 0..MaxConns] /\ bd'[fd[h]] = c
    BY <1>0, <1>3, <1>5 DEF TypeOK
  <2>3. pc'[h] = "bienvenida" /\ \A p \in Procs : p # h => pc'[p] = pc[p]
    BY <1>0, <1>5
  <2>4. ASSUME NEW f \in Fds, EnUso(f)'
        PROVE  EnUso(f) /\ f # fd[h]
    <3>1. CASE PorLeer(f)'
      BY <1>0, <1>1, <1>3, <2>3, <3>1 DEF EnUso, PorLeer, EnManosDePrincipal
    <3>2. ASSUME NEW p \in Procs, ConMensaje(p)', pc'[p] # "bienvenida", fd'[p] = f
          PROVE  EnUso(f) /\ f # fd[h]
      <4>1. p # h /\ ConMensaje(p) /\ pc[p] # "bienvenida" /\ fd[p] = f
        BY <1>1, <2>3, <3>2 DEF ConMensaje
      <4>2. Tiene(p)
        BY <4>1 DEF ConMensaje, Tiene
      <4> QED
        BY <1>3, <4>1, <4>2 DEF EnUso
    <3> QED
      BY <2>4, <3>1, <3>2 DEF EnUso
  <2>5. ASSUME NEW f \in Fds, EnUso(f)'
        PROVE  EnUnSitio(f)'
    <3>1. EnUnSitio(f) /\ f # fd[h]
      BY <2>4, <2>5 DEF Conocidas
    <3> QED
      BY <1>1, <1>5, <2>2, <3>1 DEF EnUnSitio
  <2>6. ASSUME NEW g \in Hilos, pc'[g] = "bienvenida"
        PROVE  EnDosSitios(fd[g])'
    <3>1. CASE g = h
      BY <1>1, <2>1, <2>2, <3>1 DEF EnDosSitios
    <3>2. CASE g # h
      <4>1. pc[g] = "bienvenida" /\ g \in Procs
        BY <1>0, <2>3, <2>6, <3>2
      <4>2. EnDosSitios(fd[g]) /\ Tiene(g)
        BY <4>1 DEF Conocidas, Tiene
      <4>3. fd[g] # fd[h] /\ fd[g] \in Fds
        BY <1>0, <1>3, <3>2, <4>1, <4>2 DEF Exclusion
      <4> QED
        BY <1>1, <1>5, <2>2, <4>2, <4>3 DEF EnDosSitios
    <3> QED
      BY <3>1, <3>2
  <2>7. Nueva(EnNueva) => fd[principal] # fd[h] /\ fd[principal] \in Fds
    BY <1>0, <1>3 DEF Nueva, EnNueva, Tiene, Exclusion
  <2>8. pc'[principal] = pc[principal]
    BY <1>0, <2>3
  <2>9. Nueva(EnNueva) => bd'[fd[principal]] = bd[fd[principal]]
    BY <1>5, <2>2, <2>7
  <2> QED
    BY <1>1, <2>5, <2>6, <2>8, <2>9 DEF Conocidas, Nueva, EnNueva, TempsDe
<1> QED
  BY <1>4, <1>5 DEF EjecutaUser, Va

(* And then takes the first one away.                                      *)
LEMMA ConocidasUserTemp ==
    ASSUME Invariante, Conocidas, NEW h \in Hilos, UserDeleteTempUser(h)
    PROVE  Conocidas'
<1>0. /\ h \in Procs /\ principal \in Procs /\ Exclusion /\ TempsDelDuenno /\ TypeOK
      /\ h # principal /\ Hilos \subseteq Procs
      /\ pc \in [Procs -> LugaresHilo \cup LugaresPrincipal]
  BY ServidorAssumption DEF Invariante, Reparto, Identidad, TypeOK, Procs
<1>1. /\ pc[h] = "bienvenida" /\ UNCHANGED <<duenno, readFD, activeFD, fd, bd>>
      /\ temps' = SinTemp(fd[h]) /\ pc' = [pc EXCEPT ![h] = "procesa"]
  BY DEF UserDeleteTempUser, kernel, locales, Va
<1>2. ConMensaje(h)
  BY <1>1 DEF ConMensaje
<1>3. /\ fd[h] \in Fds /\ duenno[fd[h]] \in Conns /\ ~PorLeer(fd[h])
      /\ \A q \in Procs : Tiene(q) /\ fd[q] = fd[h] => q = h
  BY <1>0, <1>2, ConMensajeAparte
<1>4. temps' = {t \in temps : t[1] # fd[h]}
  BY <1>0, <1>1, <1>3, SinTempBorra
<1>5. \A f, d : f # fd[h] => (<<f, d>> \in temps' <=> <<f, d>> \in temps)
  BY <1>4
<1>6. pc'[h] = "procesa" /\ \A p \in Procs : p # h => pc'[p] = pc[p]
  BY <1>0, <1>1
<1>7. ASSUME NEW f \in Fds, EnUso(f)'
      PROVE  EnUnSitio(f)'
  <2>1. CASE f = fd[h]
    <3>1. bd[f] = duenno[f]
      BY <1>1, <2>1 DEF Conocidas, EnDosSitios
    <3> QED
      BY <1>1, <1>4, <2>1, <3>1 DEF EnUnSitio
  <2>2. CASE f # fd[h]
    <3>1. EnUso(f)
      <4>1. CASE PorLeer(f)'
        BY <1>0, <1>1, <1>6, <4>1 DEF EnUso, PorLeer, EnManosDePrincipal
      <4>2. ASSUME NEW p \in Procs, ConMensaje(p)', pc'[p] # "bienvenida", fd'[p] = f
            PROVE  EnUso(f)
        <5>1. p # h /\ fd[p] = f
          BY <1>1, <2>2, <4>2
        <5>2. ConMensaje(p) /\ pc[p] # "bienvenida"
          BY <1>6, <4>2, <5>1 DEF ConMensaje
        <5> QED
          BY <5>1, <5>2 DEF EnUso
      <4> QED
        BY <1>7, <4>1, <4>2 DEF EnUso
    <3>2. EnUnSitio(f)
      BY <3>1 DEF Conocidas
    <3> QED
      BY <1>1, <1>5, <2>2, <3>2 DEF EnUnSitio
  <2> QED
    BY <2>1, <2>2
<1>8. ASSUME NEW g \in Hilos, pc'[g] = "bienvenida"
      PROVE  EnDosSitios(fd[g])'
  <2>1. g # h /\ g \in Procs
    BY <1>0, <1>6, <1>8
  <2>2. pc[g] = "bienvenida"
    BY <1>6, <1>8, <2>1
  <2>3. EnDosSitios(fd[g]) /\ Tiene(g)
    BY <2>2 DEF Conocidas, Tiene
  <2>4. fd[g] # fd[h]
    BY <1>3, <2>1, <2>3
  <2> QED
    BY <1>1, <1>5, <2>3, <2>4 DEF EnDosSitios
<1>9. Nueva(EnNueva) => fd[principal] # fd[h]
  BY <1>0, <1>3 DEF Nueva, EnNueva, Tiene
<1>10. pc'[principal] = pc[principal]
  BY <1>0, <1>6
<1>11. Nueva(EnNueva) => \A d : <<fd[principal], d>> \in temps' <=> <<fd[principal], d>> \in temps
  BY <1>5, <1>9
<1>12. Nueva(EnNueva \ {"nuevaAdd"})' =>
           bd'[fd'[principal]] = Nadie /\ TempsDe(fd[principal])' = {}
  BY <1>1, <1>10, <1>11 DEF Conocidas, Nueva, EnNueva, TempsDe
<1>13. Nueva({"nuevaAdd"})' =>
           /\ bd'[fd'[principal]] = Nadie
           /\ <<fd'[principal], duenno'[fd'[principal]]>> \in temps'
  BY <1>1, <1>10, <1>11 DEF Conocidas, Nueva, EnNueva
<1> QED
  BY <1>7, <1>8, <1>12, <1>13 DEF Conocidas

(* cerrarConexion takes the identity out of a descriptor only it has.      *)
LEMMA ConocidasCerrar ==
    ASSUME Invariante, Conocidas, NEW p \in Procs, CerrarQuit(p) \/ CerrarDeleteTempUser(p)
    PROVE  Conocidas'
<1>0. /\ TypeOK /\ Exclusion /\ FueraDeSelect /\ TempsDelDuenno /\ BDDelDuenno /\ DuennoUnico
      /\ CierreOrdenado /\ principal \in Procs
      /\ pc \in [Procs -> LugaresHilo \cup LugaresPrincipal]
  BY DEF Invariante, Reparto, Identidad, TypeOK, Procs
<1>1. pc[p] \in {"quitBD", "delTemp"} /\ Tiene(p)
  BY DEF CerrarQuit, CerrarDeleteTempUser, Tiene, EnCerrar
<1>2. /\ fd[p] \in Fds /\ duenno[fd[p]] # Nadie /\ fd[p] \notin readFD
      /\ \A q \in Procs : Tiene(q) /\ fd[q] = fd[p] => q = p
      /\ p # principal => fd[p] \notin activeFD
  BY <1>0, <1>1 DEF Exclusion, FueraDeSelect
<1>3. ~EnUso(fd[p])
  <2>1. ~PorLeer(fd[p])
    BY <1>1, <1>2 DEF PorLeer, EnManosDePrincipal
  <2>2. ASSUME NEW q \in Procs, ConMensaje(q), fd[q] = fd[p]
        PROVE  FALSE
    <3>1. Tiene(q)
      BY <2>2 DEF ConMensaje, Tiene
    <3> QED
      BY <1>1, <1>2, <2>2, <3>1 DEF ConMensaje
  <2> QED
    BY <2>1, <2>2 DEF EnUso
<1>4. /\ Nueva(Abriendo \cup {"nuevaAdd"}) => fd[principal] # fd[p]
      /\ \A h \in Hilos : pc[h] = "bienvenida" => fd[h] # fd[p]
  BY <1>0, <1>1, <1>2 DEF Nueva, Abriendo, EnNueva, Tiene, Procs
<1>5. ASSUME NEW f \in Fds, f # fd[p]
      PROVE  bd'[f] = bd[f] /\ \A c \in Conns : <<f, c>> \in temps' <=> <<f, c>> \in temps
  <2>1. CASE CerrarQuit(p)
    <3>1. /\ bd' = [g \in Fds |-> IF bd[g] = nick[p] THEN Nadie ELSE bd[g]]
          /\ temps' = temps /\ nick[p] = bd[fd[p]]
      BY <1>0, <2>1 DEF CerrarQuit, CierreOrdenado
    <3>2. bd'[f] = IF bd[f] = bd[fd[p]] THEN Nadie ELSE bd[f]
      BY <3>1
    <3>3. bd[f] # Nadie => bd[f] # bd[fd[p]]
      BY <1>0, <1>2, <1>5 DEF BDDelDuenno, DuennoUnico
    <3> QED
      BY <3>1, <3>2, <3>3
  <2>2. CASE CerrarDeleteTempUser(p)
    <3>1. temps' = {t \in temps : t[1] # fd[p]} /\ bd' = bd
      BY <1>0, <1>2, <2>2, SinTempBorra DEF CerrarDeleteTempUser
    <3> QED
      BY <1>5, <3>1
  <2> QED
    BY <2>1, <2>2
<1>6. MismosUser /\ (pc[principal] = "nuevaTemp" => pc'[principal] # "nuevaAdd")
  <2>1. PICK lugar \in {"delTemp", "canal", "close"} : pc' = [pc EXCEPT ![p] = lugar]
    BY DEF CerrarQuit, CerrarDeleteTempUser, Va
  <2> QED
    BY <1>0, <1>1, <2>1 DEF MismosUser
<1>7. Conserva
  BY ConservaCerrar DEF CerrarConexion
<1> QED
  BY <1>3, <1>4, <1>5, <1>6, <1>7, ConocidasConserva

(* A connection whose commands can be executed is either a temporary user  *)
(* or a registered one, never neither, and both only while the thread that *)
(* executes its USER welcomes it.                                          *)
THEOREM IdentificadaSiempre == Spec => []Identificada
<1>1. Init => Conocidas
  <2> SUFFICES ASSUME Init
               PROVE  Conocidas
    OBVIOUS
  <2>1. principal \in Procs /\ pc[principal] = "setReadFD"
        /\ \A h \in Hilos : pc[h] = "libre"
    BY ServidorAssumption DEF Init, Procs
  <2>2. \A f \in Fds : ~PorLeer(f)
    BY FdNoEsSckt DEF Init, PorLeer
  <2>3. \A p \in Procs : ~ConMensaje(p)
    BY <2>1 DEF ConMensaje
  <2> QED
    BY <2>1, <2>2, <2>3 DEF Conocidas, Nueva, EnNueva, EnUso
<1>2. Invariante /\ Conocidas /\ [Next]_vars => Conocidas'
  BY ConocidasNeutral, ConocidasAcepta, ConocidasNuevaDelete, ConocidasNuevaNew,
     ConocidasEntrega, ConocidasUser, ConocidasUserTemp, ConocidasCerrar, PasoNoNeutral
<1>3. Invariante /\ Conocidas => Identificada
  <2> SUFFICES ASSUME Invariante, Conocidas, NEW f \in Fds
               PROVE  /\ \/ f \in activeFD /\ ~EnManosDePrincipal(f)
                         \/ \E h \in Hilos : pc[h] = "procesa" /\ fd[h] = f
                         => EnUnSitio(f)
                      /\ (\E h \in Hilos : pc[h] = "bienvenida" /\ fd[h] = f)
                         => EnDosSitios(f)
    BY DEF Identificada
  <2>1. ASSUME \/ f \in activeFD /\ ~EnManosDePrincipal(f)
               \/ \E h \in Hilos : pc[h] = "procesa" /\ fd[h] = f
        PROVE  EnUnSitio(f)
    <3>1. EnUso(f)
      BY <2>1 DEF EnUso, PorLeer, ConMensaje, Procs
    <3> QED
      BY <3>1 DEF Conocidas
  <2>2. ASSUME NEW h \in Hilos, pc[h] = "bienvenida", fd[h] = f
        PROVE  EnDosSitios(f)
    BY <2>2 DEF Conocidas
  <2> QED
    BY <2>1, <2>2
<1> QED
  BY <1>1, <1>2, <1>3, InvarianteSiempre, PTL DEF Spec

-----------------------------------------------------------------------------
(* Canales: with SSL, who has an SSL object.                               *)

(* Only thread p moves, and no connection comes under select or into its   *)
(* hands that had no SSL object.                                           *)
LEMMA CanalesMarco ==
    ASSUME Invariante, Canales, UNCHANGED <<ssl, canal, duenno>>, NEW p \in Procs,
           \A q \in Procs \ {p} : pc'[q] = pc[q] /\ fd'[q] = fd[q],
           \A f \in Fds : PorLeer(f)' => ConSSL(f),
           \A f \in Fds : pc'[p] \in ConCanal /\ fd'[p] = f => ConSSL(f),
           ssl /\ pc'[p] = "close" => pc[p] = "close" /\ fd'[p] = fd[p]
    PROVE  Canales'
<1> SUFFICES ASSUME ssl
             PROVE  Canales'
  BY DEF Canales
<1>1. ASSUME NEW f \in Fds, ConSSL(f)'
      PROVE  canal'[f] # Nadie
  <2>1. ConSSL(f)
    BY <1>1 DEF ConSSL
  <2> QED
    BY <2>1 DEF Canales
<1>2. ASSUME NEW q \in Procs, pc'[q] = "close"
      PROVE  canal'[fd'[q]] = Nadie
  <2>1. pc[q] = "close" /\ fd'[q] = fd[q]
    BY <1>2
  <2> QED
    BY <2>1 DEF Canales
<1> QED
  BY <1>1, <1>2 DEF Canales

(* The main thread between two reads.                                      *)
LEMMA CanalesPrincipal ==
    ASSUME Invariante, Canales,
           \/ SetReadFD \/ EntraSelect \/ SelectListo \/ SelectInterrumpido
           \/ FinRecorrido \/ AceptarCanal \/ NuevaDeleteTempUser
           \/ NuevaNewTempUser \/ DeleteFd \/ CreaHiloFalla
           \/ \E i \in Fds : RecvCierre(i)
    PROVE  Canales'
<1> USE DEF clientes, kernel, locales, mensaje, Va
<1>1. /\ pc \in [Procs -> LugaresHilo \cup LugaresPrincipal] /\ principal \in Procs
      /\ fd \in [Procs -> Fds \cup {sckt}]
  BY DEF Invariante, TypeOK, Procs
<1>2. \A f \in Fds : PorLeer(f)' => ConSSL(f)
  BY ConservaPrincipal DEF Conserva, ConservaLeer, ConSSL
<1>3. CASE \/ SetReadFD \/ EntraSelect \/ SelectListo \/ SelectInterrumpido \/ FinRecorrido
           \/ CreaHiloFalla
  <2>1. PICK lugar \in {"setReadFD", "select", "bloqueado", "recorre"} :
            /\ pc' = [pc EXCEPT ![principal] = lugar]
            /\ fd' = fd \/ fd' = [fd EXCEPT ![principal] = sckt]
            /\ UNCHANGED <<ssl, canal, duenno>>
    BY <1>3 DEF SetReadFD, EntraSelect, SelectListo, SelectInterrumpido, FinRecorrido,
       CreaHiloFalla, Olvida
  <2>2. pc'[principal] = lugar /\ lugar \notin ConCanal /\ lugar # "close"
    BY <1>1, <2>1 DEF ConCanal, EnCerrar
  <2>3. \A q \in Procs \ {principal} : pc'[q] = pc[q] /\ fd'[q] = fd[q]
    BY <1>1, <2>1
  <2> QED
    BY <1>1, <1>2, <2>1, <2>2, <2>3, CanalesMarco
<1>4. CASE AceptarCanal \/ NuevaDeleteTempUser \/ NuevaNewTempUser \/ DeleteFd
  <2>1. PICK lugar \in {"nueva", "nuevaTemp", "nuevaAdd", "pthread_create"} :
            /\ pc' = [pc EXCEPT ![principal] = lugar] /\ fd' = fd
            /\ pc[principal] \in ConCanal
            /\ UNCHANGED <<ssl, canal, duenno>>
    BY <1>4 DEF AceptarCanal, NuevaDeleteTempUser, NuevaNewTempUser, DeleteFd, ConCanal
  <2>2. pc'[principal] = lugar /\ \A q \in Procs \ {principal} : pc'[q] = pc[q]
    BY <1>1, <2>1
  <2>3. \A f \in Fds : fd'[principal] = f => ConSSL(f)
    BY <1>1, <2>1 DEF ConSSL
  <2> QED
    BY <1>1, <1>2, <2>1, <2>2, <2>3, CanalesMarco
<1>5. ASSUME NEW i \in Fds, RecvCierre(i)
      PROVE  Canales'
  <2>1. /\ pc' = [pc EXCEPT ![principal] = "getData"] /\ i \in readFD
        /\ fd' = [fd EXCEPT ![principal] = i]
        /\ UNCHANGED <<ssl, canal, duenno>>
    BY <1>5 DEF RecvCierre, Turno, EsMenor
  <2>2. pc'[principal] = "getData" /\ fd'[principal] = i
        /\ \A q \in Procs \ {principal} : pc'[q] = pc[q] /\ fd'[q] = fd[q]
    BY <1>1, <2>1
  <2>3. ConSSL(i)
    BY <2>1 DEF ConSSL, PorLeer
  <2> QED
    BY <1>1, <1>2, <2>1, <2>2, <2>3, CanalesMarco
<1> QED
  BY <1>3, <1>4, <1>5

(* A connection opens without SSL object, and gets one before its          *)
(* handshake; if that fails both are gone.                                 *)
LEMMA CanalesAbre ==
    ASSUME Invariante, Canales,
           CanalNuevo \/ CanalFalla \/ \E f \in Fds : AceptarConexion(f)
    PROVE  Canales'
<1> USE DEF clientes, kernel, locales, mensaje, Va
<1>0. /\ pc \in [Procs -> LugaresHilo \cup LugaresPrincipal] /\ principal \in Procs
      /\ fd \in [Procs -> Fds \cup {sckt}] /\ Exclusion /\ ssl \in BOOLEAN
      /\ duenno \in [Fds -> 0..MaxConns] /\ canal \in [Fds -> 0..MaxConns]
      /\ ActivosAbiertos /\ LeidosAbiertos
  BY DEF Invariante, Reparto, TypeOK, Procs
<1>1. ssl' = ssl
  BY DEF CanalNuevo, CanalFalla, AceptarConexion
<1> SUFFICES ASSUME ssl
             PROVE  Canales'
  BY <1>1 DEF Canales
<1>2. \A q \in Procs \ {principal} : pc'[q] = pc[q] /\ fd'[q] = fd[q]
  BY <1>0 DEF CanalNuevo, CanalFalla, AceptarConexion, Olvida
<1>3. ASSUME CanalNuevo \/ CanalFalla
      PROVE  /\ fd[principal] \in Fds
             /\ ~ConSSL(fd[principal]) \/ pc[principal] = "saluda"
             /\ \A q \in Procs : Tiene(q) /\ fd[q] = fd[principal] => q = principal
             /\ ~PorLeer(fd[principal])
  <2>1. Tiene(principal) /\ pc[principal] \in {"canalNuevo", "saluda"}
    BY <1>3 DEF CanalNuevo, CanalFalla, Tiene
  <2>2. /\ fd[principal] \in Fds /\ fd[principal] \notin readFD
        /\ \A q \in Procs : Tiene(q) /\ fd[q] = fd[principal] => q = principal
    BY <1>0, <2>1 DEF Exclusion
  <2>3. ~PorLeer(fd[principal])
    BY <2>1, <2>2 DEF PorLeer, EnManosDePrincipal
  <2>4. \A q \in Procs : pc[q] \in ConCanal => Tiene(q)
    BY DEF ConCanal, Tiene
  <2> QED
    BY <2>1, <2>2, <2>3, <2>4 DEF ConSSL, ConCanal, EnCerrar
<1>4. CASE CanalNuevo
  <2>1. /\ pc' = [pc EXCEPT ![principal] = "saluda"] /\ fd' = fd /\ duenno' = duenno
        /\ canal' = [canal EXCEPT ![fd[principal]] = duenno[fd[principal]]]
    BY <1>4 DEF CanalNuevo
  <2>2. duenno[fd[principal]] # Nadie /\ fd[principal] \in Fds
    <3>1. Tiene(principal)
      BY <1>4 DEF CanalNuevo, Tiene
    <3> QED
      BY <1>0, <3>1 DEF Exclusion
  <2>3. \A f \in Fds : PorLeer(f)' => PorLeer(f)
    BY <1>4, ConservaPrincipal DEF Conserva, ConservaLeer
  <2>4. ASSUME NEW f \in Fds, ConSSL(f)'
        PROVE  ConSSL(f) \/ f = fd[principal]
    BY <1>0, <1>2, <2>1, <2>3, <2>4 DEF ConSSL
  <2>5. \A f \in Fds : canal'[f] = IF f = fd[principal] THEN duenno[f] ELSE canal[f]
    BY <1>0, <2>1
  <2>6. ASSUME NEW q \in Procs, pc'[q] = "close"
        PROVE  canal'[fd'[q]] = Nadie
    <3>1. q # principal /\ pc[q] = "close"
      BY <1>0, <2>1, <2>6
    <3>2. Tiene(q)
      BY <3>1 DEF Tiene, EnCerrar
    <3>3. fd[q] # fd[principal] /\ fd[q] \in Fds
      BY <1>0, <1>3, <1>4, <3>1, <3>2 DEF Exclusion
    <3> QED
      BY <2>1, <2>5, <3>1, <3>3 DEF Canales
  <2>7. \A f \in Fds : ConSSL(f)' => canal'[f] # Nadie
    BY <2>2, <2>4, <2>5 DEF Canales
  <2>8. \A f \in Fds : canal'[f] # Nadie => duenno'[f] = canal'[f]
    BY <2>1, <2>5 DEF Canales
  <2> QED
    BY <2>6, <2>7, <2>8 DEF Canales
<1>5. CASE CanalFalla
  <2>1. /\ pc' = [pc EXCEPT ![principal] = "recorre"]
        /\ fd' = [fd EXCEPT ![principal] = sckt]
        /\ canal' = [canal EXCEPT ![fd[principal]] = Nadie]
        /\ duenno' = [duenno EXCEPT ![fd[principal]] = Nadie]
    BY <1>5 DEF CanalFalla, Olvida
  <2>2. \A f \in Fds : PorLeer(f)' => PorLeer(f)
    BY <1>5, ConservaPrincipal DEF Conserva, ConservaLeer
  <2>3. pc'[principal] = "recorre" /\ fd[principal] \in Fds
    BY <1>0, <1>3, <1>5, <2>1
  <2>4. ASSUME NEW f \in Fds, ConSSL(f)'
        PROVE  ConSSL(f) /\ f # fd[principal]
    <3>1. CASE PorLeer(f)'
      BY <1>3, <1>5, <2>2, <3>1 DEF ConSSL
    <3>2. ASSUME NEW q \in Procs, pc'[q] \in ConCanal, fd'[q] = f
          PROVE  ConSSL(f) /\ f # fd[principal]
      <4>1. q # principal
        BY <2>3, <3>2 DEF ConCanal, EnCerrar
      <4>2. pc[q] \in ConCanal /\ fd[q] = f /\ Tiene(q)
        BY <1>2, <3>2, <4>1 DEF ConCanal, Tiene
      <4> QED
        BY <1>3, <1>5, <4>1, <4>2 DEF ConSSL
    <3> QED
      BY <2>4, <3>1, <3>2 DEF ConSSL
  <2>5. \A f \in Fds : f # fd[principal] => canal'[f] = canal[f] /\ duenno'[f] = duenno[f]
    BY <1>0, <2>1
  <2>6. canal'[fd[principal]] = Nadie
    BY <1>0, <2>1, <2>3
  <2>7. ASSUME NEW q \in Procs, pc'[q] = "close"
        PROVE  canal'[fd'[q]] = Nadie
    <3>1. q # principal /\ pc[q] = "close" /\ fd'[q] = fd[q]
      BY <1>2, <2>3, <2>7
    <3>2. fd[q] \in Fds /\ canal[fd[q]] = Nadie
      BY <1>0, <3>1 DEF Canales, Tiene, EnCerrar, Exclusion
    <3> QED
      BY <2>5, <2>6, <3>1, <3>2
  <2>8. \A f \in Fds : ConSSL(f)' => canal'[f] # Nadie
    BY <2>4, <2>5 DEF Canales
  <2>9. \A f \in Fds : canal'[f] # Nadie => duenno'[f] = canal'[f]
    BY <2>5, <2>6 DEF Canales
  <2> QED
    BY <2>7, <2>8, <2>9 DEF Canales
<1>6. ASSUME NEW f \in Fds, AceptarConexion(f)
      PROVE  Canales'
  <2>1. /\ duenno[f] = Nadie /\ duenno' = [duenno EXCEPT ![f] = aceptadas + 1]
        /\ fd' = [fd EXCEPT ![principal] = f] /\ canal' = canal
        /\ pc' = [pc EXCEPT ![principal] = "canalNuevo"]
        /\ readFD' \subseteq readFD /\ activeFD' = activeFD /\ pc[principal] = "recorre"
    BY <1>6 DEF AceptarConexion, Turno, EsMenor
  <2>2. canal[f] = Nadie
    BY <2>1 DEF Canales
  <2>3. pc'[principal] = "canalNuevo"
    BY <1>0, <2>1
  <2>4. ASSUME NEW g \in Fds, ConSSL(g)'
        PROVE  ConSSL(g)
    <3>1. CASE PorLeer(g)'
      BY <2>1, <3>1 DEF ConSSL, PorLeer, EnManosDePrincipal
    <3>2. ASSUME NEW q \in Procs, pc'[q] \in ConCanal, fd'[q] = g
          PROVE  ConSSL(g)
      <4>1. q # principal
        BY <2>3, <3>2 DEF ConCanal, EnCerrar
      <4> QED
        BY <1>2, <3>2, <4>1 DEF ConSSL
    <3> QED
      BY <2>4, <3>1, <3>2 DEF ConSSL
  <2>5. ASSUME NEW q \in Procs, pc'[q] = "close"
        PROVE  canal'[fd'[q]] = Nadie
    <3>1. q # principal /\ pc[q] = "close" /\ fd'[q] = fd[q]
      BY <1>2, <2>3, <2>5
    <3> QED
      BY <2>1, <3>1 DEF Canales
  <2>6. \A g \in Fds : canal'[g] # Nadie => duenno'[g] = canal'[g]
    BY <1>0, <2>1, <2>2 DEF Canales
  <2> QED
    BY <2>1, <2>4, <2>5, <2>6 DEF Canales
<1> QED
  BY <1>4, <1>5, <1>6

(* cerrarConexion frees the SSL object of a descriptor only it has.        *)
LEMMA CanalesCerrar ==
    ASSUME Invariante, Canales, NEW p \in Procs, CerrarConexion(p) \/ (p \in Hilos /\ Kill(p))
    PROVE  Canales'
<1> USE DEF clientes, kernel, locales, mensaje, Va
<1>0. /\ pc \in [Procs -> LugaresHilo \cup LugaresPrincipal] /\ ssl \in BOOLEAN
      /\ fd \in [Procs -> Fds \cup {sckt}] /\ Exclusion /\ FueraDeSelect
      /\ duenno \in [Fds -> 0..MaxConns] /\ canal \in [Fds -> 0..MaxConns]
  BY DEF Invariante, Reparto, TypeOK
<1>1. \A f \in Fds : PorLeer(f)' => PorLeer(f)
  BY ConservaCerrar DEF Conserva, ConservaLeer
<1>2. CASE CerrarGetData(p) \/ CerrarQuit(p) \/ CerrarDeleteTempUser(p)
  <2>1. PICK lugar \in {"quitBD", "delTemp", "canal", "close"} :
            /\ pc' = [pc EXCEPT ![p] = lugar] /\ fd' = fd
            /\ pc[p] \in ConCanal /\ (ssl => lugar # "close")
            /\ UNCHANGED <<ssl, canal, duenno>>
    <3>1. CASE CerrarGetData(p)
      BY <3>1 DEF CerrarGetData, ConCanal, EnCerrar
    <3>2. CASE CerrarQuit(p)
      BY <3>2 DEF CerrarQuit, ConCanal, EnCerrar
    <3>3. CASE CerrarDeleteTempUser(p)
      BY <3>3 DEF CerrarDeleteTempUser, ConCanal, EnCerrar
    <3> QED
      BY <1>2, <3>1, <3>2, <3>3
  <2>2. pc'[p] = lugar /\ \A q \in Procs \ {p} : pc'[q] = pc[q]
    BY <1>0, <2>1
  <2>3. \A f \in Fds : fd'[p] = f => ConSSL(f)
    BY <2>1 DEF ConSSL
  <2> QED
    BY <1>1, <2>1, <2>2, <2>3, CanalesMarco DEF ConSSL
<1>3. CASE CerrarDeleteFd(p) \/ (p \in Hilos /\ Kill(p))
  <2>1. PICK lugar \in {"recorre", "libre"} :
            /\ pc' = [pc EXCEPT ![p] = lugar] /\ fd' = [fd EXCEPT ![p] = sckt]
            /\ UNCHANGED <<ssl, canal, duenno>>
    BY <1>3 DEF CerrarDeleteFd, Kill, Olvida
  <2>2. /\ pc'[p] = lugar /\ lugar \notin ConCanal
        /\ \A q \in Procs \ {p} : pc'[q] = pc[q] /\ fd'[q] = fd[q]
    BY <1>0, <2>1 DEF ConCanal, EnCerrar
  <2> QED
    BY <1>1, <2>1, <2>2, CanalesMarco DEF ConSSL
<1>4. CASE CerrarCanal(p) \/ CerrarClose(p)
  <2>1. /\ Tiene(p) /\ ssl' = ssl /\ fd' = fd
        /\ \A q \in Procs \ {p} : pc'[q] = pc[q]
        /\ pc[p] \in {"canal", "close"}
        /\ pc'[p] = IF pc[p] = "canal" THEN "close" ELSE "clrFd"
    BY <1>0, <1>4 DEF CerrarCanal, CerrarClose, Tiene, EnCerrar
  <2>2. /\ fd[p] \in Fds /\ fd[p] \notin readFD
        /\ \A q \in Procs : Tiene(q) /\ fd[q] = fd[p] => q = p
        /\ p # principal => fd[p] \notin activeFD
    BY <1>0, <2>1 DEF Exclusion, FueraDeSelect
  <2>3. ~PorLeer(fd[p])
    BY <2>1, <2>2 DEF PorLeer, EnManosDePrincipal
  <2>4. ASSUME NEW f \in Fds, ConSSL(f)'
        PROVE  ConSSL(f) /\ f # fd[p]
    <3>1. CASE PorLeer(f)'
      BY <1>1, <2>3, <3>1 DEF ConSSL
    <3>2. ASSUME NEW q \in Procs, pc'[q] \in ConCanal, fd'[q] = f
          PROVE  ConSSL(f) /\ f # fd[p]
      <4>1. q # p
        BY <2>1, <3>2 DEF ConCanal, EnCerrar
      <4>2. pc[q] \in ConCanal /\ fd[q] = f /\ Tiene(q)
        BY <2>1, <3>2, <4>1 DEF ConCanal, Tiene
      <4> QED
        BY <2>2, <4>1, <4>2 DEF ConSSL
    <3> QED
      BY <2>4, <3>1, <3>2 DEF ConSSL
  <2>5. ASSUME ssl
        PROVE  /\ canal'[fd[p]] = Nadie
               /\ \A f \in Fds : f # fd[p] => canal'[f] = canal[f] /\ duenno'[f] = duenno[f]
    <3>1. CASE CerrarCanal(p)
      BY <1>0, <2>2, <3>1 DEF CerrarCanal
    <3>2. CASE CerrarClose(p)
      <4>1. canal[fd[p]] = Nadie
        BY <2>5, <3>2 DEF CerrarClose, Canales
      <4> QED
        BY <1>0, <2>2, <3>2, <4>1 DEF CerrarClose
    <3> QED
      BY <1>4, <3>1, <3>2
  <2> SUFFICES ASSUME ssl
               PROVE  Canales'
    BY <2>1 DEF Canales
  <2>6. ASSUME NEW q \in Procs, pc'[q] = "close"
        PROVE  canal'[fd'[q]] = Nadie
    <3>1. CASE q = p
      BY <2>1, <2>5, <3>1
    <3>2. CASE q # p
      <4>1. pc[q] = "close" /\ Tiene(q)
        BY <2>1, <2>6, <3>2 DEF Tiene, EnCerrar
      <4>2. fd[q] \in Fds /\ fd[q] # fd[p] /\ canal[fd[q]] = Nadie
        BY <1>0, <2>2, <3>2, <4>1 DEF Exclusion, Canales
      <4> QED
        BY <2>1, <2>5, <4>2
    <3> QED
      BY <3>1, <3>2
  <2>7. \A f \in Fds : ConSSL(f)' => canal'[f] # Nadie
    BY <2>4, <2>5 DEF Canales
  <2>8. \A f \in Fds : canal'[f] # Nadie => duenno'[f] = canal'[f]
    BY <2>5 DEF Canales
  <2> QED
    BY <2>6, <2>7, <2>8 DEF Canales
<1> QED
  BY <1>2, <1>3, <1>4 DEF CerrarConexion

(* A message goes from select to a thread and back, with its SSL object.   *)
LEMMA CanalesEntrega ==
    ASSUME Invariante, Canales,
           \/ NuevaAddFd
           \/ \E i \in Fds : RecvDatos(i)
           \/ \E h \in Hilos : \/ CreaHilo(h) \/ EjecutaOtro(h) \/ EjecutaUser(h)
                               \/ UserDeleteTempUser(h) \/ EjecutaQuit(h) \/ AddFd(h)
    PROVE  Canales'
<1> USE DEF clientes, kernel, locales, mensaje, Va
<1>0. /\ pc \in [Procs -> LugaresHilo \cup LugaresPrincipal] /\ principal \in Procs
      /\ fd \in [Procs -> Fds \cup {sckt}] /\ principal \notin Hilos
      /\ \A h \in Hilos : h \in Procs /\ h # principal
  BY ServidorAssumption DEF Invariante, TypeOK, Procs
<1>1. CASE NuevaAddFd
  <2>1. /\ pc[principal] = "nuevaAdd" /\ pc' = [pc EXCEPT ![principal] = "recorre"]
        /\ fd' = [fd EXCEPT ![principal] = sckt]
        /\ activeFD' = activeFD \cup {fd[principal]}
        /\ UNCHANGED <<readFD, ssl, canal, duenno>>
    BY <1>1 DEF NuevaAddFd, Olvida
  <2>2. pc'[principal] = "recorre"
        /\ \A q \in Procs \ {principal} : pc'[q] = pc[q] /\ fd'[q] = fd[q]
    BY <1>0, <2>1
  <2>3. \A f \in Fds : PorLeer(f)' => ConSSL(f)
    BY <1>0, <2>1 DEF PorLeer, ConSSL, ConCanal, EnManosDePrincipal
  <2> QED
    BY <1>0, <2>1, <2>2, <2>3, CanalesMarco DEF ConCanal, EnCerrar
<1>2. ASSUME NEW i \in Fds, RecvDatos(i)
      PROVE  Canales'
  <2>1. /\ pc[principal] = "recorre" /\ pc' = [pc EXCEPT ![principal] = "deleteFd"]
        /\ fd' = [fd EXCEPT ![principal] = i] /\ i \in readFD
        /\ readFD' \subseteq readFD
        /\ UNCHANGED <<activeFD, ssl, canal, duenno>>
    BY <1>2 DEF RecvDatos, Turno, EsMenor
  <2>2. pc'[principal] = "deleteFd" /\ fd'[principal] = i
        /\ \A q \in Procs \ {principal} : pc'[q] = pc[q] /\ fd'[q] = fd[q]
    BY <1>0, <2>1
  <2>3. \A f \in Fds : PorLeer(f)' => ConSSL(f)
    BY <2>1 DEF PorLeer, ConSSL, EnManosDePrincipal
  <2>4. ConSSL(i)
    BY <2>1 DEF ConSSL, PorLeer
  <2> QED
    BY <1>0, <2>1, <2>2, <2>3, <2>4, CanalesMarco
<1>3. ASSUME NEW h \in Hilos, CreaHilo(h)
      PROVE  Canales'
  <2>1. /\ pc[principal] = "pthread_create"
        /\ pc' = [pc EXCEPT ![h] = "procesa", ![principal] = "recorre"]
        /\ fd' = [fd EXCEPT ![h] = fd[principal], ![principal] = sckt]
        /\ UNCHANGED <<activeFD, readFD, ssl, canal, duenno>>
    BY <1>3 DEF CreaHilo
  <2>2. /\ pc'[principal] = "recorre" /\ pc'[h] = "procesa" /\ fd'[h] = fd[principal]
        /\ \A q \in Procs : q # h /\ q # principal => pc'[q] = pc[q] /\ fd'[q] = fd[q]
    BY <1>0, <2>1
  <2>3. \A f \in Fds : fd[principal] = f => ConSSL(f)
    BY <1>0, <2>1 DEF ConSSL, ConCanal
  <2>4. ASSUME NEW f \in Fds, ConSSL(f)'
        PROVE  ConSSL(f)
    <3>1. CASE PorLeer(f)'
      BY <2>1, <2>3, <3>1 DEF PorLeer, ConSSL, EnManosDePrincipal
    <3>2. ASSUME NEW q \in Procs, pc'[q] \in ConCanal, fd'[q] = f
          PROVE  ConSSL(f)
      <4>1. q # principal
        BY <2>2, <3>2 DEF ConCanal, EnCerrar
      <4>2. CASE q = h
        BY <2>2, <2>3, <3>2, <4>2
      <4>3. CASE q # h
        BY <2>2, <3>2, <4>1, <4>3 DEF ConSSL
      <4> QED
        BY <4>2, <4>3
    <3> QED
      BY <2>4, <3>1, <3>2 DEF ConSSL
  <2>5. ASSUME NEW q \in Procs, pc'[q] = "close"
        PROVE  pc[q] = "close" /\ fd'[q] = fd[q]
    BY <2>2, <2>5
  <2> QED
    BY <2>1, <2>4, <2>5 DEF Canales
<1>4. ASSUME NEW h \in Hilos,
             \/ EjecutaOtro(h) \/ EjecutaUser(h) \/ UserDeleteTempUser(h) \/ EjecutaQuit(h)
             \/ AddFd(h)
      PROVE  Canales'
  <2>1. /\ pc[h] \in {"procesa", "bienvenida"}
        /\ \E lugar \in {"procesa", "bienvenida", "getData", "kill"} :
               pc' = [pc EXCEPT ![h] = lugar]
        /\ activeFD' \subseteq activeFD \cup {fd[h]}
        /\ UNCHANGED <<readFD, ssl, canal, duenno, fd>>
    <3>1. pc = [pc EXCEPT ![h] = pc[h]]
      BY <1>0
    <3> QED
      BY <1>4, <3>1 DEF EjecutaOtro, EjecutaUser, UserDeleteTempUser, EjecutaQuit, Ejecuta,
         AddFd
  <2>2. PICK lugar \in {"procesa", "bienvenida", "getData", "kill"} :
            pc' = [pc EXCEPT ![h] = lugar]
    BY <2>1
  <2>3. /\ pc'[h] # "close" /\ \A q \in Procs \ {h} : pc'[q] = pc[q]
        /\ pc'[principal] = pc[principal]
    BY <1>0, <2>2
  <2>4. \A f \in Fds : fd[h] = f => ConSSL(f)
    BY <1>0, <2>1 DEF ConSSL, ConCanal
  <2>5. \A f \in Fds : PorLeer(f)' => ConSSL(f)
    BY <2>1, <2>3, <2>4 DEF PorLeer, ConSSL, EnManosDePrincipal
  <2> QED
    BY <1>0, <2>1, <2>3, <2>4, <2>5, CanalesMarco
<1> QED
  BY <1>1, <1>2, <1>3, <1>4

(* The steps that move nobody.                                             *)
LEMMA CanalesQuieto ==
    ASSUME Invariante, Canales,
           \/ Clientes \/ AceptarFalla \/ Alarma \/ UNCHANGED vars
           \/ \E i \in Fds : RecvError(i)
    PROVE  Canales'
<1>1. UNCHANGED <<pc, fd, ssl, canal, duenno, activeFD>> /\ readFD' \subseteq readFD
  BY DEF Clientes, Conecta, Envia, Desconecta, AceptarFalla, Alarma, RecvError, Turno, vars,
     clientes, kernel, locales
<1>2. \A f \in Fds : ConSSL(f)' => ConSSL(f)
  BY <1>1 DEF ConSSL, PorLeer, EnManosDePrincipal
<1> QED
  BY <1>1, <1>2 DEF Canales

(* With SSL the descriptor of a connection that is served has the object   *)
(* made for that connection, and a closed descriptor has none.             *)
THEOREM CanalSiempre == Spec => []CanalDelDuenno
<1>1. Init => Canales
  <2> SUFFICES ASSUME Init
               PROVE  Canales
    OBVIOUS
  <2>1. \A f \in Fds : ~PorLeer(f)
    BY FdNoEsSckt DEF Init, PorLeer
  <2>2. \A p \in Procs : pc[p] \in {"setReadFD", "libre"}
    BY DEF Init
  <2> QED
    BY <2>1, <2>2 DEF Init, Canales, ConSSL, ConCanal, EnCerrar
<1>2. Invariante /\ Canales /\ [Next]_vars => Canales'
  <2> SUFFICES ASSUME Invariante, Canales, [Next]_vars
               PROVE  Canales'
    OBVIOUS
  <2>1. ASSUME NEW p \in Procs, CerrarConexion(p)
        PROVE  Canales'
    BY <2>1, CanalesCerrar
  <2>2. CASE LanzarServidor
    BY <2>1, <2>2, CanalesPrincipal, CanalesAbre, CanalesEntrega, CanalesQuieto
       DEF LanzarServidor, Procs
  <2>3. ASSUME NEW h \in Hilos, ManejaMensaje(h)
        PROVE  Canales'
    BY <2>1, <2>3, CanalesEntrega, CanalesCerrar DEF ManejaMensaje, Procs
  <2> QED
    BY <2>2, <2>3, CanalesQuieto DEF Next
<1>3. Invariante /\ Canales => CanalDelDuenno
  <2> SUFFICES ASSUME Invariante, Canales, ssl, NEW f \in Fds
               PROVE  /\ canal[f] # Nadie => duenno[f] = canal[f]
                      /\ f \in activeFD /\ ~EnManosDePrincipal(f) => canal[f] # Nadie
    BY DEF CanalDelDuenno
  <2> QED
    BY DEF Canales, ConSSL, PorLeer
<1> QED
  BY <1>1, <1>2, <1>3, InvarianteSiempre, PTL DEF Spec

-----------------------------------------------------------------------------
(* The select loop and its threads implement the service of                *)
(* ServicioConexiones, step by step.                                       *)

(* The function the clients see.                                           *)
LEMMA EstadoCambia ==
    ASSUME NEW c \in Conns, NEW e, EstadoDe(c)' = e,
           \A d \in Conns : d # c => EstadoDe(d)' = EstadoDe(d)
    PROVE  [d \in Conns |-> EstadoDe(d)'] = [[d \in Conns |-> EstadoDe(d)] EXCEPT ![c] = e]
  OBVIOUS

(* A connection changes for its clients only if it is accepted, closed or  *)
(* passes from one thread's hands.                                         *)
LEMMA EstadoIgual ==
    ASSUME NEW c \in Conns,
           c > aceptadas' <=> c > aceptadas,
           Abierta(c)' <=> Abierta(c),
           (\E h \in Hilos : Atiende(h)' /\ con'[h] = c) <=>
                (\E h \in Hilos : Atiende(h) /\ con[h] = c)
    PROVE  EstadoDe(c)' = EstadoDe(c)
  BY DEF EstadoDe

(* The steps no client sees.                                               *)
LEMMA ServicioMarco ==
    ASSUME UNCHANGED <<aceptadas, duenno, hechos>>,
           \A h \in Hilos : /\ Atiende(h)' <=> Atiende(h)
                            /\ Atiende(h) => con'[h] = con[h]
    PROVE  UNCHANGED Servicio!vars
<1>1. \A c \in Conns : EstadoDe(c)' = EstadoDe(c)
  BY EstadoIgual DEF Abierta
<1> QED
  BY <1>1 DEF Servicio!vars

LEMMA ServicioPrincipal ==
    ASSUME Invariante,
           \/ SetReadFD \/ EntraSelect \/ SelectListo \/ SelectInterrumpido \/ FinRecorrido
           \/ AceptarFalla \/ CanalNuevo \/ AceptarCanal \/ NuevaDeleteTempUser
           \/ NuevaNewTempUser
           \/ NuevaAddFd \/ DeleteFd \/ CreaHiloFalla
           \/ \E i \in Fds : RecvDatos(i) \/ RecvError(i) \/ RecvCierre(i)
           \/ Clientes \/ Alarma \/ UNCHANGED vars
    PROVE  UNCHANGED Servicio!vars
<1> USE DEF clientes, kernel, locales, mensaje, historia, Va
<1>0. pc \in [Procs -> LugaresHilo \cup LugaresPrincipal] /\ con \in [Procs -> 0..MaxConns]
      /\ principal \notin Hilos /\ principal \in Procs /\ Hilos \subseteq Procs
  BY ServidorAssumption DEF Invariante, TypeOK, Procs
<1>1. CASE \/ AceptarFalla \/ Clientes \/ Alarma \/ UNCHANGED vars
           \/ \E i \in Fds : RecvError(i)
  <2>1. UNCHANGED <<aceptadas, duenno, hechos, pc, con>>
    BY <1>1 DEF Clientes, Conecta, Envia, Desconecta, AceptarFalla, Alarma, RecvError, vars
  <2> QED
    BY <2>1, ServicioMarco DEF Atiende
<1>2. CASE \/ SetReadFD \/ EntraSelect \/ SelectListo \/ SelectInterrumpido \/ FinRecorrido
           \/ CanalNuevo \/ AceptarCanal \/ NuevaDeleteTempUser \/ NuevaNewTempUser
           \/ DeleteFd
           \/ \E i \in Fds : RecvCierre(i)
  <2>1. /\ UNCHANGED <<aceptadas, duenno, hechos, con>>
        /\ \A h \in Hilos : pc'[h] = pc[h]
    BY <1>0, <1>2 DEF SetReadFD, EntraSelect, SelectListo, SelectInterrumpido, FinRecorrido,
       CanalNuevo, AceptarCanal, NuevaDeleteTempUser, NuevaNewTempUser, DeleteFd, RecvCierre
  <2> QED
    BY <2>1, ServicioMarco DEF Atiende
<1>3. CASE NuevaAddFd \/ CreaHiloFalla \/ \E i \in Fds : RecvDatos(i)
  <2>1. /\ UNCHANGED <<aceptadas, duenno, hechos>>
        /\ \A h \in Hilos : pc'[h] = pc[h] /\ con'[h] = con[h]
    BY <1>0, <1>3 DEF NuevaAddFd, CreaHiloFalla, RecvDatos, Olvida
  <2> QED
    BY <2>1, ServicioMarco DEF Atiende
<1> QED
  BY <1>1, <1>2, <1>3

LEMMA ServicioCerrar ==
    ASSUME Invariante, NEW p \in Procs,
           \/ CerrarGetData(p) \/ CerrarQuit(p) \/ CerrarDeleteTempUser(p)
           \/ CerrarCanal(p) \/ CerrarDeleteFd(p)
           \/ (p \in Hilos /\ (Kill(p) \/ UserDeleteTempUser(p)))
    PROVE  UNCHANGED Servicio!vars
<1> USE DEF clientes, kernel, locales, mensaje, historia, Va
<1>0. pc \in [Procs -> LugaresHilo \cup LugaresPrincipal] /\ con \in [Procs -> 0..MaxConns]
      /\ principal \notin Hilos /\ Hilos \subseteq Procs
  BY ServidorAssumption DEF Invariante, TypeOK, Procs
<1>1. CASE CerrarGetData(p) \/ CerrarQuit(p) \/ CerrarDeleteTempUser(p) \/ CerrarCanal(p)
  <2>1. /\ pc[p] \in EnCerrar /\ UNCHANGED <<aceptadas, duenno, hechos, con>>
        /\ \E lugar \in EnCerrar : pc' = [pc EXCEPT ![p] = lugar]
    BY <1>1 DEF CerrarGetData, CerrarQuit, CerrarDeleteTempUser, CerrarCanal, EnCerrar
  <2> QED
    BY <1>0, <2>1, ServicioMarco DEF Atiende
<1>2. CASE CerrarDeleteFd(p) \/ (p \in Hilos /\ Kill(p))
  <2>1. /\ pc[p] \notin {"procesa", "bienvenida"} \cup EnCerrar /\ UNCHANGED <<aceptadas, duenno, hechos>>
        /\ \E lugar \in {"recorre", "libre"} : pc' = [pc EXCEPT ![p] = lugar]
        /\ con' = [con EXCEPT ![p] = Nadie]
    BY <1>2 DEF CerrarDeleteFd, Kill, Olvida, EnCerrar
  <2>2. \A h \in Hilos : (Atiende(h)' <=> Atiende(h)) /\ (Atiende(h) => con'[h] = con[h])
    BY <1>0, <2>1 DEF Atiende, EnCerrar
  <2> QED
    BY <2>1, <2>2, ServicioMarco
<1>3. CASE p \in Hilos /\ UserDeleteTempUser(p)
  <2>1. /\ pc[p] = "bienvenida" /\ pc' = [pc EXCEPT ![p] = "procesa"]
        /\ UNCHANGED <<aceptadas, duenno, hechos, con>>
    BY <1>3 DEF UserDeleteTempUser
  <2> QED
    BY <1>0, <2>1, ServicioMarco DEF Atiende
<1> QED
  BY <1>1, <1>2, <1>3

(* accept: connections enter the service in the order they arrived.        *)
LEMMA ServicioAcepta ==
    ASSUME Invariante, NEW f \in Fds, AceptarConexion(f)
    PROVE  \E c \in Conns : Servicio!Acepta(c)
<1>1. /\ duenno \in [Fds -> 0..MaxConns] /\ DuennoAceptado
      /\ pc \in [Procs -> LugaresHilo \cup LugaresPrincipal]
      /\ principal \notin Hilos /\ Hilos \subseteq Procs
      /\ MensajeDelDuenno /\ Exclusion
  BY ServidorAssumption DEF Invariante, Reparto, TypeOK, Procs
<1>2. /\ aceptadas \in Nat /\ llegadas \in Nat /\ MaxConns \in Nat
      /\ aceptadas < llegadas /\ llegadas <= MaxConns
  BY ServidorAssumption DEF Invariante, TypeOK, AceptarConexion
<1>3. PICK c \in Conns : c = aceptadas + 1
  BY <1>2 DEF Conns
<1>4. /\ aceptadas' = c /\ duenno' = [duenno EXCEPT ![f] = c] /\ duenno[f] = Nadie
      /\ con' = con /\ hechos' = hechos /\ \A h \in Hilos : pc'[h] = pc[h]
  BY <1>1, <1>3 DEF AceptarConexion, EsMenor, Va, mensaje, historia
<1>5. \A h \in Hilos : Atiende(h)' <=> Atiende(h)
  BY <1>4 DEF Atiende
<1>6. ASSUME NEW h \in Hilos, Atiende(h)
      PROVE  con[h] # c
  <2>1. fd[h] \in Fds /\ con[h] = duenno[fd[h]]
    BY <1>1, <1>6 DEF Exclusion, Tiene, MensajeDelDuenno, Atiende
  <2> QED
    BY <1>1, <1>2, <1>3, <2>1 DEF DuennoAceptado
<1>7. EstadoDe(c) = "ausente"
  BY <1>2, <1>3 DEF EstadoDe
<1>8. EstadoDe(c)' = "espera"
  <2>1. Abierta(c)'
    BY <1>1, <1>4 DEF Abierta
  <2>2. ~\E h \in Hilos : Atiende(h)' /\ con'[h] = c
    BY <1>4, <1>5, <1>6
  <2>3. ~(c > aceptadas')
    BY <1>2, <1>3, <1>4
  <2> QED
    BY <2>1, <2>2, <2>3 DEF EstadoDe
<1>9. ASSUME NEW d \in Conns, d # c
      PROVE  EstadoDe(d)' = EstadoDe(d)
  <2>1. d > aceptadas' <=> d > aceptadas
    BY <1>2, <1>3, <1>4, <1>9 DEF Conns
  <2>2. Abierta(d)' <=> Abierta(d)
    BY <1>1, <1>4, <1>9 DEF Abierta, Conns, Nadie
  <2> QED
    BY <1>4, <1>5, <2>1, <2>2, EstadoIgual
<1>10. \A d \in Conns : d < c => EstadoDe(d) # "ausente"
  BY <1>2, <1>3 DEF EstadoDe, Conns
<1> QED
  BY <1>4, <1>7, <1>8, <1>9, <1>10, EstadoCambia DEF Servicio!Acepta, Servicio!Pasa

(* Nobody serves a connection that two threads would have.                 *)
LEMMA UnoAtiende ==
    ASSUME Invariante, NEW h \in Hilos, Atiende(h)
    PROVE  /\ fd[h] \in Fds /\ con[h] = duenno[fd[h]] /\ con[h] \in Conns
           /\ ~(con[h] > aceptadas) /\ Abierta(con[h])
           /\ \A g \in Hilos : Atiende(g) /\ con[g] = con[h] => g = h
           /\ \A f \in Fds : duenno[f] = con[h] => f = fd[h]
<1>1. /\ DuennoUnico /\ DuennoAceptado /\ Exclusion /\ MensajeDelDuenno /\ Hilos \subseteq Procs
      /\ duenno \in [Fds -> 0..MaxConns] /\ aceptadas \in Nat /\ MaxConns \in Nat
  BY ServidorAssumption DEF Invariante, Reparto, TypeOK, Procs
<1>2. \A g \in Hilos : Atiende(g) => Tiene(g) /\ fd[g] \in Fds /\ con[g] = duenno[fd[g]]
                                     /\ duenno[fd[g]] # Nadie
  BY <1>1 DEF Atiende, Tiene, Exclusion, MensajeDelDuenno
<1>3. con[h] \in Conns /\ con[h] <= aceptadas /\ Abierta(con[h])
  BY <1>1, <1>2 DEF DuennoAceptado, Abierta, Conns, Nadie
<1>4. \A f \in Fds : duenno[f] = con[h] => f = fd[h]
  BY <1>1, <1>2 DEF DuennoUnico
<1>5. \A g \in Hilos : Atiende(g) /\ con[g] = con[h] => g = h
  BY <1>1, <1>2, <1>4 DEF Exclusion
<1> QED
  BY <1>1, <1>2, <1>3, <1>4, <1>5 DEF Conns

(* A handshake that fails, or cerrarConexion: no state outlives the close. *)
LEMMA ServicioCierra ==
    ASSUME Invariante, NEW p \in Procs, CerrarClose(p) \/ (p = principal /\ CanalFalla)
    PROVE  \E c \in Conns : Servicio!Cierra(c)
<1>1. /\ DuennoUnico /\ DuennoAceptado /\ Exclusion /\ MensajeDelDuenno
      /\ Hilos \subseteq Procs /\ principal \notin Hilos
      /\ duenno \in [Fds -> 0..MaxConns] /\ aceptadas \in Nat /\ MaxConns \in Nat
      /\ pc \in [Procs -> LugaresHilo \cup LugaresPrincipal]
      /\ con \in [Procs -> 0..MaxConns]
  BY ServidorAssumption DEF Invariante, Reparto, TypeOK, Procs
<1>2. fd[p] \in Fds /\ duenno[fd[p]] # Nadie /\ Tiene(p)
  BY <1>1 DEF CerrarClose, CanalFalla, Tiene, EnCerrar, Exclusion
<1>3. PICK c \in Conns : c = duenno[fd[p]]
  BY <1>1, <1>2 DEF Conns, Nadie
<1>4. /\ duenno' = [duenno EXCEPT ![fd[p]] = Nadie] /\ aceptadas' = aceptadas
      /\ hechos' = hechos
      /\ \A h \in Hilos : h # p => pc'[h] = pc[h] /\ con'[h] = con[h]
      /\ p \in Hilos => ~Atiende(p)'
  BY <1>1 DEF CerrarClose, CanalFalla, Va, locales, mensaje, historia, Olvida, Atiende, EnCerrar
<1>5. ~Abierta(c)' /\ \A d \in Conns : d # c => (Abierta(d)' <=> Abierta(d))
  <2>1. ASSUME NEW g \in Fds, duenno'[g] = c
        PROVE  FALSE
    BY <1>1, <1>2, <1>3, <1>4, <2>1 DEF DuennoUnico, Conns, Nadie
  <2>2. ASSUME NEW d \in Conns, d # c
        PROVE  \A g \in Fds : duenno'[g] = d <=> duenno[g] = d
    BY <1>1, <1>2, <1>3, <1>4, <2>2 DEF Conns, Nadie
  <2> QED
    BY <2>1, <2>2 DEF Abierta
<1>6. c <= aceptadas /\ Abierta(c)
  BY <1>1, <1>2, <1>3 DEF DuennoAceptado, Abierta
<1>7. EstadoDe(c) \in {"espera", "atendida"} /\ EstadoDe(c)' = "cerrada"
  <2>1. ~(c > aceptadas) /\ ~(c > aceptadas')
    BY <1>1, <1>4, <1>6 DEF Conns
  <2> QED
    BY <1>5, <1>6, <2>1 DEF EstadoDe
<1>8. ASSUME NEW d \in Conns, d # c
      PROVE  EstadoDe(d)' = EstadoDe(d)
  <2>1. p \in Hilos /\ Atiende(p) => con[p] = c
    BY <1>3, UnoAtiende
  <2>2. \A h \in Hilos : h # p => (Atiende(h)' <=> Atiende(h)) /\ con'[h] = con[h]
    BY <1>4 DEF Atiende
  <2>3. (\E h \in Hilos : Atiende(h)' /\ con'[h] = d) <=>
            (\E h \in Hilos : Atiende(h) /\ con[h] = d)
    BY <1>4, <1>8, <2>1, <2>2
  <2> QED
    BY <1>4, <1>5, <1>8, <2>3, EstadoIgual
<1> QED
  BY <1>4, <1>7, <1>8, EstadoCambia DEF Servicio!Cierra, Servicio!Pasa

(* A thread gets the message; nobody else serves that connection.          *)
LEMMA ServicioEmpieza ==
    ASSUME Invariante, NEW h \in Hilos, CreaHilo(h)
    PROVE  \E c \in Conns : Servicio!EmpiezaMensaje(c)
<1>1. /\ DuennoUnico /\ DuennoAceptado /\ Exclusion /\ MensajeDelDuenno
      /\ Hilos \subseteq Procs /\ principal \notin Hilos /\ principal \in Procs
      /\ duenno \in [Fds -> 0..MaxConns] /\ aceptadas \in Nat /\ MaxConns \in Nat
      /\ pc \in [Procs -> LugaresHilo \cup LugaresPrincipal]
      /\ con \in [Procs -> 0..MaxConns]
  BY ServidorAssumption DEF Invariante, Reparto, TypeOK, Procs
<1>2. /\ Tiene(principal) /\ fd[principal] \in Fds /\ duenno[fd[principal]] # Nadie
      /\ con[principal] = duenno[fd[principal]]
  BY <1>1 DEF CreaHilo, Tiene, Exclusion, MensajeDelDuenno
<1>3. PICK c \in Conns : c = con[principal]
  BY <1>1, <1>2 DEF Conns, Nadie
<1>4. /\ pc' = [pc EXCEPT ![h] = "procesa", ![principal] = "recorre"] /\ pc[h] = "libre"
      /\ con' = [con EXCEPT ![h] = con[principal], ![principal] = Nadie]
      /\ UNCHANGED <<aceptadas, duenno, hechos>>
  BY DEF CreaHilo, EsMenor, kernel, historia
<1>5. /\ Atiende(h)' /\ con'[h] = c /\ ~Atiende(h)
      /\ \A g \in Hilos : g # h => (Atiende(g)' <=> Atiende(g)) /\ con'[g] = con[g]
  BY <1>1, <1>3, <1>4 DEF Atiende, EnCerrar
<1>6. c <= aceptadas /\ Abierta(c) /\ Abierta(c)'
  BY <1>1, <1>2, <1>3, <1>4 DEF DuennoAceptado, Abierta
<1>7. ASSUME NEW g \in Hilos, Atiende(g)
      PROVE  con[g] # c
  <2>1. fd[g] # fd[principal]
    BY <1>1, <1>2, <1>7 DEF Exclusion, Tiene, Atiende
  <2> QED
    BY <1>2, <1>3, <1>7, <2>1, UnoAtiende
<1>8. EstadoDe(c) = "espera" /\ EstadoDe(c)' = "atendida"
  <2>1. ~(c > aceptadas) /\ ~(c > aceptadas')
    BY <1>1, <1>4, <1>6 DEF Conns
  <2>2. EstadoDe(c) = "espera"
    BY <1>6, <1>7, <2>1 DEF EstadoDe
  <2>3. EstadoDe(c)' = "atendida"
    BY <1>5, <1>6, <2>1 DEF EstadoDe
  <2> QED
    BY <2>2, <2>3
<1>9. ASSUME NEW d \in Conns, d # c
      PROVE  EstadoDe(d)' = EstadoDe(d)
  <2>1. (\E g \in Hilos : Atiende(g)' /\ con'[g] = d) <=>
            (\E g \in Hilos : Atiende(g) /\ con[g] = d)
    BY <1>5, <1>9
  <2> QED
    BY <1>4, <2>1, EstadoIgual DEF Abierta
<1> QED
  BY <1>4, <1>8, <1>9, EstadoCambia DEF Servicio!EmpiezaMensaje, Servicio!Pasa

(* addFd gives the connection back to select.                              *)
LEMMA ServicioTermina ==
    ASSUME Invariante, NEW h \in Hilos, AddFd(h)
    PROVE  \E c \in Conns : Servicio!TerminaMensaje(c)
<1>1. /\ pc \in [Procs -> LugaresHilo \cup LugaresPrincipal] /\ Hilos \subseteq Procs
      /\ aceptadas \in Nat
  BY ServidorAssumption DEF Invariante, TypeOK, Procs
<1>2. Atiende(h)
  BY DEF AddFd, Atiende
<1>3. PICK c \in Conns : c = con[h]
  BY <1>2, UnoAtiende
<1>4. pc' = [pc EXCEPT ![h] = "kill"] /\ UNCHANGED <<aceptadas, duenno, hechos, con>>
  BY DEF AddFd, Va, kernel, locales, mensaje, historia
<1>5. /\ ~Atiende(h)'
      /\ \A g \in Hilos : g # h => (Atiende(g)' <=> Atiende(g))
  BY <1>1, <1>4 DEF Atiende, EnCerrar
<1>6. ~(c > aceptadas) /\ Abierta(c) /\ \A g \in Hilos : Atiende(g) /\ con[g] = c => g = h
  BY <1>2, <1>3, UnoAtiende
<1>7. EstadoDe(c) = "atendida"
  BY <1>2, <1>3, <1>6 DEF EstadoDe
<1>8. EstadoDe(c)' = "espera"
  <2>1. ~(c > aceptadas') /\ Abierta(c)'
    BY <1>4, <1>6 DEF Abierta
  <2>2. ~\E g \in Hilos : Atiende(g)' /\ con'[g] = c
    BY <1>4, <1>5, <1>6
  <2> QED
    BY <2>1, <2>2 DEF EstadoDe
<1>9. ASSUME NEW d \in Conns, d # c
      PROVE  EstadoDe(d)' = EstadoDe(d)
  <2>1. (\E g \in Hilos : Atiende(g)' /\ con'[g] = d) <=>
            (\E g \in Hilos : Atiende(g) /\ con[g] = d)
    BY <1>3, <1>4, <1>5, <1>9
  <2> QED
    BY <1>4, <2>1, EstadoIgual DEF Abierta
<1> QED
  BY <1>4, <1>7, <1>8, <1>9, EstadoCambia DEF Servicio!TerminaMensaje, Servicio!Pasa

(* A whole command comes after those of its connection executed before it; *)
(* half of one is nothing the service knows of.                            *)
LEMMA ServicioEjecuta ==
    ASSUME Invariante, Cuentas, NEW h \in Hilos,
           EjecutaOtro(h) \/ EjecutaUser(h) \/ EjecutaQuit(h)
    PROVE  (\E c \in Conns : Servicio!Ejecuta(c)) \/ UNCHANGED Servicio!vars
<1>1. /\ pc \in [Procs -> LugaresHilo \cup LugaresPrincipal] /\ Hilos \subseteq Procs
      /\ hechos \in [Conns -> Seq(Nat)] /\ guion \in Guiones
  BY ServidorAssumption DEF Invariante, TypeOK, Procs
<1>2. PICK orden \in Ordenes : Ejecuta(h, orden)
  BY DEF EjecutaOtro, EjecutaUser, EjecutaQuit, Ordenes
<1>3. /\ pc[h] = "procesa"
      /\ \/ pc' = pc
         \/ \E lugar \in {"getData", "bienvenida"} : pc' = [pc EXCEPT ![h] = lugar]
      /\ UNCHANGED <<aceptadas, duenno, con>>
  BY DEF EjecutaOtro, EjecutaUser, EjecutaQuit, Ejecuta, Va, kernel
<1>4. Atiende(h) /\ ConMensaje(h)
  BY <1>3 DEF Atiende, ConMensaje
<1>5. PICK c \in Conns : c = con[h]
  BY <1>4, UnoAtiende
<1>6. \A g \in Hilos : Atiende(g)' <=> Atiende(g)
  BY <1>1, <1>3 DEF Atiende, EnCerrar
<1>7. CASE EjecutaTrozo(h, orden)
  BY <1>3, <1>6, <1>7, ServicioMarco DEF EjecutaTrozo
<1>8. CASE EjecutaEntera(h, orden)
  <2>1. PICK k \in DOMAIN guion[c] :
            /\ sig[h] = 2 * k - 1
            /\ hechos' = [hechos EXCEPT ![c] = Append(hechos[c], k)]
    BY <1>5, <1>8 DEF EjecutaEntera
  <2>2. k \in Posiciones
    BY <1>1 DEF Posiciones
  <2>3. k \in Nat /\ DOMAIN guion[c] \subseteq Nat
    BY Numeradas DEF Invariante
  <2>4. Hechos(c) = {n \in DOMAIN guion[c] : 2 * n < 2 * k - 1} \ cortados[c]
    <3>1. Hasta(c, sig[h])
      BY <1>1, <1>4, <1>5 DEF Cuentas, MensajeDe
    <3>2. PICK n \in Nat : n = 2 * k - 1 /\ n = sig[h]
      BY <2>1, <2>3, Numeradas DEF Invariante
    <3>3. Hasta(c, n)
      BY <3>1, <3>2
    <3> QED
      BY <3>2, <3>3 DEF Hasta
  <2>5. ASSUME NEW i \in DOMAIN hechos[c]
        PROVE  hechos[c][i] < k
    <3>1. hechos[c][i] \in Hechos(c) /\ hechos[c][i] \in Nat
      BY <1>1 DEF Hechos
    <3> QED
      BY <2>3, <2>4, <3>1
  <2>6. \A d \in Conns : EstadoDe(d)' = EstadoDe(d)
    BY <1>3, <1>6, EstadoIgual DEF Abierta
  <2>7. EstadoDe(c) = "atendida"
    BY <1>4, <1>5, UnoAtiende DEF EstadoDe
  <2> QED
    BY <2>1, <2>2, <2>5, <2>6, <2>7 DEF Servicio!Ejecuta
<1> QED
  BY <1>2, <1>7, <1>8 DEF Ejecuta

(* Every step of the loop or of a thread is one of the service, or none.   *)
LEMMA ServicioPaso ==
    ASSUME Invariante, Cuentas, [Next]_vars
    PROVE  [Servicio!Next]_Servicio!vars
<1>1. CASE Clientes \/ Alarma \/ UNCHANGED vars
  BY <1>1, ServicioPrincipal
<1>2. ASSUME NEW p \in Procs, CerrarConexion(p)
      PROVE  [Servicio!Next]_Servicio!vars
  BY <1>2, ServicioCerrar, ServicioCierra DEF CerrarConexion, Servicio!Next
<1>3. CASE LanzarServidor
  BY <1>2, <1>3, ServicioPrincipal, ServicioAcepta, ServicioCierra, ServicioEmpieza
     DEF LanzarServidor, Servicio!Next, Procs
<1>4. ASSUME NEW h \in Hilos, ManejaMensaje(h)
      PROVE  [Servicio!Next]_Servicio!vars
  BY <1>2, <1>4, ServicioCerrar, ServicioTermina, ServicioEjecuta
     DEF ManejaMensaje, Servicio!Next, Procs
<1> QED
  BY <1>1, <1>3, <1>4 DEF Next

LEMMA ServicioInicial == Init => Servicio!Init
<1> SUFFICES ASSUME Init PROVE Servicio!Init
  OBVIOUS
<1>1. \A c \in Conns : EstadoDe(c) = "ausente"
  BY ServidorAssumption DEF Init, EstadoDe, Conns
<1> QED
  BY <1>1 DEF Init, Servicio!Init

(* Whatever the threads' interleaving, each connection is served in order, *)
(* one message at a time, each command once, and none after its close.     *)
THEOREM ImplementaServicioSiempre == Spec => ImplementaServicio
  BY InvarianteSiempre, CuentasSiempre, ServicioInicial, ServicioPaso, PTL
     DEF Spec, ImplementaServicio, Servicio!Spec

-----------------------------------------------------------------------------
(* No connection is forgotten, as long as nobody quits and threads can be  *)
(* created.                                                                *)

(* Clients leave by closing their socket only, and the second half of no   *)
(* command reads QUIT.                                                     *)
SinQuit ==
    /\ \A g \in Guiones, c \in Conns : \A k \in DOMAIN g[c] : g[c][k] # "QUIT"
    /\ "QUIT" \notin Restos

(* There is a thread for the message whenever the loop wants one.          *)
HayHilo == pc[principal] = "pthread_create" => \E h \in Hilos : pc[h] = "libre"

(* What DescriptorVigilado rests on: only the main thread closes, and what *)
(* it takes out of activeFD afterwards nobody has been given yet.          *)
CierraPrincipal ==
    /\ \A h \in Hilos : pc[h] \in {"libre", "procesa", "bienvenida", "kill"}
    /\ pc[principal] = "clrFd" => duenno[fd[principal]] = Nadie

(* A line that is executed is one the client could send, or part of one.   *)
LEMMA OrdenDelGuion ==
    ASSUME SinQuit, Invariante, NEW h \in Hilos
    PROVE  ~EjecutaQuit(h)
<1> SUFFICES ASSUME EjecutaQuit(h) PROVE FALSE
  OBVIOUS
<1>1. /\ guion \in Guiones /\ pc[h] = "procesa"
      /\ EjecutaEntera(h, "QUIT") \/ EjecutaTrozo(h, "QUIT")
  BY DEF Invariante, TypeOK, EjecutaQuit, Ejecuta
<1>2. con[h] \in Conns
  BY <1>1, UnoAtiende DEF Atiende
<1>3. \A k \in DOMAIN guion[con[h]] : guion[con[h]][k] # "QUIT"
  BY <1>1, <1>2 DEF SinQuit
<1>4. ~EjecutaEntera(h, "QUIT")
  BY <1>3 DEF EjecutaEntera
<1>5. ~EjecutaTrozo(h, "QUIT")
  BY <1>3 DEF EjecutaTrozo, SinQuit
<1> QED
  BY <1>1, <1>4, <1>5

LEMMA VigiladoPrincipal ==
    ASSUME Invariante, CierraPrincipal, DescriptorVigilado, HayHilo, LanzarServidor
    PROVE  DescriptorVigilado' /\ CierraPrincipal'
<1> USE DEF clientes, kernel, locales, mensaje, historia, Va
<1>0. /\ pc \in [Procs -> LugaresHilo \cup LugaresPrincipal] /\ fd \in [Procs -> Fds \cup {sckt}]
      /\ duenno \in [Fds -> 0..MaxConns] /\ aceptadas \in Nat /\ Exclusion
      /\ principal \notin Hilos /\ principal \in Procs /\ Hilos \subseteq Procs
  BY ServidorAssumption DEF Invariante, Reparto, TypeOK, Procs
<1> DEFINE W(f) == f \in activeFD \/ \E h \in Hilos : Atiende(h) /\ fd[h] = f
<1>1. \A f \in Fds : duenno[f] # Nadie => W(f) \/ EnManosDePrincipal(f)
  BY DEF DescriptorVigilado
<1>2. CASE SetReadFD \/ EntraSelect \/ SelectListo \/ SelectInterrumpido \/ FinRecorrido
           \/ AceptarFalla \/ \E i \in Fds : RecvError(i)
  <2>1. /\ UNCHANGED <<duenno, activeFD, fd>> /\ \A h \in Hilos : pc'[h] = pc[h]
        /\ pc[principal] \in {"setReadFD", "select", "bloqueado", "recorre"}
        /\ pc'[principal] \in {"setReadFD", "select", "bloqueado", "recorre"}
    BY <1>0, <1>2 DEF SetReadFD, EntraSelect, SelectListo, SelectInterrumpido, FinRecorrido,
       AceptarFalla, RecvError, Turno
  <2> QED
    BY <1>1, <2>1 DEF CierraPrincipal, DescriptorVigilado, EnManosDePrincipal, Atiende
<1>3. CASE \/ CanalNuevo \/ AceptarCanal \/ NuevaDeleteTempUser \/ NuevaNewTempUser
           \/ CerrarGetData(principal) \/ CerrarQuit(principal)
           \/ CerrarDeleteTempUser(principal) \/ CerrarCanal(principal)
  <2>1. /\ UNCHANGED <<duenno, activeFD, fd>> /\ \A h \in Hilos : pc'[h] = pc[h]
        /\ pc'[principal] \in {"saluda", "nueva", "nuevaTemp", "nuevaAdd"} \cup EnCerrar
    BY <1>0, <1>3 DEF CanalNuevo, AceptarCanal, NuevaDeleteTempUser, NuevaNewTempUser,
       CerrarGetData, CerrarQuit, CerrarDeleteTempUser, CerrarCanal, EnCerrar
  <2> QED
    BY <1>1, <2>1 DEF CierraPrincipal, DescriptorVigilado, EnManosDePrincipal, Atiende, EnCerrar
<1>4. ASSUME NEW g \in Fds, AceptarConexion(g)
      PROVE  DescriptorVigilado' /\ CierraPrincipal'
  <2>1. /\ activeFD' = activeFD /\ \A h \in Hilos : pc'[h] = pc[h] /\ fd'[h] = fd[h]
        /\ duenno' = [duenno EXCEPT ![g] = aceptadas + 1] /\ pc[principal] = "recorre"
        /\ pc'[principal] \in {"canalNuevo", "nueva"} /\ fd'[principal] = g
    BY <1>0, <1>4 DEF AceptarConexion, Turno
  <2> QED
    BY <1>0, <1>1, <2>1 DEF CierraPrincipal, DescriptorVigilado, EnManosDePrincipal, Atiende
<1>5. CASE CanalFalla \/ NuevaAddFd
  <2>1. /\ \A h \in Hilos : pc'[h] = pc[h] /\ fd'[h] = fd[h]
        /\ pc'[principal] = "recorre"
        /\ \/ activeFD' = activeFD /\ duenno' = [duenno EXCEPT ![fd[principal]] = Nadie]
           \/ activeFD' = activeFD \cup {fd[principal]} /\ duenno' = duenno
    BY <1>0, <1>5 DEF CanalFalla, NuevaAddFd, Olvida
  <2> QED
    BY <1>0, <1>1, <2>1 DEF CierraPrincipal, DescriptorVigilado, EnManosDePrincipal, Atiende
<1>6. ASSUME NEW i \in Fds, RecvDatos(i) \/ RecvCierre(i)
      PROVE  DescriptorVigilado' /\ CierraPrincipal'
  <2>1. /\ UNCHANGED <<duenno, activeFD>> /\ pc[principal] = "recorre"
        /\ \A h \in Hilos : pc'[h] = pc[h] /\ fd'[h] = fd[h]
        /\ pc'[principal] \in {"deleteFd", "getData"}
    BY <1>0, <1>6 DEF RecvDatos, RecvCierre, Turno
  <2> QED
    BY <1>1, <2>1 DEF CierraPrincipal, DescriptorVigilado, EnManosDePrincipal, Atiende
<1>7. CASE DeleteFd
  <2>1. /\ duenno' = duenno /\ fd' = fd /\ activeFD' = activeFD \ {fd[principal]}
        /\ \A h \in Hilos : pc'[h] = pc[h]
        /\ pc'[principal] = "pthread_create"
    BY <1>0, <1>7 DEF DeleteFd
  <2> QED
    BY <1>1, <2>1 DEF CierraPrincipal, DescriptorVigilado, EnManosDePrincipal, Atiende
<1>8. ASSUME NEW h \in Hilos, CreaHilo(h)
      PROVE  DescriptorVigilado' /\ CierraPrincipal'
  <2>1. /\ UNCHANGED <<duenno, activeFD>> /\ h # principal /\ h \in Procs /\ pc[h] = "libre"
        /\ pc' = [pc EXCEPT ![h] = "procesa", ![principal] = "recorre"]
        /\ fd' = [fd EXCEPT ![h] = fd[principal], ![principal] = sckt]
    BY <1>0, <1>8 DEF CreaHilo, EsMenor
  <2>2. /\ Atiende(h)' /\ fd'[h] = fd[principal] /\ pc'[principal] = "recorre"
        /\ \A g \in Hilos : g # h => pc'[g] = pc[g] /\ fd'[g] = fd[g]
        /\ ~Atiende(h)
    BY <1>0, <2>1 DEF Atiende, EnCerrar
  <2>3. CierraPrincipal'
    BY <1>0, <2>1 DEF CierraPrincipal
  <2>4. \A g \in Hilos : Atiende(g) => Atiende(g)' /\ fd'[g] = fd[g]
    BY <2>2 DEF Atiende
  <2>5. \A f \in Fds : EnManosDePrincipal(f) => f = fd[principal]
    BY DEF EnManosDePrincipal
  <2>6. ASSUME NEW f \in Fds, duenno'[f] # Nadie
        PROVE  f \in activeFD' \/ \E g \in Hilos : Atiende(g)' /\ fd'[g] = f
    <3>1. duenno[f] # Nadie /\ activeFD' = activeFD
      BY <2>1, <2>6
    <3>2. CASE f \in activeFD
      BY <3>1, <3>2
    <3>3. ASSUME NEW g \in Hilos, Atiende(g), fd[g] = f
          PROVE  \E k \in Hilos : Atiende(k)' /\ fd'[k] = f
      BY <2>4, <3>3
    <3>4. CASE f = fd[principal]
      BY <2>2, <3>4
    <3> QED
      BY <1>1, <2>5, <3>1, <3>2, <3>3, <3>4
  <2> QED
    BY <2>3, <2>6 DEF DescriptorVigilado
<1>9. ~CreaHiloFalla
  BY DEF CreaHiloFalla, HayHilo
<1>10. CASE CerrarClose(principal)
  <2>1. /\ activeFD' = activeFD /\ fd' = fd /\ \A h \in Hilos : pc'[h] = pc[h]
        /\ duenno' = [duenno EXCEPT ![fd[principal]] = Nadie]
        /\ pc'[principal] = "clrFd" /\ fd[principal] \in Fds
    BY <1>0, <1>10 DEF CerrarClose, Exclusion, Tiene, EnCerrar
  <2> QED
    BY <1>0, <1>1, <2>1 DEF CierraPrincipal, DescriptorVigilado, EnManosDePrincipal, Atiende
<1>11. CASE CerrarDeleteFd(principal)
  <2>1. /\ duenno' = duenno /\ activeFD' = activeFD \ {fd[principal]}
        /\ \A h \in Hilos : pc'[h] = pc[h] /\ fd'[h] = fd[h]
        /\ duenno[fd[principal]] = Nadie /\ pc'[principal] = "recorre"
    BY <1>0, <1>11 DEF CerrarDeleteFd, CierraPrincipal, Olvida
  <2> QED
    BY <1>1, <2>1 DEF CierraPrincipal, DescriptorVigilado, EnManosDePrincipal, Atiende
<1> QED
  BY <1>2, <1>3, <1>4, <1>5, <1>6, <1>7, <1>8, <1>9, <1>10, <1>11
     DEF LanzarServidor, CerrarConexion

LEMMA VigiladoHilo ==
    ASSUME SinQuit, Invariante, CierraPrincipal, DescriptorVigilado,
           NEW h \in Hilos, ManejaMensaje(h)
    PROVE  DescriptorVigilado' /\ CierraPrincipal'
<1> USE DEF clientes, kernel, locales, mensaje, historia, Va
<1>0. /\ pc \in [Procs -> LugaresHilo \cup LugaresPrincipal] /\ fd \in [Procs -> Fds \cup {sckt}]
      /\ principal \notin Hilos /\ principal \in Procs /\ Hilos \subseteq Procs
  BY ServidorAssumption DEF Invariante, TypeOK, Procs
<1>1. \A f \in Fds : duenno[f] # Nadie =>
        \/ f \in activeFD
        \/ \E g \in Hilos : Atiende(g) /\ fd[g] = f
        \/ EnManosDePrincipal(f)
  BY DEF DescriptorVigilado
<1>2. CASE EjecutaOtro(h) \/ EjecutaUser(h) \/ UserDeleteTempUser(h)
  <2>1. /\ UNCHANGED <<duenno, activeFD, fd>> /\ Atiende(h)
        /\ \/ pc' = pc
           \/ \E lugar \in {"procesa", "bienvenida"} : pc' = [pc EXCEPT ![h] = lugar]
    BY <1>2 DEF EjecutaOtro, EjecutaUser, Ejecuta, UserDeleteTempUser, Atiende
  <2>2. /\ pc'[principal] = pc[principal] /\ CierraPrincipal'
        /\ \A g \in Hilos : Atiende(g)' <=> Atiende(g)
    BY <1>0, <2>1 DEF CierraPrincipal, Atiende
  <2> QED
    BY <1>1, <2>1, <2>2 DEF DescriptorVigilado, EnManosDePrincipal
<1>3. CASE AddFd(h)
  <2>1. /\ duenno' = duenno /\ activeFD' = activeFD \cup {fd[h]} /\ fd' = fd
        /\ pc' = [pc EXCEPT ![h] = "kill"]
    BY <1>3 DEF AddFd
  <2> QED
    BY <1>0, <1>1, <2>1 DEF CierraPrincipal, DescriptorVigilado, EnManosDePrincipal, Atiende
<1>4. CASE Kill(h)
  <2>1. /\ UNCHANGED <<duenno, activeFD>> /\ pc' = [pc EXCEPT ![h] = "libre"]
        /\ fd' = [fd EXCEPT ![h] = sckt] /\ pc[h] = "kill"
    BY <1>4 DEF Kill, Olvida
  <2>2. ~Atiende(h) /\ \A g \in Hilos : g # h => pc'[g] = pc[g] /\ fd'[g] = fd[g]
    BY <1>0, <2>1 DEF Atiende, EnCerrar
  <2>3. pc'[principal] = pc[principal] /\ fd'[principal] = fd[principal]
    BY <1>0, <2>1
  <2>4. CierraPrincipal'
    BY <1>0, <2>1, <2>3 DEF CierraPrincipal
  <2>5. \A g \in Hilos : Atiende(g) => Atiende(g)' /\ fd'[g] = fd[g]
    BY <2>2 DEF Atiende
  <2> QED
    BY <1>1, <2>1, <2>3, <2>4, <2>5 DEF DescriptorVigilado, EnManosDePrincipal
<1>5. ~CerrarConexion(h)
  BY DEF CierraPrincipal, CerrarConexion, CerrarGetData, CerrarQuit, CerrarDeleteTempUser,
         CerrarCanal, CerrarClose, CerrarDeleteFd
<1> QED
  BY <1>2, <1>3, <1>4, <1>5, OrdenDelGuion DEF ManejaMensaje

(* If clients leave by closing and a thread can be created for every       *)
(* message, no open connection is left without a watcher: the order of     *)
(* close and deleteFd after QUIT and the test of what pthread_create       *)
(* returns are the only two ways to lose one.                              *)
THEOREM VigiladoSiempre ==
    ASSUME SinQuit
    PROVE  Spec /\ []HayHilo => []DescriptorVigilado
<1> DEFINE I == DescriptorVigilado /\ CierraPrincipal
<1>1. Init => I
  BY ServidorAssumption DEF Init, CierraPrincipal, DescriptorVigilado, Procs
<1>2. I /\ Invariante /\ HayHilo /\ [Next]_vars => I'
  <2> SUFFICES ASSUME I, Invariante, HayHilo, [Next]_vars
               PROVE  I'
    OBVIOUS
  <2>1. CASE Clientes \/ Alarma \/ UNCHANGED vars
    <3>1. UNCHANGED <<duenno, activeFD, pc, fd>>
      BY <2>1 DEF Clientes, Conecta, Envia, Desconecta, Alarma, vars, kernel, locales
    <3> QED
      BY <3>1 DEF CierraPrincipal, DescriptorVigilado, EnManosDePrincipal, Atiende
  <2>2. CASE LanzarServidor
    BY <2>2, VigiladoPrincipal
  <2>3. ASSUME NEW h \in Hilos, ManejaMensaje(h)
        PROVE  I'
    BY <2>3, VigiladoHilo
  <2> QED
    BY <2>1, <2>2, <2>3 DEF Next
<1>3. I => DescriptorVigilado
  OBVIOUS
<1> QED
  BY <1>1, <1>2, <1>3, InvarianteSiempre, PTL DEF Spec
=============================================================================
