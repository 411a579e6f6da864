-------------------------- MODULE ServidorPruebas --------------------------
(***************************************************************************)
(* Proofs about the select loop and its threads, for any number of         *)
(* descriptors, threads and connections and any commands.                  *)
(***************************************************************************)
EXTENDS ServidorPropiedades, TLAPS

(* What every client has to send is a sequence of commands.                *)
LEMMA GuionFinito ==
    ASSUME TypeOK, NEW c \in Conns
    PROVE  guion[c] \in Seq(Ordenes) /\ Len(guion[c]) \in Nat
<1>1. guion[c] \in Seq(Ordenes)
  BY ServidorAssumption DEF TypeOK, Conns
<1> QED
  BY <1>1

(* deleteTempUser adds no record.                                          *)
LEMMA SinTempQuita == \A f : SinTemp(f) \subseteq temps
  BY DEF SinTemp

(* A thread in charge of a descriptor has an open connection.              *)
LEMMA TieneAbierta ==
    ASSUME TypeOK, Exclusion, NEW p \in Procs, Tiene(p)
    PROVE  fd[p] \in Fds /\ duenno[fd[p]] \in Conns /\ duenno[fd[p]] # Nadie
<1>1. fd[p] \in Fds /\ duenno[fd[p]] # Nadie
  BY DEF Exclusion
<1>2. duenno[fd[p]] \in 0..MaxConns
  BY <1>1 DEF TypeOK
<1> QED
  BY <1>1, <1>2, ServidorAssumption DEF Conns, Nadie

(* Dropping the variables of a thread keeps their types.                   *)
LEMMA OlvidaTipo ==
    ASSUME TypeOK, NEW p \in Procs, Olvida(p)
    PROVE  /\ fd' \in [Procs -> Fds \cup {sckt}]
           /\ con' \in [Procs -> 0..MaxConns]
           /\ sig' \in [Procs -> Nat]
           /\ ult' \in [Procs -> Nat]
           /\ nick' \in [Procs -> 0..MaxConns]
<1>1. Nadie \in 0..MaxConns
  BY ServidorAssumption DEF Nadie
<1>2. fd' \in [Procs -> Fds \cup {sckt}]
  BY DEF TypeOK, Olvida
<1>3. con' \in [Procs -> 0..MaxConns] /\ nick' \in [Procs -> 0..MaxConns]
  BY <1>1 DEF TypeOK, Olvida
<1>4. sig' \in [Procs -> Nat] /\ ult' \in [Procs -> Nat]
  BY DEF TypeOK, Olvida
<1> QED
  BY <1>2, <1>3, <1>4

(* The type invariant is kept by the clients' steps.                       *)
LEMMA TipoClientes ==
    ASSUME TypeOK, Clientes
    PROVE  TypeOK'
<1>1. CASE Conecta
  <2>1. llegadas' \in 0..MaxConns /\ aceptadas \in 0..llegadas'
    BY <1>1, ServidorAssumption DEF TypeOK, Conecta
  <2> QED
    BY <1>1, <2>1 DEF TypeOK, Conecta, kernel, locales, mensaje, historia
<1>2. ASSUME NEW c \in Conns, Envia(c)
      PROVE  TypeOK'
  <2>0. PICK n \in Finales : /\ enviados[c] < n /\ n <= 2 * Len(guion[c])
                             /\ enviados' = [enviados EXCEPT ![c] = n]
    BY <1>2 DEF Envia
  <2>n. n \in Nat
    BY ServidorAssumption
  <2>1. enviados' \in [Conns -> Nat]
    BY <2>0, <2>n DEF TypeOK
  <2>2. ASSUME NEW d \in Conns
        PROVE  /\ recibidos'[d] <= leidos'[d]
               /\ leidos'[d] <= enviados'[d]
               /\ enviados'[d] <= 2 * Len(guion'[d])
    <3>1. /\ enviados[d] \in Nat /\ recibidos[d] \in Nat /\ leidos[d] \in Nat
          /\ Len(guion[d]) \in Nat
      BY GuionFinito DEF TypeOK
    <3>2. guion' = guion /\ leidos' = leidos /\ recibidos' = recibidos
      BY <1>2 DEF Envia, kernel
    <3>3. /\ recibidos[d] <= leidos[d] /\ leidos[d] <= enviados[d]
          /\ enviados[d] <= 2 * Len(guion[d])
      BY DEF TypeOK
    <3>4. CASE d = c
      <4>1. enviados'[d] = n /\ enviados[d] < n /\ n <= 2 * Len(guion[d])
        BY <2>0, <3>4 DEF TypeOK
      <4>2. guion' = guion
        BY <1>2 DEF Envia
      <4> QED
        BY <2>n, <3>1, <3>2, <3>3, <4>1, <4>2
    <3>5. CASE d # c
      <4>1. enviados'[d] = enviados[d]
        BY <2>0, <3>5 DEF TypeOK
      <4> QED
        BY <3>2, <3>3, <4>1
    <3> QED
      BY <3>4, <3>5
  <2> QED
    BY <1>2, <2>1, <2>2 DEF TypeOK, Envia, kernel, locales, mensaje, historia
<1>3. ASSUME NEW c \in Conns, NEW modo \in {"fin", "rst"}, Desconecta(c, modo)
      PROVE  TypeOK'
  BY <1>3 DEF TypeOK, Desconecta, clientes, locales, mensaje, historia
<1> QED
  BY <1>1, <1>2, <1>3 DEF Clientes

(* The type invariant is kept by cerrarConexion, whoever calls it.         *)
LEMMA TipoCerrar ==
    ASSUME TypeOK, Exclusion, NEW p \in Procs, CerrarConexion(p)
    PROVE  TypeOK'
<1>0. pc[p] \in EnCerrar => fd[p] \in Fds
  BY TieneAbierta DEF Tiene
<1> USE ServidorAssumption DEF TypeOK, clientes, kernel, locales, mensaje, historia, Va,
        Procs, LugaresHilo, LugaresPrincipal, EnCerrar, Nadie
<1>1. CASE CerrarGetData(p)
  <2>1. fd[p] \in Fds
    BY <1>0, <1>1 DEF CerrarGetData
  <2>2. nick' \in [Procs -> 0..MaxConns]
    BY <1>1, <2>1 DEF CerrarGetData
  <2> QED
    BY <1>1, <2>2 DEF CerrarGetData
<1>2. CASE CerrarQuit(p)
  <2>1. bd' \in [Fds -> 0..MaxConns]
    BY <1>2 DEF CerrarQuit
  <2> QED
    BY <1>2, <2>1 DEF CerrarQuit
<1>3. CASE CerrarDeleteTempUser(p)
  <2>1. temps' \subseteq Fds \X Conns
    BY <1>3, SinTempQuita DEF CerrarDeleteTempUser
  <2> QED
    BY <1>3, <2>1 DEF CerrarDeleteTempUser
<1>4. CASE CerrarClose(p)
  <2>1. duenno' \in [Fds -> 0..MaxConns]
    <3>1. fd[p] \in Fds /\ 0 \in 0..MaxConns
      BY <1>0, <1>4 DEF CerrarClose
    <3>2. duenno' = [duenno EXCEPT ![fd[p]] = 0]
      BY <1>4 DEF CerrarClose
    <3> QED
      BY <3>1, <3>2
  <2> QED
    BY <1>4, <2>1 DEF CerrarClose
<1>5. CASE CerrarDeleteFd(p)
  BY <1>5, OlvidaTipo DEF CerrarDeleteFd
<1>6. CASE CerrarCanal(p)
  <2>1. canal' \in [Fds -> 0..MaxConns]
    <3>1. fd[p] \in Fds /\ 0 \in 0..MaxConns
      BY <1>0, <1>6 DEF CerrarCanal
    <3>2. canal' = [canal EXCEPT ![fd[p]] = 0]
      BY <1>6 DEF CerrarCanal
    <3> QED
      BY <3>1, <3>2
  <2> QED
    BY <1>6, <2>1 DEF CerrarCanal
<1> QED
  BY <1>1, <1>2, <1>3, <1>4, <1>5, <1>6 DEF CerrarConexion

(* recv stops where the record or the buffer does.                         *)
LEMMA LlenaBuffer ==
    ASSUME NEW r \in Nat, NEW n \in Nat, NEW m \in Nat
    PROVE  /\ (IF r < n + m THEN r ELSE n + m) \in Nat
           /\ (IF r < n + m THEN r ELSE n + m) <= r
           /\ n + 1 \in Nat
  OBVIOUS

(* A read takes something out of the socket or of the record begun, and    *)
(* nothing that was not sent.                                              *)
LEMMA RegistroLeido ==
    ASSUME TypeOK, NEW c \in Conns, PorRecibir(c), NEW r \in Registros(c)
    PROVE  r \in Nat /\ recibidos[c] < r /\ r <= enviados[c] /\ leidos[c] <= r
<1>1. /\ recibidos[c] \in Nat /\ leidos[c] \in Nat /\ enviados[c] \in Nat
      /\ recibidos[c] <= leidos[c] /\ leidos[c] <= enviados[c]
      /\ MaxBuffer \in Nat \ {0}
  BY ServidorAssumption DEF TypeOK
<1>2. CASE recibidos[c] < leidos[c]
  BY <1>1, <1>2 DEF Registros
<1>3. CASE ~(recibidos[c] < leidos[c]) /\ ssl
  BY <1>1, <1>3 DEF Registros
<1>4. CASE ~(recibidos[c] < leidos[c]) /\ ~ssl
  BY <1>1, <1>4 DEF Registros, PorRecibir
<1> QED
  BY <1>2, <1>3, <1>4

(* The type invariant is kept by the main thread, which opens a connection *)
(* under the descriptor accept gave it.                                    *)
LEMMA TipoPrincipal ==
    ASSUME TypeOK, Exclusion, LanzarServidor
    PROVE  TypeOK'
<1> USE ServidorAssumption DEF TypeOK, clientes, kernel, locales, mensaje, historia, Va,
        Procs, LugaresHilo, LugaresPrincipal, EnCerrar, Nadie
<1>1. CASE SetReadFD
  BY <1>1 DEF SetReadFD
<1>2. CASE EntraSelect
  BY <1>2 DEF EntraSelect
<1>3. CASE SelectListo
  BY <1>3 DEF SelectListo
<1>4. CASE SelectInterrumpido
  BY <1>4 DEF SelectInterrumpido
<1>5. CASE FinRecorrido
  BY <1>5 DEF FinRecorrido
<1>6. ASSUME NEW f \in Fds, AceptarConexion(f)
      PROVE  TypeOK'
  <2>1. /\ aceptadas' \in 0..llegadas'
        /\ aceptadas + 1 \in 0..MaxConns
        /\ llegadas' \in 0..MaxConns
    BY <1>6 DEF AceptarConexion
  <2>2. duenno' \in [Fds -> 0..MaxConns]
    BY <1>6, <2>1 DEF AceptarConexion
  <2>3. fd' \in [Procs -> Fds \cup {sckt}] /\ readFD' \subseteq Fds \cup {sckt}
    BY <1>6 DEF AceptarConexion, Turno
  <2> QED
    BY <1>6, <2>1, <2>2, <2>3 DEF AceptarConexion
<1>7. CASE AceptarFalla
  BY <1>7 DEF AceptarFalla, Turno
<1>8. CASE NuevaDeleteTempUser
  <2>1. temps' \subseteq Fds \X Conns
    BY <1>8, SinTempQuita DEF NuevaDeleteTempUser
  <2> QED
    BY <1>8, <2>1 DEF NuevaDeleteTempUser
<1>9. CASE NuevaNewTempUser
  <2>1. fd[principal] \in Fds /\ duenno[fd[principal]] \in Conns
    BY <1>9, TieneAbierta DEF NuevaNewTempUser, Tiene
  <2>2. temps' \subseteq Fds \X Conns
    BY <1>9, <2>1 DEF NuevaNewTempUser
  <2> QED
    BY <1>9, <2>2 DEF NuevaNewTempUser
<1>10. CASE NuevaAddFd
  <2>1. fd[principal] \in Fds
    BY <1>10, TieneAbierta DEF NuevaAddFd, Tiene
  <2> QED
    BY <1>10, <2>1, OlvidaTipo DEF NuevaAddFd
<1>11. ASSUME NEW i \in Fds, RecvDatos(i)
       PROVE  TypeOK'
  <2> DEFINE c == duenno[i]
             hasta(r) == IF r < recibidos[c] + MaxBuffer
                         THEN r ELSE recibidos[c] + MaxBuffer
  <2>1. c \in Conns /\ c \in 0..MaxConns
    BY <1>11 DEF RecvDatos, Conns
  <2>2. PICK r \in Registros(c) :
          /\ leidos' = [leidos EXCEPT ![c] = r]
          /\ recibidos' = [recibidos EXCEPT ![c] = hasta(r)]
          /\ ult' = [ult EXCEPT ![principal] = hasta(r)]
          /\ cortados' = [cortados EXCEPT
                 ![c] = @ \cup {k \in DOMAIN guion[c] : hasta(r) = 2 * k - 1}]
    BY <1>11 DEF RecvDatos
  <2>6. cortados' \in [Conns -> SUBSET Nat]
    <3>1. DOMAIN guion[c] \subseteq Nat
      <4>1. guion[c] \in Seq(Ordenes)
        BY <2>1, GuionFinito
      <4> QED
        BY <4>1
    <3> DEFINE N == {k \in DOMAIN guion[c] : hasta(r) = 2 * k - 1}
    <3>2. N \subseteq Nat
      BY <3>1
    <3>3. cortados' = [cortados EXCEPT ![c] = @ \cup N]
      BY <2>2
    <3>4. cortados \in [Conns -> SUBSET Nat]
      OBVIOUS
    <3> HIDE DEF N, TypeOK, c
    <3> QED
      BY <3>2, <3>3, <3>4
  <2>3. r \in Nat /\ r <= enviados[c] /\ recibidos[c] < r
    BY <1>11, <2>1, <2>2, RegistroLeido DEF RecvDatos
  <2>4. hasta(r) \in Nat /\ hasta(r) <= r /\ recibidos[c] + 1 \in Nat
    <3>1. recibidos[c] \in Nat /\ MaxBuffer \in Nat
      BY <2>1
    <3> QED
      BY <2>3, <3>1, LlenaBuffer, Zenon
  <2>5. /\ fd' = [fd EXCEPT ![principal] = i]
        /\ con' = [con EXCEPT ![principal] = c]
        /\ sig' = [sig EXCEPT ![principal] = recibidos[c] + 1]
        /\ pc' = [pc EXCEPT ![principal] = "deleteFd"]
        /\ readFD' \subseteq readFD
        /\ UNCHANGED <<ssl, guion, llegadas, enviados, aceptadas, duenno, fin, canal,
                       activeFD, temps, bd, eintr, nick, hechos>>
    BY <1>11 DEF RecvDatos, Turno
  <2> HIDE DEF c, hasta
  <2> QED
    BY <2>1, <2>2, <2>3, <2>4, <2>5, <2>6
<1>12. ASSUME NEW i \in Fds, RecvError(i)
       PROVE  TypeOK'
  BY <1>12 DEF RecvError, Turno
<1>13. ASSUME NEW i \in Fds, RecvCierre(i)
       PROVE  TypeOK'
  BY <1>13 DEF RecvCierre, Turno
<1>14. CASE DeleteFd
  BY <1>14 DEF DeleteFd
<1>15. ASSUME NEW h \in Hilos, CreaHilo(h)
       PROVE  TypeOK'
  <2>1. pc' = [pc EXCEPT ![h] = "procesa", ![principal] = "recorre"]
    BY <1>15 DEF CreaHilo
  <2>2. /\ fd' \in [Procs -> Fds \cup {sckt}]
        /\ con' \in [Procs -> 0..MaxConns]
        /\ sig' \in [Procs -> Nat]
        /\ ult' \in [Procs -> Nat]
    <3>1. Nadie \in 0..MaxConns /\ h \in Procs /\ principal \in Procs
      OBVIOUS
    <3>2. /\ fd' = [fd EXCEPT ![h] = fd[principal], ![principal] = sckt]
          /\ con' = [con EXCEPT ![h] = con[principal], ![principal] = Nadie]
          /\ sig' = [sig EXCEPT ![h] = sig[principal], ![principal] = 1]
          /\ ult' = [ult EXCEPT ![h] = ult[principal], ![principal] = 0]
      BY <1>15 DEF CreaHilo
    <3> HIDE DEF Nadie
    <3> QED
      BY <3>1, <3>2
  <2>3. /\ pc' \in [Procs -> LugaresHilo \cup LugaresPrincipal]
        /\ pc'[principal] \in LugaresPrincipal
        /\ \A g \in Hilos : pc'[g] \in LugaresHilo
    BY <2>1
  <2> QED
    BY <1>15, <2>2, <2>3 DEF CreaHilo
<1>16. CASE CreaHiloFalla
  BY <1>16, OlvidaTipo DEF CreaHiloFalla
<1>17. CASE CerrarConexion(principal)
  BY <1>17, TipoCerrar
<1>18. CASE AceptarCanal
  BY <1>18 DEF AceptarCanal
<1>19. CASE CanalFalla
  <2>1. duenno' \in [Fds -> 0..MaxConns]
    <3>0. 0 \in 0..MaxConns
      OBVIOUS
    <3>1. fd[principal] \in Fds
      BY <1>19, TieneAbierta DEF CanalFalla, Tiene
    <3>2. duenno' = [duenno EXCEPT ![fd[principal]] = 0]
      BY <1>19 DEF CanalFalla
    <3> QED
      BY <3>0, <3>1, <3>2
  <2>2. canal' \in [Fds -> 0..MaxConns]
    <3>1. 0 \in 0..MaxConns
      OBVIOUS
    <3>2. canal' = [canal EXCEPT ![fd[principal]] = 0]
      BY <1>19 DEF CanalFalla
    <3> QED
      BY <3>1, <3>2
  <2> QED
    BY <1>19, <2>1, <2>2, OlvidaTipo DEF CanalFalla
<1>20. CASE CanalNuevo
  <2>1. canal' \in [Fds -> 0..MaxConns]
    <3>1. fd[principal] \in Fds
      BY <1>20, TieneAbierta DEF CanalNuevo, Tiene
    <3>2. canal' = [canal EXCEPT ![fd[principal]] = duenno[fd[principal]]]
      BY <1>20 DEF CanalNuevo
    <3> QED
      BY <3>1, <3>2
  <2> QED
    BY <1>20, <2>1 DEF CanalNuevo
<1> QED
  BY <1>1, <1>2, <1>3, <1>4, <1>5, <1>6, <1>7, <1>8, <1>9, <1>10, <1>11, <1>12,
     <1>13, <1>14, <1>15, <1>16, <1>17, <1>18, <1>19, <1>20 DEF LanzarServidor

(* The type invariant is kept by a thread with a message.                  *)
LEMMA TipoHilo ==
    ASSUME TypeOK, Exclusion, NEW h \in Hilos, ManejaMensaje(h)
    PROVE  TypeOK'
<1>0. pc[h] \in {"procesa", "bienvenida"} => fd[h] \in Fds
  BY TieneAbierta DEF Tiene, Procs
<1> USE ServidorAssumption DEF TypeOK, clientes, kernel, locales, mensaje, historia, Va,
        Procs, LugaresHilo, LugaresPrincipal, EnCerrar, Nadie
<1>1. ASSUME NEW orden, Ejecuta(h, orden)
      PROVE  /\ hechos' \in [Conns -> Seq(Nat)]
             /\ sig' \in [Procs -> Nat]
             /\ UNCHANGED <<clientes, kernel, activeFD, readFD, eintr, fd, con,
                            ult, nick, cortados>>
  <2>1. ASSUME NEW k \in DOMAIN guion[con[h]], sig[h] = 2 * k - 1,
               hechos' = [hechos EXCEPT ![con[h]] = Append(@, k)]
        PROVE  hechos' \in [Conns -> Seq(Nat)]
    <3>1. ASSUME NEW c \in Conns
          PROVE  hechos'[c] \in Seq(Nat)
      <4>1. CASE c = con[h]
        <5>1. k \in Nat
          <6>1. guion[c] \in Seq(Ordenes)
            BY GuionFinito
          <6>2. k \in DOMAIN guion[c]
            BY <4>1
          <6> HIDE DEF TypeOK
          <6> QED
            BY <6>1, <6>2
        <5>2. hechos[c] \in Seq(Nat) /\ Append(hechos[c], k) \in Seq(Nat)
          BY <5>1
        <5> QED
          BY <2>1, <4>1, <5>2
      <4>2. CASE c # con[h]
        BY <2>1, <4>2
      <4> QED
        BY <4>1, <4>2
    <3>2. hechos' = [c \in Conns |-> hechos'[c]]
      BY <2>1
    <3> HIDE DEF TypeOK
    <3> QED
      BY <3>1, <3>2
  <2>2. hechos' \in [Conns -> Seq(Nat)]
    BY <1>1, <2>1 DEF Ejecuta, EjecutaEntera, EjecutaTrozo
  <2>3. \E n \in {1, 2} : sig' = [sig EXCEPT ![h] = @ + n]
    BY <1>1 DEF Ejecuta, EjecutaEntera, EjecutaTrozo
  <2>4. sig' \in [Procs -> Nat]
    BY <2>3
  <2>5. UNCHANGED <<clientes, kernel, activeFD, readFD, eintr, fd, con, ult, nick, cortados>>
    BY <1>1 DEF Ejecuta
  <2> QED
    BY <2>2, <2>4, <2>5
<1>2. CASE EjecutaOtro(h)
  BY <1>2, <1>1 DEF EjecutaOtro
<1>3. CASE EjecutaUser(h)
  <2>1. bd' \in [Fds -> 0..MaxConns]
    <3>1. CASE bd' = bd
      BY <3>1
    <3>2. ASSUME NEW c \in Conns, bd' = [bd EXCEPT ![fd[h]] = c]
          PROVE  bd' \in [Fds -> 0..MaxConns]
      <4>1. c \in 0..MaxConns
        BY <3>2 DEF Conns
      <4> HIDE DEF TypeOK
      <4>2. bd \in [Fds -> 0..MaxConns]
        BY DEF TypeOK
      <4> QED
        BY <3>2, <4>1, <4>2
    <3> QED
      BY <1>3, <3>1, <3>2 DEF EjecutaUser
  <2>2. /\ pc' \in [Procs -> LugaresHilo \cup LugaresPrincipal]
        /\ pc'[principal] \in LugaresPrincipal
        /\ \A g \in Hilos : pc'[g] \in LugaresHilo
    <3>1. pc' = pc \/ pc' = [pc EXCEPT ![h] = "bienvenida"]
      BY <1>3 DEF EjecutaUser
    <3> QED
      BY <3>1
  <2>3. UNCHANGED temps
    BY <1>3 DEF EjecutaUser
  <2>4. /\ hechos' \in [Conns -> Seq(Nat)]
        /\ sig' \in [Procs -> Nat]
        /\ UNCHANGED <<clientes, kernel, activeFD, readFD, eintr, fd, con,
                       ult, nick, cortados>>
    BY <1>3, <1>1 DEF EjecutaUser
  <2> QED
    BY <2>1, <2>2, <2>3, <2>4
<1>4. CASE EjecutaQuit(h)
  BY <1>4, <1>1 DEF EjecutaQuit
<1>5. CASE AddFd(h)
  BY <1>5 DEF AddFd
<1>6. CASE Kill(h)
  BY <1>6, OlvidaTipo DEF Kill
<1>7. CASE CerrarConexion(h)
  BY <1>7, TipoCerrar
<1>8. CASE UserDeleteTempUser(h)
  <2>1. temps' \subseteq Fds \X Conns
    BY <1>8, SinTempQuita DEF UserDeleteTempUser
  <2> QED
    BY <1>8, <2>1 DEF UserDeleteTempUser
<1> QED
  BY <1>2, <1>3, <1>4, <1>5, <1>6, <1>7, <1>8 DEF ManejaMensaje

(* Every step keeps the type invariant.                                    *)
LEMMA TipoPaso ==
    ASSUME TypeOK, Exclusion, [Next]_vars
    PROVE  TypeOK'
<1>1. CASE UNCHANGED vars
  BY <1>1 DEF vars, clientes, kernel, locales, mensaje, historia, TypeOK
<1>2. CASE Alarma
  BY <1>2 DEF Alarma, clientes, kernel, locales, mensaje, historia, TypeOK
<1> QED
  BY <1>1, <1>2, TipoClientes, TipoPrincipal, TipoHilo DEF Next

-----------------------------------------------------------------------------
(* Reparto: the parts that say who has each descriptor are kept together.  *)

(* Steps that move no descriptor: they may only drop some of readFD.       *)
LEMMA RepartoMarco ==
    ASSUME TypeOK, Reparto, readFD' \subseteq readFD, aceptadas' = aceptadas,
           UNCHANGED <<duenno, activeFD, pc, fd, con>>
    PROVE  Reparto'
BY DEF Reparto, DuennoUnico, DuennoAceptado, Exclusion, FueraDeSelect,
       MensajeDelDuenno, ActivosAbiertos, LeidosAbiertos, Tiene, Atiende

(* Exclusion when thread p gets descriptor f, which no other thread keeps.  *)
LEMMA ExclusionDa ==
    ASSUME Exclusion, NEW p \in Procs, NEW f \in Fds,
           fd'[p] = f, duenno'[f] # Nadie, f \notin readFD', readFD' \subseteq readFD,
           \A g \in Fds : g # f => duenno'[g] = duenno[g],
           \A q \in Procs : q # p /\ Tiene(q)' => Tiene(q) /\ fd'[q] = fd[q] /\ fd[q] # f
    PROVE  Exclusion'
<1>1. ASSUME NEW q \in Procs, Tiene(q)'
      PROVE  /\ fd'[q] \in Fds /\ duenno'[fd'[q]] # Nadie /\ fd'[q] \notin readFD'
             /\ \A r \in Procs : Tiene(r)' /\ fd'[r] = fd'[q] => r = q
  <2>1. CASE q = p
    BY <1>1, <2>1
  <2>2. CASE q # p
    <3>1. Tiene(q) /\ fd'[q] = fd[q] /\ fd[q] # f
      BY <1>1, <2>2
    <3>2. fd[q] \in Fds /\ duenno[fd[q]] # Nadie /\ fd[q] \notin readFD
      BY <3>1 DEF Exclusion
    <3>3. \A r \in Procs : Tiene(r) /\ fd[r] = fd[q] => r = q
      BY <3>1 DEF Exclusion
    <3> QED
      BY <3>1, <3>2, <3>3
  <2> QED
    BY <2>1, <2>2
<1> QED
  BY <1>1 DEF Exclusion

(* Exclusion when threads only let go of descriptors.                      *)
LEMMA ExclusionMarco ==
    ASSUME Exclusion, readFD' \subseteq readFD,
           \A q \in Procs : Tiene(q)' => Tiene(q) /\ fd'[q] = fd[q]
                                                /\ duenno'[fd[q]] = duenno[fd[q]]
    PROVE  Exclusion'
<1>1. ASSUME NEW q \in Procs, Tiene(q)'
      PROVE  /\ fd'[q] \in Fds /\ duenno'[fd'[q]] # Nadie /\ fd'[q] \notin readFD'
             /\ \A r \in Procs : Tiene(r)' /\ fd'[r] = fd'[q] => r = q
  <2>1. Tiene(q) /\ fd'[q] = fd[q] /\ duenno'[fd[q]] = duenno[fd[q]]
    BY <1>1
  <2>2. fd[q] \in Fds /\ duenno[fd[q]] # Nadie /\ fd[q] \notin readFD
    BY <2>1 DEF Exclusion
  <2>3. \A r \in Procs : Tiene(r) /\ fd[r] = fd[q] => r = q
    BY <2>1 DEF Exclusion
  <2> QED
    BY <2>1, <2>2, <2>3
<1> QED
  BY <1>1 DEF Exclusion

(* The main thread hands a descriptor over before its thread starts, and   *)
(* accepts only descriptors nobody has.                                    *)
LEMMA RepartoPrincipal ==
    ASSUME TypeOK, TypeOK', Reparto, LanzarServidor, ~CerrarConexion(principal)
    PROVE  Reparto'
<1> USE ServidorAssumption DEF Reparto, DuennoUnico, DuennoAceptado, Exclusion,
        FueraDeSelect, MensajeDelDuenno, ActivosAbiertos, LeidosAbiertos, Tiene,
        Atiende, EnCerrar, TypeOK, clientes, kernel, locales, mensaje, historia, Va, Nadie,
        Procs
<1>1. CASE SetReadFD
  <2>1. Exclusion'
    BY <1>1 DEF SetReadFD
  <2> QED
    BY <1>1, <2>1 DEF SetReadFD
<1>2. CASE EntraSelect
  BY <1>2 DEF EntraSelect
<1>3. CASE SelectListo
  BY <1>3 DEF SelectListo
<1>4. CASE SelectInterrumpido
  BY <1>4 DEF SelectInterrumpido
<1>5. CASE FinRecorrido
  BY <1>5 DEF FinRecorrido
<1>6. ASSUME NEW f \in Fds, AceptarConexion(f)
      PROVE  Reparto'
  <2>1. /\ duenno[f] = 0
        /\ duenno' = [duenno EXCEPT ![f] = aceptadas + 1]
        /\ aceptadas' = aceptadas + 1
        /\ pc[principal] = "recorre"
        /\ \E lugar \in {"canalNuevo", "nueva"} : pc' = [pc EXCEPT ![principal] = lugar]
        /\ fd' = [fd EXCEPT ![principal] = f]
        /\ readFD' \subseteq readFD
        /\ UNCHANGED <<con, activeFD>>
    BY <1>6 DEF AceptarConexion, Turno, EsMenor
  <2>2. f \notin readFD /\ f \notin activeFD
    BY <2>1
  <2>3. \A q \in Procs : Tiene(q) => fd[q] # f
    BY <2>1
  <2>4. DuennoUnico' /\ DuennoAceptado'
    <3>1. \A g \in Fds : duenno'[g] = IF g = f THEN aceptadas + 1 ELSE duenno[g]
      BY <2>1
    <3>2. aceptadas \in Nat /\ \A g \in Fds : duenno[g] \in Nat
      OBVIOUS
    <3>3. \A g \in Fds : duenno[g] <= aceptadas
      OBVIOUS
    <3>4. DuennoUnico
      OBVIOUS
    <3> HIDE DEF Reparto, TypeOK, Exclusion, FueraDeSelect, MensajeDelDuenno,
             ActivosAbiertos, LeidosAbiertos
    <3> QED
      BY <2>1, <3>1, <3>2, <3>3, <3>4
  <2>5. Exclusion'
    <3>1. \A q \in Procs : q # principal /\ Tiene(q)' =>
                Tiene(q) /\ fd'[q] = fd[q] /\ fd[q] # f
      BY <2>1, <2>3
    <3>2. fd'[principal] = f /\ duenno'[f] # Nadie
      BY <2>1
    <3>3. \A g \in Fds : g # f => duenno'[g] = duenno[g]
      BY <2>1
    <3> HIDE DEF Reparto, TypeOK, Tiene, DuennoUnico, DuennoAceptado, FueraDeSelect,
             MensajeDelDuenno, ActivosAbiertos, LeidosAbiertos, Exclusion
    <3>4. Exclusion /\ principal \in Procs
      BY DEF Reparto
    <3> QED
      BY <2>1, <2>2, <3>1, <3>2, <3>3, <3>4, ExclusionDa
  <2>6. FueraDeSelect' /\ MensajeDelDuenno'
    <3>1. PICK lugar \in {"canalNuevo", "nueva"} : pc' = [pc EXCEPT ![principal] = lugar]
      BY <2>1
    <3> QED
      BY <2>1, <2>2, <2>3, <3>1
  <2>7. ActivosAbiertos' /\ LeidosAbiertos'
    BY <2>1
  <2> QED
    BY <2>4, <2>5, <2>6, <2>7
<1>7. CASE AceptarFalla
  BY <1>7, RepartoMarco DEF AceptarFalla, Turno
<1>8. CASE NuevaDeleteTempUser
  BY <1>8 DEF NuevaDeleteTempUser
<1>9. CASE NuevaNewTempUser
  BY <1>9 DEF NuevaNewTempUser
<1>10. CASE NuevaAddFd
  BY <1>10 DEF NuevaAddFd, Olvida
<1>11. ASSUME NEW i \in Fds, RecvDatos(i)
       PROVE  Reparto'
  <2>1. /\ duenno[i] # 0 /\ i \in readFD
        /\ pc[principal] = "recorre"
        /\ pc' = [pc EXCEPT ![principal] = "deleteFd"]
        /\ fd' = [fd EXCEPT ![principal] = i]
        /\ con' = [con EXCEPT ![principal] = duenno[i]]
        /\ readFD' = readFD \ {i}
        /\ UNCHANGED <<duenno, aceptadas, activeFD>>
    BY <1>11 DEF RecvDatos, Turno, EsMenor
  <2>2. Exclusion'
    <3>1. ASSUME NEW q \in Procs, Tiene(q)
          PROVE  fd[q] # i
      <4>1. Exclusion
        OBVIOUS
      <4>2. fd[q] \notin readFD /\ i \in readFD
        <5> HIDE DEF Reparto, TypeOK, Tiene
        <5> QED
          BY <2>1, <3>1, <4>1 DEF Exclusion
      <4> QED
        BY <4>2
    <3>2. \A q \in Procs : q # principal /\ Tiene(q)' =>
                Tiene(q) /\ fd'[q] = fd[q] /\ fd[q] # i
      BY <2>1, <3>1
    <3>3. fd'[principal] = i /\ duenno'[i] # Nadie /\ i \notin readFD'
          /\ readFD' \subseteq readFD
      BY <2>1
    <3> HIDE DEF Reparto, TypeOK, Tiene, DuennoUnico, DuennoAceptado, FueraDeSelect,
             MensajeDelDuenno, ActivosAbiertos, LeidosAbiertos, Exclusion
    <3>4. Exclusion /\ principal \in Procs
      BY DEF Reparto
    <3> QED
      BY <2>1, <3>2, <3>3, <3>4, ExclusionDa
  <2> QED
    BY <2>1, <2>2
<1>12. ASSUME NEW i \in Fds, RecvError(i)
       PROVE  Reparto'
  BY <1>12, RepartoMarco DEF RecvError, Turno
<1>13. ASSUME NEW i \in Fds, RecvCierre(i)
       PROVE  Reparto'
  <2>1. /\ duenno[i] # 0 /\ i \in readFD
        /\ pc[principal] = "recorre"
        /\ pc' = [pc EXCEPT ![principal] = "getData"]
        /\ fd' = [fd EXCEPT ![principal] = i]
        /\ readFD' = readFD \ {i}
        /\ UNCHANGED <<duenno, aceptadas, activeFD, con>>
    BY <1>13 DEF RecvCierre, Turno, EsMenor
  <2>2. Exclusion'
    <3>1. ASSUME NEW q \in Procs, Tiene(q)
          PROVE  fd[q] # i
      <4>1. Exclusion
        OBVIOUS
      <4>2. fd[q] \notin readFD /\ i \in readFD
        <5> HIDE DEF Reparto, TypeOK, Tiene
        <5> QED
          BY <2>1, <3>1, <4>1 DEF Exclusion
      <4> QED
        BY <4>2
    <3>2. \A q \in Procs : q # principal /\ Tiene(q)' =>
                Tiene(q) /\ fd'[q] = fd[q] /\ fd[q] # i
      BY <2>1, <3>1
    <3>3. fd'[principal] = i /\ duenno'[i] # Nadie /\ i \notin readFD'
          /\ readFD' \subseteq readFD
      BY <2>1
    <3> HIDE DEF Reparto, TypeOK, Tiene, DuennoUnico, DuennoAceptado, FueraDeSelect,
             MensajeDelDuenno, ActivosAbiertos, LeidosAbiertos, Exclusion
    <3>4. Exclusion /\ principal \in Procs
      BY DEF Reparto
    <3> QED
      BY <2>1, <3>2, <3>3, <3>4, ExclusionDa
  <2> QED
    BY <2>1, <2>2
<1>14. CASE DeleteFd
  BY <1>14 DEF DeleteFd
<1>15. ASSUME NEW h \in Hilos, CreaHilo(h)
       PROVE  Reparto'
  <2>1. /\ pc[principal] = "pthread_create"
        /\ pc' = [pc EXCEPT ![h] = "procesa", ![principal] = "recorre"]
        /\ fd' = [fd EXCEPT ![h] = fd[principal], ![principal] = sckt]
        /\ con' = [con EXCEPT ![h] = con[principal], ![principal] = 0]
        /\ UNCHANGED <<duenno, aceptadas, activeFD, readFD>>
    BY <1>15 DEF CreaHilo
  <2>2. Exclusion'
    <3>1. fd[principal] \in Fds /\ duenno[fd[principal]] # Nadie
          /\ fd[principal] \notin readFD
      BY <2>1
    <3>2. \A q \in Procs : Tiene(q) /\ fd[q] = fd[principal] => q = principal
      BY <2>1
    <3>3. h # principal /\ h \in Procs
      OBVIOUS
    <3>4. fd'[h] = fd[principal]
      BY <2>1, <3>3
    <3>5. \A q \in Procs : q # h /\ Tiene(q)' =>
                q # principal /\ Tiene(q) /\ fd'[q] = fd[q]
      BY <2>1
    <3> HIDE DEF Reparto, TypeOK, Tiene, DuennoUnico, DuennoAceptado, FueraDeSelect,
             MensajeDelDuenno, ActivosAbiertos, LeidosAbiertos, Exclusion
    <3>6. Exclusion
      BY DEF Reparto
    <3> QED
      BY <2>1, <3>1, <3>2, <3>3, <3>4, <3>5, <3>6, ExclusionDa
  <2>3. FueraDeSelect' /\ MensajeDelDuenno'
    BY <2>1
  <2>4. ActivosAbiertos' /\ LeidosAbiertos'
    BY <2>1
  <2>5. DuennoUnico' /\ DuennoAceptado'
    BY <2>1
  <2> HIDE DEF DuennoUnico, DuennoAceptado, FueraDeSelect,
           MensajeDelDuenno, ActivosAbiertos, LeidosAbiertos, Exclusion
  <2> QED
    BY <2>2, <2>3, <2>4, <2>5
<1>16. CASE CreaHiloFalla
  BY <1>16 DEF CreaHiloFalla, Olvida
<1>17. CASE AceptarCanal
  BY <1>17 DEF AceptarCanal
<1>19. CASE CanalNuevo
  BY <1>19 DEF CanalNuevo
<1>18. CASE CanalFalla
  <2>1. /\ pc[principal] = "saluda" /\ fd[principal] \in Fds
        /\ pc' = [pc EXCEPT ![principal] = "recorre"]
        /\ fd' = [fd EXCEPT ![principal] = sckt]
        /\ con' = [con EXCEPT ![principal] = 0]
        /\ duenno' = [duenno EXCEPT ![fd[principal]] = 0]
        /\ UNCHANGED <<aceptadas, activeFD, readFD>>
    BY <1>18 DEF CanalFalla, Olvida
  <2>2. fd[principal] \notin activeFD /\ fd[principal] \notin readFD
    BY <2>1
  <2>3. \A q \in Procs : q # principal /\ Tiene(q) => fd[q] # fd[principal]
    BY <2>1
  <2>4. Exclusion'
    <3>1. \A q \in Procs : Tiene(q)' => Tiene(q) /\ fd'[q] = fd[q]
                                            /\ duenno'[fd[q]] = duenno[fd[q]]
      BY <2>1, <2>3
    <3> HIDE DEF Tiene, Exclusion
    <3>2. Exclusion
      BY DEF Reparto
    <3> QED
      BY <2>1, <3>1, <3>2, ExclusionMarco
  <2>5. FueraDeSelect' /\ MensajeDelDuenno'
    BY <2>1, <2>3
  <2>6. ActivosAbiertos' /\ LeidosAbiertos'
    BY <2>1, <2>2
  <2>7. DuennoUnico' /\ DuennoAceptado'
    <3>1. \A g \in Fds : duenno'[g] = IF g = fd[principal] THEN 0 ELSE duenno[g]
      BY <2>1
    <3> QED
      BY <2>1, <3>1, SMTT(30)
  <2> QED
    BY <2>4, <2>5, <2>6, <2>7
<1> QED
  BY <1>1, <1>2, <1>3, <1>4, <1>5, <1>6, <1>7, <1>8, <1>9, <1>10, <1>11, <1>12,
     <1>13, <1>14, <1>15, <1>16, <1>17, <1>18, <1>19 DEF LanzarServidor

(* A thread gives its descriptor back with addFd, once and last of all.    *)
LEMMA RepartoHilo ==
    ASSUME TypeOK, TypeOK', Reparto, NEW h \in Hilos, ManejaMensaje(h),
           ~CerrarConexion(h)
    PROVE  Reparto'
<1> USE ServidorAssumption DEF Reparto, DuennoUnico, DuennoAceptado, Exclusion,
        FueraDeSelect, MensajeDelDuenno, ActivosAbiertos, LeidosAbiertos, Tiene,
        Atiende, EnCerrar, TypeOK, clientes, kernel, locales, mensaje, historia, Va, Nadie,
        Procs
<1>1. CASE EjecutaOtro(h)
  BY <1>1, RepartoMarco DEF EjecutaOtro, Ejecuta
<1>2. CASE EjecutaUser(h) \/ UserDeleteTempUser(h)
  <2>1. PICK lugar \in {"procesa", "bienvenida"} :
          /\ pc[h] \in {"procesa", "bienvenida"}
          /\ pc' = [pc EXCEPT ![h] = lugar]
          /\ UNCHANGED <<duenno, aceptadas, activeFD, readFD, fd, con>>
    BY <1>2 DEF EjecutaUser, Ejecuta, UserDeleteTempUser
  <2>2. DuennoUnico' /\ DuennoAceptado' /\ ActivosAbiertos' /\ LeidosAbiertos'
    BY <2>1
  <2>3. FueraDeSelect' /\ MensajeDelDuenno'
    BY <2>1
  <2>4. Exclusion'
    <3>1. \A q \in Procs : Tiene(q)' => Tiene(q)
      BY <2>1
    <3> HIDE DEF Tiene, Exclusion
    <3> QED
      BY <2>1, <3>1, ExclusionMarco
  <2> HIDE DEF DuennoUnico, DuennoAceptado, FueraDeSelect,
           MensajeDelDuenno, ActivosAbiertos, LeidosAbiertos, Exclusion
  <2> QED
    BY <2>2, <2>3, <2>4
<1>3. CASE EjecutaQuit(h)
  <2>1. /\ pc[h] = "procesa"
        /\ pc' = [pc EXCEPT ![h] = "getData"]
        /\ UNCHANGED <<duenno, aceptadas, activeFD, readFD, fd, con>>
    BY <1>3 DEF EjecutaQuit, Ejecuta
  <2>2. DuennoUnico' /\ DuennoAceptado' /\ ActivosAbiertos' /\ LeidosAbiertos'
    BY <2>1
  <2>3. FueraDeSelect' /\ MensajeDelDuenno'
    BY <2>1
  <2>4. Exclusion'
    <3>1. \A q \in Procs : Tiene(q)' => Tiene(q)
      BY <2>1
    <3> HIDE DEF Tiene, Exclusion
    <3> QED
      BY <2>1, <3>1, ExclusionMarco
  <2> HIDE DEF DuennoUnico, DuennoAceptado, FueraDeSelect,
           MensajeDelDuenno, ActivosAbiertos, LeidosAbiertos, Exclusion
  <2> QED
    BY <2>2, <2>3, <2>4
<1>4. CASE AddFd(h)
  BY <1>4 DEF AddFd
<1>5. CASE Kill(h)
  BY <1>5 DEF Kill, Olvida
<1> QED
  BY <1>1, <1>2, <1>3, <1>4, <1>5 DEF ManejaMensaje

(* A step inside cerrarConexion that leaves every descriptor where it is.   *)
LEMMA CierreMarco ==
    ASSUME TypeOK, Reparto, NEW p \in Procs, NEW lugar \in {"quitBD", "delTemp", "canal", "close"},
           pc[p] \in EnCerrar, pc' = [pc EXCEPT ![p] = lugar],
           UNCHANGED <<duenno, aceptadas, activeFD, readFD, fd, con>>
    PROVE  Reparto'
<1> USE DEF Reparto, DuennoUnico, DuennoAceptado, Exclusion, FueraDeSelect,
        MensajeDelDuenno, ActivosAbiertos, LeidosAbiertos, Tiene, Atiende, EnCerrar,
        TypeOK
<1>1. pc \in [Procs -> LugaresHilo \cup LugaresPrincipal]
  OBVIOUS
<1>4. \A q \in Procs : q # p => pc'[q] = pc[q]
  BY <1>1
<1>5. pc'[p] = lugar
  BY <1>1
<1>2. ASSUME NEW q \in Procs
      PROVE  Tiene(q)' <=> Tiene(q)
  <2> HIDE DEF Reparto, TypeOK
  <2> QED
    BY <1>4, <1>5
<1>3. ASSUME NEW q \in Procs
      PROVE  Atiende(q)' <=> Atiende(q)
  <2> HIDE DEF Reparto, TypeOK
  <2> QED
    BY <1>4, <1>5
<1>6. DuennoUnico' /\ DuennoAceptado' /\ LeidosAbiertos'
  OBVIOUS
<1>7. ActivosAbiertos'
  BY <1>4, <1>5
<1>8. Exclusion'
  <2> HIDE DEF Tiene, Exclusion
  <2> QED
    BY <1>2, ExclusionMarco
<1>9. FueraDeSelect'
  <2> HIDE DEF Tiene, Exclusion, TypeOK
  <2> QED
    BY <1>2, <1>4, <1>5
<1>10. MensajeDelDuenno'
  <2> HIDE DEF Tiene, Atiende, Exclusion, TypeOK
  <2> QED
    BY <1>3, <1>4, <1>5
<1> HIDE DEF DuennoUnico, DuennoAceptado, FueraDeSelect,
         MensajeDelDuenno, ActivosAbiertos, LeidosAbiertos, Exclusion
<1> QED
  BY <1>6, <1>7, <1>8, <1>9, <1>10

(* cerrarConexion gives up the descriptor it has, and no other's.          *)
LEMMA RepartoCerrar ==
    ASSUME TypeOK, TypeOK', Reparto, NEW p \in Procs, CerrarConexion(p)
    PROVE  Reparto'
<1> USE ServidorAssumption DEF Reparto, DuennoUnico, DuennoAceptado, Exclusion,
        FueraDeSelect, MensajeDelDuenno, ActivosAbiertos, LeidosAbiertos, Tiene,
        Atiende, EnCerrar, TypeOK, clientes, kernel, locales, mensaje, historia, Va, Nadie,
        Procs
<1>1. CASE CerrarGetData(p)
  <2>1. /\ pc[p] \in EnCerrar
        /\ pc' = [pc EXCEPT ![p] = "quitBD"]
        /\ UNCHANGED <<duenno, aceptadas, activeFD, readFD, fd, con>>
    BY <1>1 DEF CerrarGetData
  <2> QED
    BY <2>1, CierreMarco
<1>2. CASE CerrarQuit(p)
  <2>1. /\ pc[p] \in EnCerrar
        /\ pc' = [pc EXCEPT ![p] = "delTemp"]
        /\ UNCHANGED <<duenno, aceptadas, activeFD, readFD, fd, con>>
    BY <1>2 DEF CerrarQuit
  <2> QED
    BY <2>1, CierreMarco
<1>3. CASE CerrarDeleteTempUser(p)
  <2>1. /\ pc[p] \in EnCerrar
        /\ pc' = [pc EXCEPT ![p] = IF ssl THEN "canal" ELSE "close"]
        /\ UNCHANGED <<duenno, aceptadas, activeFD, readFD, fd, con>>
    BY <1>3 DEF CerrarDeleteTempUser
  <2> QED
    BY <2>1, CierreMarco
<1>6. CASE CerrarCanal(p)
  <2>1. /\ pc[p] \in EnCerrar
        /\ pc' = [pc EXCEPT ![p] = "close"]
        /\ UNCHANGED <<duenno, aceptadas, activeFD, readFD, fd, con>>
    BY <1>6 DEF CerrarCanal
  <2> QED
    BY <2>1, CierreMarco
<1>4. CASE CerrarClose(p)
  <2>1. /\ pc[p] = "close" /\ fd[p] \in Fds
        /\ pc' = [pc EXCEPT ![p] = "clrFd"]
        /\ duenno' = [duenno EXCEPT ![fd[p]] = 0]
        /\ UNCHANGED <<aceptadas, activeFD, readFD, fd, con>>
    BY <1>4 DEF CerrarClose
  <2>2. Exclusion'
    BY <2>1
  <2>3. FueraDeSelect' /\ MensajeDelDuenno'
    BY <2>1
  <2>4. ActivosAbiertos'
    <3>1. CASE p = principal
      BY <2>1, <3>1
    <3>2. CASE p # principal
      <4>1. fd[p] \notin activeFD
        BY <2>1, <3>2
      <4> QED
        BY <2>1, <3>2, <4>1
    <3> QED
      BY <3>1, <3>2
  <2>5. LeidosAbiertos'
    BY <2>1, SMTT(30)
  <2>6. DuennoUnico' /\ DuennoAceptado'
    <3>1. \A g \in Fds : duenno'[g] = IF g = fd[p] THEN 0 ELSE duenno[g]
      BY <2>1
    <3> QED
      BY <2>1, <3>1, SMTT(30)
  <2> QED
    BY <2>2, <2>3, <2>4, <2>5, <2>6
<1>5. CASE CerrarDeleteFd(p)
  <2>1. /\ pc[p] = "clrFd"
        /\ pc' = [pc EXCEPT ![p] = IF p = principal THEN "recorre" ELSE "libre"]
        /\ fd' = [fd EXCEPT ![p] = sckt]
        /\ con' = [con EXCEPT ![p] = 0]
        /\ activeFD' = activeFD \ {fd[p]}
        /\ UNCHANGED <<aceptadas, duenno, readFD>>
    BY <1>5 DEF CerrarDeleteFd, Olvida
  <2>2. Exclusion'
    BY <2>1
  <2>3. FueraDeSelect' /\ MensajeDelDuenno'
    BY <2>1
  <2> QED
    BY <2>1, <2>2, <2>3
<1> QED
  BY <1>1, <1>2, <1>3, <1>4, <1>5, <1>6 DEF CerrarConexion

-----------------------------------------------------------------------------
(* Identidad: temporary users and data base follow the connections.        *)

(* When every record belongs to its connection, deleteTempUser leaves none *)
(* of the socket and all the others.                                       *)
LEMMA SinTempBorra ==
    ASSUME TypeOK, TempsDelDuenno, NEW f \in Fds
    PROVE  /\ SinTemp(f) = {t \in temps : t[1] # f}
           /\ \A c \in TempsDe(f) : c = duenno[f]
<1>1. ASSUME NEW c \in TempsDe(f)
      PROVE  c \in Conns /\ c = duenno[f] /\ <<f, c>> \in temps
  <2>1. c \in Conns /\ <<f, c>> \in temps
    BY DEF TempsDe
  <2>2. duenno[<<f, c>>[1]] = <<f, c>>[2]
    BY <2>1 DEF TempsDelDuenno
  <2> QED
    BY <2>1, <2>2
<1>2. ASSUME NEW c \in TempsDe(f)
      PROVE  EsMenor(c, TempsDe(f))
  <2>1. c \in Nat
    <3>1. c \in Conns
      BY <1>1
    <3>2. \A n \in Conns : n \in Nat
      BY ServidorAssumption DEF Conns
    <3> QED
      BY <3>1, <3>2
  <2>2. \A j \in TempsDe(f) : j = c
    BY <1>1
  <2> QED
    BY <2>1, <2>2 DEF EsMenor
<1>3. \A t \in temps : t = <<t[1], t[2]>> /\ t[2] \in Conns
  BY DEF TypeOK
<1>4. \A t \in temps : t[1] = f => t[2] \in TempsDe(f)
  BY <1>3 DEF TempsDe
<1>5. ASSUME NEW t \in temps
      PROVE  t \in SinTemp(f) <=> t[1] # f
  <2>1. CASE t[1] = f
    BY <1>2, <1>3, <1>4, <2>1 DEF SinTemp
  <2>2. CASE t[1] # f
    BY <2>2 DEF SinTemp
  <2> QED
    BY <2>1, <2>2
<1>6. SinTemp(f) = {t \in temps : t[1] # f}
  BY <1>5, SinTempQuita
<1> QED
  BY <1>1, <1>6

(* Steps that leave identities alone.                                      *)
LEMMA IdentidadMarco ==
    ASSUME Identidad, UNCHANGED <<duenno, temps, bd>>,
           \A p \in Procs : pc'[p] \in {"quitBD"} \cup SinIdentidad
               => pc'[p] = pc[p] /\ fd'[p] = fd[p] /\ nick'[p] = nick[p]
    PROVE  Identidad'
BY DEF Identidad, CierreOrdenado, SinIdentidad, TempsDelDuenno, BDDelDuenno, TempsDe

(* The main thread clears what an earlier connection may have left under   *)
(* a descriptor before it stores the new one's record.                     *)
LEMMA IdentidadPrincipal ==
    ASSUME Invariante, LanzarServidor, ~CerrarConexion(principal)
    PROVE  Identidad'
<1> USE DEF clientes, kernel, locales, mensaje, historia, Va, Procs
<1>0. TypeOK /\ Identidad /\ Reparto
  BY DEF Invariante
<1>t. pc \in [Procs -> LugaresHilo \cup LugaresPrincipal]
  BY <1>0 DEF TypeOK
<1>1. CASE SetReadFD \/ EntraSelect \/ SelectListo \/ SelectInterrumpido \/ FinRecorrido
  BY <1>0, <1>1, <1>t, IdentidadMarco DEF SinIdentidad, SetReadFD, EntraSelect, SelectListo,
     SelectInterrumpido, FinRecorrido
<1>2. ASSUME NEW f \in Fds, AceptarConexion(f)
      PROVE  Identidad'
  <2>1. /\ duenno[f] = Nadie
        /\ duenno' = [duenno EXCEPT ![f] = aceptadas + 1]
        /\ \E lugar \in {"canalNuevo", "nueva"} : pc' = [pc EXCEPT ![principal] = lugar]
        /\ fd' = [fd EXCEPT ![principal] = f]
        /\ UNCHANGED <<temps, bd, nick>>
    BY <1>2 DEF AceptarConexion, EsMenor
  <2>2. \A t \in temps : t[1] # f
    BY <1>0, <2>1 DEF Identidad, TempsDelDuenno, TypeOK, Conns, Nadie
  <2>3. bd[f] = Nadie
    BY <1>0, <2>1 DEF Identidad, BDDelDuenno, Nadie
  <2>4. TempsDelDuenno' /\ BDDelDuenno'
    BY <1>0, <2>1, <2>2, <2>3 DEF Identidad, TempsDelDuenno, BDDelDuenno, TypeOK
  <2>5. PICK lugar \in {"canalNuevo", "nueva"} : pc' = [pc EXCEPT ![principal] = lugar]
    BY <2>1
  <2>6. fd' = [fd EXCEPT ![principal] = f] /\ fd \in [Procs -> Fds \cup {sckt}]
    BY <1>0, <2>1 DEF TypeOK
  <2>7. CierreOrdenado'
    BY <1>0, <1>t, <2>1, <2>2, <2>3, <2>5, <2>6
       DEF Identidad, CierreOrdenado, SinIdentidad, TempsDe
  <2> QED
    BY <2>4, <2>7 DEF Identidad
<1>3. CASE AceptarFalla
  BY <1>0, <1>3, IdentidadMarco DEF AceptarFalla
<1>4. CASE NuevaDeleteTempUser
  <2>1. temps' \subseteq temps /\ pc' = [pc EXCEPT ![principal] = "nuevaTemp"]
    BY <1>4, SinTempQuita DEF NuevaDeleteTempUser
  <2>2. UNCHANGED <<duenno, bd, nick, fd>>
    BY <1>4 DEF NuevaDeleteTempUser
  <2> QED
    BY <1>0, <1>t, <2>1, <2>2 DEF Identidad, CierreOrdenado, SinIdentidad, TempsDelDuenno,
       BDDelDuenno, TempsDe
<1>5. CASE NuevaNewTempUser
  <2>1. /\ Tiene(principal)
        /\ temps' = temps \cup {<<fd[principal], duenno[fd[principal]]>>}
        /\ pc' = [pc EXCEPT ![principal] = "nuevaAdd"]
        /\ UNCHANGED <<duenno, bd, nick, fd>>
    BY <1>5 DEF NuevaNewTempUser, Tiene
  <2>2. TempsDelDuenno' /\ BDDelDuenno'
    BY <1>0, <2>1 DEF Identidad, TempsDelDuenno, BDDelDuenno
  <2>3. ASSUME NEW q \in Procs, pc'[q] \in {"quitBD"} \cup SinIdentidad
        PROVE  pc[q] = pc'[q] /\ fd[q] # fd[principal]
    <3>1. q # principal /\ pc[q] = pc'[q] /\ Tiene(q)
      BY <1>t, <2>1, <2>3 DEF Tiene, EnCerrar, SinIdentidad
    <3> QED
      BY <1>0, <2>1, <3>1 DEF Reparto, Exclusion
  <2>4. CierreOrdenado'
    BY <1>0, <2>1, <2>3 DEF Identidad, CierreOrdenado, SinIdentidad, TempsDe
  <2> QED
    BY <2>2, <2>4 DEF Identidad
<1>6. CASE NuevaAddFd \/ CreaHiloFalla
  BY <1>0, <1>t, <1>6, IdentidadMarco
     DEF SinIdentidad, NuevaAddFd, CreaHiloFalla, Olvida, TypeOK
<1>7. ASSUME NEW i \in Fds, RecvDatos(i) \/ RecvError(i) \/ RecvCierre(i)
      PROVE  Identidad'
  BY <1>0, <1>t, <1>7, IdentidadMarco
     DEF SinIdentidad, RecvDatos, RecvError, RecvCierre, TypeOK
<1>8. CASE DeleteFd
  BY <1>0, <1>t, <1>8, IdentidadMarco DEF SinIdentidad, DeleteFd
<1>9. ASSUME NEW h \in Hilos, CreaHilo(h)
      PROVE  Identidad'
  BY <1>0, <1>t, <1>9, IdentidadMarco DEF SinIdentidad, CreaHilo, TypeOK
<1>10. CASE AceptarCanal
  BY <1>0, <1>t, <1>10, IdentidadMarco DEF SinIdentidad, AceptarCanal
<1>12. CASE CanalNuevo
  <2>1. /\ pc[principal] = "canalNuevo" /\ pc' = [pc EXCEPT ![principal] = "saluda"]
        /\ UNCHANGED <<duenno, temps, bd, fd, nick>>
    BY <1>12 DEF CanalNuevo
  <2> QED
    BY <1>0, <1>t, <2>1 DEF Identidad, CierreOrdenado, SinIdentidad, TempsDelDuenno,
       BDDelDuenno, TempsDe
<1>11. CASE CanalFalla
  <2>1. /\ pc[principal] = "saluda" /\ Tiene(principal) /\ principal \in Procs
        /\ pc' = [pc EXCEPT ![principal] = "recorre"]
        /\ fd' = [fd EXCEPT ![principal] = sckt]
        /\ duenno' = [duenno EXCEPT ![fd[principal]] = Nadie]
        /\ nick' = [nick EXCEPT ![principal] = Nadie]
        /\ UNCHANGED <<temps, bd>>
    BY <1>11 DEF CanalFalla, Olvida, Tiene
  <2>2. fd[principal] \in Fds /\ duenno \in [Fds -> 0..MaxConns]
    BY <1>0, <2>1, TieneAbierta DEF Reparto, TypeOK
  <2>6. bd[fd[principal]] = Nadie /\ TempsDe(fd[principal]) = {}
    BY <1>0, <2>1 DEF Identidad, CierreOrdenado, SinIdentidad
  <2>7. ASSUME NEW t \in temps
        PROVE  t[1] # fd[principal]
    <3>1. t = <<t[1], t[2]>> /\ t[2] \in Conns
      BY <1>0, SMTT(30) DEF TypeOK
    <3> QED
      BY <2>6, <3>1 DEF TempsDe
  <2>3. bd[fd[principal]] = Nadie /\ \A t \in temps : t[1] # fd[principal]
    BY <2>6, <2>7
  <2>4. TempsDelDuenno' /\ BDDelDuenno'
    BY <1>0, <2>1, <2>2, <2>3 DEF Identidad, TempsDelDuenno, BDDelDuenno, TypeOK
  <2>5. CierreOrdenado'
    BY <1>0, <1>t, <2>1 DEF Identidad, CierreOrdenado, SinIdentidad, TempsDe, TypeOK
  <2> QED
    BY <2>4, <2>5 DEF Identidad
<1> QED
  BY <1>1, <1>2, <1>3, <1>4, <1>5, <1>6, <1>7, <1>8, <1>9, <1>10, <1>11, <1>12
     DEF LanzarServidor

(* USER registers the user of the connection whose message it is.          *)
LEMMA IdentidadHilo ==
    ASSUME Invariante, NEW h \in Hilos, ManejaMensaje(h), ~CerrarConexion(h)
    PROVE  Identidad'
<1> USE DEF clientes, kernel, locales, mensaje, historia, Va, Procs
<1>0. TypeOK /\ Identidad /\ Reparto
  BY DEF Invariante
<1>t. pc \in [Procs -> LugaresHilo \cup LugaresPrincipal]
  BY <1>0 DEF TypeOK
<1>1. CASE EjecutaOtro(h) \/ EjecutaQuit(h) \/ AddFd(h)
  BY <1>0, <1>t, <1>1, IdentidadMarco DEF SinIdentidad, EjecutaOtro, EjecutaQuit, Ejecuta, AddFd
<1>2. CASE EjecutaUser(h)
  <2>1. PICK lugar \in {"procesa", "bienvenida"} :
          /\ pc[h] = "procesa" /\ Tiene(h)
          /\ pc' = [pc EXCEPT ![h] = lugar]
          /\ UNCHANGED <<duenno, fd, nick, temps>>
    BY <1>t, <1>2 DEF EjecutaUser, Ejecuta, Tiene
  <2>2. CASE UNCHANGED bd
    BY <1>0, <1>t, <2>1, <2>2, IdentidadMarco DEF SinIdentidad
  <2>3. ASSUME NEW c \in Conns, EsMenor(c, TempsDe(fd[h])),
               bd' = [bd EXCEPT ![fd[h]] = c]
        PROVE  Identidad'
    <3>1. fd[h] \in Fds
      BY <1>0, <2>1, <2>3, TieneAbierta DEF Reparto
    <3>2. c = duenno[fd[h]]
      BY <1>0, <2>3, <3>1, SinTempBorra DEF EsMenor, Identidad
    <3>3. TempsDelDuenno' /\ BDDelDuenno'
      BY <1>0, <2>1, <2>3, <3>1, <3>2 DEF Identidad, TempsDelDuenno, BDDelDuenno, TypeOK
    <3>4. ASSUME NEW q \in Procs, pc[q] \in {"quitBD"} \cup SinIdentidad
          PROVE  fd[q] # fd[h]
      BY <1>0, <2>1, <3>4 DEF Reparto, Exclusion, Tiene, EnCerrar, SinIdentidad
    <3>5. CierreOrdenado'
      <4>1. \A q \in Procs : q # h => pc'[q] = pc[q]
        BY <1>t, <2>1
      <4>2. pc'[h] \in {"procesa", "bienvenida"}
        BY <1>t, <2>1
      <4>3. \A f \in Fds : f # fd[h] => bd'[f] = bd[f]
        BY <1>0, <2>3 DEF TypeOK
      <4>4. ASSUME NEW q \in Procs, pc'[q] \in {"quitBD"} \cup SinIdentidad
            PROVE  q # h /\ fd[q] \in Fds /\ fd[q] # fd[h]
        BY <1>0, <3>4, <4>1, <4>2, <4>4, TieneAbierta
           DEF Reparto, Tiene, EnCerrar, SinIdentidad
      <4>5. \A f : TempsDe(f)' = TempsDe(f)
        BY <2>1 DEF TempsDe
      <4> QED
        BY <1>0, <2>1, <4>1, <4>3, <4>4, <4>5 DEF Identidad, CierreOrdenado, SinIdentidad
    <3> QED
      BY <3>3, <3>5 DEF Identidad
  <2> QED
    BY <1>2, <2>2, <2>3 DEF EjecutaUser
<1>4. CASE UserDeleteTempUser(h)
  <2>1. /\ temps' \subseteq temps
        /\ pc' = [pc EXCEPT ![h] = "procesa"]
        /\ UNCHANGED <<duenno, bd, fd, nick>>
    BY <1>4, SinTempQuita DEF UserDeleteTempUser
  <2> QED
    BY <1>0, <1>t, <2>1 DEF Identidad, CierreOrdenado, SinIdentidad, TempsDelDuenno,
       BDDelDuenno, TempsDe
<1>3. CASE Kill(h)
  BY <1>0, <1>t, <1>3, IdentidadMarco DEF SinIdentidad, Kill, Olvida, TypeOK
<1> QED
  BY <1>1, <1>2, <1>3, <1>4 DEF ManejaMensaje

(* cerrarConexion clears both records before the descriptor is free.       *)
LEMMA IdentidadCerrar ==
    ASSUME Invariante, NEW p \in Procs, CerrarConexion(p)
    PROVE  Identidad'
<1> USE DEF clientes, kernel, locales, mensaje, historia, Va
<1>0. TypeOK /\ Identidad /\ Reparto
  BY DEF Invariante
<1>t. pc \in [Procs -> LugaresHilo \cup LugaresPrincipal]
  BY <1>0 DEF TypeOK
<1>f. fd \in [Procs -> Fds \cup {sckt}]
  BY <1>0 DEF TypeOK
<1>d. ASSUME Tiene(p)
      PROVE  /\ fd[p] \in Fds /\ duenno[fd[p]] # Nadie
             /\ \A q \in Procs : /\ q # p
                                 /\ pc[q] \in {"quitBD"} \cup SinIdentidad
                                 => fd[q] # fd[p]
  BY <1>0, <1>d, TieneAbierta DEF Reparto, Exclusion, Tiene, EnCerrar, SinIdentidad
<1>1. CASE CerrarGetData(p)
  <2>1. /\ pc' = [pc EXCEPT ![p] = "quitBD"]
        /\ nick' = [nick EXCEPT ![p] = bd[fd[p]]]
        /\ UNCHANGED <<duenno, temps, bd, fd>>
    BY <1>1 DEF CerrarGetData
  <2>2. nick \in [Procs -> 0..MaxConns]
    BY <1>0 DEF TypeOK
  <2>3. CierreOrdenado'
    BY <1>0, <1>t, <2>1, <2>2 DEF Identidad, CierreOrdenado, SinIdentidad, TempsDe
  <2> QED
    BY <1>0, <2>1, <2>3 DEF Identidad, TempsDelDuenno, BDDelDuenno
<1>2. CASE CerrarQuit(p)
  <2>1. /\ pc[p] = "quitBD" /\ pc' = [pc EXCEPT ![p] = "delTemp"]
        /\ bd' = [f \in Fds |-> IF bd[f] = nick[p] THEN Nadie ELSE bd[f]]
        /\ UNCHANGED <<duenno, temps, nick, fd>>
    BY <1>2 DEF CerrarQuit
  <2>2. /\ fd[p] \in Fds
        /\ \A q \in Procs : /\ q # p
                            /\ pc[q] \in {"quitBD"} \cup SinIdentidad
                            => fd[q] # fd[p]
    BY <2>1, <1>d DEF Tiene, EnCerrar, SinIdentidad
  <2>3. nick[p] = bd[fd[p]]
    BY <1>0, <2>1 DEF Identidad, CierreOrdenado, SinIdentidad
  <2>4. ASSUME NEW g \in Fds, g # fd[p]
        PROVE  bd'[g] = bd[g]
    <3>1. CASE bd[g] = Nadie
      BY <2>1, <3>1
    <3>2. CASE bd[g] # Nadie
      <4>1. duenno[g] = bd[g]
        BY <1>0, <3>2 DEF Identidad, BDDelDuenno
      <4>2. CASE bd[fd[p]] = bd[g]
        <5>1. duenno[fd[p]] = duenno[g]
          BY <1>0, <2>2, <3>2, <4>1, <4>2 DEF Identidad, BDDelDuenno
        <5> QED
          BY <1>0, <2>2, <2>4, <3>2, <4>1, <5>1 DEF Reparto, DuennoUnico
      <4>3. CASE bd[fd[p]] # bd[g]
        BY <2>1, <2>3, <4>3
      <4> QED
        BY <4>2, <4>3
    <3> QED
      BY <3>1, <3>2
  <2>5. bd'[fd[p]] = Nadie
    BY <2>1, <2>2, <2>3
  <2>6. BDDelDuenno'
    BY <1>0, <2>1, <2>4, <2>5 DEF Identidad, BDDelDuenno
  <2>7. ASSUME NEW q \in Procs, pc[q] \in {"quitBD"} \cup SinIdentidad
        PROVE  fd[q] \in Fds
    BY <1>0, <2>7, TieneAbierta DEF Reparto, Tiene, EnCerrar, SinIdentidad
  <2>8. CierreOrdenado'
    BY <1>0, <1>t, <2>1, <2>2, <2>4, <2>5, <2>7 DEF Identidad, CierreOrdenado, SinIdentidad,
       TempsDe
  <2> QED
    BY <1>0, <2>1, <2>6, <2>8 DEF Identidad, TempsDelDuenno
<1>3. CASE CerrarDeleteTempUser(p)
  <2>1. /\ pc[p] = "delTemp"
        /\ \E lugar \in {"canal", "close"} : pc' = [pc EXCEPT ![p] = lugar]
        /\ temps' = SinTemp(fd[p])
        /\ UNCHANGED <<duenno, bd, nick, fd>>
    BY <1>3 DEF CerrarDeleteTempUser
  <2>2. fd[p] \in Fds
    BY <2>1, <1>d DEF Tiene, EnCerrar, SinIdentidad
  <2>3. temps' = {t \in temps : t[1] # fd[p]}
    BY <1>0, <2>1, <2>2, SinTempBorra DEF Identidad
  <2>4. \A f : TempsDe(f)' \subseteq TempsDe(f)
    BY <2>3 DEF TempsDe
  <2>5. TempsDe(fd[p])' = {}
    BY <2>1, <2>3 DEF TempsDe
  <2>6. CierreOrdenado'
    BY <1>0, <1>t, <2>1, <2>4, <2>5 DEF Identidad, CierreOrdenado, SinIdentidad
  <2> QED
    BY <1>0, <2>1, <2>3, <2>6 DEF Identidad, TempsDelDuenno, BDDelDuenno
<1>4. CASE CerrarClose(p)
  <2>1. /\ pc[p] = "close" /\ pc' = [pc EXCEPT ![p] = "clrFd"]
        /\ duenno' = [duenno EXCEPT ![fd[p]] = Nadie]
        /\ UNCHANGED <<temps, bd, nick, fd>>
    BY <1>4 DEF CerrarClose
  <2>2. fd[p] \in Fds /\ duenno \in [Fds -> 0..MaxConns]
    BY <1>0, <2>1, <1>d DEF Tiene, EnCerrar, TypeOK
  <2>3. bd[fd[p]] = Nadie /\ TempsDe(fd[p]) = {}
    BY <1>0, <2>1 DEF Identidad, CierreOrdenado, SinIdentidad
  <2>4. ASSUME NEW t \in temps
        PROVE  t[1] # fd[p]
    <3>1. t = <<t[1], t[2]>> /\ t[2] \in Conns
      BY <1>0, SMTT(30) DEF TypeOK
    <3> QED
      BY <2>3, <3>1 DEF TempsDe
  <2>5. TempsDelDuenno' /\ BDDelDuenno'
    BY <1>0, <2>1, <2>2, <2>3, <2>4 DEF Identidad, TempsDelDuenno, BDDelDuenno, TypeOK
  <2>6. CierreOrdenado'
    BY <1>0, <1>t, <2>1 DEF Identidad, CierreOrdenado, SinIdentidad, TempsDe
  <2> QED
    BY <2>5, <2>6 DEF Identidad
<1>6. CASE CerrarCanal(p)
  <2>1. /\ pc[p] = "canal" /\ pc' = [pc EXCEPT ![p] = "close"]
        /\ UNCHANGED <<duenno, temps, bd, nick, fd>>
    BY <1>6 DEF CerrarCanal
  <2> QED
    BY <1>0, <1>t, <2>1 DEF Identidad, CierreOrdenado, SinIdentidad, TempsDelDuenno,
       BDDelDuenno, TempsDe
<1>5. CASE CerrarDeleteFd(p)
  BY <1>0, <1>t, <1>f, <1>5, IdentidadMarco
     DEF SinIdentidad, CerrarDeleteFd, Olvida, TypeOK
<1> QED
  BY <1>1, <1>2, <1>3, <1>4, <1>5, <1>6 DEF CerrarConexion

-----------------------------------------------------------------------------
(* The invariant holds at the start.                                       *)
LEMMA InvarianteInicial ==
    ASSUME Init
    PROVE  Invariante
<1>1. \A c \in Conns : Len(guion[c]) \in Nat
  <2>1. guion \in [1..MaxConns -> Seq(Ordenes)]
    BY ServidorAssumption DEF Init
  <2>2. \A c \in Conns : guion[c] \in Seq(Ordenes)
    BY <2>1 DEF Conns
  <2> QED
    BY <2>2
<1> USE ServidorAssumption DEF Init, Procs, Nadie, LugaresHilo, LugaresPrincipal, EnCerrar, SinIdentidad
<1>2. TypeOK
  <2>1. Nadie \in 0..MaxConns
    OBVIOUS
  <2>2. /\ ssl \in BOOLEAN /\ guion \in Guiones
        /\ llegadas \in 0..MaxConns
        /\ aceptadas \in 0..llegadas
        /\ duenno \in [Fds -> 0..MaxConns]
        /\ bd \in [Fds -> 0..MaxConns]
    BY <2>1
  <2>3. /\ enviados \in [Conns -> Nat]
        /\ recibidos \in [Conns -> Nat]
        /\ \A c \in Conns : recibidos[c] = 0 /\ enviados[c] = 0
        /\ leidos \in [Conns -> Nat] /\ \A c \in Conns : leidos[c] = 0
        /\ fin \in [Conns -> {"no", "fin", "rst"}]
        /\ hechos \in [Conns -> Seq(Nat)]
        /\ cortados \in [Conns -> SUBSET Nat]
    OBVIOUS
  <2>8. canal \in [Fds -> 0..MaxConns]
    BY <2>1
  <2>4. \A c \in Conns : /\ recibidos[c] <= leidos[c]
                         /\ leidos[c] <= enviados[c]
                         /\ enviados[c] <= 2 * Len(guion[c])
    BY <1>1, <2>3
  <2>5. /\ activeFD \subseteq Fds \cup {sckt}
        /\ temps \subseteq Fds \X Conns
        /\ readFD \subseteq Fds \cup {sckt}
        /\ eintr \in BOOLEAN
    OBVIOUS
  <2>6. /\ pc \in [Procs -> LugaresHilo \cup LugaresPrincipal]
        /\ pc[principal] \in LugaresPrincipal
        /\ \A h \in Hilos : pc[h] \in LugaresHilo
    OBVIOUS
  <2>7. /\ fd \in [Procs -> Fds \cup {sckt}]
        /\ con \in [Procs -> 0..MaxConns]
        /\ sig \in [Procs -> Nat]
        /\ ult \in [Procs -> Nat]
        /\ nick \in [Procs -> 0..MaxConns]
    BY <2>1
  <2> QED
    BY <2>2, <2>3, <2>4, <2>5, <2>6, <2>7, <2>8 DEF TypeOK
<1>3. Reparto
  BY DEF Reparto, DuennoUnico, DuennoAceptado, Exclusion, FueraDeSelect,
     MensajeDelDuenno, ActivosAbiertos, LeidosAbiertos, Tiene, Atiende
<1>4. Identidad
  BY DEF Identidad, CierreOrdenado, SinIdentidad, TempsDelDuenno, BDDelDuenno
<1> QED
  BY <1>2, <1>3, <1>4 DEF Invariante

(* The invariant is kept by every step.                                    *)
LEMMA InvariantePaso ==
    ASSUME Invariante, [Next]_vars
    PROVE  Invariante'
<1>0. TypeOK /\ Reparto /\ Identidad /\ Exclusion
  BY DEF Invariante, Reparto
<1>1. TypeOK'
  BY <1>0, TipoPaso
<1>2. CASE Clientes
  <2>1. /\ UNCHANGED <<duenno, activeFD, pc, fd, con, readFD, aceptadas>>
        /\ UNCHANGED <<temps, bd, nick>>
    BY <1>2 DEF Clientes, Conecta, Envia, Desconecta, kernel, locales, mensaje, historia
  <2>2. Reparto'
    BY <1>0, <2>1, RepartoMarco
  <2>3. Identidad'
    BY <1>0, <2>1, IdentidadMarco
  <2> QED
    BY <1>1, <2>2, <2>3 DEF Invariante
<1>3. CASE Alarma \/ UNCHANGED vars
  <2>1. /\ UNCHANGED <<duenno, activeFD, pc, fd, con, readFD, aceptadas>>
        /\ UNCHANGED <<temps, bd, nick>>
    BY <1>3 DEF Alarma, vars, kernel, locales, mensaje, historia
  <2>2. Reparto'
    BY <1>0, <2>1, RepartoMarco
  <2>3. Identidad'
    BY <1>0, <2>1, IdentidadMarco
  <2> QED
    BY <1>1, <2>2, <2>3 DEF Invariante
<1>4. CASE LanzarServidor
  <2>1. principal \in Procs
    BY DEF Procs
  <2>2. Reparto'
    BY <1>0, <1>1, <1>4, <2>1, RepartoPrincipal, RepartoCerrar
  <2>3. Identidad'
    BY <1>4, <2>1, IdentidadPrincipal, IdentidadCerrar
  <2> QED
    BY <1>1, <2>2, <2>3 DEF Invariante
<1>5. ASSUME NEW h \in Hilos, ManejaMensaje(h)
      PROVE  Invariante'
  <2>1. h \in Procs
    BY DEF Procs
  <2>2. Reparto'
    BY <1>0, <1>1, <1>5, <2>1, RepartoHilo, RepartoCerrar
  <2>3. Identidad'
    BY <1>5, <2>1, IdentidadHilo, IdentidadCerrar
  <2> QED
    BY <1>1, <2>2, <2>3 DEF Invariante
<1> QED
  BY <1>2, <1>3, <1>4, <1>5 DEF Next

(* The inductive invariant of the loop and its threads.                    *)
THEOREM InvarianteSiempre == Spec => []Invariante
<1>1. Init => Invariante
  BY InvarianteInicial
<1>2. Invariante /\ [Next]_vars => Invariante'
  BY InvariantePaso
<1> QED
  BY <1>1, <1>2, PTL DEF Spec

(* Every variable keeps its type, and recv never hands over commands that  *)
(* were not sent.                                                          *)
THEOREM TipoCorrecto == Spec => []TypeOK
<1>1. Invariante => TypeOK
  BY DEF Invariante
<1> QED
  BY <1>1, InvarianteSiempre, PTL

(* deleteFd before pthread_create and addFd after the last command keep a  *)
(* connection in the hands of one thread, out of select's sight.           *)
THEOREM UnHiloSiempre == Spec => []UnHiloPorConexion
<1>1. ASSUME Invariante
      PROVE  UnHiloPorConexion
  <2>1. TypeOK /\ Exclusion /\ FueraDeSelect /\ MensajeDelDuenno
    BY <1>1 DEF Invariante, Reparto
  <2>2. ASSUME NEW h \in Hilos, Atiende(h)
        PROVE  /\ fd[h] \in Fds
               /\ duenno[fd[h]] = con[h]
               /\ con[h] # Nadie
               /\ fd[h] \notin activeFD \cup readFD
               /\ \A g \in Hilos \ {h} : Atiende(g) => fd[g] # fd[h]
    <3>1. h \in Procs /\ h # principal /\ Tiene(h)
      BY <2>2, ServidorAssumption DEF Procs, Atiende, Tiene
    <3>2. con[h] = duenno[fd[h]]
      BY <2>1, <2>2, <3>1 DEF MensajeDelDuenno
    <3>3. fd[h] \notin activeFD
      BY <2>1, <3>1 DEF FueraDeSelect
    <3>4. \A g \in Hilos : Atiende(g) => g \in Procs /\ Tiene(g)
      BY DEF Procs, Atiende, Tiene
    <3> QED
      BY <2>1, <3>1, <3>2, <3>3, <3>4 DEF Exclusion
  <2> QED
    BY <2>2 DEF UnHiloPorConexion
<1> QED
  BY <1>1, InvarianteSiempre, PTL

(* No record of a temporary user outlives its connection, though the       *)
(* kernel hands the descriptor out again.                                  *)
THEOREM TempsSiempre == Spec => []TempsDelDuenno
<1>1. Invariante => TempsDelDuenno
  BY DEF Invariante, Identidad
<1> QED
  BY <1>1, InvarianteSiempre, PTL

(* No registered user outlives its connection either.                      *)
THEOREM BDSiempre == Spec => []BDDelDuenno
<1>1. Invariante => BDDelDuenno
  BY DEF Invariante, Identidad
<1> QED
  BY <1>1, InvarianteSiempre, PTL
=============================================================================
