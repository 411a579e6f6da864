------------------------ MODULE ServidorPropiedades ------------------------
(***************************************************************************)
(* What the select loop and its threads must keep true.                    *)
(***************************************************************************)
EXTENDS Servidor

(* Where a thread has a connection in its charge.                          *)
EnCerrar == {"getData", "quitBD", "delTemp", "canal", "close"}
Atiende(h) == pc[h] \in {"procesa", "bienvenida"} \cup EnCerrar

(* The main thread is between a return of select and the next copy.        *)
Recorriendo == pc[principal] \notin {"setReadFD", "select", "bloqueado"}

(* The main thread is opening or closing descriptor f, or has just read a  *)
(* message from it.                                                        *)
EnManosDePrincipal(f) ==
    /\ pc[principal] \notin {"setReadFD", "select", "bloqueado", "recorre"}
    /\ fd[principal] = f

LugaresHilo == {"libre", "procesa", "bienvenida", "kill", "clrFd"} \cup EnCerrar
LugaresPrincipal ==
    {"setReadFD", "select", "bloqueado", "recorre", "canalNuevo", "saluda", "nueva",
     "nuevaTemp", "nuevaAdd", "deleteFd", "pthread_create", "clrFd"} \cup EnCerrar

(* Type invariant of Servidor; recv hands over no more than what was sent. *)
TypeOK ==
    /\ ssl \in BOOLEAN
    /\ guion \in Guiones
    /\ llegadas \in 0..MaxConns
    /\ aceptadas \in 0..llegadas
    /\ duenno \in [Fds -> 0..MaxConns]
    /\ enviados \in [Conns -> Nat]
    /\ leidos \in [Conns -> Nat]
    /\ recibidos \in [Conns -> Nat]
    /\ \A c \in Conns : /\ recibidos[c] <= leidos[c]
                       /\ leidos[c] <= enviados[c]
                       /\ enviados[c] <= 2 * Len(guion[c])
    /\ fin \in [Conns -> {"no", "fin", "rst"}]
    /\ canal \in [Fds -> 0..MaxConns]
    /\ activeFD \subseteq Fds \cup {sckt}
    /\ temps \subseteq Fds \X Conns
    /\ bd \in [Fds -> 0..MaxConns]
    /\ readFD \subseteq Fds \cup {sckt}
    /\ eintr \in BOOLEAN
    /\ pc \in [Procs -> LugaresHilo \cup LugaresPrincipal]
    /\ pc[principal] \in LugaresPrincipal
    /\ \A h \in Hilos : pc[h] \in LugaresHilo
    /\ fd \in [Procs -> Fds \cup {sckt}]
    /\ con \in [Procs -> 0..MaxConns]
    /\ sig \in [Procs -> Nat]
    /\ ult \in [Procs -> Nat]
    /\ nick \in [Procs -> 0..MaxConns]
    /\ hechos \in [Conns -> Seq(Nat)]
    /\ cortados \in [Conns -> SUBSET Nat]

(* A thread that executes commands works for the connection its message    *)
(* came from, and for as long as it does neither select nor another thread *)
(* has that descriptor: deleteFd before pthread_create and addFd at the    *)
(* end are what keeps two messages of a connection apart.                  *)
UnHiloPorConexion ==
    \A h \in Hilos : Atiende(h) =>
        /\ fd[h] \in Fds
        /\ duenno[fd[h]] = con[h]
        /\ con[h] # Nadie
        /\ fd[h] \notin activeFD \cup readFD
        /\ \A g \in Hilos \ {h} : Atiende(g) => fd[g] # fd[h]

(* A temporary user belongs to the connection that its socket stands for   *)
(* now: none outlives its connection and is found by the next one that is  *)
(* given the same descriptor.                                              *)
TempsDelDuenno == \A t \in temps : duenno[t[1]] = t[2]

(* The same for the data base: the user registered with a socket is the    *)
(* one connected to it, so GetData by socket never answers with another's. *)
BDDelDuenno == \A f \in Fds : bd[f] # Nadie => duenno[f] = bd[f]

(* A connection whose commands can be executed is known in exactly one     *)
(* place, as a temporary user or as a registered one; in both while its    *)
(* own USER is being executed, and then nobody else executes anything of   *)
(* it nor closes it.                                                       *)
EnUnSitio(f) == (<<f, duenno[f]>> \in temps) # (bd[f] = duenno[f])
EnDosSitios(f) == <<f, duenno[f]>> \in temps /\ bd[f] = duenno[f]
Identificada ==
    \A f \in Fds :
        /\ \/ f \in activeFD /\ ~EnManosDePrincipal(f)
           \/ \E h \in Hilos : pc[h] = "procesa" /\ fd[h] = f
           => EnUnSitio(f)
        /\ (\E h \in Hilos : pc[h] = "bienvenida" /\ fd[h] = f) => EnDosSitios(f)

(* With SSL the descriptor of a connection that is served has the SSL      *)
(* object made for it, so that its reads do not fail for ever, and one     *)
(* that is closed has none: none outlives its connection.                  *)
CanalDelDuenno ==
    ssl => \A f \in Fds :
        /\ canal[f] # Nadie => duenno[f] = canal[f]
        /\ f \in activeFD /\ ~EnManosDePrincipal(f) => canal[f] # Nadie

(* select is never called with a closed descriptor (it would fail with     *)
(* EBADF for ever), and what the walk still has to read is really          *)
(* readable, so that the blocking recv never stops the server.             *)
SelectValido ==
    \A f \in readFD :
        /\ f # sckt => duenno[f] # Nadie
        /\ Recorriendo => Listo(f)

(* The commands of c executed whole, and those received whole: in one read. *)
Hechos(c) == {hechos[c][i] : i \in DOMAIN hechos[c]}
Enteros(c) == {k \in DOMAIN guion[c] : 2 * k <= recibidos[c]} \ cortados[c]
EnOrden(c) == \A i, j \in DOMAIN hechos[c] : i < j => hechos[c][i] < hechos[c][j]

(* While select watches a connection, the commands of it that have been    *)
(* executed as they were sent are those that reached the server in one     *)
(* read, all of them, each once and in the order they were sent: the       *)
(* descriptor comes back only after the last one.  A command that the end  *)
(* of a read cuts is not among them.                                       *)
SinPerdidas ==
    \A f \in activeFD \ {sckt} :
        ~EnManosDePrincipal(f) => /\ duenno[f] # Nadie
           /\ Hechos(duenno[f]) = Enteros(duenno[f])
           /\ EnOrden(duenno[f])

-----------------------------------------------------------------------------
(* The inductive invariant behind the first of these properties, in parts. *)

(* A connection stands behind one descriptor at most.                      *)
DuennoUnico ==
    \A f, g \in Fds : duenno[f] # Nadie /\ duenno[f] = duenno[g] => f = g

DuennoAceptado == \A f \in Fds : duenno[f] <= aceptadas

(* Thread p has a descriptor in its charge, and keeps it from the others.  *)
Tiene(p) ==
    pc[p] \in {"canalNuevo", "saluda", "nueva", "nuevaTemp", "nuevaAdd", "deleteFd",
               "pthread_create", "procesa", "bienvenida"} \cup EnCerrar

Exclusion ==
    \A p \in Procs : Tiene(p) =>
        /\ fd[p] \in Fds
        /\ duenno[fd[p]] # Nadie
        /\ fd[p] \notin readFD
        /\ \A q \in Procs : Tiene(q) /\ fd[q] = fd[p] => q = p

(* Only the main thread, about to take it out, holds a watched descriptor. *)
FueraDeSelect ==
    \A p \in Procs :
        Tiene(p) /\ ~(p = principal /\ pc[p] \in {"deleteFd"} \cup EnCerrar)
        => fd[p] \notin activeFD

MensajeDelDuenno ==
    \A p \in Procs :
        \/ pc[p] \in {"deleteFd", "pthread_create"}
        \/ p \in Hilos /\ Atiende(p)
        => con[p] = duenno[fd[p]]

(* What select watches, and what it is given, is open.                     *)
ActivosAbiertos ==
    \A f \in activeFD \ {sckt} :
        duenno[f] # Nadie \/ (pc[principal] = "clrFd" /\ fd[principal] = f)

LeidosAbiertos == \A f \in readFD \ {sckt} : duenno[f] # Nadie

(* How far cerrarConexion has taken the identity of a connection out; one  *)
(* in its handshake has none yet.                                          *)
SinIdentidad == {"canalNuevo", "saluda", "delTemp", "canal", "close"}
CierreOrdenado ==
    \A p \in Procs :
        /\ pc[p] = "quitBD" => nick[p] = bd[fd[p]]
        /\ pc[p] \in SinIdentidad => bd[fd[p]] = Nadie
        /\ pc[p] \in SinIdentidad \ {"delTemp"} => TempsDe(fd[p]) = {}

(* Who has each descriptor.                                                *)
Reparto ==
    /\ DuennoUnico
    /\ DuennoAceptado
    /\ Exclusion
    /\ FueraDeSelect
    /\ MensajeDelDuenno
    /\ ActivosAbiertos
    /\ LeidosAbiertos

(* Whom the server takes a connection for.                                 *)
Identidad ==
    /\ CierreOrdenado
    /\ TempsDelDuenno
    /\ BDDelDuenno

Invariante == TypeOK /\ Reparto /\ Identidad

-----------------------------------------------------------------------------
(* What SelectValido, SinPerdidas and Identificada rest on besides.        *)

LeidosListos == Recorriendo => \A f \in readFD : Listo(f)

(* The next message of descriptor f has still to be read.                  *)
PorLeer(f) == f \in readFD \/ (f \in activeFD /\ ~EnManosDePrincipal(f))

(* Thread p has a message and executes it, or is about to hand it over.    *)
ConMensaje(p) ==
    \/ p = principal /\ pc[p] \in {"deleteFd", "pthread_create"}
    \/ p \in Hilos /\ pc[p] \in {"procesa", "bienvenida"}

Nueva(lugares) == pc[principal] \in lugares
EnNueva == {"canalNuevo", "saluda", "nueva", "nuevaTemp", "nuevaAdd"}

(* Where thread p is when its connection has an SSL object, if it is used. *)
ConCanal ==
    {"saluda", "nueva", "nuevaTemp", "nuevaAdd", "deleteFd", "pthread_create", "procesa",
     "bienvenida"} \cup (EnCerrar \ {"close"})

SinUsar(c) == hechos[c] = <<>> /\ recibidos[c] = 0

(* Of what c sent before its piece n, what came whole has been executed.   *)
Hasta(c, n) == Hechos(c) = {k \in DOMAIN guion[c] : 2 * k < n} \ cortados[c]
AlDia(c) == Hasta(c, recibidos[c] + 1)

(* Which commands are marked as cut: only received ones, among them the    *)
(* last when only half of it is there.                                     *)
Cortes(c) ==
    /\ \A k \in cortados[c] : 2 * k - 1 <= recibidos[c]
    /\ \A k \in DOMAIN guion[c] : recibidos[c] = 2 * k - 1 => k \in cortados[c]

(* The message of thread p comes from c: what is left of it is in range,   *)
(* and it cuts a command only at its two ends.                             *)
MensajeDe(p, c) ==
    /\ ult[p] = recibidos[c]
    /\ 1 <= sig[p]
    /\ sig[p] <= ult[p] + 1
    /\ Hasta(c, sig[p])
    /\ \A k \in cortados[c] : 2 * k <= sig[p] \/ 2 * k > ult[p]
    /\ \A k \in DOMAIN guion[c] : sig[p] = 2 * k => k \in cortados[c]

(* The commands executed and those in a message are the ones received.     *)
Cuentas ==
    /\ \A c \in Conns : EnOrden(c) /\ Cortes(c)
    /\ \A f \in Fds, c \in Conns : PorLeer(f) /\ duenno[f] = c => AlDia(c)
    /\ \A p \in Procs, c \in Conns : ConMensaje(p) /\ con[p] = c => MensajeDe(p, c)
    /\ \A c \in Conns :
        c > aceptadas \/ (Nueva(EnNueva) /\ duenno[fd[principal]] = c) => SinUsar(c)

(* A connection is known in one place from addFd to cerrarConexion, but    *)
(* for the end of its USER.                                                *)
EnUso(f) ==
    PorLeer(f) \/ \E p \in Procs : ConMensaje(p) /\ pc[p] # "bienvenida" /\ fd[p] = f
Conocidas ==
    /\ \A f \in Fds : EnUso(f) => EnUnSitio(f)
    /\ \A h \in Hilos : pc[h] = "bienvenida" => EnDosSitios(fd[h])
    /\ Nueva(EnNueva \ {"nuevaAdd"}) =>
        bd[fd[principal]] = Nadie /\ TempsDe(fd[principal]) = {}
    /\ Nueva({"nuevaAdd"}) =>
        /\ bd[fd[principal]] = Nadie
        /\ <<fd[principal], duenno[fd[principal]]>> \in temps

(* Who has an SSL object: every open connection that has got so far.       *)
ConSSL(f) == PorLeer(f) \/ \E p \in Procs : pc[p] \in ConCanal /\ fd[p] = f
Canales ==
    ssl => /\ \A f \in Fds : canal[f] # Nadie => duenno[f] = canal[f]
           /\ \A f \in Fds : ConSSL(f) => canal[f] # Nadie
           /\ \A p \in Procs : pc[p] = "close" => canal[fd[p]] = Nadie

-----------------------------------------------------------------------------
(* The server as its clients see it.                                       *)
EstadoDe(c) ==
    IF c > aceptadas THEN "ausente"
    ELSE IF ~Abierta(c) THEN "cerrada"
    ELSE IF \E h \in Hilos : Atiende(h) /\ con[h] = c THEN "atendida"
    ELSE "espera"

Posiciones == UNION {DOMAIN g[c] : g \in Guiones, c \in Conns}

Servicio == INSTANCE ServicioConexiones
                WITH estado <- [c \in Conns |-> EstadoDe(c)],
                     Comandos <- Posiciones

(* The loop and its threads implement the service of ServicioConexiones.   *)
ImplementaServicio == Servicio!Spec

-----------------------------------------------------------------------------

(* Every open connection is watched by select or in somebody's hands.      *)
DescriptorVigilado ==
    \A f \in Fds : duenno[f] # Nadie =>
        \/ f \in activeFD
        \/ \E h \in Hilos : Atiende(h) /\ fd[h] = f
        \/ EnManosDePrincipal(f)

(* A descriptor added to activeFD while the main thread waits gets into    *)
(* the set of a select: addFd sends SIGUSR1 for that.                      *)
SelectActualizado ==
    \A f \in Fds :
        f \in activeFD ~> (f \notin activeFD \/ (pc[principal] = "bloqueado" /\ f \in readFD))

(* With SSL, why a message may wait for good: the loop is in the handshake *)
(* of a client, or the message is the rest of a record longer than the     *)
(* buffer, which select does not see.                                      *)
EnRegistro(c) == recibidos[c] < leidos[c]
Excusa(c) == ssl /\ (pc[principal] = "saluda" \/ EnRegistro(c))

EnSaludo(c) == pc[principal] \in {"canalNuevo", "saluda"} /\ duenno[fd[principal]] = c

(* A command that reached a connection past its handshake is executed as   *)
(* it was sent or cut by the end of a read, unless from some time on the   *)
(* server waits for another client's handshake or the command stays in the *)
(* SSL layer.                                                              *)
MensajeAtendido ==
    \A c \in Conns : \A k \in Posiciones :
        (Abierta(c) /\ ~EnSaludo(c) /\ enviados[c] >= 2 * k)
            ~> (k \in Hechos(c) \cup cortados[c] \/ []Excusa(c))

(* A connection that arrives while there are free descriptors is accepted, *)
(* unless the loop waits for a handshake.                                  *)
ConexionAceptada ==
    \A c \in Conns :
        (c <= llegadas) ~> (c <= aceptadas \/ (\A f \in Fds : duenno[f] # Nadie)
                                          \/ []EsperaSaludo)
=============================================================================
