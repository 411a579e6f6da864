------------------------------ MODULE Servidor ------------------------------
(***************************************************************************)
(* The select loop of the IRC server (lanzarServidor, and lanzarServidorSSL *)
(* when it was started with -s, in config.c) and the detached threads it   *)
(* starts, one per received message (manejaMensaje in funciones_servidor.c). *)
(*                                                                         *)
(* The main thread copies the set of watched descriptors (setReadFD),      *)
(* blocks in select, and walks over the marked descriptors: it accepts a   *)
(* connection, closes one whose peer is gone, or receives a message, takes *)
(* the descriptor out of activeFD and starts a thread for the message.     *)
(* The thread executes the commands of the message in turn and puts the    *)
(* descriptor back (addFd, which also sends SIGUSR1 to wake select up), or *)
(* closes the connection when a command returns COM_QUIT.                  *)
(*                                                                         *)
(* activeFD is only touched under mutexDescr and the list of temporary     *)
(* users only under mutexTempUser, each time in a critical section of one  *)
(* operation: every such operation is one step here.  Descriptors are      *)
(* numbers the kernel hands out again once closed; a connection is         *)
(* identified by the order of its arrival, which the program never sees.   *)
(* Memory never runs out here.                                             *)
(*                                                                         *)
(* A socket carries bytes, not commands: a client's command is two pieces  *)
(* here, 2k-1 and 2k for its k-th, and a read may end between them.  The   *)
(* program keeps nothing of a message for the next one, so the two halves  *)
(* of a command that is cut are executed as two lines, each for what it    *)
(* looks like.                                                             *)
(*                                                                         *)
(* With SSL the loop is the same but for four things: it completes the     *)
(* handshake of a new connection before it goes on, SSL_read takes a whole *)
(* record out of the socket and keeps what does not fit in the buffer,     *)
(* after an end of file it may answer -1 for ever, and the SSL object of a *)
(* connection is freed before its descriptor is closed.  Records arrive    *)
(* whole.                                                                  *)
(***************************************************************************)
EXTENDS Naturals, Sequences

CONSTANTS
    Fds,        \* descriptor numbers free for connections
    sckt,       \* the listening socket, lower than every connection's descriptor
    principal,  \* the main thread
    Hilos,      \* numbers for the threads the process can have besides the main one
    MaxConns,   \* bound: connections that arrive during a behaviour
    PingPong,   \* TRUE when the server was started with -p
    MaxBuffer,  \* pieces of commands that fit in one recv of MAX_BUFFER bytes
    Seguros,    \* the values ssl_active may have: TRUE is option -s
    Guiones,    \* bound: what the clients may send, one command sequence for each
    Restos,     \* what the second half of a command cut in two may be taken for
    Finales     \* bound: pieces after which a write of a client may end

(* What the loop tells apart in a command: USER turns the temporary user   *)
(* into a registered one, QUIT closes, OTRO does neither.                  *)
Ordenes == {"USER", "OTRO", "QUIT"}

ASSUME ServidorAssumption ==
    /\ Fds \subseteq Nat
    /\ sckt \in Nat
    /\ \A f \in Fds : sckt < f
    /\ Hilos \subseteq Nat
    /\ principal \notin Hilos
    /\ PingPong \in BOOLEAN
    /\ Seguros \subseteq BOOLEAN
    /\ MaxConns \in Nat
    /\ MaxBuffer \in Nat \ {0}
    /\ Guiones \subseteq [1..MaxConns -> Seq(Ordenes)]
    /\ Restos \subseteq Ordenes
    /\ "OTRO" \in Restos
    /\ Finales \subseteq Nat

Conns == 1..MaxConns
Nadie == 0
Procs == Hilos \cup {principal}

VARIABLES
    \* clients and kernel
    ssl,        \* ssl_active, fixed at the start
    guion,      \* guion[c]: the commands client c may send, in order
    llegadas,   \* connections that have arrived at the listening socket
    aceptadas,  \* connections accepted so far; the queue is aceptadas+1 .. llegadas
    duenno,     \* duenno[f]: the connection descriptor f stands for, or Nadie
    enviados,   \* enviados[c]: pieces of commands client c has sent
    leidos,     \* leidos[c]: pieces taken out of c's socket
    recibidos,  \* recibidos[c]: pieces the server has taken with recv or SSL_read
    fin,        \* fin[c]: "no", or the peer has closed ("fin") or reset ("rst")
    canal,      \* canal[f]: the connection SSL_sockets[f] was made for, or Nadie
    \* state of the process shared by its threads
    activeFD,   \* descriptors select has to watch
    temps,      \* temporary users: <<socket, connection that created it>>
    bd,         \* bd[f]: the user registered with socket f in the data base
    \* local to the threads
    readFD,     \* main thread: the set handed to select, then what is left to walk
    eintr,      \* SIGUSR1 has interrupted the select in progress
    pc,         \* pc[p]: where thread p is
    fd,         \* fd[p]: datos->sckfd, or i and desc in the main thread
    con,        \* con[p]: the connection the message came from (not in the code)
    sig, ult,   \* sig[p]..ult[p]: pieces of the message still to execute
    nick,       \* nick[p]: unknown_nick in cerrarConexion
    \* history
    hechos,     \* hechos[c]: the whole commands of c executed, by their position in guion[c]
    cortados    \* cortados[c]: the commands of c that the end of a read has cut

clientes == <<ssl, guion, llegadas, enviados>>
kernel   == <<aceptadas, duenno, leidos, recibidos, fin, canal>>
mensaje  == <<con, sig, ult>>
locales  == <<fd, mensaje, nick>>
historia == <<hechos, cortados>>
vars == <<clientes, kernel, activeFD, temps, bd, readFD, eintr, pc, locales, historia>>

-----------------------------------------------------------------------------

Abierta(c) == \E f \in Fds : duenno[f] = c

HayDatos(c) == leidos[c] < enviados[c]

(* What select reports as readable.                                        *)
Listo(f) ==
    IF f = sckt THEN aceptadas < llegadas
    ELSE duenno[f] # Nadie /\ (HayDatos(duenno[f]) \/ fin[duenno[f]] # "no")

EsMenor(i, S) == i \in S /\ \A j \in S : i <= j

(* deleteTempUser removes the first record of the socket, the oldest.      *)
TempsDe(f) == {c \in Conns : <<f, c>> \in temps}
SinTemp(f) == temps \ {<<f, c>> : c \in {c \in TempsDe(f) : EsMenor(c, TempsDe(f))}}

Va(p, lugar) == pc' = [pc EXCEPT ![p] = lugar]

(* The variables of thread p are dead: they hold nothing it reads again.   *)
Olvida(p) ==
    /\ fd' = [fd EXCEPT ![p] = sckt]
    /\ con' = [con EXCEPT ![p] = Nadie]
    /\ sig' = [sig EXCEPT ![p] = 1]
    /\ ult' = [ult EXCEPT ![p] = 0]
    /\ nick' = [nick EXCEPT ![p] = Nadie]

Init ==
    /\ ssl \in Seguros
    /\ guion \in Guiones
    /\ llegadas = 0
    /\ aceptadas = 0
    /\ duenno = [f \in Fds |-> Nadie]
    /\ enviados = [c \in Conns |-> 0]
    /\ leidos = [c \in Conns |-> 0]
    /\ recibidos = [c \in Conns |-> 0]
    /\ fin = [c \in Conns |-> "no"]
    /\ canal = [f \in Fds |-> Nadie]
    /\ activeFD = {sckt}
    /\ temps = {}
    /\ bd = [f \in Fds |-> Nadie]
    /\ readFD = {}
    /\ eintr = FALSE
    /\ pc = [p \in Procs |-> IF p = principal THEN "setReadFD" ELSE "libre"]
    /\ fd = [p \in Procs |-> sckt]
    /\ con = [p \in Procs |-> Nadie]
    /\ sig = [p \in Procs |-> 1]
    /\ ult = [p \in Procs |-> 0]
    /\ nick = [p \in Procs |-> Nadie]
    /\ hechos = [c \in Conns |-> <<>>]
    /\ cortados = [c \in Conns |-> {}]

-----------------------------------------------------------------------------
(* Clients.  A client may have its connection established by the kernel,   *)
(* send and close before the server accepts it; with SSL it has nobody to  *)
(* send to until then.                                                     *)

Vive(c) == c <= llegadas /\ fin[c] = "no" /\ (c > aceptadas \/ Abierta(c))

Conecta ==
    /\ llegadas < MaxConns
    /\ llegadas' = llegadas + 1
    /\ UNCHANGED <<ssl, guion, enviados, kernel, activeFD, temps, bd, readFD, eintr,
                   pc, locales, historia>>

Envia(c) ==
    /\ Vive(c)
    /\ ssl => Abierta(c)
    /\ \E n \in Finales :
        /\ enviados[c] < n
        /\ n <= 2 * Len(guion[c])
        /\ enviados' = [enviados EXCEPT ![c] = n]
    /\ UNCHANGED <<ssl, guion, llegadas, kernel, activeFD, temps, bd, readFD, eintr,
                   pc, locales, historia>>

Desconecta(c, modo) ==
    /\ Vive(c)
    /\ fin' = [fin EXCEPT ![c] = modo]
    /\ UNCHANGED <<clientes, aceptadas, duenno, leidos, recibidos, canal, activeFD, temps,
                   bd, readFD, eintr, pc, locales, historia>>

-----------------------------------------------------------------------------
(* The main thread.                                                        *)

SetReadFD ==
    /\ pc[principal] = "setReadFD"
    /\ readFD' = activeFD
    /\ Va(principal, "select")
    /\ UNCHANGED <<clientes, kernel, activeFD, temps, bd, eintr, locales, historia>>

(* Between the copy of the set and the call a signal finds no select to    *)
(* interrupt.                                                              *)
EntraSelect ==
    /\ pc[principal] = "select"
    /\ eintr' = FALSE
    /\ Va(principal, "bloqueado")
    /\ UNCHANGED <<clientes, kernel, activeFD, temps, bd, readFD, locales, historia>>

SelectListo ==
    /\ pc[principal] = "bloqueado"
    /\ \E f \in readFD : Listo(f)
    /\ readFD' = {f \in readFD : Listo(f)}
    /\ Va(principal, "recorre")
    /\ UNCHANGED <<clientes, kernel, activeFD, temps, bd, eintr, locales, historia>>

(* With -p an alarm goes off every ALARMPINGPONG seconds and its handler    *)
(* sets the next one; rutinaPingPong only reads.  Out of select it has no  *)
(* effect.                                                                 *)
Alarma ==
    /\ PingPong
    /\ pc[principal] = "bloqueado"
    /\ ~eintr
    /\ eintr' = TRUE
    /\ UNCHANGED <<clientes, kernel, activeFD, temps, bd, readFD, pc, locales, historia>>

(* Mutant: the set is used as it is after a failed select.                 *)
SelectInterrumpido_SinContinue ==
    /\ pc[principal] = "bloqueado"
    /\ eintr
    /\ \A f \in readFD : ~Listo(f)
    /\ Va(principal, "recorre")
    /\ UNCHANGED <<clientes, kernel, activeFD, temps, bd, readFD, eintr, locales, historia>>

(* ret < 0: continue, and the set is copied again.                         *)
SelectInterrumpido ==
    /\ pc[principal] = "bloqueado"
    /\ eintr
    /\ \A f \in readFD : ~Listo(f)
    /\ Va(principal, "setReadFD")
    /\ UNCHANGED <<clientes, kernel, activeFD, temps, bd, readFD, eintr, locales, historia>>

FinRecorrido ==
    /\ pc[principal] = "recorre"
    /\ readFD = {}
    /\ Va(principal, "setReadFD")
    /\ UNCHANGED <<clientes, kernel, activeFD, temps, bd, readFD, eintr, locales, historia>>

(* The walk goes up from descriptor 0.                                     *)
Turno(i) == pc[principal] = "recorre" /\ EsMenor(i, readFD) /\ readFD' = readFD \ {i}

(* accept returns the lowest free descriptor.                              *)
AceptarConexion(f) ==
    /\ Turno(sckt)
    /\ aceptadas < llegadas
    /\ EsMenor(f, {g \in Fds : duenno[g] = Nadie})
    /\ aceptadas' = aceptadas + 1
    /\ duenno' = [duenno EXCEPT ![f] = aceptadas + 1]
    /\ fd' = [fd EXCEPT ![principal] = f]
    /\ Va(principal, IF ssl THEN "canalNuevo" ELSE "nueva")
    /\ UNCHANGED <<clientes, leidos, recibidos, fin, canal, activeFD, temps, bd, eintr,
                   mensaje, nick, historia>>

(* Mutant: a descriptor that fails is dropped, the listening socket too.   *)
AceptarFalla_Descarta ==
    /\ Turno(sckt)
    /\ \A f \in Fds : duenno[f] # Nadie
    /\ activeFD' = activeFD \ {sckt}
    /\ UNCHANGED <<clientes, kernel, temps, bd, eintr, pc, locales, historia>>

(* No descriptor is left: accept fails and the connection stays queued.    *)
AceptarFalla ==
    /\ Turno(sckt)
    /\ \A f \in Fds : duenno[f] # Nadie
    /\ UNCHANGED <<clientes, kernel, activeFD, temps, bd, eintr, pc, locales, historia>>

(* SSL_new, whatever SSL_sockets had for the descriptor.                   *)
CanalNuevo ==
    /\ pc[principal] = "canalNuevo"
    /\ canal' = [canal EXCEPT ![fd[principal]] = duenno[fd[principal]]]
    /\ Va(principal, "saluda")
    /\ UNCHANGED <<clientes, aceptadas, duenno, leidos, recibidos, fin, activeFD, temps,
                   bd, readFD, eintr, locales, historia>>

(* SSL_accept waits for the client's part of the handshake, for as long as *)
(* the client likes.                                                       *)
AceptarCanal ==
    /\ pc[principal] = "saluda"
    /\ Va(principal, "nueva")
    /\ UNCHANGED <<clientes, kernel, activeFD, temps, bd, readFD, eintr, locales, historia>>

(* The handshake fails: the SSL object is freed and the descriptor closed  *)
(* before anyone knows of them.                                            *)
CanalFalla ==
    /\ pc[principal] = "saluda"
    /\ canal' = [canal EXCEPT ![fd[principal]] = Nadie]
    /\ duenno' = [duenno EXCEPT ![fd[principal]] = Nadie]
    /\ Va(principal, "recorre")
    /\ Olvida(principal)
    /\ UNCHANGED <<clientes, aceptadas, leidos, recibidos, fin, activeFD, temps, bd,
                   readFD, eintr, historia>>

NuevaDeleteTempUser ==
    /\ pc[principal] = "nueva"
    /\ temps' = SinTemp(fd[principal])
    /\ Va(principal, "nuevaTemp")
    /\ UNCHANGED <<clientes, kernel, activeFD, bd, readFD, eintr, locales, historia>>

NuevaNewTempUser ==
    /\ pc[principal] = "nuevaTemp"
    /\ temps' = temps \cup {<<fd[principal], duenno[fd[principal]]>>}
    /\ Va(principal, "nuevaAdd")
    /\ UNCHANGED <<clientes, kernel, activeFD, bd, readFD, eintr, locales, historia>>

(* Mutant: a new connection is not added.                                   *)
NuevaAddFd_Omitido ==
    /\ pc[principal] = "nuevaAdd"
    /\ Va(principal, "recorre")
    /\ Olvida(principal)
    /\ UNCHANGED <<clientes, kernel, activeFD, temps, bd, readFD, eintr, historia>>

(* The signal addFd sends here finds the main thread out of select.        *)
NuevaAddFd ==
    /\ pc[principal] = "nuevaAdd"
    /\ activeFD' = activeFD \cup {fd[principal]}
    /\ Va(principal, "recorre")
    /\ Olvida(principal)
    /\ UNCHANGED <<clientes, kernel, temps, bd, readFD, eintr, historia>>

(* How far a read from c's socket may take it.  recv takes what there is,  *)
(* up to the size of the buffer; SSL_read takes the next record whole,     *)
(* unless part of the last one is left, and a record ends where a write of *)
(* the client may.  Without an SSL object nothing is read.                 *)
SinCanal(f) == ssl /\ canal[f] = Nadie
PorRecibir(c) == recibidos[c] < enviados[c]
Registros(c) ==
    IF recibidos[c] < leidos[c] THEN {leidos[c]}
    ELSE IF ssl THEN {r \in leidos[c] + 1 .. enviados[c] : r \in Finales}
    ELSE {IF enviados[c] < recibidos[c] + MaxBuffer
          THEN enviados[c] ELSE recibidos[c] + MaxBuffer}

(* Mutant: the whole buffer is taken as received, not the length of recv.  *)
RecvDatos_BufferEntero(i) ==
    LET c == duenno[i]
        hasta == recibidos[c] + MaxBuffer
    IN  /\ Turno(i)
        /\ i # sckt
        /\ c # Nadie
        /\ ~SinCanal(i)
        /\ PorRecibir(c)
        /\ \E r \in Registros(c) : leidos' = [leidos EXCEPT ![c] = r]
        /\ recibidos' = [recibidos EXCEPT ![c] = hasta]
        /\ ult' = [ult EXCEPT ![principal] = hasta]
        /\ cortados' = [cortados EXCEPT
               ![c] = @ \cup {k \in DOMAIN guion[c] : hasta = 2 * k - 1}]
        /\ fd' = [fd EXCEPT ![principal] = i]
        /\ con' = [con EXCEPT ![principal] = c]
        /\ sig' = [sig EXCEPT ![principal] = recibidos[c] + 1]
        /\ Va(principal, "deleteFd")
        /\ UNCHANGED <<clientes, aceptadas, duenno, fin, canal, activeFD, temps, bd,
                       eintr, nick, hechos>>

(* The message is what fits in the buffer, and it may end in the middle of *)
(* a command.                                                              *)
RecvDatos(i) ==
    LET c == duenno[i]
    IN  /\ Turno(i)
        /\ i # sckt
        /\ c # Nadie
        /\ ~SinCanal(i)
        /\ PorRecibir(c)
        /\ \E r \in Registros(c) :
            LET hasta == IF r < recibidos[c] + MaxBuffer
                         THEN r ELSE recibidos[c] + MaxBuffer
            IN  /\ leidos' = [leidos EXCEPT ![c] = r]
                /\ recibidos' = [recibidos EXCEPT ![c] = hasta]
                /\ ult' = [ult EXCEPT ![principal] = hasta]
                /\ cortados' = [cortados EXCEPT
                       ![c] = @ \cup {k \in DOMAIN guion[c] : hasta = 2 * k - 1}]
        /\ fd' = [fd EXCEPT ![principal] = i]
        /\ con' = [con EXCEPT ![principal] = c]
        /\ sig' = [sig EXCEPT ![principal] = recibidos[c] + 1]
        /\ Va(principal, "deleteFd")
        /\ UNCHANGED <<clientes, aceptadas, duenno, fin, canal, activeFD, temps, bd,
                       eintr, nick, hechos>>

(* recv returns -1 once after a reset, and SSL_read may also do so, again  *)
(* and again, at the end of a socket that was not shut down, as reading    *)
(* without an SSL object does: the descriptor stays watched.               *)
RecvError(i) ==
    /\ Turno(i)
    /\ i # sckt
    /\ duenno[i] # Nadie
    /\ \/ SinCanal(i)
       \/ /\ ~PorRecibir(duenno[i])
          /\ fin[duenno[i]] \in (IF ssl THEN {"rst", "fin"} ELSE {"rst"})
    /\ fin' = IF SinCanal(i) THEN fin ELSE [fin EXCEPT ![duenno[i]] = "fin"]
    /\ UNCHANGED <<clientes, aceptadas, duenno, leidos, recibidos, canal, activeFD, temps,
                   bd, eintr, pc, locales, historia>>

RecvCierre(i) ==
    /\ Turno(i)
    /\ i # sckt
    /\ duenno[i] # Nadie
    /\ ~SinCanal(i)
    /\ ~PorRecibir(duenno[i])
    /\ fin[duenno[i]] = "fin"
    /\ fd' = [fd EXCEPT ![principal] = i]
    /\ Va(principal, "getData")
    /\ UNCHANGED <<clientes, kernel, activeFD, temps, bd, eintr, mensaje, nick,
                   historia>>

(* Mutant: the descriptor stays in activeFD while its message is executed. *)
DeleteFd_Omitido ==
    /\ pc[principal] = "deleteFd"
    /\ Va(principal, "pthread_create")
    /\ UNCHANGED <<clientes, kernel, activeFD, temps, bd, readFD, eintr, locales, historia>>

DeleteFd ==
    /\ pc[principal] = "deleteFd"
    /\ activeFD' = activeFD \ {fd[principal]}
    /\ Va(principal, "pthread_create")
    /\ UNCHANGED <<clientes, kernel, temps, bd, readFD, eintr, locales, historia>>

(* Threads have no identity for the program: the new one gets the lowest   *)
(* number not in use.                                                      *)
CreaHilo(h) ==
    /\ pc[principal] = "pthread_create"
    /\ EsMenor(h, {g \in Hilos : pc[g] = "libre"})
    /\ pc' = [pc EXCEPT ![h] = "procesa", ![principal] = "recorre"]
    /\ fd' = [fd EXCEPT ![h] = fd[principal], ![principal] = sckt]
    /\ con' = [con EXCEPT ![h] = con[principal], ![principal] = Nadie]
    /\ sig' = [sig EXCEPT ![h] = sig[principal], ![principal] = 1]
    /\ ult' = [ult EXCEPT ![h] = ult[principal], ![principal] = 0]
    /\ UNCHANGED <<clientes, kernel, activeFD, temps, bd, readFD, eintr, nick,
                   historia>>

(* pthread_create fails with a positive number, so "< 0" does not hold and *)
(* the branch that would add the descriptor again is not taken.            *)
CreaHiloFalla ==
    /\ pc[principal] = "pthread_create"
    /\ \A h \in Hilos : pc[h] # "libre"
    /\ Va(principal, "recorre")
    /\ Olvida(principal)
    /\ UNCHANGED <<clientes, kernel, activeFD, temps, bd, readFD, eintr, historia>>

-----------------------------------------------------------------------------
(* A thread with a message (manejaMensaje).                                *)

(* The next line of the message is a whole command of the client.          *)
EjecutaEntera(h, orden) ==
    \E k \in DOMAIN guion[con[h]] :
        /\ sig[h] = 2 * k - 1
        /\ sig[h] < ult[h]
        /\ guion[con[h]][k] = orden
        /\ hechos' = [hechos EXCEPT ![con[h]] = Append(@, k)]
        /\ sig' = [sig EXCEPT ![h] = @ + 2]

(* Or half of one: the message ends in the middle of a command, which may  *)
(* still pass for itself with less text, or begins there.                  *)
EjecutaTrozo(h, orden) ==
    \E k \in DOMAIN guion[con[h]] :
        /\ \/ /\ sig[h] = 2 * k - 1
              /\ sig[h] = ult[h]
              /\ orden \in {guion[con[h]][k], "OTRO"}
           \/ /\ sig[h] = 2 * k
              /\ orden \in Restos
        /\ sig' = [sig EXCEPT ![h] = @ + 1]
        /\ UNCHANGED hechos

(* The next line of the message is executed.                               *)
Ejecuta(h, orden) ==
    /\ pc[h] = "procesa"
    /\ sig[h] <= ult[h]
    /\ EjecutaEntera(h, orden) \/ EjecutaTrozo(h, orden)
    /\ UNCHANGED <<clientes, kernel, activeFD, readFD, eintr, fd, con, ult, nick, cortados>>

EjecutaOtro(h) ==
    /\ Ejecuta(h, "OTRO")
    /\ UNCHANGED <<temps, bd, pc>>

(* The user of the temporary record enters the data base under the socket  *)
(* of the message, and is sent the welcome.  Else the command is refused.  *)
EjecutaUser(h) ==
    /\ Ejecuta(h, "USER")
    /\ \/ /\ bd[fd[h]] = Nadie
          /\ \E c \in Conns : /\ EsMenor(c, TempsDe(fd[h]))
                              /\ bd' = [bd EXCEPT ![fd[h]] = c]
          /\ Va(h, "bienvenida")
       \/ /\ bd[fd[h]] # Nadie \/ TempsDe(fd[h]) = {}
          /\ UNCHANGED <<bd, pc>>
    /\ UNCHANGED temps

(* Mutant: USER leaves the temporary record in the list.                   *)
UserDeleteTempUser_Omitido(h) ==
    /\ pc[h] = "bienvenida"
    /\ Va(h, "procesa")
    /\ UNCHANGED <<clientes, kernel, activeFD, temps, bd, readFD, eintr, locales, historia>>

(* The welcome is sent and the temporary record goes.                      *)
UserDeleteTempUser(h) ==
    /\ pc[h] = "bienvenida"
    /\ temps' = SinTemp(fd[h])
    /\ Va(h, "procesa")
    /\ UNCHANGED <<clientes, kernel, activeFD, bd, readFD, eintr, locales, historia>>

(* COM_QUIT: the rest of the message is dropped.                           *)
EjecutaQuit(h) ==
    /\ Ejecuta(h, "QUIT")
    /\ Va(h, "getData")
    /\ UNCHANGED <<temps, bd>>

(* Mutants: the descriptor goes back before the last command, or never.    *)
AddFd_AntesDeTiempo(h) ==
    /\ pc[h] = "procesa"
    /\ sig[h] + 1 >= ult[h]
    /\ activeFD' = activeFD \cup {fd[h]}
    /\ Va(h, "kill")
    /\ UNCHANGED <<clientes, kernel, temps, bd, readFD, eintr, locales, historia>>
AddFd_Omitido(h) ==
    /\ pc[h] = "procesa"
    /\ sig[h] > ult[h]
    /\ Va(h, "kill")
    /\ UNCHANGED <<clientes, kernel, activeFD, temps, bd, readFD, eintr, locales, historia>>

AddFd(h) ==
    /\ pc[h] = "procesa"
    /\ sig[h] > ult[h]
    /\ activeFD' = activeFD \cup {fd[h]}
    /\ Va(h, "kill")
    /\ UNCHANGED <<clientes, kernel, temps, bd, readFD, eintr, locales, historia>>

Kill(h) ==
    /\ pc[h] = "kill"
    /\ eintr' = (eintr \/ pc[principal] = "bloqueado")
    /\ Va(h, "libre")
    /\ Olvida(h)
    /\ UNCHANGED <<clientes, kernel, activeFD, temps, bd, readFD, historia>>

-----------------------------------------------------------------------------
(* cerrarConexion, called by the main thread or by a thread that got QUIT. *)

CerrarGetData(p) ==
    /\ pc[p] = "getData"
    /\ nick' = [nick EXCEPT ![p] = bd[fd[p]]]
    /\ Va(p, "quitBD")
    /\ UNCHANGED <<clientes, kernel, activeFD, temps, bd, readFD, eintr, fd,
                   mensaje, historia>>

(* Mutant: the data base keeps the user of a closed connection.            *)
CerrarQuit_Omitido(p) ==
    /\ pc[p] = "quitBD"
    /\ Va(p, "delTemp")
    /\ UNCHANGED <<clientes, kernel, activeFD, temps, bd, readFD, eintr, locales, historia>>

(* IRCTAD_Quit takes the user out by its nick.                             *)
CerrarQuit(p) ==
    /\ pc[p] = "quitBD"
    /\ bd' = [f \in Fds |-> IF bd[f] = nick[p] THEN Nadie ELSE bd[f]]
    /\ Va(p, "delTemp")
    /\ UNCHANGED <<clientes, kernel, activeFD, temps, readFD, eintr, locales, historia>>

(* Mutant: the temporary user of a closed connection stays in the list.    *)
CerrarDeleteTempUser_Omitido(p) ==
    /\ pc[p] = "delTemp"
    /\ Va(p, IF ssl THEN "canal" ELSE "close")
    /\ UNCHANGED <<clientes, kernel, activeFD, temps, bd, readFD, eintr, locales, historia>>

CerrarDeleteTempUser(p) ==
    /\ pc[p] = "delTemp"
    /\ temps' = SinTemp(fd[p])
    /\ Va(p, IF ssl THEN "canal" ELSE "close")
    /\ UNCHANGED <<clientes, kernel, activeFD, bd, readFD, eintr, locales, historia>>

(* Mutant: the SSL object of a closed connection stays in SSL_sockets.     *)
CerrarCanal_Omitido(p) ==
    /\ pc[p] = "canal"
    /\ Va(p, "close")
    /\ UNCHANGED <<clientes, kernel, activeFD, temps, bd, readFD, eintr, locales, historia>>

(* cerrar_canal_SSL, called only with SSL.                                 *)
CerrarCanal(p) ==
    /\ pc[p] = "canal"
    /\ canal' = [canal EXCEPT ![fd[p]] = Nadie]
    /\ Va(p, "close")
    /\ UNCHANGED <<clientes, aceptadas, duenno, leidos, recibidos, fin, activeFD, temps,
                   bd, readFD, eintr, locales, historia>>

CerrarClose(p) ==
    /\ pc[p] = "close"
    /\ duenno' = [duenno EXCEPT ![fd[p]] = Nadie]
    /\ Va(p, "clrFd")
    /\ UNCHANGED <<clientes, aceptadas, leidos, recibidos, fin, canal, activeFD, temps, bd,
                   readFD, eintr, locales, historia>>

CerrarDeleteFd(p) ==
    /\ pc[p] = "clrFd"
    /\ activeFD' = activeFD \ {fd[p]}
    /\ Va(p, IF p = principal THEN "recorre" ELSE "libre")
    /\ Olvida(p)
    /\ UNCHANGED <<clientes, kernel, temps, bd, readFD, eintr, historia>>

-----------------------------------------------------------------------------

Clientes ==
    \/ Conecta
    \/ \E c \in Conns : Envia(c)
    \/ \E c \in Conns, modo \in {"fin", "rst"} : Desconecta(c, modo)

CerrarConexion(p) ==
    \/ CerrarGetData(p)
    \/ CerrarQuit(p)
    \/ CerrarDeleteTempUser(p)
    \/ CerrarCanal(p)
    \/ CerrarClose(p)
    \/ CerrarDeleteFd(p)

LanzarServidor ==
    \/ SetReadFD
    \/ EntraSelect
    \/ SelectListo
    \/ SelectInterrumpido
    \/ FinRecorrido
    \/ \E f \in Fds : AceptarConexion(f)
    \/ AceptarFalla
    \/ CanalNuevo
    \/ AceptarCanal
    \/ CanalFalla
    \/ NuevaDeleteTempUser
    \/ NuevaNewTempUser
    \/ NuevaAddFd
    \/ \E i \in Fds : RecvDatos(i) \/ RecvError(i) \/ RecvCierre(i)
    \/ DeleteFd
    \/ \E h \in Hilos : CreaHilo(h)
    \/ CreaHiloFalla
    \/ CerrarConexion(principal)

ManejaMensaje(h) ==
    \/ EjecutaOtro(h)
    \/ EjecutaUser(h)
    \/ UserDeleteTempUser(h)
    \/ EjecutaQuit(h)
    \/ AddFd(h)
    \/ Kill(h)
    \/ CerrarConexion(h)

Next ==
    \/ Clientes
    \/ LanzarServidor
    \/ Alarma
    \/ \E h \in Hilos : ManejaMensaje(h)

Spec == Init /\ [][Next]_vars

(* A client that is silent in its handshake.                               *)
EsperaSaludo == pc[principal] = "saluda" /\ fin[duenno[fd[principal]]] = "no"

(* The scheduler runs every thread that can run and the timer goes off;    *)
(* clients owe nothing, so SSL_accept need not return while one is there.  *)
Fairness ==
    /\ WF_vars(LanzarServidor /\ ~EsperaSaludo)
    /\ WF_vars(Alarma)
    /\ \A h \in Hilos : WF_vars(ManejaMensaje(h))

FairSpec == Spec /\ Fairness
=============================================================================
