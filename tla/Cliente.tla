------------------------------- MODULE Cliente -------------------------------
(***************************************************************************)
(* Clients connected to the server: what the user orders                   *)
(* (IRCInterface_* in xchat2.c, comandos_cliente.c), the sending of        *)
(* messages with and without the mutex (red_cliente.c), and the thread     *)
(* that receives the answers and keeps the windows (irc_cliente.c).        *)
(*                                                                         *)
(* At the other end, one thread per connection executes the commands as    *)
(* funciones_registro.c and funciones_servidor.c do: a change of the data  *)
(* base first, and then what has to be sent, one send at a time, with      *)
(* those of other connections in between.  Module Comandos has the rest of *)
(* their detail; here messages have contents, and there is one channel.    *)
(***************************************************************************)
EXTENDS Naturals, Sequences, FiniteSets

CONSTANTS
    Usuarios,      \* users, each with a client
    Conexiones,    \* <<u, n>>: the connections that each user may make, a bound
    Modos          \* scenarios: what each user orders, and what may happen

(* A user's first nick and the one NICK changes it to.                     *)
Nicks == Usuarios \X {1, 2}

Ordenes == {"CONNECT", "DISCONNECT", "JOIN", "PART", "PARTALL", "CYCLE", "KICK", "MODE",
            "TOPIC", "WHOIS", "AWAY", "NICK", "TEXTO", "PRIVADO", "FICHERO"}

(* The modes of a channel that the interface has a callback for.           *)
Activan1 == {"+k", "+n", "+i", "+m"}
Activan2 == {"+l", "+p", "+t", "+s"}
Desactivan1 == {"-k", "-n", "-i", "-m"}
Desactivan2 == {"-l", "-p", "-t", "-s"}
Dan == {"+o", "+v"}
Quitan == {"-o", "-v"}
ModosCanal == Activan1 \cup Activan2 \cup Desactivan1 \cup Desactivan2 \cup Dan
                \cup Quitan \cup {"+b"}

ASSUME ClienteAssumption ==
    /\ Conexiones \subseteq Usuarios \X (Nat \ {0})
    /\ \A m \in Modos :
        /\ m.guion \in [Usuarios -> Seq(Ordenes)]
        /\ m.otro \in [Usuarios -> Usuarios] \* whom KICK, PRIVADO and FICHERO are for
        /\ m.letra \in [Usuarios -> ModosCanal] \* what MODE sets or unsets
        /\ m.espera \in BOOLEAN  \* users wait for an answer before they go on,
                                 \* and whoever connects, for those of the others
        /\ m.serie \in BOOLEAN   \* the server executes one command at a time
        /\ m.trozos \in BOOLEAN  \* send writes a message in two pieces
        /\ m.fallan \in BOOLEAN  \* sockets and threads may be refused

Canal == <<"#canal", 0>>
Ventanas == {Canal} \cup Nicks
Servicio == <<"servicio", 0>>  \* the server, as the origin of a message
Nadie == <<"nadie", 0>>        \* no nick

(* The threads of a client: the interface, the one that offers a file, and *)
(* the one that receives from each connection.                             *)
Gui == <<"gui", 0>>
Fichero == <<"fichero", 0>>
Red(c) == <<"red", c[2]>>
Libre == <<"libre", 0>>

VARIABLES
    modo,
    \* struct cliente
    registro, socket, cnick, \* socket: the user's connection it stands for, or 0
    mutex,                   \* envio_thread_mutex: Libre, or the thread that has it
    \* the interface
    hecho,       \* orders given
    conexiones,  \* connections made
    abiertas,    \* windows
    vista,       \* vista[u]: windows with the nicks listed in each
    preguntas,   \* orders that were sent and have an answer
    vistas,      \* orders whose answer was shown
    \* threads
    escribe,     \* escribe[u]: messages that threads are half way through writing
    fichero,     \* the thread that offers a file
    receptor,    \* receptor[c]: recv_pthread of connection c
    lee,         \* lee[c]: the connection its recv reads
    buffer,
    tabla,       \* comandos_recv is complete
    \* network and server
    alServidor, alCliente, cerrada,
    temporal, nombre, \* connections with NICK but not USER; and the nick of each
    miembros, operadores, cerrado, \* the channel
    hilo         \* hilo[c]: what the server's thread for c has left to send

estructura == <<registro, socket, cnick>>
interfaz == <<abiertas, vista, vistas>>
ordenes == <<hecho, preguntas>>
recepcion == <<receptor, lee, buffer, tabla>>
envio == <<mutex, escribe, fichero>>
delCanal == <<miembros, operadores, cerrado>>
servidor == <<cerrada, temporal, nombre, delCanal, hilo>>
vars == <<modo, estructura, interfaz, ordenes, conexiones, recepcion, envio, servidor,
          alServidor, alCliente>>

(* A message to the server: its command, whose nick it names, the order it *)
(* carries out, the thread that sends it through which connection, and the *)
(* threads that wrote in the middle of it.                                 *)
Orden(tipo, a, n) ==
    [tipo |-> tipo, a |-> a, orden |-> n, de |-> Gui, en |-> 1, cruces |-> {}]

(* A message to a client: its command, the nick it comes from, the nicks   *)
(* it names, and the order of the receiver that it answers, if any.        *)
Mensaje(tipo, de, nicks, n) == [tipo |-> tipo, de |-> de, nicks |-> nicks, orden |-> n]


Init ==
    /\ modo \in Modos
    /\ registro = [u \in Usuarios |-> "NO_CONECTADO"]
    /\ socket = [u \in Usuarios |-> 0]
    /\ cnick = [u \in Usuarios |-> Nadie]
    /\ mutex = [u \in Usuarios |-> Libre]
    /\ hecho = [u \in Usuarios |-> 0]
    /\ conexiones = [u \in Usuarios |-> 0]
    /\ abiertas = [u \in Usuarios |-> {}]
    /\ vista = [u \in Usuarios |-> {}]
    /\ preguntas = [u \in Usuarios |-> {}]
    /\ vistas = [u \in Usuarios |-> {}]
    /\ escribe = [u \in Usuarios |-> {}]
    /\ fichero = [u \in Usuarios |-> "no"]
    /\ receptor = [c \in Conexiones |-> "no"]
    /\ lee = [c \in Conexiones |-> c]
    /\ buffer = [c \in Conexiones |-> <<>>]
    /\ tabla = [u \in Usuarios |-> FALSE]
    /\ alServidor = [c \in Conexiones |-> <<>>]
    /\ alCliente = [c \in Conexiones |-> <<>>]
    /\ cerrada = {}
    /\ temporal = {}
    /\ nombre = [c \in Conexiones |-> Nadie]
    /\ miembros = {}
    /\ operadores = {}
    /\ cerrado = FALSE
    /\ hilo = [c \in Conexiones |-> <<>>]

-----------------------------------------------------------------------------
(* Sending: red_cliente.c                                                  *)

Escribiendo(u) == {m.de : m \in escribe[u]}

(* What two threads write in the same connection may be mixed.             *)
Cruza(m, x) == IF m.en = x.en THEN [m EXCEPT !.cruces = @ \cup {x.de}] ELSE m

(* Thread h of u calls send.  A message that the kernel does not take at   *)
(* once is left half written; without a connection, send fails.            *)
Send(u, h, m) ==
    LET tuyo == [m EXCEPT !.de = h, !.en = socket[u]]
        otros == {x.de : x \in {y \in escribe[u] : y.en = socket[u]}}
    IN \/ /\ socket[u] = 0
          /\ UNCHANGED <<alServidor, escribe>>
       \/ /\ socket[u] # 0
          /\ ~modo.trozos
          /\ alServidor' = [alServidor EXCEPT ![<<u, socket[u]>>] = Append(@, tuyo)]
          /\ UNCHANGED escribe
       \/ /\ socket[u] # 0
          /\ modo.trozos
          /\ escribe' = [escribe EXCEPT ![u] =
                {[tuyo EXCEPT !.cruces = otros]} \cup {Cruza(x, tuyo) : x \in @}]
          /\ UNCHANGED alServidor

(* The interface sends with enviar_cliente: no mutex.                      *)
EnviarCliente(u, m) == Send(u, Gui, m)

(* Mutant: no mutex either.                                                *)
EnviarClienteThread_SinMutex(u, h, m) ==
    /\ Send(u, h, m)
    /\ UNCHANGED mutex

EnviarClienteThread(u, h, m) ==
    /\ mutex[u] = Libre
    /\ mutex' = IF modo.trozos /\ socket[u] # 0 THEN [mutex EXCEPT ![u] = h] ELSE mutex
    /\ Send(u, h, m)

(* The rest of the message is written; enviar_clienteThread unlocks, even  *)
(* if a new connection has initialised the mutex since.                    *)
EnviaResto(u) ==
    /\ \E m \in escribe[u] :
        /\ alServidor' = [alServidor EXCEPT ![<<u, m.en>>] = Append(@, m)]
        /\ escribe' = [escribe EXCEPT ![u] = @ \ {m}]
        /\ mutex' = IF m.de = Gui THEN mutex ELSE [mutex EXCEPT ![u] = Libre]
    /\ UNCHANGED <<modo, estructura, interfaz, ordenes, conexiones, recepcion, fichero,
                   servidor, alCliente>>

-----------------------------------------------------------------------------
(* The interface: one order after another                                  *)

Sigue(u) == hecho[u] + 1
Cerrando(u) == registro[u] = "NO_CONECTADO" /\ socket[u] # 0

(* The commands that are typed, and whether comandos_cliente, the table of *)
(* their functions, is filled: Connect does it last.                       *)
Tecleadas == {"JOIN", "PART", "PARTALL", "CYCLE", "TOPIC", "WHOIS", "AWAY", "NICK", "PRIVADO"}
ConTabla(u) == \E c \in Conexiones : c[1] = u /\ receptor[c] # "no"

Toca(u, o) ==
    /\ hecho[u] < Len(modo.guion[u])
    /\ modo.guion[u][Sigue(u)] = o
    /\ ~Cerrando(u)
    /\ Gui \notin Escribiendo(u)
    /\ modo.espera => \A v \in IF o = "CONNECT" THEN Usuarios ELSE {u} :
            preguntas[v] \subseteq vistas[v]

Ordena(u, o) ==
    /\ Toca(u, o)
    /\ o \in Tecleadas => ConTabla(u)
    /\ hecho' = [hecho EXCEPT ![u] = @ + 1]

(* A command typed before there is a table calls through a null pointer,   *)
(* and the client ends.                                                    *)
TecleaSinTabla(u) ==
    /\ \E o \in Tecleadas : Toca(u, o)
    /\ ~ConTabla(u)
    /\ hecho' = [hecho EXCEPT ![u] = Len(modo.guion[u])]
    /\ socket' = [socket EXCEPT ![u] = 0]
    /\ abiertas' = [abiertas EXCEPT ![u] = {}]
    /\ vista' = [vista EXCEPT ![u] = {}]
    /\ escribe' = [escribe EXCEPT ![u] = {}]
    /\ fichero' = [fichero EXCEPT ![u] = IF @ = "ofrece" THEN "no" ELSE @]
    /\ UNCHANGED <<modo, registro, cnick, mutex, preguntas, vistas, conexiones, recepcion,
                   servidor, alServidor, alCliente>>

(* The order has an answer to wait for.                                    *)
Pregunta(u) == preguntas' = [preguntas EXCEPT ![u] = @ \cup {Sigue(u)}]

(* NICK and USER are sent before the thread that will read the answers     *)
(* exists.  No socket: IRCERR_NOCONNECT.  No thread: the same, but the     *)
(* socket stays open and the client registered.                            *)
Connect(u) ==
    LET c == <<u, conexiones[u] + 1>> IN
    /\ Ordena(u, "CONNECT")
    /\ c \in Conexiones
    /\ \/ /\ conexiones' = [conexiones EXCEPT ![u] = @ + 1]
          /\ socket' = [socket EXCEPT ![u] = c[2]]
          /\ alServidor' = [alServidor EXCEPT ![c] =
                <<Orden("NICK", <<u, 1>>, 0), Orden("USER", <<u, 1>>, Sigue(u))>>]
          /\ registro' = [registro EXCEPT ![u] = "CONECTADO"]
          /\ cnick' = [cnick EXCEPT ![u] = <<u, 1>>]
          /\ mutex' = [mutex EXCEPT ![u] = Libre]
          /\ \/ /\ receptor' = [receptor EXCEPT ![c] = "inicio"]
                /\ Pregunta(u)
             \/ modo.fallan /\ UNCHANGED <<receptor, preguntas>>
       \/ /\ modo.fallan
          /\ UNCHANGED <<conexiones, socket, alServidor, registro, cnick, mutex, receptor,
                         preguntas>>
    /\ UNCHANGED <<modo, interfaz, lee, buffer, tabla, escribe, fichero, servidor, alCliente>>

(* Mutant: not a word to the server.                                       *)
DisconnectServer_SinQuit(u) ==
    /\ Ordena(u, "DISCONNECT")
    /\ registro' = [registro EXCEPT ![u] = "NO_CONECTADO"]
    /\ UNCHANGED <<modo, socket, cnick, interfaz, preguntas, conexiones, recepcion, envio,
                   servidor, alServidor, alCliente>>

(* Before any inicializar_cliente there is no server to compare with.      *)
DisconnectServer(u) ==
    /\ Ordena(u, "DISCONNECT")
    /\ \/ /\ cnick[u] # Nadie
          /\ EnviarCliente(u, Orden("QUIT", Nadie, 0))
          /\ registro' = [registro EXCEPT ![u] = "NO_CONECTADO"]
       \/ /\ cnick[u] = Nadie
          /\ UNCHANGED <<registro, alServidor, escribe>>
    /\ UNCHANGED <<modo, socket, cnick, interfaz, preguntas, conexiones, recepcion, mutex,
                   fichero, servidor, alCliente>>

(* close, once QUIT was sent; the server may have closed before.           *)
CierraSocket(u) ==
    /\ Cerrando(u)
    /\ Gui \notin Escribiendo(u)
    /\ socket' = [socket EXCEPT ![u] = 0]
    /\ abiertas' = [abiertas EXCEPT ![u] = {}]
    /\ vista' = [vista EXCEPT ![u] = {}]
    /\ UNCHANGED <<modo, registro, cnick, vistas, ordenes, conexiones, recepcion, envio,
                   servidor, alServidor, alCliente>>

sinOrden == <<modo, estructura, interfaz, conexiones, recepcion, mutex, fichero, servidor,
              alCliente>>

EnCanal(u) == Canal \in abiertas[u]

(* comando_general: what is typed goes to the server as it is.             *)
ComandoGeneral(u) ==
    \E o \in {"JOIN", "NICK", "WHOIS", "AWAY", "TOPIC"} :
        /\ Ordena(u, o)
        /\ EnviarCliente(u, Orden(o, <<u, 2>>, Sigue(u)))
        /\ Pregunta(u)
        /\ UNCHANGED sinOrden

Privado(u) ==
    /\ Ordena(u, "PRIVADO")
    /\ EnviarCliente(u, Orden("PRIVADO", <<modo.otro[u], 1>>, 0))
    /\ UNCHANGED <<sinOrden, preguntas>>

(* From the System window PART, CYCLE and a text send nothing, and there   *)
(* is no button to press for KICK and MODE.                                *)
DesdeSystem(u) ==
    /\ \E o \in {"PART", "CYCLE", "TEXTO", "KICK", "MODE"} : Ordena(u, o)
    /\ ~EnCanal(u)
    /\ UNCHANGED <<sinOrden, preguntas, alServidor, escribe>>

Part(u) ==
    /\ Ordena(u, "PART")
    /\ EnCanal(u)
    /\ EnviarCliente(u, Orden("PART", Nadie, Sigue(u)))
    /\ Pregunta(u)
    /\ UNCHANGED sinOrden

(* JOIN 0, which join() takes for the name of a channel that cannot be.    *)
PartAll(u) ==
    /\ Ordena(u, "PARTALL")
    /\ EnviarCliente(u, Orden("JOIN0", Nadie, Sigue(u)))
    /\ Pregunta(u)
    /\ UNCHANGED sinOrden

(* Two commands in one message.                                            *)
Cycle(u) ==
    /\ Ordena(u, "CYCLE")
    /\ EnCanal(u)
    /\ ~modo.trozos
    /\ alServidor' = [alServidor EXCEPT ![<<u, socket[u]>>] =
            @ \o <<Orden("PART", Nadie, 0), Orden("JOIN", Nadie, Sigue(u))>>]
    /\ Pregunta(u)
    /\ UNCHANGED <<sinOrden, escribe>>

KickNick(u) ==
    /\ Ordena(u, "KICK")
    /\ EnCanal(u)
    /\ EnviarCliente(u, Orden("KICK", <<modo.otro[u], 1>>, Sigue(u)))
    /\ Pregunta(u)
    /\ UNCHANGED sinOrden

CambiaModo(u) ==
    /\ Ordena(u, "MODE")
    /\ EnCanal(u)
    /\ EnviarCliente(u, Orden("MODE", modo.letra[u], Sigue(u)))
    /\ Pregunta(u)
    /\ UNCHANGED sinOrden

NewCommandText(u) ==
    /\ Ordena(u, "TEXTO")
    /\ EnCanal(u)
    /\ EnviarCliente(u, Orden("TEXTO", Nadie, 0))
    /\ UNCHANGED <<sinOrden, preguntas>>

(* A file is offered by a thread of its own.                               *)
SendFile(u) ==
    /\ Ordena(u, "FICHERO")
    /\ fichero[u] = "no"
    /\ fichero' = [fichero EXCEPT ![u] = "ofrece"]
    /\ UNCHANGED <<modo, estructura, interfaz, preguntas, conexiones, recepcion, mutex,
                   escribe, servidor, alServidor, alCliente>>

Ofrece(u) ==
    /\ fichero[u] = "ofrece"
    /\ EnviarClienteThread(u, Fichero, Orden("FSEND", <<modo.otro[u], 1>>, 0))
    /\ fichero' = [fichero EXCEPT ![u] = "ofrecido"]
    /\ UNCHANGED <<modo, estructura, interfaz, ordenes, conexiones, recepcion, servidor,
                   alCliente>>

-----------------------------------------------------------------------------
(* recv_pthread                                                            *)

A(c, lugar) == receptor' = [receptor EXCEPT ![c] = lugar]

sinTabla == <<modo, estructura, interfaz, ordenes, conexiones, envio, lee, buffer, servidor,
              alServidor, alCliente>>

(* inicializar_comandos_recv: the table is of all threads, and is emptied  *)
(* before it is filled.                                                    *)
RecvInicio(c) ==
    /\ receptor[c] = "inicio"
    /\ tabla' = [tabla EXCEPT ![c[1]] = FALSE]
    /\ A(c, "tabla")
    /\ UNCHANGED sinTabla

RecvTabla(c) ==
    /\ receptor[c] = "tabla"
    /\ tabla' = [tabla EXCEPT ![c[1]] = TRUE]
    /\ A(c, "entra")
    /\ UNCHANGED sinTabla

(* recv is called with the number of a descriptor.  It may be closed by    *)
(* now, which ends the thread, or stand for a later connection.  From here *)
(* on the connection is held open, whoever closes the descriptor.          *)
RecvEntra(c) ==
    LET u == c[1] IN
    /\ receptor[c] = "entra"
    /\ \/ /\ socket[u] # 0
          /\ lee' = [lee EXCEPT ![c] = <<u, socket[u]>>]
          /\ A(c, "recv")
       \/ /\ socket[u] # c[2]
          /\ A(c, "fin")
          /\ UNCHANGED lee
    /\ UNCHANGED <<modo, estructura, interfaz, ordenes, conexiones, envio, buffer, tabla,
                   servidor, alServidor, alCliente>>

(* All that has arrived, or the end, which the user is told of.            *)
RecvMensajes(c) ==
    /\ receptor[c] = "recv"
    /\ \/ /\ alCliente[lee[c]] # <<>>
          /\ buffer' = [buffer EXCEPT ![c] = alCliente[lee[c]]]
          /\ alCliente' = [alCliente EXCEPT ![lee[c]] = <<>>]
          /\ A(c, "maneja")
       \/ /\ alCliente[lee[c]] = <<>>
          /\ lee[c] \in cerrada
          /\ A(c, "fin")
          /\ UNCHANGED <<buffer, alCliente>>
    /\ UNCHANGED <<modo, estructura, interfaz, ordenes, conexiones, envio, lee, tabla,
                   servidor, alServidor>>

-----------------------------------------------------------------------------
(* What each answer does to the windows                                    *)

(* Answers whose handler only shows them.                                  *)
Saludos == {"WELCOME", "NOTICE"}
Informes == {"WHOIS"}
Temas == {"TOPIC"}
Errores == {"ERR_CHANOPRIVSNEEDED", "ERR_NOSUCHNICK", "ERR_NOSUCHCHANNEL"}
Ausencias == {"AWAY"}
Dialogos == {"ERR_NICKNAMEINUSE", "ERR_NONICKNAMEGIVEN"}
Desconocidos == {"ERR_NOTREGISTERED", "ERR_NOTONCHANNEL", "ERR_USERONCHANNEL",
                 "ERR_INVITEONLYCHAN", "ERR_UNKNOWNCOMMAND"}
SoloSeMuestran == Saludos \cup Informes \cup Temas \cup Errores \cup Ausencias
                    \cup Dialogos \cup Desconocidos

Lista(u, w) == {n \in Nicks : <<w, n>> \in vista[u]}
Pon(u, w, ns) == vista' = [vista EXCEPT ![u] = @ \cup ({w} \X ns)]
Quita(u, w, ns) == vista' = [vista EXCEPT ![u] = @ \ ({w} \X ns)]
Abre(u, w) == abiertas' = [abiertas EXCEPT ![u] = @ \cup {w}]
Cierra(u, w) ==
    /\ abiertas' = [abiertas EXCEPT ![u] = @ \ {w}]
    /\ vista' = [vista EXCEPT ![u] = @ \ ({w} \X Nicks)]

(* Mutant: no window is opened.                                            *)
RplJoin_SinAbrir(u, m) ==
    /\ m.tipo = "JOIN"
    /\ IF EnCanal(u) THEN Pon(u, Canal, {m.de}) ELSE UNCHANGED vista
    /\ UNCHANGED <<abiertas, cnick>>

RplJoin(u, m) ==
    /\ m.tipo = "JOIN"
    /\ Abre(u, Canal)
    /\ Pon(u, Canal, {m.de})
    /\ UNCHANGED cnick

RplPrivMsgCanal(u, m) ==
    /\ m.tipo = "TEXTO"
    /\ Abre(u, Canal)
    /\ UNCHANGED <<vista, cnick>>

RplPrivMsg(u, m) ==
    /\ m.tipo = "PRIVADO"
    /\ Abre(u, m.de)
    /\ IF m.de \in abiertas[u] THEN UNCHANGED vista ELSE Pon(u, m.de, {m.de, cnick[u]})
    /\ UNCHANGED cnick

(* A nick for a window that is not there is nowhere.                       *)
RplNamReply(u, m) ==
    /\ m.tipo = "NAMREPLY"
    /\ IF EnCanal(u) THEN Pon(u, Canal, m.nicks) ELSE UNCHANGED vista
    /\ UNCHANGED <<abiertas, cnick>>

(* The old nick is who the message comes from, and this server sends it in *)
(* its own name: nothing in the client has that nick.                      *)
RplNick(u, m) ==
    LET nuevo == CHOOSE n \in m.nicks : TRUE IN
    /\ m.tipo = "NICK"
    /\ vista' = [vista EXCEPT ![u] = {<<x[1], IF x[2] = m.de THEN nuevo ELSE x[2]>> : x \in @}]
    /\ cnick' = [cnick EXCEPT ![u] = IF @ = m.de THEN nuevo ELSE @]
    /\ UNCHANGED abiertas

(* Mutant: its own PART is taken for that of another.                      *)
RplPart_DeOtro(u, m) ==
    /\ m.tipo = "PART"
    /\ Quita(u, Canal, {m.de})
    /\ UNCHANGED <<abiertas, cnick>>

RplPart(u, m) ==
    /\ m.tipo = "PART"
    /\ IF m.de = cnick[u] THEN Cierra(u, Canal)
       ELSE Quita(u, Canal, {m.de}) /\ UNCHANGED abiertas
    /\ UNCHANGED cnick

RplKick(u, m) ==
    /\ m.tipo = "KICK"
    /\ IF cnick[u] \in m.nicks THEN Cierra(u, Canal)
       ELSE Quita(u, Canal, m.nicks) /\ UNCHANGED abiertas
    /\ UNCHANGED cnick

ErrBannedFromChannel(u, m) ==
    /\ m.tipo = "ERR_BANNEDFROMCHAN"
    /\ Quita(u, Canal, m.nicks)
    /\ UNCHANGED <<abiertas, cnick>>

(* The state of a nick and the modes of a channel, which nothing else uses.*)
RplMode(u, m) ==
    /\ m.tipo = "MODE"
    /\ UNCHANGED <<abiertas, vista, cnick>>

(* A message for the program: an offer of a file, which the user declines. *)
ParseNoIRC(u, m) ==
    /\ m.tipo \in {"FSEND", "FCANCEL"}
    /\ UNCHANGED <<abiertas, vista, cnick>>

Muestra(u, m) ==
    /\ m.tipo \in SoloSeMuestran
    /\ UNCHANGED <<abiertas, vista, cnick>>

ComandosRecv(u, m) ==
    \/ RplJoin(u, m)
    \/ RplPrivMsgCanal(u, m)
    \/ RplPrivMsg(u, m)
    \/ RplNamReply(u, m)
    \/ RplNick(u, m)
    \/ RplPart(u, m)
    \/ RplKick(u, m)
    \/ ErrBannedFromChannel(u, m)
    \/ RplMode(u, m)
    \/ ParseNoIRC(u, m)
    \/ Muestra(u, m)

(* Mutant: the rest of what recv brought is forgotten.                     *)
Maneja_SoloUno(c) ==
    LET u == c[1]
        m == Head(buffer[c])
    IN /\ receptor[c] = "maneja"
       /\ vistas' = [vistas EXCEPT ![u] = @ \cup {m.orden}]
       /\ ComandosRecv(u, m)
       /\ buffer' = [buffer EXCEPT ![c] = <<>>]
       /\ A(c, "entra")
       /\ UNCHANGED <<modo, registro, socket, ordenes, conexiones, envio, lee, tabla, servidor,
                      alServidor, alCliente>>

(* One command of those that recv brought.  While the table is being       *)
(* filled, every command is unknown, and is only shown.                    *)
Maneja(c) ==
    LET u == c[1]
        m == Head(buffer[c])
    IN /\ receptor[c] = "maneja"
       /\ vistas' = [vistas EXCEPT ![u] = @ \cup {m.orden}]
       /\ IF tabla[u] THEN ComandosRecv(u, m) ELSE UNCHANGED <<abiertas, vista, cnick>>
       /\ buffer' = [buffer EXCEPT ![c] = Tail(@)]
       /\ A(c, IF m.tipo = "FSEND" /\ tabla[u] THEN "contesta"
               ELSE IF Len(buffer[c]) = 1 THEN "entra" ELSE "maneja")
       /\ UNCHANGED <<modo, registro, socket, ordenes, conexiones, envio, lee, tabla, servidor,
                      alServidor, alCliente>>

(* FCANCEL, or as rplPing answers PONG: from the thread that received.     *)
Contesta(c) ==
    LET u == c[1] IN
    /\ receptor[c] = "contesta"
    /\ EnviarClienteThread(u, Red(c), Orden("FCANCEL", <<modo.otro[u], 1>>, 0))
    /\ A(c, "contestado")
    /\ UNCHANGED <<modo, estructura, interfaz, ordenes, conexiones, fichero, lee, buffer,
                   tabla, servidor, alCliente>>

RecvVuelve(c) ==
    /\ receptor[c] = "contestado"
    /\ Red(c) \notin Escribiendo(c[1])
    /\ A(c, IF buffer[c] = <<>> THEN "entra" ELSE "maneja")
    /\ UNCHANGED <<modo, estructura, interfaz, ordenes, conexiones, envio, lee, buffer, tabla,
                   servidor, alServidor, alCliente>>

-----------------------------------------------------------------------------
(* The server: one command of each connection at a time                    *)

(* What a thread has left to send: a message for every member of the       *)
(* channel but some (their nicks are copied first), for the nicks of such  *)
(* a copy, or for its own client; the list of members; or the end.         *)
AlCanal(m, salvo) == [paso |-> "canal", msg |-> m, nicks |-> salvo]
ANicks(m, nicks) == [paso |-> "nicks", msg |-> m, nicks |-> nicks]
Aqui(m) == [paso |-> "aqui", msg |-> m, nicks |-> {}]
Names == [paso |-> "names", msg |-> Mensaje("NAMREPLY", Servicio, {}, 0), nicks |-> {}]
Fin == [paso |-> "fin", msg |-> Mensaje("QUIT", Servicio, {}, 0), nicks |-> {}]

Respuesta(tipo, n) == <<Aqui(Mensaje(tipo, Servicio, {}, n))>>

Registrado(c) == nombre[c] # Nadie
Vivos(n) == {c \in Conexiones : nombre[c] = n}
Nombres(cs) == {nombre[c] : c \in cs}

Recibe(c, tipo) ==
    /\ c \notin cerrada
    /\ hilo[c] = <<>>
    /\ alServidor[c] # <<>>
    /\ Head(alServidor[c]).tipo = tipo
    /\ Head(alServidor[c]).cruces = {}
    /\ modo.serie => \A d \in Conexiones : hilo[d] = <<>>
    /\ alServidor' = [alServidor EXCEPT ![c] = Tail(@)]

Manda(c, salida) == hilo' = [hilo EXCEPT ![c] = salida]

sinServidor == <<modo, estructura, interfaz, ordenes, conexiones, recepcion, envio>>

(* A client that is not registered is told so, whatever it asks for.       *)
SinRegistrar(c) ==
    LET m == Head(alServidor[c]) IN
    /\ \E tipo \in {"JOIN", "JOIN0", "PART", "KICK", "MODE", "TOPIC", "WHOIS", "AWAY", "TEXTO",
                    "PRIVADO", "FSEND", "FCANCEL"} : Recibe(c, tipo)
    /\ ~Registrado(c)
    /\ Manda(c, Respuesta("ERR_NOTREGISTERED", m.orden))
    /\ UNCHANGED <<sinServidor, cerrada, temporal, nombre, delCanal, alCliente>>

Nick(c) ==
    LET m == Head(alServidor[c]) IN
    /\ Recibe(c, "NICK")
    /\ \/ /\ ~Registrado(c)
          /\ Vivos(m.a) = {}
          /\ temporal' = temporal \cup {c}
          /\ UNCHANGED <<nombre, hilo>>
       \/ /\ Registrado(c)
          /\ Vivos(m.a) = {}
          /\ nombre' = [nombre EXCEPT ![c] = m.a]
          /\ Manda(c, <<Aqui(Mensaje("NICK", Servicio, {m.a}, m.orden))>>)
          /\ UNCHANGED temporal
       \/ /\ Vivos(m.a) # {}
          /\ Manda(c, Respuesta("ERR_NICKNAMEINUSE", m.orden))
          /\ UNCHANGED <<temporal, nombre>>
    /\ UNCHANGED <<sinServidor, cerrada, delCanal, alCliente>>

User(c) ==
    LET m == Head(alServidor[c]) IN
    /\ Recibe(c, "USER")
    /\ \/ /\ c \in temporal
          /\ Vivos(m.a) = {}
          /\ nombre' = [nombre EXCEPT ![c] = m.a]
          /\ temporal' = temporal \ {c}
          /\ Manda(c, Respuesta("WELCOME", m.orden))
       \/ /\ c \in temporal
          /\ Vivos(m.a) # {}
          /\ Manda(c, Respuesta("ERR_NICKNAMEINUSE", m.orden))
          /\ UNCHANGED <<nombre, temporal>>
       \/ /\ c \notin temporal
          /\ Manda(c, Respuesta("ERR_NONICKNAMEGIVEN", m.orden))
          /\ UNCHANGED <<nombre, temporal>>
    /\ UNCHANGED <<sinServidor, cerrada, delCanal, alCliente>>

Join(c) ==
    LET m == Head(alServidor[c])
        eco == Mensaje("JOIN", nombre[c], {}, m.orden)
    IN /\ Recibe(c, "JOIN")
       /\ Registrado(c)
       /\ \/ /\ c \notin miembros
             /\ ~cerrado
             /\ miembros' = miembros \cup {c}
             /\ operadores' = IF miembros = {} THEN {c} ELSE operadores
             /\ Manda(c, <<AlCanal(eco, {nombre[c]}), Aqui(eco), Names>>)
          \/ /\ c \in miembros
             /\ Manda(c, Respuesta("ERR_USERONCHANNEL", m.orden))
             /\ UNCHANGED <<miembros, operadores>>
          \/ /\ c \notin miembros
             /\ cerrado
             /\ Manda(c, <<Aqui(Mensaje("ERR_BANNEDFROMCHAN", Servicio, {nombre[c]}, m.orden))>>)
             /\ UNCHANGED <<miembros, operadores>>
       /\ UNCHANGED <<sinServidor, cerrada, temporal, nombre, cerrado, alCliente>>

Join0(c) ==
    /\ Recibe(c, "JOIN0")
    /\ Registrado(c)
    /\ Manda(c, Respuesta("ERR_NOSUCHCHANNEL", Head(alServidor[c]).orden))
    /\ UNCHANGED <<sinServidor, cerrada, temporal, nombre, delCanal, alCliente>>

(* The channel without c; one that is left empty is forgotten.             *)
Sale(c) ==
    /\ miembros' = miembros \ {c}
    /\ operadores' = operadores \ {c}
    /\ cerrado' = (cerrado /\ miembros # {c})

(* An error also goes to the channel.                                      *)
PartirCanal(c) ==
    LET m == Head(alServidor[c])
        eco == Mensaje(IF c \in miembros THEN "PART" ELSE "ERR_NOTONCHANNEL", nombre[c], {}, m.orden)
    IN /\ Recibe(c, "PART")
       /\ Registrado(c)
       /\ IF c \in miembros THEN Sale(c) ELSE UNCHANGED delCanal
       /\ Manda(c, <<Aqui(eco), AlCanal(eco, {})>>)
       /\ UNCHANGED <<sinServidor, cerrada, temporal, nombre, alCliente>>

Kick(c) ==
    LET m == Head(alServidor[c])
        victima == Vivos(m.a) \cap miembros
        aviso == Mensaje("KICK", nombre[c], {m.a}, m.orden)
    IN /\ Recibe(c, "KICK")
       /\ Registrado(c)
       /\ \/ /\ c \in operadores
             /\ victima # {}
             /\ \E v \in victima : Sale(v)
             /\ Manda(c, <<AlCanal(aviso, {m.a}), ANicks(aviso, {m.a})>>)
          \/ /\ c \in operadores
             /\ victima = {}
             /\ Manda(c, Respuesta("ERR_NOTONCHANNEL", m.orden))
             /\ UNCHANGED delCanal
          \/ /\ c \notin operadores
             /\ Manda(c, Respuesta("ERR_CHANOPRIVSNEEDED", m.orden))
             /\ UNCHANGED delCanal
       /\ UNCHANGED <<sinServidor, cerrada, temporal, nombre, alCliente>>

(* Only the author is told.  No parameter gets to the data base, so that   *)
(* of all the modes it is +i that keeps anybody out.                       *)
Mode(c) ==
    LET m == Head(alServidor[c]) IN
    /\ Recibe(c, "MODE")
    /\ Registrado(c)
    /\ \/ /\ c \in operadores
          /\ cerrado' = (m.a = "+i" \/ (cerrado /\ m.a # "-i"))
          /\ Manda(c, Respuesta("MODE", m.orden))
       \/ /\ c \notin operadores
          /\ Manda(c, Respuesta("ERR_CHANOPRIVSNEEDED", m.orden))
          /\ UNCHANGED cerrado
    /\ UNCHANGED <<sinServidor, cerrada, temporal, nombre, miembros, operadores, alCliente>>

SoloContesta(c) ==
    /\ \E tipo \in {"TOPIC", "WHOIS", "AWAY"} :
        /\ Recibe(c, tipo)
        /\ Manda(c, Respuesta(tipo, Head(alServidor[c]).orden))
    /\ Registrado(c)
    /\ UNCHANGED <<sinServidor, cerrada, temporal, nombre, delCanal, alCliente>>

Privmsg(c) ==
    LET m == Head(alServidor[c])
        texto == Mensaje(m.tipo, nombre[c], {}, 0)
    IN /\ \E tipo \in {"TEXTO", "PRIVADO", "FSEND", "FCANCEL"} : Recibe(c, tipo)
       /\ Registrado(c)
       /\ Manda(c, IF m.tipo = "TEXTO" THEN <<AlCanal(texto, {nombre[c]})>>
                   ELSE <<ANicks(texto, {m.a})>>)
       /\ UNCHANGED <<sinServidor, cerrada, temporal, nombre, delCanal, alCliente>>

(* NOTICE, and then cerrarConexion.                                        *)
Quit(c) ==
    /\ Recibe(c, "QUIT")
    /\ Manda(c, Append(Respuesta("NOTICE", 0), Fin))
    /\ UNCHANGED <<sinServidor, cerrada, temporal, nombre, delCanal, alCliente>>

(* Two messages written across each other are no command.                  *)
ComandoVacio(c) ==
    /\ c \notin cerrada
    /\ hilo[c] = <<>>
    /\ alServidor[c] # <<>>
    /\ Head(alServidor[c]).cruces # {}
    /\ alServidor' = [alServidor EXCEPT ![c] = Tail(@)]
    /\ Manda(c, Respuesta("ERR_UNKNOWNCOMMAND", 0))
    /\ UNCHANGED <<sinServidor, cerrada, temporal, nombre, delCanal, alCliente>>

-----------------------------------------------------------------------------
(* Its sends, one at a time                                                *)

Paso(c, paso) == hilo[c] # <<>> /\ Head(hilo[c]).paso = paso
Despues(c, salida) == Manda(c, salida \o Tail(hilo[c]))

sinEnvios == <<sinServidor, alServidor, temporal, nombre, delCanal, cerrada>>

(* enviarMensajeACanal: the nicks of the channel are copied.               *)
ListNicks(c) ==
    LET h == Head(hilo[c])
        nicks == Nombres(miembros) \ h.nicks
    IN /\ Paso(c, "canal")
       /\ Despues(c, IF miembros = {} THEN Respuesta("ERR_NOSUCHNICK", 0)
                     ELSE IF nicks = {} THEN <<>>
                     ELSE <<ANicks(h.msg, nicks)>>)
       /\ UNCHANGED <<sinEnvios, alCliente>>

(* enviarMensajePrivado: the connection is looked up by nick.  Of a nick   *)
(* that is gone the author is told, except when it is PART that looks.     *)
EnviarANick(c) ==
    LET h == Head(hilo[c])
        dePart == h.msg.tipo \in {"PART", "ERR_NOTONCHANNEL"}
    IN /\ Paso(c, "nicks")
       /\ \E n \in h.nicks :
            LET quedan == IF h.nicks = {n} THEN <<>> ELSE <<ANicks(h.msg, h.nicks \ {n})>> IN
            \/ \E d \in Vivos(n) :
                /\ alCliente' = [alCliente EXCEPT ![d] =
                        Append(@, IF d = c THEN h.msg ELSE [h.msg EXCEPT !.orden = 0])]
                /\ Despues(c, quedan)
            \/ /\ Vivos(n) = {}
               /\ Despues(c, IF dePart THEN quedan ELSE Respuesta("ERR_NOSUCHNICK", 0) \o quedan)
               /\ UNCHANGED alCliente
       /\ UNCHANGED sinEnvios

Enviar(c) ==
    /\ Paso(c, "aqui")
    /\ alCliente' = [alCliente EXCEPT ![c] = Append(@, Head(hilo[c]).msg)]
    /\ Despues(c, <<>>)
    /\ UNCHANGED sinEnvios

ListarNames(c) ==
    /\ Paso(c, "names")
    /\ Despues(c, <<Aqui([Head(hilo[c]).msg EXCEPT !.nicks = Nombres(miembros)])>>)
    /\ UNCHANGED <<sinEnvios, alCliente>>

(* Mutant: the user is forgotten, but not by its channel.                  *)
CerrarConexion_SinSalir(c) ==
    /\ Paso(c, "fin")
    /\ cerrada' = cerrada \cup {c}
    /\ nombre' = [nombre EXCEPT ![c] = Nadie]
    /\ temporal' = temporal \ {c}
    /\ Manda(c, <<>>)
    /\ UNCHANGED <<sinServidor, alServidor, alCliente, delCanal>>

(* The user leaves the data base and its channel, and nobody is told.      *)
CerrarConexion(c) ==
    /\ \/ Paso(c, "fin")
       \/ /\ hilo[c] = <<>>
          /\ c \notin cerrada
          /\ alServidor[c] = <<>>
          /\ c[2] \in 1..conexiones[c[1]]
          /\ socket[c[1]] # c[2]
          /\ \A d \in Conexiones : receptor[d] = "recv" => lee[d] # c
    /\ cerrada' = cerrada \cup {c}
    /\ nombre' = [nombre EXCEPT ![c] = Nadie]
    /\ temporal' = temporal \ {c}
    /\ Sale(c)
    /\ Manda(c, <<>>)
    /\ UNCHANGED <<sinServidor, alServidor, alCliente>>

-----------------------------------------------------------------------------

Interfaz(u) ==
    \/ TecleaSinTabla(u)
    \/ Connect(u)
    \/ DisconnectServer(u)
    \/ ComandoGeneral(u)
    \/ Privado(u)
    \/ DesdeSystem(u)
    \/ Part(u)
    \/ PartAll(u)
    \/ Cycle(u)
    \/ KickNick(u)
    \/ CambiaModo(u)
    \/ NewCommandText(u)
    \/ SendFile(u)

Envio(u) == CierraSocket(u) \/ Ofrece(u) \/ EnviaResto(u)

RecvPthread(c) ==
    \/ RecvInicio(c)
    \/ RecvTabla(c)
    \/ RecvEntra(c)
    \/ RecvMensajes(c)
    \/ Maneja(c)
    \/ Contesta(c)
    \/ RecvVuelve(c)

ProcesaComando(c) ==
    \/ SinRegistrar(c)
    \/ Nick(c)
    \/ User(c)
    \/ Join(c)
    \/ Join0(c)
    \/ PartirCanal(c)
    \/ Kick(c)
    \/ Mode(c)
    \/ SoloContesta(c)
    \/ Privmsg(c)
    \/ Quit(c)
    \/ ComandoVacio(c)

Hilo(c) ==
    \/ ProcesaComando(c)
    \/ ListNicks(c)
    \/ EnviarANick(c)
    \/ Enviar(c)
    \/ ListarNames(c)
    \/ CerrarConexion(c)

Next ==
    \/ \E u \in Usuarios : Interfaz(u) \/ Envio(u)
    \/ \E c \in Conexiones : RecvPthread(c) \/ Hilo(c)

Spec == Init /\ [][Next]_vars

(* Threads run, in the clients and in the server, and messages arrive; the *)
(* users may do nothing.  There is no loop in which a thread runs for ever *)
(* without a new order, so that one step of any of them at a time will do. *)
Planificador ==
    \/ \E u \in Usuarios : Envio(u)
    \/ \E c \in Conexiones : RecvPthread(c) \/ Hilo(c)

FairSpec == Spec /\ WF_vars(Planificador)
=============================================================================
