------------------------- MODULE ClientePruebasVista ------------------------
(***************************************************************************)
(* Proof of what the users see, for any users, connections and orders, and *)
(* commands of several users at a time: the types of all that the clients  *)
(* and the server keep and send, and that whoever is on the channel comes  *)
(* to see itself there (xchat2.c, irc_cliente.c, funciones_registro.c,     *)
(* funciones_servidor.c).                                                  *)
(*                                                                         *)
(* The second needs to follow the echo of JOIN from the thread of the      *)
(* server (hilo) to the connection (alCliente), to what recv brought       *)
(* (buffer) and to the window, and to know that nothing behind it says     *)
(* that the user is not on the channel.                                    *)
(***************************************************************************)
EXTENDS ClientePruebas

(* The nicks of a user, and the messages that its client may send: about   *)
(* one of its orders, through a connection that it made, with one of its   *)
(* nicks to register.                                                      *)
NicksDe(u) == {u} \X {1, 2}
OrdenesDe(u) ==
    {m \in OrdenesIRC : /\ m.orden \in Pide(u)
                        /\ m.en <= conexiones[u]
                        /\ m.tipo \in {"NICK", "USER"} => m.a \in NicksDe(u)
                        /\ m.tipo = "KICK" => HayKick}

(* What a client may be told. JOIN, PART and a private text come from a    *)
(* user, and the server says NICK in its own name.                         *)
Anuncios ==
    {"JOIN", "PART", "KICK", "TEXTO", "PRIVADO", "NAMREPLY", "NICK", "MODE", "FSEND", "FCANCEL",
     "ERR_BANNEDFROMCHAN", "QUIT"} \cup SoloSeMuestran

MensajesIRC ==
    {m \in [tipo : Anuncios, de : Nicks \cup {Servicio}, nicks : SUBSET Argumentos, orden : Nat] :
        /\ m.tipo \in {"JOIN", "PRIVADO", "PART"} => m.de \in Nicks
        /\ m.tipo = "NAMREPLY" => m.nicks \subseteq Nicks
        /\ m.tipo = "NICK" => m.de = Servicio}

(* Messages for a client are about one of its orders.                      *)
MensajesPara(u) == {m \in MensajesIRC : m.orden \in Pide(u) /\ (m.tipo = "KICK" => HayKick)}

(* What the thread of a connection has left to send: only its own client   *)
(* is told that it is banned, and JOIN and PART are its own.               *)
PasosDe(c) ==
    {p \in [paso : {"canal", "nicks", "aqui", "names", "fin"}, msg : MensajesPara(c[1]), nicks : SUBSET Argumentos] :
        /\ p.msg.tipo = "ERR_BANNEDFROMCHAN" => p.paso = "aqui"
        /\ p.msg.tipo \in {"JOIN", "PART"} => p.msg.de[1] = c[1]}

(* Where recv_pthread may be.                                              *)
LugaresRecv == {"no", "inicio", "tabla", "entra", "recv", "maneja", "contesta", "contestado", "fin"}

(* struct cliente: the nick is that of CONNECT until the client ends, and  *)
(* the socket stands for the last connection or for none.                  *)
TipoInterfaz ==
    /\ registro \in [Usuarios -> {"NO_CONECTADO", "CONECTADO"}]
    /\ cnick = [u \in Usuarios |-> IF conexiones[u] = 0 THEN Nadie ELSE <<u, 1>>]
    /\ fichero \in [Usuarios -> {"no", "ofrece", "ofrecido"}]
    /\ mutex \in [Usuarios -> {Libre, Fichero} \cup {Red(c) : c \in Conexiones}]
    /\ \A u \in Usuarios :
        /\ socket[u] \in {0, conexiones[u]}
        /\ conexiones[u] # 0 => <<u, conexiones[u]>> \in Conexiones

(* Windows and what they list.                                             *)
TipoVentanas ==
    /\ abiertas \in [Usuarios -> SUBSET Ventanas]
    /\ vista \in [Usuarios -> SUBSET (Ventanas \X Nicks)]
    /\ \A u \in Usuarios : vista[u] \subseteq abiertas[u] \X Nicks

(* Orders with an answer to wait for, and those answered.                  *)
TipoPreguntas ==
    /\ preguntas \in [Usuarios -> SUBSET Nat]
    /\ vistas \in [Usuarios -> SUBSET Nat]
    /\ \A u \in Usuarios :
        /\ preguntas[u] \subseteq 1..hecho[u]
        /\ vistas[u] \subseteq Pide(u)

(* Messages half written, and those on their way to the server.            *)
TipoOrdenes ==
    /\ \A u \in Usuarios : escribe[u] \subseteq OrdenesDe(u)
    /\ \A c \in Conexiones : alServidor[c] \in Seq(OrdenesDe(c[1]))

(* recv_pthread: a thread belongs to a connection that was made, and has   *)
(* something to handle when it handles.                                    *)
TipoRecepcion ==
    /\ receptor \in [Conexiones -> LugaresRecv]
    /\ lee \in [Conexiones -> Conexiones]
    /\ tabla \in [Usuarios -> BOOLEAN]
    /\ DOMAIN buffer = Conexiones /\ DOMAIN alCliente = Conexiones
    /\ \A c \in Conexiones :
        /\ lee[c][1] = c[1]
        /\ buffer[c] \in Seq(MensajesPara(c[1]))
        /\ alCliente[c] \in Seq(MensajesPara(c[1]))
        /\ receptor[c] # "no" => c[2] <= conexiones[c[1]]
        /\ receptor[c] = "maneja" => buffer[c] # <<>>

(* The data base: operators are members, members are registered, and       *)
(* whoever has sent NICK only is not.                                      *)
TipoBase ==
    /\ nombre \in [Conexiones -> Nicks \cup {Nadie}]
    /\ \A c \in Conexiones : nombre[c] \in NicksDe(c[1]) \cup {Nadie}
    /\ operadores \subseteq miembros
    /\ miembros \subseteq {c \in Conexiones : Registrado(c)}
    /\ cerrada \subseteq Conexiones /\ temporal \subseteq Conexiones
    /\ \A c \in temporal : ~Registrado(c)
    /\ cerrado \in BOOLEAN

(* What the threads of the server have left to send.                       *)
TipoHilo ==
    /\ DOMAIN hilo = Conexiones
    /\ \A c \in Conexiones : hilo[c] \in Seq(PasosDe(c))

TipoInv == /\ TipoInterfaz /\ TipoVentanas /\ TipoPreguntas /\ TipoOrdenes /\ TipoRecepcion
           /\ TipoBase /\ TipoHilo

-----------------------------------------------------------------------------
(* A connection that is not made yet has nothing.                          *)
Nuevas ==
    \A c \in Conexiones : c[2] > conexiones[c[1]] =>
        /\ alServidor[c] = <<>> /\ hilo[c] = <<>> /\ nombre[c] = Nadie
        /\ lee[c] = c /\ buffer[c] = <<>>

(* The user has connected once, and is connected.                          *)
UnaSola(u) == conexiones[u] = 1 /\ socket[u] = 1

(* While there is one connection, its thread reads from it. *)
Lectura ==
    \A u \in Usuarios : UnaSola(u) =>
        /\ lee[<<u, 1>>] = <<u, 1>>
        /\ receptor[<<u, 1>>] \in {"entra", "recv", "maneja", "contesta", "contestado"} => tabla[u]
        /\ receptor[<<u, 1>>] \in {"no", "inicio", "tabla", "entra", "recv", "fin"} => buffer[<<u, 1>>] = <<>>

(* The nick of CONNECT is the first message of a connection, which was not *)
(* registered before it.                                                   *)
SinPrimero(u, s) == \A i \in 1..Len(s) : s[i].tipo = "NICK" => s[i].a # <<u, 1>>
SoloPrimero(u, s) == \A i \in 1..Len(s) : s[i].tipo = "NICK" /\ s[i].a = <<u, 1>> => i = 1

PrimerNick ==
    /\ \A u \in Usuarios : \A m \in escribe[u] : m.tipo = "NICK" => m.a # <<u, 1>>
    /\ \A c \in Conexiones :
        /\ SoloPrimero(c[1], alServidor[c])
        /\ Registrado(c) => SinPrimero(c[1], alServidor[c])

(* Answers that take u off its channel, or put it there.                   *)
Echa(u, m) ==
    \/ m.tipo = "ERR_BANNEDFROMCHAN"
    \/ m.tipo = "PART" /\ m.de = <<u, 1>>
Entra(u, m) == m.tipo = "JOIN" /\ m.de = <<u, 1>>

(* A queue of answers says that u is where it was, or at last that it is   *)
(* on the channel; the same of what a thread has left to send.             *)
Queda(u, s) == \A i \in 1..Len(s) : ~Echa(u, s[i])
Vuelve(u, s) == \E i \in 1..Len(s) : Entra(u, s[i]) /\ \A j \in (i+1)..Len(s) : ~Echa(u, s[j])
QuedaHilo(u, s) == \A i \in 1..Len(s) : ~Echa(u, s[i].msg)
VuelveHilo(u, s) ==
    \E i \in 1..Len(s) : /\ s[i].paso = "aqui" /\ Entra(u, s[i].msg)
                         /\ \A j \in (i+1)..Len(s) : ~Echa(u, s[j].msg)

(* u sees itself on the channel, or will once it has received what its     *)
(* connection has, or once its thread has sent what it has left.           *)
Ve(u) == EnCanal(u) /\ <<Canal, <<u, 1>>>> \in vista[u]
Recibira(u) ==
    LET c == <<u, 1>> IN
    \/ Vuelve(u, alCliente[c])
    \/ /\ Queda(u, alCliente[c])
       /\ \/ Vuelve(u, buffer[c])
          \/ Queda(u, buffer[c]) /\ Ve(u)
Vera(u) ==
    LET c == <<u, 1>> IN
    \/ VuelveHilo(u, hilo[c])
    \/ QuedaHilo(u, hilo[c]) /\ Recibira(u)

(* Whoever is on the channel with the nick of CONNECT sees itself, or      *)
(* will.                                                                   *)
Propia ==
    ~HayKick => \A u \in Usuarios :
        UnaSola(u) /\ <<u, 1>> \in miembros /\ nombre[<<u, 1>>] = <<u, 1>> => Vera(u)

PropiaInv == Nuevas /\ Lectura /\ PrimerNick /\ Propia
-----------------------------------------------------------------------------
(* A connection is a pair of a user and a number from 1 on.                *)
LEMMA Cs == \A c \in Conexiones : c = <<c[1], c[2]>> /\ c[1] \in Usuarios /\ c[2] \in Nat \ {0}
BY ClienteAssumption

(* The head and the tail of a sequence that is not empty.                  *)
LEMMA CabezaCola ==
    ASSUME NEW S, NEW s \in Seq(S), s # <<>>
    PROVE  Head(s) \in S /\ Tail(s) \in Seq(S)
BY HeadTailProperties

(* Orders given, answers waited for and connections made only grow: what   *)
(* could be in a queue still can.                                          *)
LEMMA Crece ==
    ASSUME EnvioTypeOK, EnvioTypeOK', UNCHANGED modo,
           \A u \in Usuarios : /\ hecho[u] <= hecho'[u]
                               /\ preguntas[u] \subseteq preguntas'[u]
                               /\ conexiones[u] <= conexiones'[u]
    PROVE  /\ \A u \in Usuarios : /\ Pide(u) \subseteq Pide(u)'
                                  /\ OrdenesDe(u) \subseteq OrdenesDe(u)'
                                  /\ MensajesPara(u) \subseteq MensajesPara(u)'
           /\ \A c \in Conexiones : PasosDe(c) \subseteq PasosDe(c)'
<1>1. ASSUME NEW u \in Usuarios
      PROVE  Pide(u) \subseteq Pide(u)'
  BY DEF Pide, EnvioTypeOK
<1>2. HayKick' <=> HayKick
  BY DEF HayKick
<1>3. ASSUME NEW u \in Usuarios
      PROVE  OrdenesDe(u) \subseteq OrdenesDe(u)'
  <2> SUFFICES ASSUME NEW m \in OrdenesDe(u)
               PROVE  m \in OrdenesDe(u)'
    OBVIOUS
  <2>1. m \in OrdenesIRC /\ m.en \in Nat
    BY DEF OrdenesDe, OrdenesIRC
  <2>2. m.en <= conexiones'[u]
    BY <2>1 DEF OrdenesDe, EnvioTypeOK
  <2> QED
    BY <1>1, <1>2, <2>1, <2>2 DEF OrdenesDe
<1>4. ASSUME NEW u \in Usuarios
      PROVE  MensajesPara(u) \subseteq MensajesPara(u)'
  BY <1>1, <1>2 DEF MensajesPara
<1>5. ASSUME NEW c \in Conexiones
      PROVE  PasosDe(c) \subseteq PasosDe(c)'
  <2>1. c[1] \in Usuarios
    BY Cs
  <2> QED
    BY <1>4, <2>1 DEF PasosDe
<1> QED
  BY <1>1, <1>3, <1>4, <1>5

(* The interface counts each order that it gives.                          *)
LEMMA OrdenaCrece ==
    ASSUME EnvioTypeOK, NEW u \in Usuarios, NEW o, Ordena(u, o)
    PROVE  /\ hecho' = [hecho EXCEPT ![u] = hecho[u] + 1]
           /\ \A v \in Usuarios : hecho[v] \in Nat /\ hecho[v] <= hecho'[v]
           /\ Sigue(u) \in 1..hecho'[u]
BY DEF EnvioTypeOK, Ordena, Sigue

(* What only the interface counts.                                         *)
sinCuentas == <<modo, hecho, preguntas, conexiones>>

(* The threads, of the clients and of the server, give no orders and make  *)
(* no connections.                                                         *)
LEMMA CuentasQuietas ==
    ASSUME NEW c \in Conexiones, RecvPthread(c) \/ Hilo(c)
    PROVE  UNCHANGED sinCuentas
<1>1. CASE RecvPthread(c)
  BY <1>1 DEF sinCuentas, RecvPthread, RecvInicio, RecvTabla, RecvEntra, RecvMensajes, Maneja, Contesta, RecvVuelve,
      sinTabla, ordenes
<1>2. CASE Hilo(c)
  BY <1>2 DEF sinCuentas, Hilo, ProcesaComando, SinRegistrar, Nick, User, Join, Join0, PartirCanal, Kick, Mode,
      SoloContesta, Privmsg, Quit, ComandoVacio, ListNicks, EnviarANick, Enviar, ListarNames, CerrarConexion,
      sinEnvios, sinServidor, ordenes
<1> QED
  BY <1>1, <1>2

(* What an order of the user counts: itself, the answer it has, and the    *)
(* connection that Connect makes.                                          *)
LEMMA InterfazCuenta ==
    ASSUME EnvioTypeOK, TipoPreguntas, NEW u \in Usuarios, Interfaz(u)
    PROVE  /\ UNCHANGED modo
           /\ \/ \E o : Ordena(u, o)
              \/ hecho' = [hecho EXCEPT ![u] = Len(modo.guion[u])] /\ hecho[u] < Len(modo.guion[u])
           /\ UNCHANGED preguntas \/ Pregunta(u)
           /\ \/ UNCHANGED conexiones
              \/ Connect(u) /\ conexiones' = [conexiones EXCEPT ![u] = @ + 1]
<1>1. CASE TecleaSinTabla(u)
  BY <1>1 DEF TecleaSinTabla, Toca
<1>2. CASE Connect(u)
  BY <1>2 DEF Connect
<1>3. CASE DisconnectServer(u) \/ Privado(u) \/ DesdeSystem(u) \/ NewCommandText(u) \/ SendFile(u)
  BY <1>3 DEF DisconnectServer, Privado, DesdeSystem, NewCommandText, SendFile, sinOrden
<1>4. CASE ComandoGeneral(u) \/ Part(u) \/ PartAll(u) \/ Cycle(u) \/ KickNick(u) \/ CambiaModo(u)
  BY <1>4 DEF ComandoGeneral, Part, PartAll, Cycle, KickNick, CambiaModo, sinOrden
<1> QED
  BY <1>1, <1>2, <1>3, <1>4 DEF Interfaz

(* No step forgets an order, an answer to wait for or a connection.        *)
LEMMA TodoCrece ==
    ASSUME EnvioTypeOK, EnvioTypeOK', TipoPreguntas, [Next]_vars
    PROVE  /\ UNCHANGED modo
           /\ \A u \in Usuarios : /\ hecho[u] <= hecho'[u]
                                  /\ preguntas[u] \subseteq preguntas'[u]
                                  /\ conexiones[u] <= conexiones'[u]
<1>1. CASE UNCHANGED sinCuentas
  BY <1>1 DEF sinCuentas, EnvioTypeOK
<1>2. ASSUME NEW u \in Usuarios, Interfaz(u)
      PROVE  /\ UNCHANGED modo
             /\ \A v \in Usuarios : /\ hecho[v] <= hecho'[v]
                                    /\ preguntas[v] \subseteq preguntas'[v]
                                    /\ conexiones[v] <= conexiones'[v]
  <2>1. UNCHANGED modo
    BY <1>2, InterfazCuenta
  <2>2. \A v \in Usuarios : hecho[v] <= hecho'[v]
    <3>1. ASSUME NEW o, Ordena(u, o)
          PROVE  \A v \in Usuarios : hecho[v] <= hecho'[v]
      BY <3>1, OrdenaCrece
    <3>2. ASSUME hecho' = [hecho EXCEPT ![u] = Len(modo.guion[u])], hecho[u] < Len(modo.guion[u])
          PROVE  \A v \in Usuarios : hecho[v] <= hecho'[v]
      <4>1. Len(modo.guion[u]) \in Nat
        BY ClienteAssumption DEF EnvioTypeOK
      <4> QED
        BY <3>2, <4>1 DEF EnvioTypeOK
    <3> QED
      BY <1>2, <3>1, <3>2, InterfazCuenta
  <2>3. \A v \in Usuarios : preguntas[v] \subseteq preguntas'[v]
    BY <1>2, InterfazCuenta DEF TipoPreguntas, Pregunta
  <2>4. \A v \in Usuarios : conexiones[v] <= conexiones'[v]
    <3>1. conexiones' = conexiones \/ conexiones' = [conexiones EXCEPT ![u] = @ + 1]
      BY <1>2, InterfazCuenta
    <3>2. conexiones \in [Usuarios -> Nat]
      BY DEF EnvioTypeOK
    <3> QED
      BY <3>1, <3>2
  <2> QED
    BY <2>1, <2>2, <2>3, <2>4
<1>3. ASSUME NEW u \in Usuarios, Envio(u)
      PROVE  UNCHANGED sinCuentas
  BY <1>3 DEF Envio, CierraSocket, Ofrece, EnviaResto, sinCuentas, ordenes
<1>4. UNCHANGED vars => UNCHANGED sinCuentas
  BY DEF vars, sinCuentas, ordenes
<1> QED
  BY <1>1, <1>2, <1>3, <1>4, CuentasQuietas DEF Next

(* What an order other than CONNECT leaves alone.                          *)
ajenoOrden == <<modo, socket, cnick, interfaz, conexiones, recepcion, mutex, servidor, alCliente>>

(* All orders but CONNECT, and a command that ends the client, only send,  *)
(* and may disconnect or offer a file.                                     *)
LEMMA OtrasOrdenes ==
    ASSUME NEW u \in Usuarios, Interfaz(u)
    PROVE  \/ Connect(u)
           \/ TecleaSinTabla(u)
           \/ /\ UNCHANGED ajenoOrden
              /\ \E o : Ordena(u, o)
              /\ UNCHANGED preguntas \/ Pregunta(u)
              /\ registro' = registro \/ registro' = [registro EXCEPT ![u] = "NO_CONECTADO"]
              /\ fichero' = fichero \/ fichero' = [fichero EXCEPT ![u] = "ofrece"]
<1>1. CASE DisconnectServer(u)
  BY <1>1 DEF DisconnectServer, ajenoOrden
<1>2. CASE Privado(u) \/ DesdeSystem(u) \/ NewCommandText(u)
  BY <1>2 DEF Privado, DesdeSystem, NewCommandText, sinOrden, ajenoOrden, estructura
<1>3. CASE SendFile(u)
  BY <1>3 DEF SendFile, ajenoOrden, estructura
<1>4. CASE ComandoGeneral(u)
  BY <1>4 DEF ComandoGeneral, sinOrden, ajenoOrden, estructura
<1>5. CASE Part(u) \/ PartAll(u) \/ Cycle(u)
  BY <1>5 DEF Part, PartAll, Cycle, sinOrden, ajenoOrden, estructura
<1>6. CASE KickNick(u) \/ CambiaModo(u)
  BY <1>6 DEF KickNick, CambiaModo, sinOrden, ajenoOrden, estructura
<1> QED
  BY <1>1, <1>2, <1>3, <1>4, <1>5, <1>6 DEF Interfaz

(* Connect sets socket, nick, state and mutex of the new connection.       *)
LEMMA ConectaTipo ==
    ASSUME EnvioTypeOK, TipoInterfaz, NEW u \in Usuarios, Connect(u)
    PROVE  TipoInterfaz'
<1> DEFINE c == <<u, conexiones[u] + 1>>
<1>1. CASE UNCHANGED <<registro, cnick, conexiones, fichero, mutex, socket>>
  BY <1>1 DEF TipoInterfaz
<1>2. CASE /\ conexiones' = [conexiones EXCEPT ![u] = @ + 1]
           /\ socket' = [socket EXCEPT ![u] = c[2]]
           /\ registro' = [registro EXCEPT ![u] = "CONECTADO"]
           /\ cnick' = [cnick EXCEPT ![u] = <<u, 1>>]
           /\ mutex' = [mutex EXCEPT ![u] = Libre]
           /\ fichero' = fichero
           /\ c \in Conexiones
  <2>1. conexiones \in [Usuarios -> Nat] /\ socket \in [Usuarios -> Nat]
    BY DEF EnvioTypeOK
  <2>2. registro' \in [Usuarios -> {"NO_CONECTADO", "CONECTADO"}]
    BY <1>2 DEF TipoInterfaz
  <2>3. mutex' \in [Usuarios -> {Libre, Fichero} \cup {Red(d) : d \in Conexiones}]
    BY <1>2 DEF TipoInterfaz
  <2>4. cnick' = [v \in Usuarios |-> IF conexiones'[v] = 0 THEN Nadie ELSE <<v, 1>>]
    <3>1. conexiones'[u] # 0 /\ \A v \in Usuarios \ {u} : conexiones'[v] = conexiones[v]
      BY <1>2, <2>1
    <3>2. cnick'[u] = <<u, 1>> /\ \A v \in Usuarios \ {u} : cnick'[v] = cnick[v]
      BY <1>2 DEF TipoInterfaz
    <3>3. cnick' = [v \in Usuarios |-> cnick'[v]]
      BY <1>2 DEF TipoInterfaz
    <3>4. \A v \in Usuarios : cnick'[v] = IF conexiones'[v] = 0 THEN Nadie ELSE <<v, 1>>
      BY <3>1, <3>2 DEF TipoInterfaz
    <3> HIDE <1>2
    <3> QED
      BY <3>3, <3>4
  <2>5. ASSUME NEW v \in Usuarios
        PROVE  /\ socket'[v] \in {0, conexiones'[v]}
               /\ conexiones'[v] # 0 => <<v, conexiones'[v]>> \in Conexiones
    <3>1. CASE v = u
      BY <1>2, <2>1, <3>1
    <3>2. CASE v # u
      BY <1>2, <2>1, <3>2 DEF TipoInterfaz
    <3> QED
      BY <3>1, <3>2
  <2> QED
    BY <1>2, <2>2, <2>3, <2>4, <2>5 DEF TipoInterfaz
<1> QED
  BY <1>1, <1>2 DEF Connect, envio

(* What the handler of an answer leaves alone.                             *)
LEMMA ManejaDeja ==
    ASSUME NEW c, Maneja(c)
    PROVE  UNCHANGED <<modo, registro, socket, ordenes, conexiones, envio, lee, tabla, servidor,
                       alServidor, alCliente>>
BY DEF Maneja

(* enviar_clienteThread leaves the mutex free, or with the thread that     *)
(* sends.                                                                  *)
LEMMA SendDeja ==
    ASSUME EnvioTypeOK, TipoInterfaz, NEW u \in Usuarios, NEW h \in {Fichero} \cup {Red(c) : c \in Conexiones},
           NEW m, EnviarClienteThread(u, h, m)
    PROVE  mutex' \in [Usuarios -> {Libre, Fichero} \cup {Red(c) : c \in Conexiones}]
BY DEF EnviarClienteThread, TipoInterfaz

(* What recv_pthread handles next is a message for its user, who has       *)
(* connected.                                                              *)
LEMMA ManejaCabeza ==
    ASSUME EnvioTypeOK, TipoRecepcion, NEW c \in Conexiones, receptor[c] = "maneja"
    PROVE  /\ c[1] \in Usuarios
           /\ conexiones[c[1]] # 0
           /\ Head(buffer[c]) \in MensajesPara(c[1])
           /\ Tail(buffer[c]) \in Seq(MensajesPara(c[1]))
           /\ buffer[c] \in Seq(MensajesPara(c[1])) /\ buffer[c] # <<>>
<1>1. c[1] \in Usuarios /\ c[2] \in Nat \ {0}
  BY Cs
<1>2. conexiones[c[1]] # 0
  <2>1. conexiones[c[1]] \in Nat
    BY <1>1 DEF EnvioTypeOK
  <2>2. c[2] <= conexiones[c[1]]
    BY DEF TipoRecepcion
  <2> QED
    BY <1>1, <2>1, <2>2
<1>3. buffer[c] \in Seq(MensajesPara(c[1])) /\ buffer[c] # <<>>
  BY DEF TipoRecepcion
<1>4. Head(buffer[c]) \in MensajesPara(c[1]) /\ Tail(buffer[c]) \in Seq(MensajesPara(c[1]))
  BY <1>3, CabezaCola
<1> QED
  BY <1>1, <1>2, <1>3, <1>4

(* No answer changes the nick that the client knows: this server sends     *)
(* NICK in its own name, and rplNick compares that with the old nick.      *)
LEMMA NickQueda ==
    ASSUME EnvioTypeOK, TipoInterfaz, TipoRecepcion, NEW c \in Conexiones, Maneja(c)
    PROVE  UNCHANGED cnick
<1>0. c[1] \in Usuarios
  BY Cs
<1> DEFINE u == c[1]
           m == Head(buffer[c])
<1>2. m \in MensajesPara(u)
  BY ManejaCabeza DEF Maneja
<1>3. CASE RplNick(u, m)
  <2>1. m.de = Servicio
    BY <1>2, <1>3 DEF MensajesPara, MensajesIRC, RplNick
  <2>2. cnick[u] # Servicio
    BY <1>0 DEF TipoInterfaz, Servicio, Nadie
  <2>4. cnick' = [cnick EXCEPT ![u] = cnick[u]]
    BY <1>3, <2>1, <2>2 DEF RplNick
  <2>5. \A f : f \in [Usuarios -> Nicks \cup {Nadie}] => [f EXCEPT ![u] = f[u]] = f
    OBVIOUS
  <2>6. cnick \in [Usuarios -> Nicks \cup {Nadie}]
    BY DEF TipoInterfaz, Nicks
  <2> QED
    BY <2>4, <2>5, <2>6
<1>4. CASE ~RplNick(u, m)
  BY <1>4 DEF Maneja, ComandosRecv, RplJoin, RplPrivMsgCanal, RplPrivMsg, RplNamReply, RplPart, RplKick,
     ErrBannedFromChannel, RplMode, ParseNoIRC, Muestra
<1> QED
  BY <1>3, <1>4

(* Every step keeps struct cliente, the mutex and the thread that offers a *)
(* file well typed: the nick is that of CONNECT, and the socket the last   *)
(* connection.                                                             *)
LEMMA InterfazTipo ==
    ASSUME EnvioTypeOK, TipoInterfaz, TipoRecepcion, [Next]_vars
    PROVE  TipoInterfaz'
<1>0. ASSUME UNCHANGED <<registro, cnick, conexiones, fichero, mutex, socket>>
      PROVE  TipoInterfaz'
  BY <1>0 DEF TipoInterfaz
<1>1. ASSUME NEW u \in Usuarios, Interfaz(u)
      PROVE  TipoInterfaz'
  <2>1. CASE Connect(u)
    BY <2>1, ConectaTipo
  <2>2. CASE TecleaSinTabla(u)
    <3>1. /\ UNCHANGED <<registro, cnick, mutex, conexiones>>
          /\ socket' = [socket EXCEPT ![u] = 0]
          /\ fichero' = [fichero EXCEPT ![u] = IF @ = "ofrece" THEN "no" ELSE @]
      BY <2>2 DEF TecleaSinTabla
    <3>2. \A v \in Usuarios : socket'[v] \in {0, conexiones[v]}
      BY <3>1 DEF EnvioTypeOK, TipoInterfaz
    <3>3. fichero' \in [Usuarios -> {"no", "ofrece", "ofrecido"}]
      BY <3>1 DEF TipoInterfaz
    <3> QED
      BY <3>1, <3>2, <3>3 DEF TipoInterfaz
  <2>3. CASE /\ UNCHANGED ajenoOrden
             /\ registro' = registro \/ registro' = [registro EXCEPT ![u] = "NO_CONECTADO"]
             /\ fichero' = fichero \/ fichero' = [fichero EXCEPT ![u] = "ofrece"]
    BY <2>3 DEF ajenoOrden, TipoInterfaz
  <2> QED
    BY <1>1, <2>1, <2>2, <2>3, OtrasOrdenes
<1>2. ASSUME NEW u \in Usuarios, Envio(u)
      PROVE  TipoInterfaz'
  <2>1. CASE CierraSocket(u)
    <3>1. /\ UNCHANGED <<registro, cnick, mutex, conexiones, fichero>>
          /\ socket' = [socket EXCEPT ![u] = 0]
      BY <2>1 DEF CierraSocket, envio
    <3>2. \A v \in Usuarios : socket'[v] \in {0, conexiones[v]}
      BY <3>1 DEF EnvioTypeOK, TipoInterfaz
    <3> QED
      BY <3>1, <3>2 DEF TipoInterfaz
  <2>2. CASE Ofrece(u)
    <3>1. /\ UNCHANGED <<registro, cnick, conexiones, socket>>
          /\ fichero' = [fichero EXCEPT ![u] = "ofrecido"]
          /\ \E m : EnviarClienteThread(u, Fichero, m)
      BY <2>2 DEF Ofrece, estructura
    <3>2. mutex' \in [Usuarios -> {Libre, Fichero} \cup {Red(c) : c \in Conexiones}]
      BY <3>1, SendDeja
    <3> QED
      BY <3>1, <3>2 DEF TipoInterfaz
  <2>3. CASE EnviaResto(u)
    BY <2>3 DEF EnviaResto, TipoInterfaz, estructura
  <2> QED
    BY <1>2, <2>1, <2>2, <2>3 DEF Envio
<1>3. ASSUME NEW c \in Conexiones, RecvPthread(c)
      PROVE  TipoInterfaz'
  <2>1. CASE Contesta(c)
    <3>1. /\ UNCHANGED <<registro, cnick, conexiones, socket, fichero>>
          /\ \E m : EnviarClienteThread(c[1], Red(c), m)
      BY <2>1 DEF Contesta, estructura
    <3>2. mutex' \in [Usuarios -> {Libre, Fichero} \cup {Red(d) : d \in Conexiones}]
      BY <3>1, SendDeja, Cs
    <3> QED
      BY <3>1, <3>2 DEF TipoInterfaz
  <2>2. CASE Maneja(c)
    BY <1>0, <2>2, NickQueda, ManejaDeja DEF envio
  <2>3. CASE RecvInicio(c) \/ RecvTabla(c) \/ RecvEntra(c) \/ RecvMensajes(c) \/ RecvVuelve(c)
    BY <1>0, <2>3 DEF RecvInicio, RecvTabla, RecvEntra, RecvMensajes, RecvVuelve, sinTabla, estructura, envio
  <2> QED
    BY <1>3, <2>1, <2>2, <2>3 DEF RecvPthread
<1>4. ASSUME NEW c \in Conexiones, Hilo(c)
      PROVE  TipoInterfaz'
  BY <1>0, <1>4 DEF Hilo, ProcesaComando, SinRegistrar, Nick, User, Join, Join0, PartirCanal, Kick, Mode,
      SoloContesta, Privmsg, Quit, ComandoVacio, ListNicks, EnviarANick, Enviar, ListarNames, CerrarConexion,
      sinEnvios, sinServidor, estructura, envio
<1>5. CASE UNCHANGED vars
  BY <1>0, <1>5 DEF vars, estructura, envio
<1> QED
  BY <1>1, <1>2, <1>3, <1>4, <1>5 DEF Next

(* Windows with what they list, all changed at once.                       *)
LEMMA VentanasCambian ==
    ASSUME TipoVentanas, NEW u \in Usuarios, NEW X, NEW V,
           X \subseteq Ventanas, V \subseteq X \X Nicks,
           abiertas' = [abiertas EXCEPT ![u] = X], vista' = [vista EXCEPT ![u] = V]
    PROVE  TipoVentanas'
<1>1. abiertas' \in [Usuarios -> SUBSET Ventanas] /\ abiertas'[u] = X
      /\ \A v \in Usuarios \ {u} : abiertas'[v] = abiertas[v]
  BY DEF TipoVentanas
<1>2. V \in SUBSET (Ventanas \X Nicks)
  OBVIOUS
<1>3. vista' \in [Usuarios -> SUBSET (Ventanas \X Nicks)] /\ vista'[u] = V
      /\ \A v \in Usuarios \ {u} : vista'[v] = vista[v]
  BY <1>2 DEF TipoVentanas
<1> QED
  BY <1>1, <1>3 DEF TipoVentanas

(* The windows of one user.                                                *)
LEMMA VentanasDe ==
    ASSUME TipoVentanas, NEW u \in Usuarios
    PROVE  /\ abiertas[u] \subseteq Ventanas
           /\ vista[u] \subseteq abiertas[u] \X Nicks
           /\ abiertas = [abiertas EXCEPT ![u] = abiertas[u]]
           /\ vista = [vista EXCEPT ![u] = vista[u]]
<1>1. \A f : f \in [Usuarios -> SUBSET Ventanas] => f = [f EXCEPT ![u] = f[u]]
  OBVIOUS
<1>2. \A f : f \in [Usuarios -> SUBSET (Ventanas \X Nicks)] => f = [f EXCEPT ![u] = f[u]]
  OBVIOUS
<1> QED
  BY <1>1, <1>2 DEF TipoVentanas

(* A window is opened and nicks are listed in it.                          *)
LEMMA AbrePon ==
    ASSUME TipoVentanas, NEW u \in Usuarios, NEW w \in Ventanas, NEW ns \in SUBSET Nicks,
           Abre(u, w), Pon(u, w, ns)
    PROVE  TipoVentanas'
<1>1. (abiertas[u] \cup {w}) \subseteq Ventanas
  BY VentanasDe
<1>2. (vista[u] \cup ({w} \X ns)) \subseteq (abiertas[u] \cup {w}) \X Nicks
  BY VentanasDe
<1>3. /\ abiertas' = [abiertas EXCEPT ![u] = abiertas[u] \cup {w}]
      /\ vista' = [vista EXCEPT ![u] = vista[u] \cup ({w} \X ns)]
  BY DEF Abre, Pon
<1> DEFINE X == abiertas[u] \cup {w}
           V == vista[u] \cup ({w} \X ns)
<1>4. X \subseteq Ventanas /\ V \subseteq X \X Nicks
      /\ abiertas' = [abiertas EXCEPT ![u] = X] /\ vista' = [vista EXCEPT ![u] = V]
  BY <1>1, <1>2, <1>3
<1> HIDE DEF X, V
<1> QED
  BY <1>4, VentanasCambian

(* A window is opened.                                                     *)
LEMMA SoloAbre ==
    ASSUME TipoVentanas, NEW u \in Usuarios, NEW w \in Ventanas, Abre(u, w), UNCHANGED vista
    PROVE  TipoVentanas'
<1> DEFINE X == abiertas[u] \cup {w}
           V == vista[u]
<1>1. X \subseteq Ventanas /\ V \subseteq X \X Nicks
  BY VentanasDe
<1>2. abiertas' = [abiertas EXCEPT ![u] = X]
  BY DEF Abre
<1>3. vista' = [vista EXCEPT ![u] = V]
  BY VentanasDe
<1> HIDE DEF X, V
<1> QED
  BY <1>1, <1>2, <1>3, VentanasCambian

(* The lists of the windows change.                                        *)
LEMMA SoloVista ==
    ASSUME TipoVentanas, NEW u \in Usuarios, NEW V, V \subseteq abiertas[u] \X Nicks,
           vista' = [vista EXCEPT ![u] = V], UNCHANGED abiertas
    PROVE  TipoVentanas'
<1> DEFINE X == abiertas[u]
<1>1. X \subseteq Ventanas /\ V \subseteq X \X Nicks
  BY VentanasDe
<1>2. abiertas' = [abiertas EXCEPT ![u] = X]
  BY VentanasDe
<1> HIDE DEF X
<1> QED
  BY <1>1, <1>2, VentanasCambian

(* A window is closed, and its list with it.                               *)
LEMMA CierraTipo ==
    ASSUME TipoVentanas, NEW u \in Usuarios, NEW w, Cierra(u, w)
    PROVE  TipoVentanas'
<1> DEFINE X == abiertas[u] \ {w}
           V == vista[u] \ ({w} \X Nicks)
<1>1. X \subseteq Ventanas /\ V \subseteq X \X Nicks
  BY VentanasDe
<1>2. abiertas' = [abiertas EXCEPT ![u] = X] /\ vista' = [vista EXCEPT ![u] = V]
  BY DEF Cierra
<1> HIDE DEF X, V
<1> QED
  BY <1>1, <1>2, VentanasCambian

(* Nicks leave a list.                                                     *)
LEMMA QuitaTipo ==
    ASSUME TipoVentanas, NEW u \in Usuarios, NEW w, NEW ns, Quita(u, w, ns), UNCHANGED abiertas
    PROVE  TipoVentanas'
<1> DEFINE V == vista[u] \ ({w} \X ns)
<1>1. V \subseteq abiertas[u] \X Nicks
  BY VentanasDe
<1>2. vista' = [vista EXCEPT ![u] = V]
  BY DEF Quita
<1> HIDE DEF V
<1> QED
  BY <1>1, <1>2, SoloVista

(* rplNick puts a nick for another.                                        *)
LEMMA NickTipo ==
    ASSUME TipoVentanas, NEW u \in Usuarios, NEW m \in MensajesPara(u), RplNick(u, m)
    PROVE  TipoVentanas'
<1>1. m.de = Servicio
  BY DEF RplNick, MensajesPara, MensajesIRC
<1> DEFINE nuevo == CHOOSE n \in m.nicks : TRUE
           V == {<<x[1], IF x[2] = m.de THEN nuevo ELSE x[2]>> : x \in vista[u]}
<1>2. vista' = [vista EXCEPT ![u] = V] /\ UNCHANGED abiertas
  BY DEF RplNick
<1>3. V \subseteq abiertas[u] \X Nicks
  <2> SUFFICES ASSUME NEW x \in vista[u]
               PROVE  <<x[1], IF x[2] = m.de THEN nuevo ELSE x[2]>> \in abiertas[u] \X Nicks
    OBVIOUS
  <2>1. x[1] \in abiertas[u] /\ x[2] \in Nicks
    BY VentanasDe
  <2>2. x[2] # m.de
    BY <1>1, <2>1 DEF Servicio, Nicks
  <2> QED
    BY <2>1, <2>2
<1> HIDE DEF V
<1> QED
  BY <1>2, <1>3, SoloVista

(* Each handler of an answer (rplJoin, rplPart, rplNick...) lists nicks    *)
(* only in windows that are open.                                          *)
LEMMA RespuestaVentanas ==
    ASSUME TipoVentanas, NEW u \in Usuarios, cnick[u] \in Nicks, NEW m \in MensajesPara(u),
           ComandosRecv(u, m)
    PROVE  TipoVentanas'
<1>0. Canal \in Ventanas /\ Nicks \subseteq Ventanas
  BY DEF Ventanas
<1>1. CASE RplJoin(u, m)
  <2>1. {m.de} \in SUBSET Nicks
    BY <1>1 DEF RplJoin, MensajesPara, MensajesIRC
  <2> QED
    BY <1>0, <1>1, <2>1, AbrePon DEF RplJoin
<1>2. CASE RplPrivMsgCanal(u, m)
  BY <1>0, <1>2, SoloAbre DEF RplPrivMsgCanal
<1>3. CASE RplPrivMsg(u, m)
  <2>1. m.de \in Ventanas /\ {m.de, cnick[u]} \in SUBSET Nicks
    BY <1>0, <1>3 DEF RplPrivMsg, MensajesPara, MensajesIRC
  <2>2. Abre(u, m.de) /\ (UNCHANGED vista \/ Pon(u, m.de, {m.de, cnick[u]}))
    BY <1>3 DEF RplPrivMsg
  <2>3. CASE UNCHANGED vista
    BY <2>1, <2>2, <2>3, SoloAbre
  <2>4. CASE Pon(u, m.de, {m.de, cnick[u]})
    BY <2>1, <2>2, <2>4, AbrePon
  <2> QED
    BY <2>2, <2>3, <2>4
<1>4. CASE RplNamReply(u, m)
  <2>1. m.nicks \subseteq Nicks
    BY <1>4 DEF RplNamReply, MensajesPara, MensajesIRC
  <2>2. CASE UNCHANGED vista
    BY <1>4, <2>2 DEF RplNamReply, TipoVentanas
  <2>3. CASE EnCanal(u) /\ Pon(u, Canal, m.nicks)
    <3> DEFINE V == vista[u] \cup ({Canal} \X m.nicks)
    <3>1. V \subseteq abiertas[u] \X Nicks
      BY <2>1, <2>3, VentanasDe DEF EnCanal
    <3>2. vista' = [vista EXCEPT ![u] = V] /\ UNCHANGED abiertas
      BY <1>4, <2>3 DEF Pon, RplNamReply
    <3> HIDE DEF V
    <3> QED
      BY <3>1, <3>2, SoloVista
  <2> QED
    BY <1>4, <2>2, <2>3 DEF RplNamReply
<1>5. CASE RplNick(u, m)
  BY <1>5, NickTipo
<1>6. CASE RplPart(u, m)
  BY <1>6, CierraTipo, QuitaTipo DEF RplPart
<1>7. CASE RplKick(u, m)
  BY <1>7, CierraTipo, QuitaTipo DEF RplKick
<1>8. CASE ErrBannedFromChannel(u, m)
  BY <1>8, QuitaTipo DEF ErrBannedFromChannel
<1>9. CASE RplMode(u, m) \/ ParseNoIRC(u, m) \/ Muestra(u, m)
  BY <1>9 DEF RplMode, ParseNoIRC, Muestra, TipoVentanas
<1> QED
  BY <1>1, <1>2, <1>3, <1>4, <1>5, <1>6, <1>7, <1>8, <1>9 DEF ComandosRecv

(* Every step keeps to that, and CierraSocket and the end of the client    *)
(* close everything.                                                       *)
LEMMA VentanasTipo ==
    ASSUME EnvioTypeOK, TipoInterfaz, TipoRecepcion, TipoVentanas, [Next]_vars
    PROVE  TipoVentanas'
<1>0. ASSUME UNCHANGED <<abiertas, vista>>
      PROVE  TipoVentanas'
  BY <1>0 DEF TipoVentanas
<1>1. ASSUME NEW u \in Usuarios, abiertas' = [abiertas EXCEPT ![u] = {}], vista' = [vista EXCEPT ![u] = {}]
      PROVE  TipoVentanas'
  BY <1>1, VentanasCambian
<1>2. ASSUME NEW u \in Usuarios, Interfaz(u)
      PROVE  TipoVentanas'
  <2>1. CASE Connect(u)
    BY <1>0, <2>1 DEF Connect, interfaz
  <2>2. CASE TecleaSinTabla(u)
    BY <1>1, <2>2 DEF TecleaSinTabla
  <2>3. CASE UNCHANGED ajenoOrden
    BY <1>0, <2>3 DEF ajenoOrden, interfaz
  <2> QED
    BY <1>2, <2>1, <2>2, <2>3, OtrasOrdenes
<1>3. ASSUME NEW u \in Usuarios, Envio(u)
      PROVE  TipoVentanas'
  <2>1. CASE CierraSocket(u)
    BY <1>1, <2>1 DEF CierraSocket
  <2>2. CASE Ofrece(u) \/ EnviaResto(u)
    BY <1>0, <2>2 DEF Ofrece, EnviaResto, interfaz
  <2> QED
    BY <1>3, <2>1, <2>2 DEF Envio
<1>4. ASSUME NEW c \in Conexiones, RecvPthread(c)
      PROVE  TipoVentanas'
  <2>1. CASE Maneja(c)
    <3>1. c[1] \in Usuarios /\ conexiones[c[1]] # 0
      BY <2>1, ManejaCabeza DEF Maneja
    <3>2. cnick[c[1]] \in Nicks
      BY <3>1 DEF TipoInterfaz, Nicks
    <3>3. Head(buffer[c]) \in MensajesPara(c[1])
      BY <2>1, ManejaCabeza DEF Maneja
    <3>4. ComandosRecv(c[1], Head(buffer[c])) \/ UNCHANGED <<abiertas, vista>>
      BY <2>1 DEF Maneja
    <3>5. CASE ComandosRecv(c[1], Head(buffer[c]))
      BY <3>1, <3>2, <3>3, <3>5, RespuestaVentanas
    <3> QED
      BY <1>0, <3>4, <3>5
  <2>2. CASE RecvInicio(c) \/ RecvTabla(c) \/ RecvEntra(c) \/ RecvMensajes(c) \/ RecvVuelve(c) \/ Contesta(c)
    BY <1>0, <2>2 DEF RecvInicio, RecvTabla, RecvEntra, RecvMensajes, RecvVuelve, Contesta, sinTabla, interfaz
  <2> QED
    BY <1>4, <2>1, <2>2 DEF RecvPthread
<1>5. ASSUME NEW c \in Conexiones, Hilo(c)
      PROVE  TipoVentanas'
  BY <1>0, <1>5 DEF Hilo, ProcesaComando, SinRegistrar, Nick, User, Join, Join0, PartirCanal, Kick, Mode,
      SoloContesta, Privmsg, Quit, ComandoVacio, ListNicks, EnviarANick, Enviar, ListarNames, CerrarConexion,
      sinEnvios, sinServidor, interfaz
<1>6. CASE UNCHANGED vars
  BY <1>0, <1>6 DEF vars, interfaz
<1> QED
  BY <1>2, <1>3, <1>4, <1>5, <1>6 DEF Next

(* Each set of messages and steps only grows.                              *)
Crecen ==
    /\ \A u \in Usuarios : /\ Pide(u) \subseteq Pide(u)'
                           /\ OrdenesDe(u) \subseteq OrdenesDe(u)'
                           /\ MensajesPara(u) \subseteq MensajesPara(u)'
    /\ \A c \in Conexiones : PasosDe(c) \subseteq PasosDe(c)'

(* What every step leaves valid in the queues.                             *)
LEMMA TodoSirve ==
    ASSUME EnvioTypeOK, EnvioTypeOK', TipoPreguntas, [Next]_vars
    PROVE  Crecen
BY Crece, TodoCrece DEF Crecen

-----------------------------------------------------------------------------
(* Answers are shown by the handlers only.                                 *)
LEMMA VistasQuietas ==
    ASSUME [Next]_vars, ~\E c \in Conexiones : Maneja(c)
    PROVE  UNCHANGED vistas
<1>1. ASSUME NEW u \in Usuarios, Interfaz(u)
      PROVE  UNCHANGED vistas
  BY <1>1, OtrasOrdenes DEF ajenoOrden, interfaz, Connect, TecleaSinTabla
<1>2. ASSUME NEW u \in Usuarios, Envio(u)
      PROVE  UNCHANGED vistas
  BY <1>2 DEF Envio, CierraSocket, Ofrece, EnviaResto, interfaz
<1>3. ASSUME NEW c \in Conexiones, RecvPthread(c)
      PROVE  UNCHANGED vistas
  BY <1>3 DEF RecvPthread, RecvInicio, RecvTabla, RecvEntra, RecvMensajes, RecvVuelve, Contesta, sinTabla, interfaz
<1>4. ASSUME NEW c \in Conexiones, Hilo(c)
      PROVE  UNCHANGED vistas
  BY <1>4 DEF Hilo, ProcesaComando, SinRegistrar, Nick, User, Join, Join0, PartirCanal, Kick, Mode,
      SoloContesta, Privmsg, Quit, ComandoVacio, ListNicks, EnviarANick, Enviar, ListarNames, CerrarConexion,
      sinEnvios, sinServidor, interfaz
<1>5. CASE UNCHANGED vars
  BY <1>5 DEF vars, interfaz
<1> QED
  BY <1>1, <1>2, <1>3, <1>4, <1>5 DEF Next

(* Only an order of the user adds an answer to wait for.                   *)
LEMMA PreguntasQuietas ==
    ASSUME EnvioTypeOK, TipoPreguntas, [Next]_vars
    PROVE  \/ UNCHANGED preguntas
           \/ \E u \in Usuarios : \E o : Ordena(u, o) /\ Pregunta(u)
<1>1. ASSUME NEW u \in Usuarios, Interfaz(u)
      PROVE  \/ UNCHANGED preguntas
             \/ \E o : Ordena(u, o) /\ Pregunta(u)
  BY <1>1, OtrasOrdenes DEF Connect, TecleaSinTabla
<1>2. ASSUME NEW u \in Usuarios, Envio(u)
      PROVE  UNCHANGED preguntas
  BY <1>2 DEF Envio, CierraSocket, Ofrece, EnviaResto, ordenes
<1>3. ASSUME NEW c \in Conexiones, RecvPthread(c) \/ Hilo(c)
      PROVE  UNCHANGED preguntas
  BY <1>3, CuentasQuietas DEF sinCuentas
<1>4. CASE UNCHANGED vars
  BY <1>4 DEF vars, ordenes
<1> QED
  BY <1>1, <1>2, <1>3, <1>4 DEF Next

(* Only orders that were given have an answer to wait for, and only        *)
(* answers to them are shown.                                              *)
LEMMA PreguntasTipo ==
    ASSUME EnvioTypeOK, EnvioTypeOK', TipoRecepcion, TipoPreguntas, [Next]_vars
    PROVE  TipoPreguntas'
<1>1. Crecen /\ \A u \in Usuarios : hecho[u] \in Nat /\ hecho'[u] \in Nat /\ hecho[u] <= hecho'[u]
  BY TodoSirve, TodoCrece DEF EnvioTypeOK
<1>2. /\ preguntas' \in [Usuarios -> SUBSET Nat]
      /\ \A u \in Usuarios : preguntas'[u] \subseteq 1..hecho'[u]
  <2>1. CASE UNCHANGED preguntas
    BY <1>1, <2>1 DEF TipoPreguntas
  <2>2. ASSUME NEW u \in Usuarios, NEW o, Ordena(u, o), Pregunta(u)
        PROVE  /\ preguntas' \in [Usuarios -> SUBSET Nat]
               /\ \A v \in Usuarios : preguntas'[v] \subseteq 1..hecho'[v]
    <3>1. Sigue(u) \in 1..hecho'[u]
      BY <2>2, OrdenaCrece
    <3>2. preguntas' = [preguntas EXCEPT ![u] = preguntas[u] \cup {Sigue(u)}]
      BY <2>2 DEF Pregunta
    <3>3. \A v \in Usuarios : preguntas'[v] \subseteq 1..hecho'[v]
      BY <1>1, <3>1, <3>2 DEF TipoPreguntas
    <3>4. preguntas' \in [Usuarios -> SUBSET Nat]
      BY <3>1, <3>2 DEF TipoPreguntas
    <3> QED
      BY <3>3, <3>4
  <2> QED
    BY <2>1, <2>2, PreguntasQuietas
<1>3. /\ vistas' \in [Usuarios -> SUBSET Nat]
      /\ \A u \in Usuarios : vistas'[u] \subseteq Pide(u)'
  <2>1. CASE UNCHANGED vistas
    BY <1>1, <2>1 DEF TipoPreguntas, Crecen
  <2>2. ASSUME NEW c \in Conexiones, Maneja(c)
        PROVE  /\ vistas' \in [Usuarios -> SUBSET Nat]
               /\ \A u \in Usuarios : vistas'[u] \subseteq Pide(u)'
    <3> DEFINE n == Head(buffer[c]).orden
    <3>1. c[1] \in Usuarios /\ n \in Pide(c[1]) /\ n \in Nat
      BY <2>2, ManejaCabeza DEF Maneja, MensajesPara, MensajesIRC
    <3>2. vistas' = [vistas EXCEPT ![c[1]] = vistas[c[1]] \cup {n}]
      BY <2>2 DEF Maneja
    <3> HIDE DEF n
    <3>3. vistas' \in [Usuarios -> SUBSET Nat]
      BY <3>1, <3>2 DEF TipoPreguntas
    <3>4. ASSUME NEW u \in Usuarios
          PROVE  vistas'[u] \subseteq Pide(u)'
      <4>1. vistas'[u] \subseteq Pide(u)
        BY <3>1, <3>2 DEF TipoPreguntas
      <4> QED
        BY <1>1, <4>1 DEF Crecen
    <3> QED
      BY <3>3, <3>4
  <2> QED
    BY <2>1, <2>2, VistasQuietas
<1> QED
  BY <1>2, <1>3 DEF TipoPreguntas
-----------------------------------------------------------------------------
(* A message to the server that names an order of its user and one of the  *)
(* user's connections.                                                     *)
LEMMA OrdenNueva ==
    ASSUME NEW u \in Usuarios, NEW s \in Nat, s <= conexiones'[u], NEW h \in Hebras,
           NEW tipo \in Tipos, NEW x \in Argumentos, NEW n \in Nat, n \in Pide(u)',
           tipo = "KICK" => HayKick', tipo \in {"NICK", "USER"} => x \in NicksDe(u)
    PROVE  [Orden(tipo, x, n) EXCEPT !.de = h, !.en = s] \in OrdenesDe(u)'
BY DEF Orden, OrdenesDe, OrdenesIRC, NicksDe

(* Writing in the middle of a message changes nothing else of it.          *)
LEMMA CruzaDe ==
    ASSUME NEW u \in Usuarios, NEW m \in OrdenesDe(u)', NEW x \in OrdenesDe(u)'
    PROVE  Cruza(m, x) \in OrdenesDe(u)'
BY DEF OrdenesDe, OrdenesIRC, Cruza

(* Queues that do not change keep their type as orders are given.          *)
LEMMA OrdenesQuietas ==
    ASSUME TipoOrdenes, Crecen, UNCHANGED <<escribe, alServidor>>
    PROVE  TipoOrdenes'
<1>1. ASSUME NEW c \in Conexiones
      PROVE  alServidor'[c] \in Seq(OrdenesDe(c[1])')
  <2>1. OrdenesDe(c[1]) \subseteq OrdenesDe(c[1])'
    BY Cs DEF Crecen
  <2>2. alServidor'[c] \in Seq(OrdenesDe(c[1]))
    BY DEF TipoOrdenes
  <2> QED
    BY <2>1, <2>2, SeqMonotonic
<1> QED
  BY <1>1 DEF TipoOrdenes, Crecen

(* A message is written whole, or its rest.                                *)
LEMMA LlegaTipo ==
    ASSUME EnvioTypeOK, TipoOrdenes, Crecen, NEW u \in Usuarios, NEW d, NEW m \in OrdenesDe(u)',
           d \in Conexiones => d[1] = u,
           alServidor' = [alServidor EXCEPT ![d] = Append(alServidor[d], m)],
           \A v \in Usuarios : escribe'[v] \subseteq OrdenesDe(v)'
    PROVE  TipoOrdenes'
<1>1. ASSUME NEW c \in Conexiones
      PROVE  alServidor'[c] \in Seq(OrdenesDe(c[1])')
  <2>1. OrdenesDe(c[1]) \subseteq OrdenesDe(c[1])'
    BY Cs DEF Crecen
  <2>2. alServidor[c] \in Seq(OrdenesDe(c[1]))
    BY DEF TipoOrdenes
  <2>3. alServidor[c] \in Seq(OrdenesDe(c[1])')
    BY <2>1, <2>2, SeqMonotonic
  <2>4. alServidor'[c] = IF c = d THEN Append(alServidor[c], m) ELSE alServidor[c]
    BY DEF EnvioTypeOK
  <2>5. CASE c = d
    <3>1. m \in OrdenesDe(c[1])'
      BY <2>5
    <3>2. Append(alServidor[c], m) \in Seq(OrdenesDe(c[1])')
      BY <2>3, <3>1, AppendProperties, Zenon
    <3> QED
      BY <2>4, <2>5, <3>2
  <2> QED
    BY <2>3, <2>4, <2>5
<1> QED
  BY <1>1 DEF TipoOrdenes

(* send writes a message whole, in part or not at all.                     *)
LEMMA SendTipo ==
    ASSUME EnvioTypeOK, TipoOrdenes, Crecen, NEW u \in Usuarios, NEW h, NEW m,
           [m EXCEPT !.de = h, !.en = socket[u]] \in OrdenesDe(u)', Send(u, h, m)
    PROVE  TipoOrdenes'
<1> DEFINE tuyo == [m EXCEPT !.de = h, !.en = socket[u]]
           otros == {x.de : x \in {y \in escribe[u] : y.en = socket[u]}}
<1>1. CASE UNCHANGED <<alServidor, escribe>>
  BY <1>1, OrdenesQuietas
<1>2. CASE /\ alServidor' = [alServidor EXCEPT ![<<u, socket[u]>>] = Append(@, tuyo)]
           /\ UNCHANGED escribe
  <2>1. \A v \in Usuarios : escribe'[v] \subseteq OrdenesDe(v)'
    BY <1>2 DEF TipoOrdenes, Crecen
  <2> HIDE DEF tuyo
  <2> QED
    BY <1>2, <2>1, LlegaTipo DEF tuyo
<1>3. CASE /\ escribe' = [escribe EXCEPT ![u] =
                {[tuyo EXCEPT !.cruces = otros]} \cup {Cruza(x, tuyo) : x \in @}]
           /\ UNCHANGED alServidor
  <2>1. otros \in SUBSET Hebras
    BY DEF EnvioTypeOK, OrdenesIRC
  <2>2. [tuyo EXCEPT !.cruces = otros] \in OrdenesDe(u)'
    BY <2>1 DEF OrdenesDe, OrdenesIRC
  <2>3. tuyo \in OrdenesDe(u)'
    OBVIOUS
  <2> HIDE DEF tuyo, otros
  <2>4. \A x \in escribe[u] : Cruza(x, tuyo) \in OrdenesDe(u)'
    BY <2>3, CruzaDe DEF TipoOrdenes, Crecen
  <2>5. \A v \in Usuarios : escribe'[v] \subseteq OrdenesDe(v)'
    BY <1>3, <2>2, <2>4 DEF TipoOrdenes, Crecen, EnvioTypeOK
  <2>6. ASSUME NEW c \in Conexiones
        PROVE  alServidor'[c] \in Seq(OrdenesDe(c[1])')
    <3>1. OrdenesDe(c[1]) \subseteq OrdenesDe(c[1])'
      BY Cs DEF Crecen
    <3>2. alServidor'[c] \in Seq(OrdenesDe(c[1]))
      BY <1>3 DEF TipoOrdenes
    <3> QED
      BY <3>1, <3>2, SeqMonotonic
  <2> QED
    BY <2>5, <2>6 DEF TipoOrdenes
<1> QED
  BY <1>1, <1>2, <1>3 DEF Send

(* A socket that is open stands for the last connection.                   *)
LEMMA SocketDe ==
    ASSUME EnvioTypeOK, TipoInterfaz, NEW u \in Usuarios
    PROVE  /\ socket[u] \in Nat /\ conexiones[u] \in Nat
           /\ socket[u] <= conexiones[u]
           /\ socket[u] # 0 => 1 <= conexiones[u] /\ <<u, socket[u]>> \in Conexiones
<1>1. socket[u] \in Nat /\ conexiones[u] \in Nat
  BY DEF EnvioTypeOK
<1>2. /\ socket[u] \in {0, conexiones[u]}
      /\ conexiones[u] # 0 => <<u, conexiones[u]>> \in Conexiones
  BY DEF TipoInterfaz
<1> QED
  BY <1>1, <1>2

(* A command of the user is sent.                                          *)
LEMMA TecleaTipo ==
    ASSUME EnvioTypeOK, TipoInterfaz, TipoOrdenes, Crecen, NEW u \in Usuarios, NEW o, Ordena(u, o),
           UNCHANGED <<modo, conexiones>>,
           NEW tipo \in Tipos, NEW x \in Argumentos, NEW n,
           n = 0 \/ (n = Sigue(u) /\ n \in Pide(u)'),
           tipo = "KICK" => o = "KICK", tipo \notin {"NICK", "USER"} \/ x = <<u, 2>>,
           EnviarCliente(u, Orden(tipo, x, n))
    PROVE  TipoOrdenes'
<1>1. socket[u] \in Nat /\ socket[u] <= conexiones'[u]
  BY SocketDe
<1>2. n \in Nat /\ n \in Pide(u)'
  BY DEF EnvioTypeOK, Sigue, Pide
<1>3. o = "KICK" => HayKick'
  <2> SUFFICES ASSUME o = "KICK"
               PROVE  HayKick'
    OBVIOUS
  <2>1. hecho[u] \in Nat /\ Len(modo.guion[u]) \in Nat
    BY ClienteAssumption DEF EnvioTypeOK
  <2>2. Sigue(u) \in 1..Len(modo.guion[u]) /\ modo.guion[u][Sigue(u)] = "KICK"
    BY <2>1 DEF Ordena, Toca, Sigue
  <2> QED
    BY <2>2 DEF HayKick
<1>4. Gui \in Hebras /\ Send(u, Gui, Orden(tipo, x, n))
  BY DEF Hebras, EnviarCliente
<1>5. tipo \in {"NICK", "USER"} => x \in NicksDe(u)
  BY DEF NicksDe
<1>6. [Orden(tipo, x, n) EXCEPT !.de = Gui, !.en = socket[u]] \in OrdenesDe(u)'
  BY <1>1, <1>2, <1>3, <1>4, <1>5, OrdenNueva
<1> QED
  BY <1>4, <1>6, SendTipo

(* An order with an answer may be answered.                                *)
LEMMA PreguntaPide ==
    ASSUME EnvioTypeOK, TipoPreguntas, NEW u \in Usuarios, NEW o, Ordena(u, o),
           modo.fallan \/ Pregunta(u), UNCHANGED modo
    PROVE  Sigue(u) \in Pide(u)'
<1>1. Sigue(u) \in 1..hecho'[u]
  BY OrdenaCrece
<1>2. Pregunta(u) => Sigue(u) \in preguntas'[u]
  BY DEF Pregunta, TipoPreguntas
<1> QED
  BY <1>1, <1>2 DEF Pide, Pregunta

(* Connect sends NICK and USER with the first nick of the user.            *)
LEMMA ConnectTipo ==
    ASSUME EnvioTypeOK, EnvioTypeOK', TipoInterfaz, TipoPreguntas, TipoOrdenes, Crecen,
           NEW u \in Usuarios, Connect(u)
    PROVE  TipoOrdenes'
<1> DEFINE c == <<u, conexiones[u] + 1>>
           nick == Orden("NICK", <<u, 1>>, 0)
           user == Orden("USER", <<u, 1>>, Sigue(u))
<1>1. CASE UNCHANGED alServidor
  BY <1>1, OrdenesQuietas DEF Connect
<1>2. CASE /\ alServidor' = [alServidor EXCEPT ![c] = <<nick, user>>]
           /\ conexiones' = [conexiones EXCEPT ![u] = @ + 1]
           /\ modo.fallan \/ Pregunta(u)
  <2>1. Ordena(u, "CONNECT") /\ UNCHANGED <<modo, escribe>>
    BY DEF Connect
  <2>2. 1 <= conexiones'[u]
    BY <1>2 DEF EnvioTypeOK
  <2>3. /\ Sigue(u) \in Pide(u)' /\ Sigue(u) \in Nat
        /\ 0 \in Pide(u)'
    BY <1>2, <2>1, PreguntaPide DEF EnvioTypeOK, Sigue, Pide
  <2>4. /\ <<u, 1>> \in Argumentos /\ <<u, 1>> \in NicksDe(u)
        /\ {"NICK", "USER"} \subseteq Tipos /\ Gui \in Hebras
    BY DEF Argumentos, Nicks, NicksDe, Tipos, Ordenes, Hebras
  <2>5. nick \in OrdenesDe(u)' /\ user \in OrdenesDe(u)'
    BY <2>2, <2>3, <2>4 DEF Orden, OrdenesDe, OrdenesIRC
  <2> HIDE DEF nick, user
  <2>6. <<nick, user>> \in Seq(OrdenesDe(u)')
    BY <2>5
  <2>7. ASSUME NEW d \in Conexiones
        PROVE  alServidor'[d] \in Seq(OrdenesDe(d[1])')
    <3>1. OrdenesDe(d[1]) \subseteq OrdenesDe(d[1])'
      BY Cs DEF Crecen
    <3>2. alServidor[d] \in Seq(OrdenesDe(d[1]))
      BY DEF TipoOrdenes
    <3>3. alServidor[d] \in Seq(OrdenesDe(d[1])')
      BY <3>1, <3>2, SeqMonotonic
    <3>4. alServidor'[d] = IF d = c THEN <<nick, user>> ELSE alServidor[d]
      BY <1>2 DEF EnvioTypeOK
    <3>5. d = c => d[1] = u
      OBVIOUS
    <3> QED
      BY <2>6, <3>3, <3>4, <3>5
  <2> QED
    BY <2>1, <2>7 DEF TipoOrdenes, Crecen
<1> QED
  BY <1>1, <1>2 DEF Connect

(* CYCLE sends PART and JOIN in one message.                               *)
LEMMA CycleTipo ==
    ASSUME EnvioTypeOK, EnvioTypeOK', TipoInterfaz, TipoPreguntas, TipoOrdenes, Crecen,
           NEW u \in Usuarios, Cycle(u)
    PROVE  TipoOrdenes'
<1> DEFINE c == <<u, socket[u]>>
           part == Orden("PART", Nadie, 0)
           join == Orden("JOIN", Nadie, Sigue(u))
<1>1. /\ Ordena(u, "CYCLE") /\ Pregunta(u) /\ UNCHANGED <<modo, conexiones, escribe>>
      /\ alServidor' = [alServidor EXCEPT ![c] = alServidor[c] \o <<part, join>>]
  BY DEF Cycle, sinOrden
<1>2. Sigue(u) \in Pide(u)' /\ Sigue(u) \in Nat /\ 0 \in Pide(u)'
  <2>1. Sigue(u) \in Pide(u)'
    BY <1>1, PreguntaPide
  <2> QED
    BY <2>1 DEF EnvioTypeOK, Sigue, Pide
<1>3. Nadie \in Argumentos /\ {"PART", "JOIN"} \subseteq Tipos /\ Gui \in Hebras
  BY DEF Argumentos, Tipos, Ordenes, Hebras
<1>4. socket[u] # 0 => 1 <= conexiones'[u]
  BY <1>1, SocketDe
<1>5. socket[u] # 0 => part \in OrdenesDe(u)' /\ join \in OrdenesDe(u)'
  BY <1>2, <1>3, <1>4 DEF Orden, OrdenesDe, OrdenesIRC
<1> HIDE DEF part, join
<1>6. socket[u] # 0 => <<part, join>> \in Seq(OrdenesDe(u)')
  BY <1>5
<1>7. ASSUME NEW d \in Conexiones
      PROVE  alServidor'[d] \in Seq(OrdenesDe(d[1])')
  <2>1. OrdenesDe(d[1]) \subseteq OrdenesDe(d[1])'
    BY Cs DEF Crecen
  <2>2. alServidor[d] \in Seq(OrdenesDe(d[1]))
    BY DEF TipoOrdenes
  <2>3. alServidor[d] \in Seq(OrdenesDe(d[1])')
    BY <2>1, <2>2, SeqMonotonic
  <2>4. alServidor'[d] = IF d = c THEN alServidor[d] \o <<part, join>> ELSE alServidor[d]
    BY <1>1 DEF EnvioTypeOK
  <2>5. CASE d = c
    <3>1. d[1] = u /\ socket[u] # 0
      BY <2>5, Cs
    <3>2. <<part, join>> \in Seq(OrdenesDe(d[1])')
      BY <1>6, <3>1
    <3>3. alServidor[d] \o <<part, join>> \in Seq(OrdenesDe(d[1])')
      BY <2>3, <3>2, ConcatProperties, Zenon
    <3> QED
      BY <2>4, <2>5, <3>3
  <2> QED
    BY <2>3, <2>4, <2>5
<1> QED
  BY <1>1, <1>7 DEF TipoOrdenes, Crecen

(* The rest of a message is written where its first half was.              *)
LEMMA RestoTipo ==
    ASSUME EnvioTypeOK, TipoOrdenes, Crecen, NEW u \in Usuarios, EnviaResto(u)
    PROVE  TipoOrdenes'
<1>1. PICK m \in escribe[u] :
            /\ alServidor' = [alServidor EXCEPT ![<<u, m.en>>] = Append(@, m)]
            /\ escribe' = [escribe EXCEPT ![u] = @ \ {m}]
  BY DEF EnviaResto
<1>2. m \in OrdenesDe(u)'
  BY DEF TipoOrdenes, Crecen
<1>3. \A v \in Usuarios : escribe'[v] \subseteq escribe[v]
  BY <1>1 DEF EnvioTypeOK
<1>4. \A v \in Usuarios : escribe'[v] \subseteq OrdenesDe(v)'
  BY <1>3 DEF TipoOrdenes, Crecen
<1>5. <<u, m.en>>[1] = u
  OBVIOUS
<1> QED
  BY <1>1, <1>2, <1>4, <1>5, LlegaTipo

(* A thread of the server takes commands from the head of its own queue,   *)
(* and touches no other.                                                   *)
LEMMA HiloOrdenes ==
    ASSUME NEW c \in Conexiones, Hilo(c)
    PROVE  /\ UNCHANGED <<modo, escribe>>
           /\ \/ UNCHANGED alServidor
              \/ alServidor[c] # <<>> /\ alServidor' = [alServidor EXCEPT ![c] = Tail(@)]
<1>1. CASE SinRegistrar(c) \/ SoloContesta(c) \/ Privmsg(c)
  BY <1>1 DEF SinRegistrar, SoloContesta, Privmsg, Recibe, sinServidor, envio
<1>2. CASE Nick(c) \/ User(c) \/ Join(c) \/ Join0(c)
  BY <1>2 DEF Nick, User, Join, Join0, Recibe, sinServidor, envio
<1>3. CASE PartirCanal(c) \/ Kick(c) \/ Mode(c) \/ Quit(c) \/ ComandoVacio(c)
  BY <1>3 DEF PartirCanal, Kick, Mode, Quit, ComandoVacio, Recibe, sinServidor, envio
<1>4. CASE ListNicks(c) \/ EnviarANick(c) \/ Enviar(c) \/ ListarNames(c) \/ CerrarConexion(c)
  BY <1>4 DEF ListNicks, EnviarANick, Enviar, ListarNames, CerrarConexion, sinEnvios, sinServidor, envio
<1> QED
  BY <1>1, <1>2, <1>3, <1>4 DEF Hilo, ProcesaComando

(* A command leaves its queue.                                             *)
LEMMA RecibeTipo ==
    ASSUME EnvioTypeOK, TipoOrdenes, Crecen, NEW c \in Conexiones, alServidor[c] # <<>>,
           UNCHANGED escribe, alServidor' = [alServidor EXCEPT ![c] = Tail(@)]
    PROVE  TipoOrdenes'
<1>1. ASSUME NEW d \in Conexiones
      PROVE  alServidor'[d] \in Seq(OrdenesDe(d[1])')
  <2>1. OrdenesDe(d[1]) \subseteq OrdenesDe(d[1])'
    BY Cs DEF Crecen
  <2>2. alServidor[d] \in Seq(OrdenesDe(d[1]))
    BY DEF TipoOrdenes
  <2>3. alServidor'[d] = IF d = c THEN Tail(alServidor[d]) ELSE alServidor[d]
    BY DEF EnvioTypeOK
  <2>4. alServidor'[d] \in Seq(OrdenesDe(d[1]))
    BY <2>2, <2>3, CabezaCola
  <2> QED
    BY <2>1, <2>4, SeqMonotonic
<1> QED
  BY <1>1 DEF TipoOrdenes, Crecen

(* Whatever the user orders.                                               *)
LEMMA InterfazOrdenes ==
    ASSUME EnvioTypeOK, EnvioTypeOK', TipoInterfaz, TipoPreguntas, TipoOrdenes, Crecen,
           NEW u \in Usuarios, Interfaz(u)
    PROVE  TipoOrdenes'
<1>1. /\ <<u, 2>> \in Argumentos /\ Nadie \in Argumentos
      /\ <<modo.otro[u], 1>> \in Argumentos /\ modo.letra[u] \in Argumentos
      /\ {"JOIN", "NICK", "WHOIS", "AWAY", "TOPIC", "PRIVADO", "PART", "JOIN0", "KICK", "MODE", "TEXTO",
          "QUIT"} \subseteq Tipos
  BY Constantes DEF Argumentos, Nicks, Tipos, Ordenes
<1>2. CASE Connect(u)
  BY <1>2, ConnectTipo
<1>3. CASE TecleaSinTabla(u)
  <2>1. UNCHANGED alServidor /\ escribe' = [escribe EXCEPT ![u] = {}]
    BY <1>3 DEF TecleaSinTabla
  <2>2. \A v \in Usuarios : escribe'[v] \subseteq OrdenesDe(v)'
    BY <2>1 DEF EnvioTypeOK, TipoOrdenes, Crecen
  <2>3. ASSUME NEW c \in Conexiones
        PROVE  alServidor'[c] \in Seq(OrdenesDe(c[1])')
    <3>1. OrdenesDe(c[1]) \subseteq OrdenesDe(c[1])'
      BY Cs DEF Crecen
    <3>2. alServidor'[c] \in Seq(OrdenesDe(c[1]))
      BY <2>1 DEF TipoOrdenes
    <3> QED
      BY <3>1, <3>2, SeqMonotonic
  <2> QED
    BY <2>2, <2>3 DEF TipoOrdenes
<1>4. CASE DisconnectServer(u)
  <2>1. Ordena(u, "DISCONNECT") /\ UNCHANGED <<modo, conexiones>>
    BY <1>4 DEF DisconnectServer
  <2>2. CASE UNCHANGED <<alServidor, escribe>>
    BY <2>2, OrdenesQuietas
  <2>3. CASE EnviarCliente(u, Orden("QUIT", Nadie, 0))
    BY <1>1, <2>1, <2>3, TecleaTipo
  <2> QED
    BY <1>4, <2>2, <2>3 DEF DisconnectServer
<1>5. CASE ComandoGeneral(u)
  <2>1. PICK o \in {"JOIN", "NICK", "WHOIS", "AWAY", "TOPIC"} :
            /\ Ordena(u, o)
            /\ EnviarCliente(u, Orden(o, <<u, 2>>, Sigue(u)))
            /\ Pregunta(u)
            /\ UNCHANGED <<modo, conexiones>>
    BY <1>5 DEF ComandoGeneral, sinOrden
  <2>2. Sigue(u) \in Pide(u)'
    BY <2>1, PreguntaPide
  <2> QED
    BY <1>1, <2>1, <2>2, TecleaTipo
<1>6. CASE Privado(u)
  BY <1>1, <1>6, TecleaTipo DEF Privado, sinOrden
<1>7. CASE DesdeSystem(u) \/ SendFile(u)
  BY <1>7, OrdenesQuietas DEF DesdeSystem, SendFile
<1>8. CASE Part(u)
  <2>1. /\ Ordena(u, "PART") /\ EnviarCliente(u, Orden("PART", Nadie, Sigue(u)))
        /\ Pregunta(u) /\ UNCHANGED <<modo, conexiones>>
    BY <1>8 DEF Part, sinOrden
  <2>2. Sigue(u) \in Pide(u)'
    BY <2>1, PreguntaPide
  <2> QED
    BY <1>1, <2>1, <2>2, TecleaTipo
<1>9. CASE PartAll(u)
  <2>1. /\ Ordena(u, "PARTALL") /\ EnviarCliente(u, Orden("JOIN0", Nadie, Sigue(u)))
        /\ Pregunta(u) /\ UNCHANGED <<modo, conexiones>>
    BY <1>9 DEF PartAll, sinOrden
  <2>2. Sigue(u) \in Pide(u)'
    BY <2>1, PreguntaPide
  <2> QED
    BY <1>1, <2>1, <2>2, TecleaTipo
<1>10. CASE Cycle(u)
  BY <1>10, CycleTipo
<1>11. CASE KickNick(u)
  <2>1. /\ Ordena(u, "KICK") /\ EnviarCliente(u, Orden("KICK", <<modo.otro[u], 1>>, Sigue(u)))
        /\ Pregunta(u) /\ UNCHANGED <<modo, conexiones>>
    BY <1>11 DEF KickNick, sinOrden
  <2>2. Sigue(u) \in Pide(u)'
    BY <2>1, PreguntaPide
  <2> QED
    BY <1>1, <2>1, <2>2, TecleaTipo
<1>12. CASE CambiaModo(u)
  <2>1. /\ Ordena(u, "MODE") /\ EnviarCliente(u, Orden("MODE", modo.letra[u], Sigue(u)))
        /\ Pregunta(u) /\ UNCHANGED <<modo, conexiones>>
    BY <1>12 DEF CambiaModo, sinOrden
  <2>2. Sigue(u) \in Pide(u)'
    BY <2>1, PreguntaPide
  <2> QED
    BY <1>1, <2>1, <2>2, TecleaTipo
<1>13. CASE NewCommandText(u)
  BY <1>1, <1>13, TecleaTipo DEF NewCommandText, sinOrden
<1> QED
  BY <1>2, <1>3, <1>4, <1>5, <1>6, <1>7, <1>8, <1>9, <1>10, <1>11, <1>12, <1>13 DEF Interfaz

(* FSEND and FCANCEL are sent by threads.                                  *)
LEMMA ThreadTipo ==
    ASSUME EnvioTypeOK, TipoInterfaz, TipoOrdenes, Crecen, UNCHANGED conexiones,
           NEW u \in Usuarios, NEW h \in Hebras, NEW tipo \in {"FSEND", "FCANCEL"},
           EnviarClienteThread(u, h, Orden(tipo, <<modo.otro[u], 1>>, 0))
    PROVE  TipoOrdenes'
<1>1. <<modo.otro[u], 1>> \in Argumentos /\ tipo \in Tipos
  BY Constantes DEF Argumentos, Nicks, Tipos
<1>2. socket[u] \in Nat /\ socket[u] <= conexiones'[u]
  BY SocketDe
<1>3. 0 \in Pide(u)'
  BY DEF Pide
<1>4. [Orden(tipo, <<modo.otro[u], 1>>, 0) EXCEPT !.de = h, !.en = socket[u]] \in OrdenesDe(u)'
  BY <1>1, <1>2, <1>3, OrdenNueva
<1>5. Send(u, h, Orden(tipo, <<modo.otro[u], 1>>, 0))
  BY DEF EnviarClienteThread
<1> QED
  BY <1>4, <1>5, SendTipo

(* Every step keeps the messages on their way to the server well typed: a  *)
(* nick is one of its user, and the connection one that was made.          *)
LEMMA OrdenesTipo ==
    ASSUME EnvioTypeOK, EnvioTypeOK', TipoInterfaz, TipoPreguntas, TipoOrdenes, [Next]_vars
    PROVE  TipoOrdenes'
<1>0. Crecen
  BY TodoSirve
<1>1. ASSUME NEW u \in Usuarios, Interfaz(u)
      PROVE  TipoOrdenes'
  BY <1>0, <1>1, InterfazOrdenes
<1>2. ASSUME NEW u \in Usuarios, Envio(u)
      PROVE  TipoOrdenes'
  <2>1. CASE CierraSocket(u)
    BY <1>0, <2>1, OrdenesQuietas DEF CierraSocket, envio
  <2>2. CASE Ofrece(u)
    BY <1>0, <2>2, ThreadTipo DEF Ofrece, Hebras
  <2>3. CASE EnviaResto(u)
    BY <1>0, <2>3, RestoTipo
  <2> QED
    BY <1>2, <2>1, <2>2, <2>3 DEF Envio
<1>3. ASSUME NEW c \in Conexiones, RecvPthread(c)
      PROVE  TipoOrdenes'
  <2>1. CASE Contesta(c)
    BY <1>0, <2>1, ThreadTipo, Cs DEF Contesta, Hebras
  <2>2. CASE Maneja(c)
    BY <1>0, <2>2, ManejaDeja, OrdenesQuietas DEF envio
  <2>3. CASE RecvInicio(c) \/ RecvTabla(c) \/ RecvEntra(c) \/ RecvMensajes(c) \/ RecvVuelve(c)
    BY <1>0, <2>3, OrdenesQuietas DEF RecvInicio, RecvTabla, RecvEntra, RecvMensajes, RecvVuelve, sinTabla, envio
  <2> QED
    BY <1>3, <2>1, <2>2, <2>3 DEF RecvPthread
<1>4. ASSUME NEW c \in Conexiones, Hilo(c)
      PROVE  TipoOrdenes'
  <2>1. CASE UNCHANGED alServidor
    BY <1>0, <1>4, <2>1, HiloOrdenes, OrdenesQuietas
  <2>2. CASE alServidor[c] # <<>> /\ alServidor' = [alServidor EXCEPT ![c] = Tail(@)]
    BY <1>0, <1>4, <2>2, HiloOrdenes, RecibeTipo
  <2> QED
    BY <1>4, <2>1, <2>2, HiloOrdenes
<1>5. CASE UNCHANGED vars
  BY <1>0, <1>5, OrdenesQuietas DEF vars, envio
<1> QED
  BY <1>1, <1>2, <1>3, <1>4, <1>5 DEF Next
-----------------------------------------------------------------------------
(* A message to a client, and its fields.                                  *)
LEMMA MensajeTipo ==
    ASSUME NEW u \in Usuarios, NEW tipo \in Anuncios, NEW de \in Nicks \cup {Servicio},
           NEW nicks \in SUBSET Argumentos, NEW n \in Nat, n \in Pide(u),
           tipo \in {"JOIN", "PRIVADO", "PART"} => de \in Nicks,
           tipo = "NAMREPLY" => nicks \subseteq Nicks,
           tipo = "NICK" => de = Servicio,
           tipo = "KICK" => HayKick
    PROVE  /\ Mensaje(tipo, de, nicks, n) \in MensajesPara(u)
           /\ Mensaje(tipo, de, nicks, n).tipo = tipo
           /\ Mensaje(tipo, de, nicks, n).de = de
BY DEF Mensaje, MensajesPara, MensajesIRC

(* A step of a thread of the server sends messages for its client:         *)
(* ERR_BANNEDFROMCHAN to nobody else, and JOIN and PART in its own name.   *)
LEMMA PasoTipo ==
    ASSUME NEW c \in Conexiones, NEW m \in MensajesPara(c[1]), NEW nicks \in SUBSET Argumentos,
           m.tipo \in {"JOIN", "PART"} => m.de[1] = c[1]
    PROVE  /\ Aqui(m) \in PasosDe(c)
           /\ m.tipo # "ERR_BANNEDFROMCHAN" => AlCanal(m, nicks) \in PasosDe(c) /\ ANicks(m, nicks) \in PasosDe(c)
BY DEF Aqui, AlCanal, ANicks, PasosDe

(* An answer to the author only.                                           *)
LEMMA RespuestaTipo ==
    ASSUME NEW c \in Conexiones, NEW n \in Nat, n \in Pide(c[1]), NEW tipo \in Anuncios,
           tipo \notin {"JOIN", "PART", "PRIVADO", "NAMREPLY", "KICK"}
    PROVE  Respuesta(tipo, n) \in Seq(PasosDe(c))
<1> DEFINE m == Mensaje(tipo, Servicio, {}, n)
<1>1. c[1] \in Usuarios /\ Servicio \in Nicks \cup {Servicio} /\ {} \in SUBSET Argumentos /\ {} \subseteq Nicks
  BY Cs
<1>2. m \in MensajesPara(c[1]) /\ m.tipo = tipo
  BY <1>1, MensajeTipo
<1> HIDE DEF m
<1>3. Aqui(m) \in PasosDe(c)
  BY <1>1, <1>2, PasoTipo
<1>4. Respuesta(tipo, n) = <<Aqui(m)>>
  BY DEF Respuesta, m
<1> QED
  BY <1>3, <1>4

(* A thread of the server gets a list of sends.                            *)
LEMMA MandaTipo ==
    ASSUME TipoHilo, Crecen, NEW c \in Conexiones, NEW s \in Seq(PasosDe(c)), Manda(c, s)
    PROVE  TipoHilo'
<1>1. \A d \in Conexiones : hilo'[d] = IF d = c THEN s ELSE hilo[d]
  BY DEF Manda, TipoHilo
<1>2. DOMAIN hilo' = Conexiones
  BY DEF Manda, TipoHilo
<1>3. ASSUME NEW d \in Conexiones
      PROVE  hilo'[d] \in Seq(PasosDe(d)')
  <2>1. PasosDe(d) \subseteq PasosDe(d)'
    BY DEF Crecen
  <2>2. hilo'[d] \in Seq(PasosDe(d))
    BY <1>1 DEF TipoHilo
  <2> QED
    BY <2>1, <2>2, SeqMonotonic
<1> QED
  BY <1>2, <1>3 DEF TipoHilo

(* The threads of the server do nothing.                                   *)
LEMMA HiloQuieto ==
    ASSUME TipoHilo, Crecen, UNCHANGED hilo
    PROVE  TipoHilo'
<1>1. ASSUME NEW d \in Conexiones
      PROVE  hilo'[d] \in Seq(PasosDe(d)')
  <2>1. PasosDe(d) \subseteq PasosDe(d)'
    BY DEF Crecen
  <2>2. hilo'[d] \in Seq(PasosDe(d))
    BY DEF TipoHilo
  <2> QED
    BY <2>1, <2>2, SeqMonotonic
<1> QED
  BY <1>1 DEF TipoHilo

(* The nick of a registered connection is its user's.                      *)
LEMMA NombreDe ==
    ASSUME TipoBase
    PROVE  /\ \A c \in Conexiones : Registrado(c) => nombre[c] \in Nicks /\ nombre[c][1] = c[1]
           /\ Nombres(miembros) \subseteq Nicks
<1>1. \A c \in Conexiones : Registrado(c) => nombre[c] \in Nicks /\ nombre[c][1] = c[1]
  BY Cs DEF TipoBase, Registrado, NicksDe, Nicks
<1>2. Nombres(miembros) \subseteq Nicks
  BY <1>1 DEF Nombres, TipoBase
<1> QED
  BY <1>1, <1>2

(* The command at the head of a queue.                                     *)
LEMMA OrdenDe ==
    ASSUME TipoOrdenes, NEW c \in Conexiones, alServidor[c] # <<>>
    PROVE  LET m == Head(alServidor[c]) IN
           /\ m \in OrdenesDe(c[1])
           /\ m.orden \in Nat /\ m.orden \in Pide(c[1])
           /\ m.a \in Argumentos /\ m.tipo \in Tipos
           /\ m.tipo \in {"NICK", "USER"} => m.a \in NicksDe(c[1])
           /\ m.tipo = "KICK" => HayKick
<1>1. Head(alServidor[c]) \in OrdenesDe(c[1])
  BY CabezaCola DEF TipoOrdenes
<1> QED
  BY <1>1 DEF OrdenesDe, OrdenesIRC

(* What each command (nick, join, partirCanal, kick, mode...) gives its    *)
(* thread to send.                                                         *)
LEMMA ProcesaTipo ==
    ASSUME TipoOrdenes, TipoBase, TipoHilo, Crecen, NEW c \in Conexiones, ProcesaComando(c)
    PROVE  TipoHilo'
<1> DEFINE m == Head(alServidor[c])
           u == c[1]
<1>A. Anuncios = {"JOIN", "PART", "KICK", "TEXTO", "PRIVADO", "NAMREPLY", "NICK", "MODE", "FSEND", "FCANCEL",
         "ERR_BANNEDFROMCHAN", "QUIT", "WELCOME", "NOTICE", "WHOIS", "TOPIC", "AWAY", "ERR_CHANOPRIVSNEEDED",
         "ERR_NOSUCHNICK", "ERR_NOSUCHCHANNEL", "ERR_NICKNAMEINUSE", "ERR_NONICKNAMEGIVEN", "ERR_NOTREGISTERED",
         "ERR_NOTONCHANNEL", "ERR_USERONCHANNEL", "ERR_INVITEONLYCHAN", "ERR_UNKNOWNCOMMAND"}
  BY DEF Anuncios, SoloSeMuestran, Saludos, Informes, Temas, Errores, Ausencias, Dialogos, Desconocidos
<1>0. u \in Usuarios /\ 0 \in Nat /\ 0 \in Pide(u) /\ Servicio \in Nicks \cup {Servicio}
  BY Cs DEF Pide
<1>1. alServidor[c] # <<>>
  BY DEF ProcesaComando, SinRegistrar, Nick, User, Join, Join0, PartirCanal, Kick, Mode,
      SoloContesta, Privmsg, Quit, ComandoVacio, Recibe
<1>2. /\ m.orden \in Nat /\ m.orden \in Pide(u) /\ m.a \in Argumentos
      /\ m.tipo \in {"NICK", "USER"} => m.a \in NicksDe(u)
      /\ m.tipo = "KICK" => HayKick
  BY <1>1, OrdenDe
<1>3. Registrado(c) => nombre[c] \in Nicks /\ nombre[c][1] = u
  BY NombreDe
<1>R. ASSUME NEW n \in {0, m.orden}, NEW tipo \in Anuncios, Manda(c, Respuesta(tipo, n)),
             tipo \notin {"JOIN", "PART", "PRIVADO", "NAMREPLY", "KICK"}
      PROVE  TipoHilo'
  <2>1. n \in Nat /\ n \in Pide(c[1])
    BY <1>0, <1>2
  <2> HIDE DEF m
  <2>2. Respuesta(tipo, n) \in Seq(PasosDe(c))
    BY <2>1, <1>R, RespuestaTipo
  <2> QED
    BY <1>R, <2>2, MandaTipo
<1> HIDE DEF m
<1>4. CASE SinRegistrar(c)
  BY <1>4, <1>A, <1>R DEF SinRegistrar, m
<1>5. CASE Nick(c)
  <2>1. CASE UNCHANGED hilo
    BY <2>1, HiloQuieto
  <2>2. CASE Manda(c, Respuesta("ERR_NICKNAMEINUSE", m.orden))
    BY <1>A, <1>R, <2>2
  <2>3. CASE Manda(c, <<Aqui(Mensaje("NICK", Servicio, {m.a}, m.orden))>>)
    <3> DEFINE x == Mensaje("NICK", Servicio, {m.a}, m.orden)
    <3>1. x \in MensajesPara(u) /\ x.tipo = "NICK"
      BY <1>0, <1>2, <1>A, MensajeTipo
    <3> HIDE DEF x
    <3>2. Aqui(x) \in PasosDe(c)
      BY <3>1, PasoTipo
    <3>3. <<Aqui(x)>> \in Seq(PasosDe(c))
      BY <3>2
    <3> QED
      BY <2>3, <3>3, MandaTipo DEF x
  <2> QED
    BY <1>5, <2>1, <2>2, <2>3 DEF Nick, m
<1>6. CASE User(c)
  BY <1>6, <1>A, <1>R DEF User, m
<1>7. CASE Join(c)
  <2>1. CASE Manda(c, Respuesta("ERR_USERONCHANNEL", m.orden))
    BY <1>A, <1>R, <2>1
  <2>2. CASE Manda(c, <<Aqui(Mensaje("ERR_BANNEDFROMCHAN", Servicio, {nombre[c]}, m.orden))>>) /\ Registrado(c)
    <3> DEFINE x == Mensaje("ERR_BANNEDFROMCHAN", Servicio, {nombre[c]}, m.orden)
    <3>0. {nombre[c]} \in SUBSET Argumentos
      BY <1>3, <2>2 DEF Argumentos
    <3>1. x \in MensajesPara(u) /\ x.tipo = "ERR_BANNEDFROMCHAN"
      BY <1>0, <1>2, <3>0, <1>A, MensajeTipo
    <3> HIDE DEF x
    <3>2. Aqui(x) \in PasosDe(c)
      BY <3>1, PasoTipo
    <3>3. <<Aqui(x)>> \in Seq(PasosDe(c))
      BY <3>2
    <3> QED
      BY <2>2, <3>3, MandaTipo DEF x
  <2>3. ASSUME NEW eco, eco = Mensaje("JOIN", nombre[c], {}, m.orden), Registrado(c),
               Manda(c, <<AlCanal(eco, {nombre[c]}), Aqui(eco), Names>>)
        PROVE  TipoHilo'
    <3>0. {nombre[c]} \in SUBSET Argumentos /\ {} \in SUBSET Argumentos /\ {} \subseteq Nicks /\ nombre[c] \in Nicks
      BY <1>3, <2>3 DEF Argumentos
    <3>1. eco \in MensajesPara(u) /\ eco.tipo = "JOIN" /\ eco.de = nombre[c]
      BY <1>0, <1>2, <2>3, <3>0, <1>A, MensajeTipo
    <3>2. AlCanal(eco, {nombre[c]}) \in PasosDe(c) /\ Aqui(eco) \in PasosDe(c)
      BY <1>3, <2>3, <3>0, <3>1, PasoTipo
    <3>3. Names \in PasosDe(c)
      <4> DEFINE y == Mensaje("NAMREPLY", Servicio, {}, 0)
      <4>1. y \in MensajesPara(u) /\ y.tipo = "NAMREPLY"
        BY <1>0, <3>0, <1>A, MensajeTipo
      <4> HIDE DEF y
      <4>2. Names = [paso |-> "names", msg |-> y, nicks |-> {}]
        BY DEF Names, y
      <4> QED
        BY <4>1, <4>2 DEF PasosDe
    <3>4. <<AlCanal(eco, {nombre[c]}), Aqui(eco), Names>> \in Seq(PasosDe(c))
      BY <3>2, <3>3
    <3> QED
      BY <2>3, <3>4, MandaTipo
  <2> QED
    BY <1>7, <2>1, <2>2, <2>3 DEF Join, m
<1>8. CASE Join0(c)
  BY <1>8, <1>A, <1>R DEF Join0, m
<1>9. CASE PartirCanal(c)
  <2> DEFINE tipo == IF c \in miembros THEN "PART" ELSE "ERR_NOTONCHANNEL"
             eco == Mensaje(tipo, nombre[c], {}, m.orden)
  <2>0. Manda(c, <<Aqui(eco), AlCanal(eco, {})>>) /\ Registrado(c)
    BY <1>9 DEF PartirCanal, m
  <2>1. nombre[c] \in Nicks /\ {} \in SUBSET Argumentos
    BY <1>3, <2>0
  <2>2. eco \in MensajesPara(u) /\ eco.tipo \in {"PART", "ERR_NOTONCHANNEL"} /\ eco.de = nombre[c]
    BY <1>0, <1>2, <2>1, <1>A, MensajeTipo
  <2> HIDE DEF eco
  <2>3. Aqui(eco) \in PasosDe(c) /\ AlCanal(eco, {}) \in PasosDe(c)
    BY <1>3, <2>0, <2>1, <2>2, PasoTipo
  <2>4. <<Aqui(eco), AlCanal(eco, {})>> \in Seq(PasosDe(c))
    BY <2>3
  <2> QED
    BY <2>0, <2>4, MandaTipo
<1>10. CASE Kick(c)
  <2>1. CASE Manda(c, Respuesta("ERR_NOTONCHANNEL", m.orden)) \/ Manda(c, Respuesta("ERR_CHANOPRIVSNEEDED", m.orden))
    BY <1>A, <1>R, <2>1
  <2>2. ASSUME NEW aviso, aviso = Mensaje("KICK", nombre[c], {m.a}, m.orden), Registrado(c),
               Manda(c, <<AlCanal(aviso, {m.a}), ANicks(aviso, {m.a})>>)
        PROVE  TipoHilo'
    <3>0. {m.a} \in SUBSET Argumentos /\ nombre[c] \in Nicks /\ HayKick
      BY <1>2, <1>3, <1>10, <2>2 DEF Kick, Recibe, m
    <3>1. aviso \in MensajesPara(u) /\ aviso.tipo = "KICK"
      BY <1>0, <1>2, <2>2, <3>0, <1>A, MensajeTipo
    <3>2. AlCanal(aviso, {m.a}) \in PasosDe(c) /\ ANicks(aviso, {m.a}) \in PasosDe(c)
      BY <3>0, <3>1, PasoTipo
    <3>3. <<AlCanal(aviso, {m.a}), ANicks(aviso, {m.a})>> \in Seq(PasosDe(c))
      BY <3>2
    <3> QED
      BY <2>2, <3>3, MandaTipo
  <2> QED
    BY <1>10, <2>1, <2>2 DEF Kick, m
<1>11. CASE Mode(c)
  BY <1>11, <1>A, <1>R DEF Mode, m
<1>12. CASE SoloContesta(c)
  <2>1. PICK tipo \in {"TOPIC", "WHOIS", "AWAY"} : Manda(c, Respuesta(tipo, m.orden))
    BY <1>12 DEF SoloContesta, m
  <2> QED
    BY <1>A, <1>R, <2>1
<1>13. CASE Privmsg(c)
  <2> DEFINE texto == Mensaje(m.tipo, nombre[c], {}, 0)
  <2>0. /\ m.tipo \in {"TEXTO", "PRIVADO", "FSEND", "FCANCEL"} /\ Registrado(c)
        /\ Manda(c, IF m.tipo = "TEXTO" THEN <<AlCanal(texto, {nombre[c]})>> ELSE <<ANicks(texto, {m.a})>>)
    BY <1>13 DEF Privmsg, Recibe, m
  <2>1. nombre[c] \in Nicks /\ {} \in SUBSET Argumentos /\ {m.a} \in SUBSET Argumentos
        /\ {nombre[c]} \in SUBSET Argumentos
    BY <1>2, <1>3, <2>0 DEF Argumentos
  <2>2. texto \in MensajesPara(u) /\ texto.tipo = m.tipo
    BY <1>0, <2>0, <2>1, <1>A, MensajeTipo
  <2> HIDE DEF texto
  <2>3. AlCanal(texto, {nombre[c]}) \in PasosDe(c) /\ ANicks(texto, {m.a}) \in PasosDe(c)
    BY <2>0, <2>1, <2>2, PasoTipo
  <2>4. <<AlCanal(texto, {nombre[c]})>> \in Seq(PasosDe(c)) /\ <<ANicks(texto, {m.a})>> \in Seq(PasosDe(c))
    BY <2>3
  <2>5. CASE m.tipo = "TEXTO"
    BY <2>0, <2>4, <2>5, MandaTipo
  <2>6. CASE m.tipo # "TEXTO"
    BY <2>0, <2>4, <2>6, MandaTipo
  <2> QED
    BY <2>5, <2>6
<1>14. CASE Quit(c)
  <2>1. Respuesta("NOTICE", 0) \in Seq(PasosDe(c))
    BY <1>A, <1>0, RespuestaTipo
  <2>2. Fin \in PasosDe(c)
    <3> DEFINE y == Mensaje("QUIT", Servicio, {}, 0)
    <3>1. y \in MensajesPara(u) /\ y.tipo = "QUIT"
      BY <1>0, <1>A, MensajeTipo
    <3> HIDE DEF y
    <3>2. Fin = [paso |-> "fin", msg |-> y, nicks |-> {}]
      BY DEF Fin, y
    <3> QED
      BY <3>1, <3>2 DEF PasosDe
  <2>3. Append(Respuesta("NOTICE", 0), Fin) \in Seq(PasosDe(c))
    BY <2>1, <2>2, AppendProperties, Zenon
  <2> QED
    BY <1>14, <2>3, MandaTipo DEF Quit
<1>15. CASE ComandoVacio(c)
  BY <1>15, <1>A, <1>R DEF ComandoVacio
<1> QED
  BY <1>4, <1>5, <1>6, <1>7, <1>8, <1>9, <1>10, <1>11, <1>12, <1>13, <1>14, <1>15 DEF ProcesaComando

(* A send is put before those that are left.                               *)
LEMMA DespuesTipo ==
    ASSUME TipoHilo, Crecen, NEW c \in Conexiones, NEW s \in Seq(PasosDe(c)), hilo[c] # <<>>, Despues(c, s)
    PROVE  TipoHilo'
<1>1. Tail(hilo[c]) \in Seq(PasosDe(c))
  BY CabezaCola DEF TipoHilo
<1>2. s \o Tail(hilo[c]) \in Seq(PasosDe(c))
  BY <1>1, ConcatProperties, Zenon
<1>3. Manda(c, s \o Tail(hilo[c]))
  BY DEF Despues
<1> QED
  BY <1>2, <1>3, MandaTipo

(* The send that a thread is about to make.                                *)
LEMMA PasoDe ==
    ASSUME TipoHilo, NEW c \in Conexiones, hilo[c] # <<>>
    PROVE  LET h == Head(hilo[c]) IN
           /\ h \in PasosDe(c)
           /\ h.msg \in MensajesPara(c[1]) /\ h.nicks \in SUBSET Argumentos
           /\ h.msg.tipo = "ERR_BANNEDFROMCHAN" => h.paso = "aqui"
           /\ h.msg.tipo \in {"JOIN", "PART"} => h.msg.de[1] = c[1]
<1>1. Head(hilo[c]) \in PasosDe(c)
  BY CabezaCola DEF TipoHilo
<1> QED
  BY <1>1 DEF PasosDe

(* Sends, and looking up whom to send to, leave messages for the same      *)
(* client.                                                                 *)
LEMMA EnviosTipo ==
    ASSUME TipoBase, TipoHilo, Crecen, NEW c \in Conexiones,
           ListNicks(c) \/ EnviarANick(c) \/ Enviar(c) \/ ListarNames(c) \/ CerrarConexion(c)
    PROVE  TipoHilo'
<1> DEFINE h == Head(hilo[c])
<1>0. /\ c[1] \in Usuarios /\ 0 \in Nat /\ 0 \in Pide(c[1])
      /\ "ERR_NOSUCHNICK" \in Anuncios /\ "NAMREPLY" \in Anuncios
      /\ <<>> \in Seq(PasosDe(c))
      /\ Nombres(miembros) \subseteq Nicks /\ Nicks \subseteq Argumentos
  BY Cs, NombreDe DEF Pide, Anuncios, SoloSeMuestran, Errores, Argumentos
<1>1. Respuesta("ERR_NOSUCHNICK", 0) \in Seq(PasosDe(c))
  BY <1>0, RespuestaTipo
<1>2. hilo[c] # <<>> =>
        /\ h.msg \in MensajesPara(c[1]) /\ h.nicks \in SUBSET Argumentos
        /\ h.msg.tipo = "ERR_BANNEDFROMCHAN" => h.paso = "aqui"
        /\ h.msg.tipo \in {"JOIN", "PART"} => h.msg.de[1] = c[1]
  BY PasoDe
<1>3. CASE ListNicks(c)
  <2> DEFINE nicks == Nombres(miembros) \ h.nicks
  <2>1. hilo[c] # <<>> /\ h.paso = "canal"
    BY <1>3 DEF ListNicks, Paso
  <2>2. nicks \in SUBSET Argumentos
    BY <1>0
  <2>3. \/ Despues(c, Respuesta("ERR_NOSUCHNICK", 0))
        \/ Despues(c, <<>>)
        \/ Despues(c, <<ANicks(h.msg, nicks)>>)
    BY <1>3 DEF ListNicks
  <2> HIDE DEF h, nicks
  <2>4. ANicks(h.msg, nicks) \in PasosDe(c)
    BY <1>2, <2>1, <2>2, PasoTipo
  <2>5. <<ANicks(h.msg, nicks)>> \in Seq(PasosDe(c))
    BY <2>4
  <2> QED
    BY <1>0, <1>1, <2>1, <2>3, <2>5, DespuesTipo
<1>4. CASE EnviarANick(c)
  <2>1. hilo[c] # <<>> /\ h.paso = "nicks"
    BY <1>4 DEF EnviarANick, Paso
  <2>2. PICK quedan : /\ quedan = <<>> \/ \E ns \in SUBSET h.nicks : quedan = <<ANicks(h.msg, ns)>>
                      /\ \/ Despues(c, quedan)
                         \/ Despues(c, Respuesta("ERR_NOSUCHNICK", 0) \o quedan)
    <3>1. PICK n \in h.nicks :
            LET quedan == IF h.nicks = {n} THEN <<>> ELSE <<ANicks(h.msg, h.nicks \ {n})>> IN
            \/ Despues(c, quedan)
            \/ Despues(c, Respuesta("ERR_NOSUCHNICK", 0) \o quedan)
      BY <1>4 DEF EnviarANick
    <3>2. h.nicks \ {n} \in SUBSET h.nicks
      OBVIOUS
    <3>3. CASE h.nicks = {n}
      BY <3>1, <3>3
    <3>4. CASE h.nicks # {n}
      BY <3>1, <3>2, <3>4
    <3> QED
      BY <3>3, <3>4
  <2> HIDE DEF h
  <2>3. quedan \in Seq(PasosDe(c))
    <3>1. CASE quedan = <<>>
      BY <1>0, <3>1
    <3>2. ASSUME NEW ns \in SUBSET h.nicks, quedan = <<ANicks(h.msg, ns)>>
          PROVE  quedan \in Seq(PasosDe(c))
      <4>1. ANicks(h.msg, ns) \in PasosDe(c)
        BY <1>2, <2>1, PasoTipo
      <4> QED
        BY <3>2, <4>1
    <3> QED
      BY <2>2, <3>1, <3>2
  <2>4. Respuesta("ERR_NOSUCHNICK", 0) \o quedan \in Seq(PasosDe(c))
    BY <1>1, <2>3, ConcatProperties, Zenon
  <2> QED
    BY <2>1, <2>2, <2>3, <2>4, DespuesTipo
<1>5. CASE Enviar(c)
  BY <1>0, <1>5, DespuesTipo DEF Enviar, Paso
<1>6. CASE ListarNames(c)
  <2> DEFINE m == [h.msg EXCEPT !.nicks = Nombres(miembros)]
  <2>1. hilo[c] # <<>> /\ h.paso = "names" /\ Despues(c, <<Aqui(m)>>)
    BY <1>6 DEF ListarNames, Paso
  <2>2. m \in MensajesPara(c[1]) /\ m.tipo = h.msg.tipo /\ m.de = h.msg.de
    BY <1>0, <1>2, <2>1 DEF MensajesPara, MensajesIRC
  <2> HIDE DEF h, m
  <2>3. Aqui(m) \in PasosDe(c)
    BY <1>2, <2>1, <2>2, PasoTipo DEF Aqui, PasosDe
  <2>4. <<Aqui(m)>> \in Seq(PasosDe(c))
    BY <2>3
  <2> QED
    BY <2>1, <2>4, DespuesTipo
<1>7. CASE CerrarConexion(c)
  BY <1>0, <1>7, MandaTipo DEF CerrarConexion
<1> QED
  BY <1>3, <1>4, <1>5, <1>6, <1>7

(* Every step keeps the sends that are left well typed.                    *)
LEMMA HilosTipo ==
    ASSUME EnvioTypeOK, EnvioTypeOK', TipoPreguntas, TipoOrdenes, TipoBase, TipoHilo, [Next]_vars
    PROVE  TipoHilo'
<1>0. Crecen
  BY TodoSirve
<1>1. ASSUME NEW u \in Usuarios, Interfaz(u)
      PROVE  UNCHANGED hilo
  BY <1>1, OtrasOrdenes DEF ajenoOrden, servidor, Connect, TecleaSinTabla
<1>2. ASSUME NEW u \in Usuarios, Envio(u)
      PROVE  UNCHANGED hilo
  BY <1>2 DEF Envio, CierraSocket, Ofrece, EnviaResto, servidor
<1>3. ASSUME NEW c \in Conexiones, RecvPthread(c)
      PROVE  UNCHANGED hilo
  BY <1>3 DEF RecvPthread, RecvInicio, RecvTabla, RecvEntra, RecvMensajes, RecvVuelve, Contesta, Maneja, sinTabla, servidor
<1>4. ASSUME NEW c \in Conexiones, Hilo(c)
      PROVE  TipoHilo'
  BY <1>0, <1>4, ProcesaTipo, EnviosTipo DEF Hilo
<1>5. CASE UNCHANGED vars
  BY <1>0, <1>5, HiloQuieto DEF vars, servidor
<1> QED
  BY <1>0, <1>1, <1>2, <1>3, <1>4, <1>5, HiloQuieto DEF Next
-----------------------------------------------------------------------------
(* The data base of the server.                                            *)
baseServidor == <<cerrada, temporal, nombre, delCanal>>

(* The data base does not change.                                          *)
LEMMA BaseQuieta ==
    ASSUME TipoBase, UNCHANGED baseServidor
    PROVE  TipoBase'
BY DEF TipoBase, baseServidor, delCanal, Registrado

(* Operators are members and members are registered, whatever a thread     *)
(* does to the data base.                                                  *)
LEMMA BaseTipo ==
    ASSUME TipoOrdenes, TipoBase, NEW c \in Conexiones, Hilo(c)
    PROVE  TipoBase'
<1> DEFINE m == Head(alServidor[c])
<1>0. /\ nombre \in [Conexiones -> Nicks \cup {Nadie}]
      /\ \A d \in Conexiones : nombre[d] \in NicksDe(d[1]) \cup {Nadie}
      /\ operadores \subseteq miembros
      /\ miembros \subseteq {d \in Conexiones : Registrado(d)}
      /\ cerrada \subseteq Conexiones /\ temporal \subseteq Conexiones
      /\ \A d \in temporal : ~Registrado(d)
      /\ cerrado \in BOOLEAN
      /\ c[1] \in Usuarios
  BY Cs DEF TipoBase
<1>1. ASSUME NEW x \in NicksDe(c[1]) \cup {Nadie}, nombre' = [nombre EXCEPT ![c] = x]
      PROVE  /\ nombre' \in [Conexiones -> Nicks \cup {Nadie}]
             /\ \A d \in Conexiones : nombre'[d] \in NicksDe(d[1]) \cup {Nadie}
             /\ \A d \in Conexiones \ {c} : nombre'[d] = nombre[d]
             /\ nombre'[c] = x
  BY <1>0, <1>1 DEF NicksDe, Nicks
<1>2. \A x \in NicksDe(c[1]) : x # Nadie
  BY DEF NicksDe, Nadie
<1>3. ASSUME UNCHANGED <<nombre, temporal, cerrada>>,
             operadores' \subseteq miembros', miembros' \subseteq miembros \cup {c}, cerrado' \in BOOLEAN,
             c \in miembros' => Registrado(c)
      PROVE  TipoBase'
  BY <1>0, <1>3 DEF TipoBase, Registrado
<1>4. CASE SinRegistrar(c) \/ Join0(c) \/ SoloContesta(c) \/ Privmsg(c) \/ Quit(c) \/ ComandoVacio(c)
  BY <1>4, BaseQuieta DEF SinRegistrar, Join0, SoloContesta, Privmsg, Quit, ComandoVacio, baseServidor
<1>5. CASE ListNicks(c) \/ EnviarANick(c) \/ Enviar(c) \/ ListarNames(c)
  BY <1>5, BaseQuieta DEF ListNicks, EnviarANick, Enviar, ListarNames, sinEnvios, baseServidor
<1>6. ASSUME Recibe(c, "NICK") \/ Recibe(c, "USER")
      PROVE  m.a \in NicksDe(c[1])
  BY <1>6, OrdenDe DEF Recibe
<1> HIDE DEF m
<1>7. CASE Nick(c)
  <2>1. m.a \in NicksDe(c[1]) /\ UNCHANGED <<cerrada, delCanal>>
    BY <1>6, <1>7 DEF Nick
  <2>2. CASE ~Registrado(c) /\ temporal' = temporal \cup {c} /\ UNCHANGED nombre
    BY <1>0, <2>1, <2>2 DEF TipoBase, Registrado, delCanal
  <2>3. CASE nombre' = [nombre EXCEPT ![c] = m.a] /\ UNCHANGED temporal /\ Registrado(c)
    <3>1. \A d \in Conexiones : Registrado(d)' <=> Registrado(d)
      BY <1>1, <1>2, <2>1, <2>3 DEF Registrado
    <3> QED
      BY <1>0, <1>1, <2>1, <2>3, <3>1 DEF TipoBase, delCanal
  <2>4. CASE UNCHANGED <<temporal, nombre>>
    BY <2>1, <2>4, BaseQuieta DEF baseServidor
  <2> QED
    BY <1>7, <2>2, <2>3, <2>4 DEF Nick, m
<1>8. CASE User(c)
  <2>1. m.a \in NicksDe(c[1]) /\ UNCHANGED <<cerrada, delCanal>>
    BY <1>6, <1>8 DEF User
  <2>2. CASE nombre' = [nombre EXCEPT ![c] = m.a] /\ temporal' = temporal \ {c}
    <3>1. Registrado(c)' /\ \A d \in Conexiones \ {c} : Registrado(d)' <=> Registrado(d)
      BY <1>1, <1>2, <2>1, <2>2 DEF Registrado
    <3> QED
      BY <1>0, <1>1, <2>1, <2>2, <3>1 DEF TipoBase, delCanal
  <2>3. CASE UNCHANGED <<temporal, nombre>>
    BY <2>1, <2>3, BaseQuieta DEF baseServidor
  <2> QED
    BY <1>8, <2>2, <2>3 DEF User, m
<1>9. CASE Join(c)
  BY <1>0, <1>3, <1>9 DEF Join
<1>10. ASSUME NEW v, Sale(v), UNCHANGED <<nombre, temporal, cerrada>>
       PROVE  TipoBase'
  BY <1>0, <1>3, <1>10 DEF Sale
<1>11. CASE PartirCanal(c)
  BY <1>10, <1>11, BaseQuieta DEF PartirCanal, baseServidor
<1>12. CASE Kick(c)
  BY <1>10, <1>12, BaseQuieta DEF Kick, baseServidor
<1>13. CASE Mode(c)
  BY <1>0, <1>3, <1>13 DEF Mode
<1>14. CASE CerrarConexion(c)
  <2>1. /\ nombre' = [nombre EXCEPT ![c] = Nadie] /\ temporal' = temporal \ {c}
        /\ cerrada' = cerrada \cup {c} /\ Sale(c)
    BY <1>14 DEF CerrarConexion
  <2>2. \A d \in Conexiones \ {c} : Registrado(d)' <=> Registrado(d)
    BY <1>1, <2>1 DEF Registrado
  <2>3. miembros' = miembros \ {c} /\ operadores' = operadores \ {c} /\ cerrado' \in BOOLEAN
    BY <1>0, <2>1 DEF Sale
  <2> QED
    BY <1>0, <1>1, <2>1, <2>2, <2>3 DEF TipoBase
<1> QED
  BY <1>4, <1>5, <1>7, <1>8, <1>9, <1>11, <1>12, <1>13, <1>14 DEF Hilo, ProcesaComando

(* The same of every step: the clients do not touch the data base.         *)
LEMMA BasesTipo ==
    ASSUME TipoOrdenes, TipoBase, [Next]_vars
    PROVE  TipoBase'
<1>1. ASSUME NEW u \in Usuarios, Interfaz(u)
      PROVE  UNCHANGED baseServidor
  BY <1>1, OtrasOrdenes DEF ajenoOrden, servidor, baseServidor, Connect, TecleaSinTabla
<1>2. ASSUME NEW u \in Usuarios, Envio(u)
      PROVE  UNCHANGED baseServidor
  BY <1>2 DEF Envio, CierraSocket, Ofrece, EnviaResto, servidor, baseServidor
<1>3. ASSUME NEW c \in Conexiones, RecvPthread(c)
      PROVE  UNCHANGED baseServidor
  BY <1>3 DEF RecvPthread, RecvInicio, RecvTabla, RecvEntra, RecvMensajes, RecvVuelve, Contesta, Maneja, sinTabla,
      servidor, baseServidor
<1>4. ASSUME NEW c \in Conexiones, Hilo(c)
      PROVE  TipoBase'
  BY <1>4, BaseTipo
<1>5. CASE UNCHANGED vars
  BY <1>5, BaseQuieta DEF vars, servidor, baseServidor
<1> QED
  BY <1>1, <1>2, <1>3, <1>4, <1>5, BaseQuieta DEF Next

-----------------------------------------------------------------------------
(* What arrives at the clients, and who reads it.                          *)
recibido == <<receptor, lee, buffer, tabla, alCliente>>

(* A queue of messages keeps its type as orders are given.                 *)
LEMMA ColaCrece ==
    ASSUME Crecen, NEW c \in Conexiones, NEW s \in Seq(MensajesPara(c[1]))
    PROVE  s \in Seq(MensajesPara(c[1])')
<1>1. MensajesPara(c[1]) \subseteq MensajesPara(c[1])'
  BY Cs DEF Crecen
<1> QED
  BY <1>1, SeqMonotonic

(* An order that the provers need pointed out.                             *)
LEMMA MenorIgual ==
    ASSUME NEW i \in Nat, NEW j \in Nat, NEW k \in Nat, i <= j, j <= k
    PROVE  i <= k
OBVIOUS

(* A step after which each queue is well typed.                            *)
LEMMA RecepcionMarco ==
    ASSUME TipoRecepcion, Crecen,
           \A c \in Conexiones : conexiones[c[1]] \in Nat /\ conexiones'[c[1]] \in Nat
                                 /\ conexiones[c[1]] <= conexiones'[c[1]],
           receptor' \in [Conexiones -> LugaresRecv], tabla' \in [Usuarios -> BOOLEAN],
           lee' \in [Conexiones -> Conexiones], DOMAIN buffer' = Conexiones, DOMAIN alCliente' = Conexiones,
           \A c \in Conexiones :
              /\ lee'[c][1] = c[1]
              /\ buffer'[c] \in Seq(MensajesPara(c[1]))
              /\ alCliente'[c] \in Seq(MensajesPara(c[1]))
              /\ receptor'[c] # "no" => receptor[c] # "no" \/ c[2] <= conexiones'[c[1]]
              /\ receptor'[c] = "maneja" => buffer'[c] # <<>>
    PROVE  TipoRecepcion'
<1>1. \A c \in Conexiones : /\ buffer'[c] \in Seq(MensajesPara(c[1])')
                            /\ alCliente'[c] \in Seq(MensajesPara(c[1])')
  BY ColaCrece
<1>2. ASSUME NEW c \in Conexiones, receptor'[c] # "no"
      PROVE  c[2] <= conexiones'[c[1]]
  <2>1. CASE receptor[c] # "no"
    <3>0. c[2] \in Nat
      BY Cs
    <3>1. c[2] <= conexiones[c[1]]
      BY <2>1 DEF TipoRecepcion
    <3>2. conexiones[c[1]] \in Nat /\ conexiones'[c[1]] \in Nat /\ conexiones[c[1]] <= conexiones'[c[1]]
      BY Zenon
    <3> QED
      BY <3>0, <3>1, <3>2, MenorIgual, Zenon
  <2> QED
    BY <1>2, <2>1
<1> QED
  BY <1>1, <1>2 DEF TipoRecepcion

(* A thread of the server appends at most one message to one queue.        *)
LEMMA HiloRecibido ==
    ASSUME TipoRecepcion, TipoHilo, NEW c \in Conexiones, Hilo(c)
    PROVE  /\ UNCHANGED <<receptor, lee, buffer, tabla>>
           /\ \/ UNCHANGED alCliente
              \/ \E d \in Conexiones : \E m \in MensajesPara(d[1]) :
                    alCliente' = [alCliente EXCEPT ![d] = Append(@, m)]
<1>1. CASE ProcesaComando(c) \/ ListNicks(c) \/ ListarNames(c) \/ CerrarConexion(c)
  BY <1>1 DEF ProcesaComando, SinRegistrar, Nick, User, Join, Join0, PartirCanal, Kick, Mode,
      SoloContesta, Privmsg, Quit, ComandoVacio, ListNicks, ListarNames, CerrarConexion,
      sinEnvios, sinServidor, recepcion
<1>2. CASE EnviarANick(c)
  <2> DEFINE h == Head(hilo[c])
  <2>0. UNCHANGED <<receptor, lee, buffer, tabla>> /\ hilo[c] # <<>>
    BY <1>2 DEF EnviarANick, sinEnvios, sinServidor, recepcion, Paso
  <2>1. CASE UNCHANGED alCliente
    BY <2>0, <2>1
  <2>2. ASSUME NEW n, NEW d \in Vivos(n),
               alCliente' = [alCliente EXCEPT ![d] = Append(@, IF d = c THEN h.msg ELSE [h.msg EXCEPT !.orden = 0])]
        PROVE  \E e \in Conexiones : \E m \in MensajesPara(e[1]) :
                    alCliente' = [alCliente EXCEPT ![e] = Append(@, m)]
    <3> DEFINE x == IF d = c THEN h.msg ELSE [h.msg EXCEPT !.orden = 0]
    <3>0. d \in Conexiones
      BY DEF Vivos
    <3>1. h.msg \in MensajesPara(c[1])
      BY <2>0, PasoDe
    <3>2. [h.msg EXCEPT !.orden = 0] \in MensajesPara(d[1])
      BY <3>1 DEF MensajesPara, MensajesIRC, Pide
    <3>3. x \in MensajesPara(d[1])
      BY <3>1, <3>2
    <3>4. alCliente' = [alCliente EXCEPT ![d] = Append(@, x)]
      BY <2>2
    <3> HIDE DEF x
    <3> QED
      BY <3>0, <3>3, <3>4
  <2>3. UNCHANGED alCliente \/ \E n : \E d \in Vivos(n) :
               alCliente' = [alCliente EXCEPT ![d] = Append(@, IF d = c THEN h.msg ELSE [h.msg EXCEPT !.orden = 0])]
    BY <1>2 DEF EnviarANick
  <2> QED
    BY <2>0, <2>1, <2>2, <2>3
<1>3. CASE Enviar(c)
  <2>1. hilo[c] # <<>> /\ UNCHANGED <<receptor, lee, buffer, tabla>>
        /\ alCliente' = [alCliente EXCEPT ![c] = Append(@, Head(hilo[c]).msg)]
    BY <1>3 DEF Enviar, sinEnvios, sinServidor, recepcion, Paso
  <2>2. Head(hilo[c]).msg \in MensajesPara(c[1])
    BY <2>1, PasoDe
  <2> QED
    BY <2>1, <2>2
<1> QED
  BY <1>1, <1>2, <1>3 DEF Hilo

(* Every step keeps recv_pthread and what it reads well typed: what it     *)
(* handles has arrived.                                                    *)
LEMMA RecepcionTipo ==
    ASSUME EnvioTypeOK, EnvioTypeOK', TipoInterfaz, TipoPreguntas, TipoRecepcion, TipoHilo, [Next]_vars
    PROVE  TipoRecepcion'
<1>0. /\ Crecen
      /\ \A c \in Conexiones : conexiones[c[1]] \in Nat /\ conexiones'[c[1]] \in Nat
                                 /\ conexiones[c[1]] <= conexiones'[c[1]]
  <2>1. \A c \in Conexiones : conexiones[c[1]] \in Nat /\ conexiones'[c[1]] \in Nat
    BY Cs DEF EnvioTypeOK
  <2>2. \A c \in Conexiones : conexiones[c[1]] <= conexiones'[c[1]]
    BY TodoCrece, Cs
  <2> QED
    BY <2>1, <2>2, TodoSirve
<1>T. /\ receptor \in [Conexiones -> LugaresRecv] /\ tabla \in [Usuarios -> BOOLEAN]
      /\ lee \in [Conexiones -> Conexiones] /\ DOMAIN buffer = Conexiones /\ DOMAIN alCliente = Conexiones
      /\ \A c \in Conexiones :
              /\ lee[c][1] = c[1]
              /\ buffer[c] \in Seq(MensajesPara(c[1]))
              /\ alCliente[c] \in Seq(MensajesPara(c[1]))
              /\ receptor[c] = "maneja" => buffer[c] # <<>>
  BY DEF TipoRecepcion
<1>Q. ASSUME UNCHANGED recibido
      PROVE  TipoRecepcion'
  BY <1>0, <1>Q, <1>T, RecepcionMarco DEF recibido
<1>1. ASSUME NEW u \in Usuarios, Interfaz(u)
      PROVE  TipoRecepcion'
  <2>1. CASE Connect(u)
    <3> DEFINE c == <<u, conexiones[u] + 1>>
    <3>1. c \in Conexiones /\ UNCHANGED <<lee, buffer, tabla, alCliente>>
      BY <2>1 DEF Connect
    <3>2. CASE UNCHANGED receptor
      BY <1>Q, <3>1, <3>2 DEF recibido
    <3>3. CASE receptor' = [receptor EXCEPT ![c] = "inicio"] /\ conexiones' = [conexiones EXCEPT ![u] = @ + 1]
      <4>1. \A d \in Conexiones : receptor'[d] = IF d = c THEN "inicio" ELSE receptor[d]
        BY <1>T, <3>3
      <4>2. receptor' \in [Conexiones -> LugaresRecv]
        BY <1>T, <3>3 DEF LugaresRecv
      <4>3. c[2] <= conexiones'[c[1]]
        BY <3>3 DEF EnvioTypeOK
      <4> HIDE DEF c
      <4>4. \A d \in Conexiones :
              /\ lee'[d][1] = d[1]
              /\ buffer'[d] \in Seq(MensajesPara(d[1]))
              /\ alCliente'[d] \in Seq(MensajesPara(d[1]))
        BY <1>T, <3>1
      <4>5. \A d \in Conexiones :
              /\ receptor'[d] # "no" => receptor[d] # "no" \/ d[2] <= conexiones'[d[1]]
              /\ receptor'[d] = "maneja" => buffer'[d] # <<>>
        BY <1>T, <3>1, <4>1, <4>3
      <4> QED
        BY <1>0, <1>T, <3>1, <4>2, <4>4, <4>5, RecepcionMarco
    <3> QED
      BY <2>1, <3>2, <3>3 DEF Connect
  <2>2. CASE ~Connect(u)
    BY <1>Q, <1>1, <2>2, OtrasOrdenes DEF TecleaSinTabla, ajenoOrden, recepcion, recibido
  <2> QED
    BY <2>1, <2>2
<1>2. ASSUME NEW u \in Usuarios, Envio(u)
      PROVE  TipoRecepcion'
  BY <1>Q, <1>2 DEF Envio, CierraSocket, Ofrece, EnviaResto, recepcion, recibido
<1>3. ASSUME NEW c \in Conexiones, RecvPthread(c)
      PROVE  TipoRecepcion'
  <2>0. c[1] \in Usuarios
    BY Cs
  <2>1. ASSUME NEW lugar \in LugaresRecv, A(c, lugar), receptor[c] # "no", UNCHANGED alCliente,
               lugar = "maneja" => buffer'[c] # <<>>,
               tabla' \in [Usuarios -> BOOLEAN],
               \/ UNCHANGED lee
               \/ \E s : <<c[1], s>> \in Conexiones /\ lee' = [lee EXCEPT ![c] = <<c[1], s>>],
               \/ UNCHANGED buffer
               \/ \E s \in Seq(MensajesPara(c[1])) : buffer' = [buffer EXCEPT ![c] = s]
        PROVE  TipoRecepcion'
    <3>1. receptor' \in [Conexiones -> LugaresRecv]
      BY <1>T, <2>1 DEF A
    <3>2. \A d \in Conexiones : receptor'[d] = IF d = c THEN lugar ELSE receptor[d]
      BY <1>T, <2>1 DEF A
    <3>3. lee' \in [Conexiones -> Conexiones] /\ \A d \in Conexiones : lee'[d][1] = d[1]
      <4>1. CASE UNCHANGED lee
        BY <1>T, <4>1
      <4>2. ASSUME NEW s, <<c[1], s>> \in Conexiones, lee' = [lee EXCEPT ![c] = <<c[1], s>>]
            PROVE  lee' \in [Conexiones -> Conexiones] /\ \A d \in Conexiones : lee'[d][1] = d[1]
        <5> DEFINE e == <<c[1], s>>
        <5>1. e \in Conexiones /\ e[1] = c[1] /\ lee' = [lee EXCEPT ![c] = e]
          BY <4>2
        <5> HIDE DEF e
        <5>2. lee' \in [Conexiones -> Conexiones]
          BY <1>T, <5>1
        <5>3. \A d \in Conexiones : lee'[d] = IF d = c THEN e ELSE lee[d]
          BY <1>T, <5>1
        <5> QED
          BY <1>T, <5>1, <5>2, <5>3
      <4> QED
        BY <2>1, <4>1, <4>2
    <3>4. DOMAIN buffer' = Conexiones
      BY <1>T, <2>1
    <3>5. \A d \in Conexiones : /\ buffer'[d] \in Seq(MensajesPara(d[1]))
                               /\ d # c => buffer'[d] = buffer[d]
      BY <1>T, <2>1
    <3>6. \A d \in Conexiones : receptor'[d] = "maneja" => buffer'[d] # <<>>
      BY <1>T, <2>1, <3>2, <3>5
    <3>7. \A d \in Conexiones : receptor'[d] # "no" => receptor[d] # "no"
      BY <2>1, <3>2
    <3> QED
      BY <1>0, <1>T, <2>1, <3>1, <3>3, <3>4, <3>5, <3>6, <3>7, RecepcionMarco
  <2>2. CASE RecvInicio(c)
    BY <1>T, <2>1, <2>2 DEF RecvInicio, sinTabla, LugaresRecv
  <2>3. CASE RecvTabla(c)
    BY <1>T, <2>1, <2>3 DEF RecvTabla, sinTabla, LugaresRecv
  <2>4. CASE RecvEntra(c)
    <3>1. socket[c[1]] # 0 => <<c[1], socket[c[1]]>> \in Conexiones
      BY <2>0, SocketDe
    <3> QED
      BY <1>T, <2>1, <2>4, <3>1 DEF RecvEntra, LugaresRecv
  <2>5. CASE RecvMensajes(c)
    <3>1. lee[c] \in Conexiones /\ lee[c][1] = c[1] /\ UNCHANGED <<lee, tabla>>
      BY <1>T, <2>5 DEF RecvMensajes
    <3>2. alCliente[lee[c]] \in Seq(MensajesPara(c[1]))
      BY <1>T, <3>1
    <3>3. CASE /\ alCliente[lee[c]] # <<>>
               /\ buffer' = [buffer EXCEPT ![c] = alCliente[lee[c]]]
               /\ alCliente' = [alCliente EXCEPT ![lee[c]] = <<>>]
               /\ A(c, "maneja")
      <4>0. <<>> \in Seq(MensajesPara(c[1]))
        OBVIOUS
      <4>1. DOMAIN buffer' = Conexiones /\ DOMAIN alCliente' = Conexiones
        BY <1>T, <3>3
      <4>2. \A d \in Conexiones : alCliente'[d] \in Seq(MensajesPara(d[1]))
        BY <1>T, <3>1, <3>3, <4>0
      <4>3. \A d \in Conexiones : buffer'[d] = IF d = c THEN alCliente[lee[c]] ELSE buffer[d]
        BY <1>T, <3>3
      <4>4. \A d \in Conexiones : receptor'[d] = IF d = c THEN "maneja" ELSE receptor[d]
        BY <1>T, <3>3 DEF A
      <4>5. receptor' \in [Conexiones -> LugaresRecv] /\ receptor[c] = "recv"
        BY <1>T, <2>5, <3>3 DEF A, LugaresRecv, RecvMensajes
      <4>6. \A d \in Conexiones :
              /\ lee'[d][1] = d[1]
              /\ buffer'[d] \in Seq(MensajesPara(d[1]))
              /\ receptor'[d] # "no" => receptor[d] # "no"
              /\ receptor'[d] = "maneja" => buffer'[d] # <<>>
        BY <1>T, <3>1, <3>2, <3>3, <4>3, <4>4, <4>5
      <4> QED
        BY <1>0, <1>T, <3>1, <4>1, <4>2, <4>5, <4>6, RecepcionMarco
    <3>4. CASE A(c, "fin") /\ UNCHANGED <<buffer, alCliente>>
      BY <1>T, <2>1, <2>5, <3>1, <3>4 DEF RecvMensajes, LugaresRecv
    <3> QED
      BY <2>5, <3>3, <3>4 DEF RecvMensajes
  <2>6. CASE Maneja(c)
    <3> DEFINE s == Tail(buffer[c])
               lugar == IF Head(buffer[c]).tipo = "FSEND" /\ tabla[c[1]] THEN "contesta"
                        ELSE IF Len(buffer[c]) = 1 THEN "entra" ELSE "maneja"
    <3>1. /\ receptor[c] = "maneja" /\ UNCHANGED <<lee, tabla, alCliente>>
          /\ buffer' = [buffer EXCEPT ![c] = s]
          /\ A(c, lugar)
      BY <2>6 DEF Maneja
    <3>2. s \in Seq(MensajesPara(c[1])) /\ buffer[c] \in Seq(MensajesPara(c[1])) /\ buffer[c] # <<>>
      BY <3>1, ManejaCabeza
    <3>3. Len(buffer[c]) # 1 => s # <<>>
      <4>1. Len(s) = Len(buffer[c]) - 1 /\ Len(buffer[c]) \in Nat
        BY <3>2, HeadTailProperties, LenProperties
      <4>2. s = <<>> => Len(s) = 0
        BY <3>2, EmptySeq
      <4> QED
        BY <4>1, <4>2
    <3>4. lugar \in LugaresRecv /\ (lugar = "maneja" => s # <<>>)
      BY <3>3 DEF LugaresRecv
    <3>5. buffer'[c] = s
      BY <1>T, <3>1
    <3> HIDE DEF s, lugar
    <3> QED
      BY <1>T, <2>1, <3>1, <3>2, <3>4, <3>5
  <2>7. CASE Contesta(c)
    BY <1>T, <2>1, <2>7 DEF Contesta, LugaresRecv
  <2>8. CASE RecvVuelve(c)
    <3> DEFINE lugar == IF buffer[c] = <<>> THEN "entra" ELSE "maneja"
    <3>1. /\ receptor[c] = "contestado" /\ A(c, lugar) /\ UNCHANGED <<lee, buffer, tabla, alCliente>>
      BY <2>8 DEF RecvVuelve
    <3>2. lugar \in LugaresRecv /\ (lugar = "maneja" => buffer[c] # <<>>)
      BY DEF LugaresRecv
    <3> HIDE DEF lugar
    <3> QED
      BY <1>T, <2>1, <3>1, <3>2
  <2> QED
    BY <1>3, <2>2, <2>3, <2>4, <2>5, <2>6, <2>7, <2>8 DEF RecvPthread
<1>4. ASSUME NEW c \in Conexiones, Hilo(c)
      PROVE  TipoRecepcion'
  <2>1. UNCHANGED <<receptor, lee, buffer, tabla>>
    BY <1>4, HiloRecibido
  <2>2. CASE UNCHANGED alCliente
    BY <1>Q, <2>1, <2>2 DEF recibido
  <2>3. ASSUME NEW d \in Conexiones, NEW m \in MensajesPara(d[1]),
               alCliente' = [alCliente EXCEPT ![d] = Append(@, m)]
        PROVE  TipoRecepcion'
    <3>1. Append(alCliente[d], m) \in Seq(MensajesPara(d[1]))
      BY <1>T, <2>3, AppendProperties, Zenon
    <3>2. DOMAIN alCliente' = Conexiones
          /\ \A e \in Conexiones : alCliente'[e] = IF e = d THEN Append(alCliente[d], m) ELSE alCliente[e]
      BY <1>T, <2>3
    <3>3. \A e \in Conexiones : alCliente'[e] \in Seq(MensajesPara(e[1]))
      BY <1>T, <3>1, <3>2
    <3> QED
      BY <1>0, <1>T, <2>1, <3>2, <3>3, RecepcionMarco
  <2> QED
    BY <1>4, <2>2, <2>3, HiloRecibido
<1>5. CASE UNCHANGED vars
  BY <1>Q, <1>5 DEF vars, recepcion, recibido
<1> QED
  BY <1>1, <1>2, <1>3, <1>4, <1>5 DEF Next
-----------------------------------------------------------------------------
(* Nothing has been ordered.                                               *)
LEMMA TipoInicial == Init => TipoInv
<1> SUFFICES ASSUME Init
             PROVE  TipoInv
  OBVIOUS
<1>1. TipoInterfaz
  BY DEF Init, TipoInterfaz
<1>2. TipoVentanas
  BY DEF Init, TipoVentanas
<1>3. TipoPreguntas
  BY DEF Init, TipoPreguntas
<1>4. TipoOrdenes
  BY DEF Init, TipoOrdenes
<1>5. TipoRecepcion
  BY DEF Init, TipoRecepcion, LugaresRecv
<1>6. TipoBase
  BY DEF Init, TipoBase, Registrado
<1>7. TipoHilo
  BY DEF Init, TipoHilo
<1> QED
  BY <1>1, <1>2, <1>3, <1>4, <1>5, <1>6, <1>7 DEF TipoInv

(* Each of the seven parts is kept by every step.                          *)
LEMMA TipoPaso ==
    ASSUME EnvioInv, EnvioInv', TipoInv, [Next]_vars
    PROVE  TipoInv'
<1>1. EnvioTypeOK /\ EnvioTypeOK'
  BY DEF EnvioInv
<1>2. /\ TipoInterfaz /\ TipoVentanas /\ TipoPreguntas /\ TipoOrdenes /\ TipoRecepcion
      /\ TipoBase /\ TipoHilo
  BY DEF TipoInv
<1>3. TipoInterfaz'
  BY <1>1, <1>2, InterfazTipo
<1>4. TipoVentanas'
  BY <1>1, <1>2, VentanasTipo
<1>5. TipoPreguntas'
  BY <1>1, <1>2, PreguntasTipo
<1>6. TipoOrdenes'
  BY <1>1, <1>2, OrdenesTipo
<1>7. TipoRecepcion'
  BY <1>1, <1>2, RecepcionTipo
<1>8. TipoBase'
  BY <1>1, <1>2, BasesTipo
<1>9. TipoHilo'
  BY <1>1, <1>2, HilosTipo
<1> QED
  BY <1>3, <1>4, <1>5, <1>6, <1>7, <1>8, <1>9 DEF TipoInv

(* The strengthening of the type invariant: what may be in each queue of   *)
(* the clients and of the server (alServidor, alCliente, buffer, hilo), in *)
(* relation to the orders given and the connections made.                  *)
THEOREM TipoSiempre == Spec => []TipoInv
<1>1. EnvioInv /\ EnvioInv' /\ TipoInv /\ [Next]_vars => TipoInv'
  BY TipoPaso
<1> QED
  BY <1>1, TipoInicial, EnvioSiempre, PTL DEF Spec

(* Windows list nicks of users, every answer that is shown is to an order  *)
(* that was given, operators are members and members are registered        *)
(* (xchat2.c, irc_cliente.c and the data base of the server).              *)
THEOREM ClienteTypeOKSiempre == Spec => []ClienteTypeOK
<1>1. EnvioInv /\ TipoInv => ClienteTypeOK
  <2> SUFFICES ASSUME EnvioInv, TipoInv
               PROVE  ClienteTypeOK
    OBVIOUS
  <2>1. modo \in Modos /\ socket \in [Usuarios -> Nat]
    BY DEF EnvioInv, EnvioTypeOK
  <2>2. /\ registro \in [Usuarios -> {"NO_CONECTADO", "CONECTADO"}]
        /\ cnick \in [Usuarios -> Nicks \cup {Nadie}]
        /\ mutex \in [Usuarios -> {Libre, Fichero} \cup {Red(c) : c \in Conexiones}]
        /\ \A u \in Usuarios : fichero[u] \in {"no", "ofrece", "ofrecido"}
    BY DEF TipoInv, TipoInterfaz, Nicks
  <2>3. \A u \in Usuarios : /\ abiertas[u] \subseteq Ventanas
                            /\ vista[u] \subseteq abiertas[u] \X Nicks
    BY DEF TipoInv, TipoVentanas
  <2>4. \A u \in Usuarios : vistas[u] \subseteq Pide(u) /\ preguntas[u] \subseteq 1..hecho[u]
    BY DEF TipoInv, TipoPreguntas
  <2>5. /\ receptor \in [Conexiones -> {"no", "inicio", "tabla", "entra", "recv", "maneja",
                                        "contesta", "contestado", "fin"}]
        /\ lee \in [Conexiones -> Conexiones]
    BY DEF TipoInv, TipoRecepcion, LugaresRecv
  <2>6. /\ nombre \in [Conexiones -> Nicks \cup {Nadie}]
        /\ operadores \subseteq miembros
        /\ miembros \subseteq {c \in Conexiones : Registrado(c)}
        /\ cerrada \subseteq Conexiones
    BY DEF TipoInv, TipoBase
  <2> QED
    BY <2>1, <2>2, <2>3, <2>4, <2>5, <2>6 DEF ClienteTypeOK
<1> QED
  BY <1>1, TipoSiempre, EnvioSiempre, PTL
-----------------------------------------------------------------------------
(* An empty queue tells nobody anything.                                   *)
LEMMA ColaVacia ==
    \A u : /\ Queda(u, <<>>) /\ ~Vuelve(u, <<>>)
           /\ QuedaHilo(u, <<>>) /\ ~VuelveHilo(u, <<>>)
BY DEF Queda, Vuelve, QuedaHilo, VuelveHilo

(* What a queue of answers says to u, once its head is taken.              *)
LEMMA ColaSigue ==
    ASSUME NEW u, NEW S, NEW s \in Seq(S), s # <<>>
    PROVE  /\ Queda(u, s) => ~Echa(u, Head(s)) /\ Queda(u, Tail(s))
           /\ Vuelve(u, s) => Vuelve(u, Tail(s)) \/ (Entra(u, Head(s)) /\ Queda(u, Tail(s)))
<1>1. /\ Len(s) \in Nat \ {0} /\ Head(s) = s[1]
      /\ Len(Tail(s)) = Len(s) - 1
      /\ \A i \in 1..Len(Tail(s)) : Tail(s)[i] = s[i + 1]
  BY HeadTailProperties, EmptySeq, LenProperties
<1> DEFINE t == Tail(s)
           n == Len(s)
<1>2. /\ n \in Nat \ {0} /\ Len(t) = n - 1 /\ Head(s) = s[1]
      /\ \A i \in 1..(n - 1) : t[i] = s[i + 1]
  BY <1>1
<1> HIDE DEF t
<1>3. ASSUME Queda(u, s)
      PROVE  ~Echa(u, s[1]) /\ Queda(u, t)
  <2> HIDE DEF n
  <2>1. \A i \in 1..n : ~Echa(u, s[i])
    BY <1>3 DEF Queda, n
  <2>2. \A i \in 1..(n - 1) : i + 1 \in 1..n
    BY <1>2
  <2>3. 1 \in 1..n
    BY <1>2
  <2> QED
    BY <1>2, <2>1, <2>2, <2>3 DEF Queda
<1>4. ASSUME Vuelve(u, s)
      PROVE  Vuelve(u, t) \/ (Entra(u, s[1]) /\ Queda(u, t))
  <2> HIDE DEF n
  <2>1. PICK i \in 1..n : Entra(u, s[i]) /\ \A j \in (i + 1)..n : ~Echa(u, s[j])
    BY <1>4 DEF Vuelve, n
  <2>2. CASE i = 1
    <3>1. \A k \in 1..(n - 1) : k + 1 \in (i + 1)..n
      BY <1>2, <2>2
    <3> QED
      BY <1>2, <2>1, <2>2, <3>1 DEF Queda
  <2>3. CASE i # 1
    <3>1. i - 1 \in 1..(n - 1) /\ (i - 1) + 1 = i
      BY <1>2, <2>1, <2>3
    <3>2. \A j \in ((i - 1) + 1)..(n - 1) : j + 1 \in (i + 1)..n /\ j \in 1..(n - 1)
      BY <1>2, <2>1, <2>3
    <3>3. Entra(u, t[i - 1])
      BY <1>2, <2>1, <3>1
    <3>4. \A j \in ((i - 1) + 1)..(n - 1) : ~Echa(u, t[j])
      BY <1>2, <2>1, <3>2
    <3> QED
      BY <1>2, <3>1, <3>3, <3>4 DEF Vuelve
  <2> QED
    BY <2>2, <2>3
<1> QED
  BY <1>2, <1>3, <1>4 DEF t

(* What a queue of answers says to u, with one more at its end.            *)
LEMMA ColaMas ==
    ASSUME NEW u, NEW S, NEW s \in Seq(S), NEW m \in S
    PROVE  /\ Queda(u, s) /\ ~Echa(u, m) => Queda(u, Append(s, m))
           /\ Vuelve(u, s) /\ ~Echa(u, m) => Vuelve(u, Append(s, m))
           /\ Entra(u, m) => Vuelve(u, Append(s, m))
<1> DEFINE t == Append(s, m)
           n == Len(s)
<1>1. /\ n \in Nat /\ Len(t) = n + 1
      /\ \A i \in 1..n : t[i] = s[i]
      /\ t[n + 1] = m
  BY AppendProperties, LenProperties
<1>2. (n + 1) \in 1..(n + 1) /\ 1..n \subseteq 1..(n + 1)
      /\ \A i \in 1..(n + 1) : i \in 1..n \/ i = n + 1
  BY <1>1
<1> HIDE DEF t
<1>3. ASSUME Queda(u, s), ~Echa(u, m)
      PROVE  Queda(u, t)
  <2> HIDE DEF n
  <2>1. \A i \in 1..n : ~Echa(u, s[i])
    BY <1>3 DEF Queda, n
  <2> QED
    BY <1>1, <1>2, <1>3, <2>1 DEF Queda
<1>4. ASSUME Vuelve(u, s), ~Echa(u, m)
      PROVE  Vuelve(u, t)
  <2> HIDE DEF n
  <2>1. PICK i \in 1..n : Entra(u, s[i]) /\ \A j \in (i + 1)..n : ~Echa(u, s[j])
    BY <1>4 DEF Vuelve, n
  <2>2. \A j \in (i + 1)..(n + 1) : (j \in (i + 1)..n /\ j \in 1..n) \/ j = n + 1
    BY <1>1, <2>1
  <2>3. \A j \in (i + 1)..(n + 1) : ~Echa(u, t[j])
    BY <1>1, <1>4, <2>1, <2>2
  <2> QED
    BY <1>1, <1>2, <2>1, <2>3 DEF Vuelve
<1>5. ASSUME Entra(u, m)
      PROVE  Vuelve(u, t)
  <2> HIDE DEF n
  <2>1. \A j \in ((n + 1) + 1)..(n + 1) : FALSE
    BY <1>1
  <2> QED
    BY <1>1, <1>2, <1>5, <2>1 DEF Vuelve
<1> QED
  BY <1>3, <1>4, <1>5 DEF t

(* The same of what a thread of the server has left to send, once the      *)
(* first is sent.                                                          *)
LEMMA HiloSigue ==
    ASSUME NEW u, NEW S, NEW s \in Seq(S), s # <<>>
    PROVE  /\ QuedaHilo(u, s) => ~Echa(u, Head(s).msg) /\ QuedaHilo(u, Tail(s))
           /\ VuelveHilo(u, s) =>
                \/ VuelveHilo(u, Tail(s))
                \/ Head(s).paso = "aqui" /\ Entra(u, Head(s).msg) /\ QuedaHilo(u, Tail(s))
<1>1. /\ Len(s) \in Nat \ {0} /\ Head(s) = s[1]
      /\ Len(Tail(s)) = Len(s) - 1
      /\ \A i \in 1..Len(Tail(s)) : Tail(s)[i] = s[i + 1]
  BY HeadTailProperties, EmptySeq, LenProperties
<1> DEFINE t == Tail(s)
           n == Len(s)
<1>2. /\ n \in Nat \ {0} /\ Len(t) = n - 1 /\ Head(s) = s[1]
      /\ \A i \in 1..(n - 1) : t[i] = s[i + 1]
  BY <1>1
<1> HIDE DEF t
<1>3. ASSUME QuedaHilo(u, s)
      PROVE  ~Echa(u, s[1].msg) /\ QuedaHilo(u, t)
  <2> HIDE DEF n
  <2>1. \A i \in 1..n : ~Echa(u, s[i].msg)
    BY <1>3 DEF QuedaHilo, n
  <2>2. \A i \in 1..(n - 1) : i + 1 \in 1..n
    BY <1>2
  <2>3. 1 \in 1..n
    BY <1>2
  <2> QED
    BY <1>2, <2>1, <2>2, <2>3 DEF QuedaHilo
<1>4. ASSUME VuelveHilo(u, s)
      PROVE  VuelveHilo(u, t) \/ (s[1].paso = "aqui" /\ Entra(u, s[1].msg) /\ QuedaHilo(u, t))
  <2> HIDE DEF n
  <2>1. PICK i \in 1..n : s[i].paso = "aqui" /\ Entra(u, s[i].msg) /\ \A j \in (i + 1)..n : ~Echa(u, s[j].msg)
    BY <1>4 DEF VuelveHilo, n
  <2>2. CASE i = 1
    <3>1. \A k \in 1..(n - 1) : k + 1 \in (i + 1)..n
      BY <1>2, <2>2
    <3> QED
      BY <1>2, <2>1, <2>2, <3>1 DEF QuedaHilo
  <2>3. CASE i # 1
    <3>1. i - 1 \in 1..(n - 1) /\ (i - 1) + 1 = i
      BY <1>2, <2>1, <2>3
    <3>2. \A j \in ((i - 1) + 1)..(n - 1) : j + 1 \in (i + 1)..n /\ j \in 1..(n - 1)
      BY <1>2, <2>1, <2>3
    <3>3. t[i - 1].paso = "aqui" /\ Entra(u, t[i - 1].msg)
      BY <1>2, <2>1, <3>1
    <3>4. \A j \in ((i - 1) + 1)..(n - 1) : ~Echa(u, t[j].msg)
      BY <1>2, <2>1, <3>2
    <3> QED
      BY <1>2, <3>1, <3>3, <3>4 DEF VuelveHilo
  <2> QED
    BY <2>2, <2>3
<1> QED
  BY <1>2, <1>3, <1>4 DEF t

(* The same with other sends before them.                                  *)
LEMMA HiloMas ==
    ASSUME NEW u, NEW S, NEW s \in Seq(S), NEW T, NEW t \in Seq(T)
    PROVE  /\ QuedaHilo(u, s) /\ QuedaHilo(u, t) => QuedaHilo(u, s \o t)
           /\ VuelveHilo(u, t) => VuelveHilo(u, s \o t)
<1> DEFINE r == s \o t
           k == Len(s)
           n == Len(t)
<1>0. s \in Seq(S \cup T) /\ t \in Seq(S \cup T)
  BY SeqMonotonic
<1>1. /\ k \in Nat /\ n \in Nat /\ Len(r) = k + n
      /\ \A i \in 1..(k + n) : r[i] = IF i <= k THEN s[i] ELSE t[i - k]
  BY <1>0, ConcatProperties, LenProperties, Zenon
<1> HIDE DEF r
<1>2. ASSUME QuedaHilo(u, s), QuedaHilo(u, t)
      PROVE  QuedaHilo(u, r)
  <2> HIDE DEF k, n
  <2>1. \A i \in 1..k : ~Echa(u, s[i].msg)
    BY <1>2 DEF QuedaHilo, k
  <2>2. \A i \in 1..n : ~Echa(u, t[i].msg)
    BY <1>2 DEF QuedaHilo, n
  <2>3. ASSUME NEW i \in 1..(k + n)
        PROVE  ~Echa(u, r[i].msg)
    <3>1. CASE i <= k
      <4>1. i \in 1..k
        BY <1>1, <3>1
      <4> QED
        BY <1>1, <2>1, <3>1, <4>1
    <3>2. CASE ~(i <= k)
      <4>1. i - k \in 1..n
        BY <1>1, <3>2
      <4> QED
        BY <1>1, <2>2, <3>2, <4>1
    <3> QED
      BY <3>1, <3>2
  <2> QED
    BY <1>1, <2>3 DEF QuedaHilo
<1>3. ASSUME VuelveHilo(u, t)
      PROVE  VuelveHilo(u, r)
  <2> HIDE DEF k, n
  <2>1. PICK i \in 1..n : t[i].paso = "aqui" /\ Entra(u, t[i].msg) /\ \A j \in (i + 1)..n : ~Echa(u, t[j].msg)
    BY <1>3 DEF VuelveHilo, n
  <2>2. i + k \in 1..(k + n) /\ ~(i + k <= k) /\ (i + k) - k = i
    BY <1>1, <2>1
  <2>3. r[i + k] = t[i]
    BY <1>1, <2>2
  <2>4. ASSUME NEW j \in ((i + k) + 1)..(k + n)
        PROVE  ~Echa(u, r[j].msg)
    <3>1. j \in 1..(k + n) /\ ~(j <= k) /\ j - k \in (i + 1)..n
      BY <1>1, <2>1
    <3>2. r[j] = t[j - k]
      BY <1>1, <3>1
    <3> QED
      BY <2>1, <3>1, <3>2
  <2> QED
    BY <1>1, <2>1, <2>2, <2>3, <2>4 DEF VuelveHilo
<1> QED
  BY <1>2, <1>3 DEF r
-----------------------------------------------------------------------------
(* Once the first command is taken, no NICK with the first nick is left.   *)
LEMMA PrimeroCola ==
    ASSUME NEW u, NEW S, NEW s \in Seq(S), s # <<>>, SoloPrimero(u, s)
    PROVE  SinPrimero(u, Tail(s)) /\ SoloPrimero(u, Tail(s))
<1>1. /\ Len(s) \in Nat \ {0}
      /\ Len(Tail(s)) = Len(s) - 1
      /\ \A i \in 1..Len(Tail(s)) : Tail(s)[i] = s[i + 1]
  BY HeadTailProperties, EmptySeq, LenProperties
<1> DEFINE t == Tail(s)
           n == Len(s)
<1>2. /\ n \in Nat \ {0} /\ Len(t) = n - 1
      /\ \A i \in 1..(n - 1) : t[i] = s[i + 1]
  BY <1>1
<1> HIDE DEF t
<1>3. \A i \in 1..n : s[i].tipo = "NICK" /\ s[i].a = <<u, 1>> => i = 1
  BY DEF SoloPrimero
<1> HIDE DEF n
<1>4. \A i \in 1..(n - 1) : i + 1 \in 1..n /\ i + 1 # 1
  BY <1>2
<1>5. \A i \in 1..(n - 1) : t[i].tipo = "NICK" => t[i].a # <<u, 1>>
  BY <1>2, <1>3, <1>4
<1>6. SinPrimero(u, t)
  BY <1>2, <1>5 DEF SinPrimero
<1> QED
  BY <1>6 DEF t, SinPrimero, SoloPrimero

(* Commands that name other nicks change nothing about the first.          *)
LEMMA PrimeroMas ==
    ASSUME NEW u, NEW S, NEW s \in Seq(S), NEW T, NEW t \in Seq(T), SinPrimero(u, t)
    PROVE  /\ SoloPrimero(u, s) => SoloPrimero(u, s \o t)
           /\ SinPrimero(u, s) => SinPrimero(u, s \o t)
<1> DEFINE r == s \o t
           k == Len(s)
           n == Len(t)
<1>0. s \in Seq(S \cup T) /\ t \in Seq(S \cup T)
  BY SeqMonotonic
<1>1. /\ k \in Nat /\ n \in Nat /\ Len(r) = k + n
      /\ \A i \in 1..(k + n) : r[i] = IF i <= k THEN s[i] ELSE t[i - k]
  BY <1>0, ConcatProperties, LenProperties, Zenon
<1>2. \A i \in 1..n : t[i].tipo = "NICK" => t[i].a # <<u, 1>>
  BY DEF SinPrimero
<1>3. SoloPrimero(u, s) => \A i \in 1..k : s[i].tipo = "NICK" /\ s[i].a = <<u, 1>> => i = 1
  BY DEF SoloPrimero
<1>4. SinPrimero(u, s) => \A i \in 1..k : s[i].tipo = "NICK" => s[i].a # <<u, 1>>
  BY DEF SinPrimero
<1> HIDE DEF r, k, n
<1>5. ASSUME NEW i \in 1..(k + n)
      PROVE  \/ i \in 1..k /\ r[i] = s[i]
             \/ i - k \in 1..n /\ r[i] = t[i - k]
  BY <1>1
<1>6. SoloPrimero(u, s) => \A i \in 1..(k + n) : r[i].tipo = "NICK" /\ r[i].a = <<u, 1>> => i = 1
  BY <1>2, <1>3, <1>5
<1>7. SinPrimero(u, s) => \A i \in 1..(k + n) : r[i].tipo = "NICK" => r[i].a # <<u, 1>>
  BY <1>2, <1>4, <1>5
<1> QED
  BY <1>1, <1>6, <1>7 DEF r, SoloPrimero, SinPrimero

(* Whatever a user's client does sends a NICK with the first nick only in  *)
(* Connect.                                                                *)
LEMMA QueEnvia ==
    ASSUME EnvioTypeOK, NEW u \in Usuarios,
           Interfaz(u) \/ Envio(u) \/ \E c \in Conexiones : c[1] = u /\ RecvPthread(c)
    PROVE  \/ Connect(u) \/ Cycle(u) \/ EnviaResto(u) \/ TecleaSinTabla(u)
           \/ UNCHANGED <<alServidor, escribe>>
           \/ \E h, tipo, x, n : /\ Send(u, h, Orden(tipo, x, n))
                                 /\ tipo = "NICK" => x # <<u, 1>>
<1> DEFINE Meta == \/ Connect(u) \/ Cycle(u) \/ EnviaResto(u) \/ TecleaSinTabla(u)
                   \/ UNCHANGED <<alServidor, escribe>>
                   \/ \E h, tipo, x, n : /\ Send(u, h, Orden(tipo, x, n))
                                         /\ tipo = "NICK" => x # <<u, 1>>
<1>S. ASSUME NEW h, NEW tipo, NEW x, NEW n, Send(u, h, Orden(tipo, x, n)), tipo = "NICK" => x # <<u, 1>>
      PROVE  Meta
  BY <1>S
<1>Q. UNCHANGED <<alServidor, escribe>> => Meta
  OBVIOUS
<1>C. Connect(u) \/ Cycle(u) \/ EnviaResto(u) \/ TecleaSinTabla(u) => Meta
  OBVIOUS
<1> HIDE DEF Meta
<1>1. ASSUME Interfaz(u)
      PROVE  Meta
  <2>1. CASE DisconnectServer(u)
    BY <1>S, <1>Q, <2>1 DEF DisconnectServer, EnviarCliente
  <2>2. CASE ComandoGeneral(u)
    <3>1. PICK o : Send(u, Gui, Orden(o, <<u, 2>>, Sigue(u)))
      BY <2>2 DEF ComandoGeneral, EnviarCliente
    <3> QED
      BY <1>S, <3>1
  <2>3. CASE Privado(u) \/ Part(u) \/ PartAll(u) \/ NewCommandText(u)
    BY <1>S, <2>3 DEF Privado, Part, PartAll, NewCommandText, EnviarCliente
  <2>4. CASE KickNick(u) \/ CambiaModo(u)
    BY <1>S, <2>4 DEF KickNick, CambiaModo, EnviarCliente
  <2>5. CASE DesdeSystem(u) \/ SendFile(u)
    BY <1>Q, <2>5 DEF DesdeSystem, SendFile
  <2> QED
    BY <1>1, <1>C, <2>1, <2>2, <2>3, <2>4, <2>5 DEF Interfaz
<1>2. ASSUME Envio(u)
      PROVE  Meta
  <2>1. CASE Ofrece(u)
    BY <1>S, <2>1 DEF Ofrece, EnviarClienteThread
  <2>2. CASE CierraSocket(u)
    BY <1>Q, <2>2 DEF CierraSocket, envio
  <2> QED
    BY <1>2, <1>C, <2>1, <2>2 DEF Envio
<1>3. ASSUME NEW c \in Conexiones, c[1] = u, RecvPthread(c)
      PROVE  Meta
  <2>1. CASE Contesta(c)
    <3>1. Send(u, Red(c), Orden("FCANCEL", <<modo.otro[u], 1>>, 0))
      BY <1>3, <2>1 DEF Contesta, EnviarClienteThread
    <3> QED
      BY <1>S, <3>1
  <2>2. CASE ~Contesta(c)
    <3>1. UNCHANGED <<alServidor, escribe>>
      BY <1>3, <2>2 DEF RecvPthread, RecvInicio, RecvTabla, RecvEntra, RecvMensajes, RecvVuelve, Maneja, sinTabla, envio
    <3> QED
      BY <1>Q, <3>1
  <2> QED
    BY <2>1, <2>2
<1> QED
  BY <1>1, <1>2, <1>3 DEF Meta

(* send puts the message in the queue of the connection in use, or half of *)
(* it among those being written.                                           *)
LEMMA SendPrimero ==
    ASSUME EnvioTypeOK, TipoInterfaz, NEW u \in Usuarios, NEW h, NEW tipo, NEW x, NEW n,
           Send(u, h, Orden(tipo, x, n)), tipo = "NICK" => x # <<u, 1>>
    PROVE  /\ \A m \in escribe'[u] : \/ m.tipo = tipo /\ m.a = x
                                     \/ \E y \in escribe[u] : m.tipo = y.tipo /\ m.a = y.a
           /\ \A v \in Usuarios \ {u} : escribe'[v] = escribe[v]
           /\ \A c \in Conexiones :
                \/ alServidor'[c] = alServidor[c]
                \/ /\ c = <<u, socket[u]>>
                   /\ \E m : /\ alServidor'[c] = Append(alServidor[c], m)
                             /\ m.tipo = tipo /\ m.a = x
<1> DEFINE tuyo == [Orden(tipo, x, n) EXCEPT !.de = h, !.en = socket[u]]
           otros == {y.de : y \in {z \in escribe[u] : z.en = socket[u]}}
           mia == [tuyo EXCEPT !.cruces = otros]
<1>1. tuyo.tipo = tipo /\ tuyo.a = x /\ mia.tipo = tipo /\ mia.a = x
  BY DEF Orden
<1>2. CASE UNCHANGED <<alServidor, escribe>>
  BY <1>2
<1>3. CASE /\ alServidor' = [alServidor EXCEPT ![<<u, socket[u]>>] = Append(@, tuyo)]
           /\ UNCHANGED escribe
  <2> HIDE DEF tuyo
  <2>1. \A c \in Conexiones : alServidor'[c] = IF c = <<u, socket[u]>> THEN Append(alServidor[c], tuyo)
                                               ELSE alServidor[c]
    BY <1>3 DEF EnvioTypeOK
  <2> QED
    BY <1>1, <1>3, <2>1
<1>4. CASE /\ escribe' = [escribe EXCEPT ![u] = {mia} \cup {Cruza(y, tuyo) : y \in @}]
           /\ UNCHANGED alServidor
  <2> HIDE DEF tuyo, mia
  <2>1. /\ escribe'[u] = {mia} \cup {Cruza(y, tuyo) : y \in escribe[u]}
        /\ \A v \in Usuarios \ {u} : escribe'[v] = escribe[v]
    BY <1>4 DEF EnvioTypeOK
  <2>2. \A y \in escribe[u] : Cruza(y, tuyo).tipo = y.tipo /\ Cruza(y, tuyo).a = y.a
    BY DEF EnvioTypeOK, OrdenesIRC, Cruza
  <2> QED
    BY <1>1, <1>4, <2>1, <2>2
<1> QED
  BY <1>2, <1>3, <1>4 DEF Send

(* Append, as a concatenation.                                             *)
LEMMA MasUno ==
    ASSUME NEW S, NEW s \in Seq(S), NEW m
    PROVE  Append(s, m) = s \o <<m>> /\ <<m>> \in Seq({m})
<1>1. s \in Seq(S \cup {m}) /\ m \in S \cup {m}
  BY SeqMonotonic
<1> QED
  BY <1>1, AppendIsConcat

(* One command that is not that NICK.                                      *)
LEMMA SinPrimeroUno ==
    ASSUME NEW u, NEW m, m.tipo = "NICK" => m.a # <<u, 1>>
    PROVE  SinPrimero(u, <<m>>)
BY DEF SinPrimero

(* How the queue of a connection to the server changes. *)
Crecio(c) ==
    /\ c[2] <= conexiones[c[1]]
    /\ \E T : \E t \in Seq(T) : SinPrimero(c[1], t) /\ alServidor'[c] = alServidor[c] \o t
Conecta(c) ==
    /\ conexiones' = [conexiones EXCEPT ![c[1]] = @ + 1]
    /\ c[2] = conexiones[c[1]] + 1
    /\ alServidor'[c] = <<Orden("NICK", <<c[1], 1>>, 0), Orden("USER", <<c[1], 1>>, Sigue(c[1]))>>

(* A queue with one more command.                                          *)
LEMMA CrecioUno ==
    ASSUME TipoOrdenes, NEW c \in Conexiones, c[2] <= conexiones[c[1]], NEW m,
           m.tipo = "NICK" => m.a # <<c[1], 1>>, alServidor'[c] = Append(alServidor[c], m)
    PROVE  Crecio(c)
<1>1. alServidor[c] \in Seq(OrdenesDe(c[1]))
  BY DEF TipoOrdenes
<1>2. Append(alServidor[c], m) = alServidor[c] \o <<m>> /\ <<m>> \in Seq({m})
  BY <1>1, MasUno
<1>3. SinPrimero(c[1], <<m>>)
  BY SinPrimeroUno
<1> QED
  BY <1>2, <1>3 DEF Crecio

(* A client's step appends commands without that NICK to a connection that *)
(* is made, or makes one.                                                  *)
LEMMA ClienteCola ==
    ASSUME EnvioTypeOK, TipoInterfaz, TipoOrdenes, PrimerNick, NEW u \in Usuarios,
           Interfaz(u) \/ Envio(u) \/ \E d \in Conexiones : d[1] = u /\ RecvPthread(d)
    PROVE  /\ \A c \in Conexiones : alServidor'[c] = alServidor[c] \/ Crecio(c) \/ Conecta(c)
           /\ \A v \in Usuarios : \A m \in escribe'[v] : m.tipo = "NICK" => m.a # <<v, 1>>
<1> DEFINE Cola == \A c \in Conexiones : alServidor'[c] = alServidor[c] \/ Crecio(c) \/ Conecta(c)
           Escritas == \A v \in Usuarios : \A m \in escribe'[v] : m.tipo = "NICK" => m.a # <<v, 1>>
<1>0. /\ \A v \in Usuarios : \A m \in escribe[v] : m.tipo = "NICK" => m.a # <<v, 1>>
      /\ socket[u] \in Nat /\ conexiones[u] \in Nat /\ socket[u] <= conexiones[u]
  BY SocketDe DEF PrimerNick
<1>1. CASE UNCHANGED <<alServidor, escribe>>
  BY <1>0, <1>1
<1>2. CASE TecleaSinTabla(u)
  <2>1. UNCHANGED alServidor /\ escribe' = [escribe EXCEPT ![u] = {}]
    BY <1>2 DEF TecleaSinTabla
  <2>2. \A v \in Usuarios : escribe'[v] \subseteq escribe[v]
    BY <2>1 DEF EnvioTypeOK
  <2> QED
    BY <1>0, <2>1, <2>2
<1>3. CASE Connect(u)
  <2> DEFINE d == <<u, conexiones[u] + 1>>
  <2>1. UNCHANGED escribe
    BY <1>3 DEF Connect
  <2>2. CASE UNCHANGED alServidor
    BY <1>0, <2>1, <2>2
  <2>3. CASE /\ conexiones' = [conexiones EXCEPT ![u] = @ + 1]
             /\ alServidor' = [alServidor EXCEPT ![d] =
                    <<Orden("NICK", <<u, 1>>, 0), Orden("USER", <<u, 1>>, Sigue(u))>>]
    <3>1. \A c \in Conexiones : c # d => alServidor'[c] = alServidor[c]
      BY <2>3 DEF EnvioTypeOK
    <3>2. d \in Conexiones => Conecta(d)
      BY <2>3 DEF EnvioTypeOK, Conecta
    <3> HIDE DEF d
    <3> QED
      BY <1>0, <2>1, <3>1, <3>2
  <2> QED
    BY <1>3, <2>2, <2>3 DEF Connect
<1>4. CASE Cycle(u)
  <2> DEFINE d == <<u, socket[u]>>
             t == <<Orden("PART", Nadie, 0), Orden("JOIN", Nadie, Sigue(u))>>
  <2>1. UNCHANGED escribe /\ alServidor' = [alServidor EXCEPT ![d] = @ \o t]
    BY <1>4 DEF Cycle
  <2>2. SinPrimero(u, t) /\ t \in Seq({t[1], t[2]})
    BY DEF SinPrimero, Orden
  <2>3. d[2] <= conexiones[d[1]] /\ d[1] = u
    BY <1>0
  <2> HIDE DEF d, t
  <2>4. \A c \in Conexiones : alServidor'[c] = IF c = d THEN alServidor[c] \o t ELSE alServidor[c]
    BY <2>1 DEF EnvioTypeOK
  <2>5. d \in Conexiones => Crecio(d)
    BY <2>2, <2>3, <2>4 DEF Crecio
  <2> QED
    BY <1>0, <2>1, <2>4, <2>5
<1>5. CASE EnviaResto(u)
  <2>1. PICK m \in escribe[u] :
            /\ alServidor' = [alServidor EXCEPT ![<<u, m.en>>] = Append(@, m)]
            /\ escribe' = [escribe EXCEPT ![u] = @ \ {m}]
    BY <1>5 DEF EnviaResto
  <2>2. \A v \in Usuarios : escribe'[v] \subseteq escribe[v]
    BY <2>1 DEF EnvioTypeOK
  <2>3. m.en <= conexiones[u]
    BY DEF TipoOrdenes, OrdenesDe
  <2> DEFINE d == <<u, m.en>>
  <2>4. d[2] <= conexiones[d[1]] /\ d[1] = u
    BY <2>3
  <2>5. alServidor' = [alServidor EXCEPT ![d] = Append(@, m)]
    BY <2>1
  <2> HIDE DEF d
  <2>6. \A c \in Conexiones : alServidor'[c] = IF c = d THEN Append(alServidor[c], m) ELSE alServidor[c]
    BY <2>5 DEF EnvioTypeOK
  <2>7. d \in Conexiones => Crecio(d)
    BY <1>0, <2>4, <2>6, CrecioUno
  <2> QED
    BY <1>0, <2>2, <2>6, <2>7
<1>6. ASSUME NEW h, NEW tipo, NEW x, NEW n, Send(u, h, Orden(tipo, x, n)), tipo = "NICK" => x # <<u, 1>>
      PROVE  Cola /\ Escritas
  <2> DEFINE d == <<u, socket[u]>>
  <2>0. /\ \A m \in escribe'[u] : \/ m.tipo = tipo /\ m.a = x
                                  \/ \E y \in escribe[u] : m.tipo = y.tipo /\ m.a = y.a
        /\ \A v \in Usuarios \ {u} : escribe'[v] = escribe[v]
    BY <1>6, SendPrimero
  <2>1. ASSUME NEW v \in Usuarios, NEW m \in escribe'[v]
        PROVE  m.tipo = "NICK" => m.a # <<v, 1>>
    BY <1>0, <1>6, <2>0
  <2>2. \A c \in Conexiones :
                \/ alServidor'[c] = alServidor[c]
                \/ /\ c = d
                   /\ \E m : /\ alServidor'[c] = Append(alServidor[c], m)
                             /\ m.tipo = tipo /\ m.a = x
    BY <1>6, SendPrimero
  <2>3. d[2] <= conexiones[d[1]] /\ d[1] = u
    BY <1>0
  <2> HIDE DEF d
  <2>4. ASSUME NEW c \in Conexiones
        PROVE  alServidor'[c] = alServidor[c] \/ Crecio(c)
    BY <1>6, <2>2, <2>3, CrecioUno
  <2> QED
    BY <2>1, <2>4
<1> QED
  BY <1>1, <1>2, <1>3, <1>4, <1>5, <1>6, QueEnvia

(* Nothing but its own thread touches what the server keeps of a           *)
(* connection.                                                             *)
LEMMA HiloPropio ==
    ASSUME EnvioTypeOK, TipoBase, TipoHilo, NEW d \in Conexiones, Hilo(d)
    PROVE  /\ \A c \in Conexiones \ {d} : /\ hilo'[c] = hilo[c]
                                          /\ nombre'[c] = nombre[c]
                                          /\ alServidor'[c] = alServidor[c]
           /\ UNCHANGED <<modo, estructura, interfaz, conexiones, receptor, lee, buffer, tabla, escribe>>
<1>0. DOMAIN hilo = Conexiones /\ DOMAIN nombre = Conexiones /\ DOMAIN alServidor = Conexiones
  BY DEF EnvioTypeOK, TipoBase, TipoHilo
<1>1. UNCHANGED <<modo, estructura, interfaz, conexiones, receptor, lee, buffer, tabla, escribe>>
  BY DEF Hilo, ProcesaComando, SinRegistrar, Nick, User, Join, Join0, PartirCanal, Kick, Mode,
      SoloContesta, Privmsg, Quit, ComandoVacio, ListNicks, EnviarANick, Enviar, ListarNames, CerrarConexion,
      sinEnvios, sinServidor, recepcion, envio
<1>2. ASSUME NEW c \in Conexiones \ {d}
      PROVE  alServidor'[c] = alServidor[c]
  BY <1>0, HiloOrdenes
<1>3. UNCHANGED hilo \/ \E s : hilo' = [hilo EXCEPT ![d] = s]
  BY DEF Hilo, ProcesaComando, SinRegistrar, Nick, User, Join, Join0, PartirCanal, Kick, Mode,
      SoloContesta, Privmsg, Quit, ComandoVacio, ListNicks, EnviarANick, Enviar, ListarNames, CerrarConexion,
      Despues, Manda
<1>4. UNCHANGED nombre \/ \E x : nombre' = [nombre EXCEPT ![d] = x]
  BY DEF Hilo, ProcesaComando, SinRegistrar, Nick, User, Join, Join0, PartirCanal, Kick, Mode,
      SoloContesta, Privmsg, Quit, ComandoVacio, ListNicks, EnviarANick, Enviar, ListarNames, CerrarConexion,
      sinEnvios
<1>5. \A c \in Conexiones \ {d} : hilo'[c] = hilo[c]
  BY <1>0, <1>3
<1>6. \A c \in Conexiones \ {d} : nombre'[c] = nombre[c]
  BY <1>0, <1>4
<1> QED
  BY <1>1, <1>2, <1>5, <1>6

(* A connection that is not made yet has no thread in the server.          *)
LEMMA NuevaQuieta ==
    ASSUME EnvioTypeOK, Nuevas, NEW c \in Conexiones, Hilo(c)
    PROVE  c[2] <= conexiones[c[1]]
<1>0. conexiones[c[1]] \in Nat /\ c[2] \in Nat
  BY Cs DEF EnvioTypeOK
<1>1. CASE ProcesaComando(c)
  <2>1. alServidor[c] # <<>>
    BY <1>1 DEF ProcesaComando, SinRegistrar, Nick, User, Join, Join0, PartirCanal, Kick, Mode,
      SoloContesta, Privmsg, Quit, ComandoVacio, Recibe
  <2> QED
    BY <1>0, <2>1 DEF Nuevas
<1>2. CASE hilo[c] # <<>>
  BY <1>0, <1>2 DEF Nuevas
<1>3. CASE c[2] \in 1..conexiones[c[1]]
  BY <1>0, <1>3
<1> QED
  BY <1>1, <1>2, <1>3 DEF Hilo, ListNicks, EnviarANick, Enviar, ListarNames, CerrarConexion, Paso
-----------------------------------------------------------------------------
(* The interface leaves recv_pthread and the server alone, except that     *)
(* Connect starts a thread.                                                *)
LEMMA ClienteDeja ==
    ASSUME NEW u \in Usuarios, Interfaz(u) \/ Envio(u)
    PROVE  /\ UNCHANGED <<modo, lee, buffer, tabla, alCliente, servidor>>
           /\ UNCHANGED receptor \/ Connect(u)
<1>1. CASE Connect(u)
  BY <1>1 DEF Connect
<1>2. CASE TecleaSinTabla(u)
  BY <1>2 DEF TecleaSinTabla, recepcion
<1>3. CASE UNCHANGED ajenoOrden
  BY <1>3 DEF ajenoOrden, recepcion
<1>4. CASE Envio(u)
  BY <1>4 DEF Envio, CierraSocket, Ofrece, EnviaResto, recepcion
<1> QED
  BY <1>1, <1>2, <1>3, <1>4, OtrasOrdenes

(* recv_pthread leaves the other threads and the server alone.             *)
LEMMA RecvDeja ==
    ASSUME TipoRecepcion, NEW d \in Conexiones, RecvPthread(d)
    PROVE  /\ UNCHANGED <<modo, registro, socket, ordenes, conexiones, servidor>>
           /\ receptor[d] # "no"
           /\ \A c \in Conexiones \ {d} : receptor'[c] = receptor[c] /\ lee'[c] = lee[c] /\ buffer'[c] = buffer[c]
           /\ \A u \in Usuarios \ {d[1]} : tabla'[u] = tabla[u]
<1>0. /\ receptor \in [Conexiones -> LugaresRecv] /\ lee \in [Conexiones -> Conexiones]
      /\ tabla \in [Usuarios -> BOOLEAN] /\ DOMAIN buffer = Conexiones
  BY DEF TipoRecepcion
<1>1. UNCHANGED <<modo, registro, socket, ordenes, conexiones, servidor>> /\ receptor[d] # "no"
  BY DEF RecvPthread, RecvInicio, RecvTabla, RecvEntra, RecvMensajes, Maneja, Contesta, RecvVuelve, sinTabla, estructura
<1>2. \E x : receptor' = [receptor EXCEPT ![d] = x]
  BY DEF RecvPthread, RecvInicio, RecvTabla, RecvEntra, RecvMensajes, Maneja, Contesta, RecvVuelve, A
<1>3. UNCHANGED lee \/ \E x : lee' = [lee EXCEPT ![d] = x]
  BY DEF RecvPthread, RecvInicio, RecvTabla, RecvEntra, RecvMensajes, Maneja, Contesta, RecvVuelve, sinTabla
<1>4. UNCHANGED buffer \/ \E x : buffer' = [buffer EXCEPT ![d] = x]
  BY DEF RecvPthread, RecvInicio, RecvTabla, RecvEntra, RecvMensajes, Maneja, Contesta, RecvVuelve, sinTabla
<1>5. UNCHANGED tabla \/ \E x : tabla' = [tabla EXCEPT ![d[1]] = x]
  BY DEF RecvPthread, RecvInicio, RecvTabla, RecvEntra, RecvMensajes, Maneja, Contesta, RecvVuelve
<1>6. \A c \in Conexiones \ {d} : receptor'[c] = receptor[c]
  BY <1>0, <1>2
<1>7. \A c \in Conexiones \ {d} : lee'[c] = lee[c]
  BY <1>0, <1>3
<1>8. \A c \in Conexiones \ {d} : buffer'[c] = buffer[c]
  BY <1>0, <1>4
<1>9. \A u \in Usuarios \ {d[1]} : tabla'[u] = tabla[u]
  BY <1>0, <1>5
<1> QED
  BY <1>1, <1>6, <1>7, <1>8, <1>9

(* Every step leaves a connection that is not made without commands, nick  *)
(* or thread.                                                              *)
LEMMA NuevasPaso ==
    ASSUME EnvioTypeOK, EnvioTypeOK', TipoInterfaz, TipoPreguntas, TipoOrdenes, TipoRecepcion, TipoBase,
           TipoHilo, PrimerNick, Nuevas, [Next]_vars
    PROVE  Nuevas'
<1> SUFFICES ASSUME NEW c \in Conexiones, c[2] > conexiones'[c[1]]
             PROVE  /\ alServidor'[c] = <<>> /\ hilo'[c] = <<>> /\ nombre'[c] = Nadie
                    /\ lee'[c] = c /\ buffer'[c] = <<>>
  BY DEF Nuevas
<1>0. /\ c[1] \in Usuarios /\ c[2] \in Nat
      /\ conexiones[c[1]] \in Nat /\ conexiones'[c[1]] \in Nat /\ conexiones[c[1]] <= conexiones'[c[1]]
  <2>1. c[1] \in Usuarios /\ c[2] \in Nat
    BY Cs
  <2>2. conexiones[c[1]] <= conexiones'[c[1]]
    BY <2>1, TodoCrece
  <2> QED
    BY <2>1, <2>2 DEF EnvioTypeOK
<1>1. c[2] > conexiones[c[1]]
  BY <1>0
<1>2. alServidor[c] = <<>> /\ hilo[c] = <<>> /\ nombre[c] = Nadie /\ lee[c] = c /\ buffer[c] = <<>>
  BY <1>1 DEF Nuevas
<1>3. ~Crecio(c) /\ ~Conecta(c)
  <2>1. ~(c[2] <= conexiones[c[1]])
    BY <1>0, <1>1
  <2>2. ASSUME Conecta(c)
        PROVE  FALSE
    <3>1. conexiones'[c[1]] = conexiones[c[1]] + 1 /\ c[2] = conexiones[c[1]] + 1
      BY <1>0, <2>2 DEF Conecta, EnvioTypeOK
    <3> QED
      BY <1>0, <3>1
  <2> QED
    BY <2>1, <2>2 DEF Crecio
<1>4. ASSUME NEW u \in Usuarios, Interfaz(u) \/ Envio(u)
      PROVE  /\ alServidor'[c] = <<>> /\ hilo'[c] = <<>> /\ nombre'[c] = Nadie
             /\ lee'[c] = c /\ buffer'[c] = <<>>
  <2>1. alServidor'[c] = alServidor[c]
    BY <1>3, <1>4, ClienteCola
  <2>2. UNCHANGED <<lee, buffer, servidor>>
    BY <1>4, ClienteDeja
  <2> QED
    BY <1>2, <2>1, <2>2 DEF servidor
<1>5. ASSUME NEW d \in Conexiones, RecvPthread(d)
      PROVE  /\ alServidor'[c] = <<>> /\ hilo'[c] = <<>> /\ nombre'[c] = Nadie
             /\ lee'[c] = c /\ buffer'[c] = <<>>
  <2>0. d[1] \in Usuarios
    BY Cs
  <2>1. alServidor'[c] = alServidor[c]
    BY <1>3, <1>5, <2>0, ClienteCola
  <2>2. UNCHANGED servidor /\ receptor[d] # "no"
    BY <1>5, RecvDeja
  <2>3. c # d
    <3>1. d[2] <= conexiones[d[1]]
      BY <2>2 DEF TipoRecepcion
    <3> QED
      BY <1>0, <1>1, <3>1
  <2>4. lee'[c] = lee[c] /\ buffer'[c] = buffer[c]
    BY <1>5, <2>3, RecvDeja
  <2> QED
    BY <1>2, <2>1, <2>2, <2>4 DEF servidor
<1>6. ASSUME NEW d \in Conexiones, Hilo(d)
      PROVE  /\ alServidor'[c] = <<>> /\ hilo'[c] = <<>> /\ nombre'[c] = Nadie
             /\ lee'[c] = c /\ buffer'[c] = <<>>
  <2>1. c # d
    <3>1. d[2] <= conexiones[d[1]]
      BY <1>6, NuevaQuieta
    <3> QED
      BY <1>0, <1>1, <3>1
  <2> QED
    BY <1>2, <1>6, <2>1, HiloPropio
<1>7. CASE UNCHANGED vars
  BY <1>2, <1>7 DEF vars, recepcion, servidor
<1> QED
  BY <1>4, <1>5, <1>6, <1>7 DEF Next
-----------------------------------------------------------------------------
(* The connection in use changes only when the user orders it, or the      *)
(* client ends.                                                            *)
LEMMA SocketCambia ==
    ASSUME EnvioTypeOK, TipoPreguntas, NEW v \in Usuarios, Interfaz(v) \/ Envio(v)
    PROVE  \/ Connect(v) /\ conexiones' = [conexiones EXCEPT ![v] = @ + 1]
           \/ UNCHANGED conexiones /\ (UNCHANGED socket \/ socket' = [socket EXCEPT ![v] = 0])
<1>1. CASE Connect(v)
  BY <1>1 DEF Connect
<1>2. CASE TecleaSinTabla(v)
  BY <1>2 DEF TecleaSinTabla
<1>3. CASE UNCHANGED ajenoOrden
  BY <1>3 DEF ajenoOrden
<1>4. CASE Envio(v)
  BY <1>4 DEF Envio, CierraSocket, Ofrece, EnviaResto, estructura
<1> QED
  BY <1>1, <1>2, <1>3, <1>4, OtrasOrdenes

(* A user with one connection had it before the step, or makes it.         *)
LEMMA SolaDe ==
    ASSUME EnvioTypeOK, EnvioTypeOK', TipoInterfaz, TipoPreguntas, TipoRecepcion, TipoBase, TipoHilo, [Next]_vars,
           NEW u \in Usuarios, UnaSola(u)'
    PROVE  UnaSola(u) \/ (Connect(u) /\ conexiones[u] = 0)
<1>0. /\ conexiones \in [Usuarios -> Nat] /\ socket \in [Usuarios -> Nat]
      /\ conexiones'[u] = 1 /\ socket'[u] = 1
  BY DEF EnvioTypeOK, UnaSola
<1>1. ASSUME NEW v \in Usuarios, Interfaz(v) \/ Envio(v)
      PROVE  UnaSola(u) \/ (Connect(u) /\ conexiones[u] = 0)
  <2>1. CASE Connect(v) /\ conexiones' = [conexiones EXCEPT ![v] = @ + 1]
    <3>1. CASE v = u
      <4>1. conexiones[u] + 1 = 1 /\ conexiones[u] \in Nat
        BY <1>0, <2>1, <3>1
      <4> QED
        BY <2>1, <3>1, <4>1
    <3>2. CASE v # u
      <4>1. conexiones[u] = 1
        BY <1>0, <2>1, <3>2
      <4>2. UNCHANGED socket \/ \E x : socket' = [socket EXCEPT ![v] = x]
        BY <2>1 DEF Connect
      <4>3. socket'[u] = socket[u]
        BY <1>0, <3>2, <4>2
      <4> QED
        BY <1>0, <4>1, <4>3 DEF UnaSola
    <3> QED
      BY <3>1, <3>2
  <2>2. CASE UNCHANGED conexiones /\ (UNCHANGED socket \/ socket' = [socket EXCEPT ![v] = 0])
    <3>1. socket[u] = 1
      BY <1>0, <2>2
    <3> QED
      BY <1>0, <2>2, <3>1 DEF UnaSola
  <2> QED
    BY <1>1, <2>1, <2>2, SocketCambia
<1>2. ASSUME NEW d \in Conexiones, RecvPthread(d)
      PROVE  UnaSola(u)
  BY <1>0, <1>2, RecvDeja DEF UnaSola
<1>3. ASSUME NEW d \in Conexiones, Hilo(d)
      PROVE  UnaSola(u)
  BY <1>0, <1>3, HiloPropio DEF UnaSola, estructura
<1>4. CASE UNCHANGED vars
  BY <1>0, <1>4 DEF UnaSola, vars, estructura
<1> QED
  BY <1>1, <1>2, <1>3, <1>4 DEF Next

(* With one connection there is one thread that receives.                  *)
LEMMA ReceptorSolo ==
    ASSUME EnvioTypeOK, TipoInterfaz, TipoRecepcion, NEW u \in Usuarios, UnaSola(u)
    PROVE  /\ <<u, 1>> \in Conexiones
           /\ \A d \in Conexiones : d[1] = u /\ receptor[d] # "no" => d = <<u, 1>>
<1>1. <<u, 1>> \in Conexiones
  BY DEF UnaSola, TipoInterfaz
<1>2. ASSUME NEW d \in Conexiones, d[1] = u, receptor[d] # "no"
      PROVE  d = <<u, 1>>
  <2>1. d[2] <= 1 /\ d[2] \in Nat \ {0} /\ d = <<d[1], d[2]>>
    BY <1>2, Cs DEF TipoRecepcion, UnaSola
  <2>2. d[2] = 1
    BY <2>1
  <2> QED
    BY <1>2, <2>1, <2>2
<1> QED
  BY <1>1, <1>2

(* Every step keeps Lectura: recv_pthread reads the descriptor of the      *)
(* connection in use, and handles answers with the table complete          *)
(* (inicializar_comandos_recv before the first recv).                      *)
LEMMA LecturaPaso ==
    ASSUME EnvioTypeOK, EnvioTypeOK', TipoInterfaz, TipoInterfaz', TipoPreguntas, TipoRecepcion, TipoBase, TipoHilo,
           Nuevas, Lectura, [Next]_vars
    PROVE  Lectura'
<1> DEFINE Bien(u, c) ==
        /\ lee'[c] = c
        /\ receptor'[c] \in {"entra", "recv", "maneja", "contesta", "contestado"} => tabla'[u]
        /\ receptor'[c] \in {"no", "inicio", "tabla", "entra", "recv", "fin"} => buffer'[c] = <<>>
<1> SUFFICES ASSUME NEW u \in Usuarios, UnaSola(u)', NEW c \in Conexiones, c = <<u, 1>>
             PROVE  Bien(u, c)
  <2>1. ASSUME NEW u \in Usuarios, UnaSola(u)'
        PROVE  <<u, 1>> \in Conexiones
    BY <2>1 DEF UnaSola, TipoInterfaz
  <2> HIDE DEF Bien
  <2>2. ASSUME NEW u \in Usuarios, UnaSola(u)'
        PROVE  Bien(u, <<u, 1>>)
    BY <2>1, <2>2
  <2> QED
    BY <2>2 DEF Lectura, Bien
<1>0. c \in Conexiones
  OBVIOUS
<1>1. CASE Connect(u) /\ conexiones[u] = 0
  <2>1. c[1] = u /\ c[2] = 1 /\ c[2] > conexiones[c[1]] /\ ~(c[2] <= conexiones[c[1]])
    BY <1>1
  <2>2. lee[c] = c /\ buffer[c] = <<>> /\ receptor[c] = "no"
    BY <1>0, <2>1 DEF Nuevas, TipoRecepcion
  <2>3. UNCHANGED <<lee, buffer>>
    BY <1>1, ClienteDeja DEF Interfaz
  <2>4. receptor' = receptor \/ \E d : receptor' = [receptor EXCEPT ![d] = "inicio"]
    BY <1>1 DEF Connect
  <2>5. receptor \in [Conexiones -> LugaresRecv]
    BY DEF TipoRecepcion
  <2>6. receptor'[c] \in {"no", "inicio"}
    BY <1>0, <2>2, <2>4, <2>5
  <2> QED
    BY <2>2, <2>3, <2>6
<1>2. CASE UnaSola(u)
  <2>0. /\ lee[c] = c
        /\ receptor[c] \in {"entra", "recv", "maneja", "contesta", "contestado"} => tabla[u]
        /\ receptor[c] \in {"no", "inicio", "tabla", "entra", "recv", "fin"} => buffer[c] = <<>>
        /\ \A d \in Conexiones : d[1] = u /\ receptor[d] # "no" => d = c
        /\ c[1] = u
    BY <1>2, ReceptorSolo DEF Lectura
  <2>1. /\ receptor \in [Conexiones -> LugaresRecv] /\ lee \in [Conexiones -> Conexiones]
        /\ tabla \in [Usuarios -> BOOLEAN] /\ DOMAIN buffer = Conexiones /\ lee[c][1] = u
    BY <1>0, <2>0 DEF TipoRecepcion
  <2>2. ASSUME UNCHANGED <<lee, buffer>>, tabla'[u] = tabla[u], receptor'[c] = receptor[c]
        PROVE  Bien(u, c)
    BY <2>0, <2>2
  <2>3. ASSUME NEW v \in Usuarios, Interfaz(v) \/ Envio(v)
        PROVE  Bien(u, c)
    <3>1. UNCHANGED <<lee, buffer, tabla>>
      BY <2>3, ClienteDeja
    <3>2. receptor'[c] = receptor[c]
      <4>1. CASE UNCHANGED receptor
        BY <4>1
      <4>2. CASE Connect(v) /\ ~UNCHANGED receptor
        <5>1. receptor' = [receptor EXCEPT ![<<v, conexiones[v] + 1>>] = "inicio"]
              /\ conexiones' = [conexiones EXCEPT ![v] = @ + 1]
          BY <4>2 DEF Connect
        <5>2. c # <<v, conexiones[v] + 1>>
          <6>1. CASE v = u
            <7>1. conexiones'[u] = conexiones[u] + 1 /\ conexiones'[u] = 1 /\ conexiones[u] = 1
              BY <1>2, <5>1, <6>1 DEF UnaSola, EnvioTypeOK
            <7> QED
              BY <7>1
          <6>2. CASE v # u
            BY <6>2
          <6> QED
            BY <6>1, <6>2
        <5> QED
          BY <1>0, <2>1, <5>1, <5>2
      <4> QED
        BY <2>3, <4>1, <4>2, ClienteDeja
    <3> QED
      BY <2>2, <3>1, <3>2
  <2>4. ASSUME NEW d \in Conexiones, RecvPthread(d)
        PROVE  Bien(u, c)
    <3>1. CASE d[1] # u
      <4>1. d # c
        BY <2>0, <3>1
      <4>2. receptor'[c] = receptor[c] /\ lee'[c] = lee[c] /\ buffer'[c] = buffer[c] /\ tabla'[u] = tabla[u]
        BY <1>0, <2>4, <3>1, <4>1, RecvDeja
      <4> QED
        BY <2>0, <4>2
    <3>2. CASE d[1] = u
      <4>0. d = c
        BY <2>0, <2>4, <3>2, RecvDeja
      <4>1. CASE RecvInicio(c)
        <5>1. receptor'[c] = "tabla" /\ receptor[c] = "inicio" /\ UNCHANGED <<lee, buffer>>
          BY <1>0, <2>1, <4>1 DEF RecvInicio, A, sinTabla
        <5> QED
          BY <2>0, <5>1
      <4>2. CASE RecvTabla(c)
        <5>1. receptor'[c] = "entra" /\ receptor[c] = "tabla" /\ tabla'[u] /\ UNCHANGED <<lee, buffer>>
          BY <1>0, <2>0, <2>1, <4>2 DEF RecvTabla, A, sinTabla
        <5> QED
          BY <2>0, <5>1
      <4>3. CASE RecvEntra(c)
        <5>1. receptor[c] = "entra" /\ UNCHANGED <<buffer, tabla>>
          BY <4>3 DEF RecvEntra
        <5>2. CASE lee' = [lee EXCEPT ![c] = <<u, socket[u]>>] /\ A(c, "recv")
          <6>1. lee'[c] = <<u, 1>> /\ receptor'[c] = "recv"
            BY <1>0, <1>2, <2>1, <5>2 DEF A, UnaSola
          <6> QED
            BY <2>0, <5>1, <6>1
        <5>3. CASE A(c, "fin") /\ UNCHANGED lee
          <6>1. receptor'[c] = "fin"
            BY <1>0, <2>1, <5>3 DEF A
          <6> QED
            BY <2>0, <5>1, <5>3, <6>1
        <5> QED
          BY <2>0, <4>3, <5>2, <5>3 DEF RecvEntra
      <4>4. CASE RecvMensajes(c)
        <5>1. /\ receptor[c] = "recv" /\ UNCHANGED <<lee, tabla>>
              /\ A(c, "maneja") \/ (A(c, "fin") /\ UNCHANGED buffer)
          BY <4>4 DEF RecvMensajes
        <5>2. receptor'[c] = "maneja" \/ (receptor'[c] = "fin" /\ UNCHANGED buffer)
          BY <1>0, <2>1, <5>1 DEF A
        <5> QED
          BY <2>0, <5>1, <5>2
      <4>5. CASE Maneja(c)
        <5>1. /\ receptor[c] = "maneja" /\ UNCHANGED <<lee, tabla>>
              /\ buffer' = [buffer EXCEPT ![c] = Tail(buffer[c])]
              /\ \/ A(c, "contesta")
                 \/ A(c, "entra") /\ Len(buffer[c]) = 1
                 \/ A(c, "maneja")
          BY <4>5 DEF Maneja
        <5>2. buffer'[c] = Tail(buffer[c])
          BY <1>0, <2>1, <5>1
        <5>3. \/ receptor'[c] \in {"contesta", "maneja"}
              \/ receptor'[c] = "entra" /\ Len(buffer[c]) = 1
          BY <1>0, <2>1, <5>1 DEF A
        <5>4. Len(buffer[c]) = 1 => Tail(buffer[c]) = <<>>
          <6>1. buffer[c] \in Seq(MensajesPara(u)) /\ buffer[c] # <<>>
            BY <1>0, <2>0, <5>1 DEF TipoRecepcion
          <6>2. Tail(buffer[c]) \in Seq(MensajesPara(u)) /\ Len(Tail(buffer[c])) = Len(buffer[c]) - 1
            BY <6>1, HeadTailProperties
          <6>3. Len(buffer[c]) = 1 => Len(Tail(buffer[c])) = 0
            BY <6>2
          <6> QED
            BY <6>2, <6>3, EmptySeq
        <5> QED
          BY <2>0, <5>1, <5>2, <5>3, <5>4
      <4>6. CASE Contesta(c)
        <5>1. receptor[c] = "contesta" /\ UNCHANGED <<lee, tabla, buffer>> /\ A(c, "contestado")
          BY <4>6 DEF Contesta
        <5>2. receptor'[c] = "contestado"
          BY <1>0, <2>1, <5>1 DEF A
        <5> QED
          BY <2>0, <5>1, <5>2
      <4>7. CASE RecvVuelve(c)
        <5>1. receptor[c] = "contestado" /\ UNCHANGED <<lee, tabla, buffer>>
              /\ A(c, IF buffer[c] = <<>> THEN "entra" ELSE "maneja")
          BY <4>7 DEF RecvVuelve
        <5>2. receptor'[c] = IF buffer[c] = <<>> THEN "entra" ELSE "maneja"
          BY <1>0, <2>1, <5>1 DEF A
        <5> QED
          BY <2>0, <5>1, <5>2
      <4> QED
        BY <2>4, <4>0, <4>1, <4>2, <4>3, <4>4, <4>5, <4>6, <4>7 DEF RecvPthread
    <3> QED
      BY <3>1, <3>2
  <2>5. ASSUME NEW d \in Conexiones, Hilo(d)
        PROVE  Bien(u, c)
    <3>1. UNCHANGED <<receptor, lee, buffer, tabla>>
      BY <2>5, HiloPropio
    <3> QED
      BY <2>2, <3>1
  <2>6. CASE UNCHANGED vars
    <3>1. UNCHANGED <<receptor, lee, buffer, tabla>>
      BY <2>6 DEF vars, recepcion
    <3> QED
      BY <2>2, <3>1
  <2> HIDE DEF Bien
  <2> QED
    BY <2>3, <2>4, <2>5, <2>6 DEF Next
<1> HIDE DEF Bien
<1> QED
  BY <1>1, <1>2, SolaDe
-----------------------------------------------------------------------------
(* Every step keeps PrimerNick: nick and user find the first nick at the   *)
(* head of the queue of a connection or not at all.                        *)
LEMMA PrimerNickPaso ==
    ASSUME EnvioTypeOK, TipoInterfaz, TipoOrdenes, TipoBase, TipoHilo, Nuevas, PrimerNick, [Next]_vars
    PROVE  PrimerNick'
<1> DEFINE Escritas == \A v \in Usuarios : \A m \in escribe'[v] : m.tipo = "NICK" => m.a # <<v, 1>>
           Bien(c) == /\ SoloPrimero(c[1], alServidor'[c])
                      /\ nombre'[c] # Nadie => SinPrimero(c[1], alServidor'[c])
<1> SUFFICES Escritas /\ \A c \in Conexiones : Bien(c)
  BY DEF PrimerNick, SoloPrimero, SinPrimero, Registrado
<1>0. /\ \A v \in Usuarios : \A m \in escribe[v] : m.tipo = "NICK" => m.a # <<v, 1>>
      /\ \A c \in Conexiones : /\ SoloPrimero(c[1], alServidor[c])
                               /\ nombre[c] # Nadie => SinPrimero(c[1], alServidor[c])
                               /\ alServidor[c] \in Seq(OrdenesDe(c[1]))
  BY DEF PrimerNick, Registrado, TipoOrdenes
<1>1. ASSUME NEW u \in Usuarios, Interfaz(u) \/ Envio(u) \/ \E d \in Conexiones : d[1] = u /\ RecvPthread(d),
             UNCHANGED servidor
      PROVE  Escritas /\ \A c \in Conexiones : Bien(c)
  <2>0. UNCHANGED nombre
    BY <1>1 DEF servidor
  <2>1. /\ Escritas
        /\ \A c \in Conexiones : alServidor'[c] = alServidor[c] \/ Crecio(c) \/ Conecta(c)
    BY <1>1, ClienteCola
  <2>2. ASSUME NEW c \in Conexiones, alServidor'[c] = alServidor[c]
        PROVE  Bien(c)
    BY <1>0, <2>0, <2>2
  <2>3. ASSUME NEW c \in Conexiones, Crecio(c)
        PROVE  Bien(c)
    <3>1. PICK T : \E t \in Seq(T) : SinPrimero(c[1], t) /\ alServidor'[c] = alServidor[c] \o t
      BY <2>3 DEF Crecio
    <3>2. PICK t \in Seq(T) : SinPrimero(c[1], t) /\ alServidor'[c] = alServidor[c] \o t
      BY <3>1
    <3>3. /\ SoloPrimero(c[1], alServidor[c]) => SoloPrimero(c[1], alServidor[c] \o t)
          /\ SinPrimero(c[1], alServidor[c]) => SinPrimero(c[1], alServidor[c] \o t)
      BY <1>0, <3>2, PrimeroMas
    <3> QED
      BY <1>0, <2>0, <3>2, <3>3
  <2>4. ASSUME NEW c \in Conexiones, Conecta(c)
        PROVE  Bien(c)
    <3>1. nombre[c] = Nadie
      <4>1. c[2] > conexiones[c[1]]
        BY <2>4, Cs DEF Conecta, EnvioTypeOK
      <4> QED
        BY <4>1 DEF Nuevas
    <3> DEFINE s == <<Orden("NICK", <<c[1], 1>>, 0), Orden("USER", <<c[1], 1>>, Sigue(c[1]))>>
    <3>2. Len(s) = 2 /\ s[2].tipo = "USER"
      BY DEF Orden
    <3>3. alServidor'[c] = s
      BY <2>4 DEF Conecta
    <3> HIDE DEF s
    <3>4. SoloPrimero(c[1], s)
      BY <3>2 DEF SoloPrimero
    <3> QED
      BY <2>0, <3>1, <3>3, <3>4
  <2> HIDE DEF Bien
  <2> QED
    BY <2>1, <2>2, <2>3, <2>4
<1>2. ASSUME NEW u \in Usuarios, Interfaz(u) \/ Envio(u)
      PROVE  Escritas /\ \A c \in Conexiones : Bien(c)
  BY <1>1, <1>2, ClienteDeja
<1>3. ASSUME NEW d \in Conexiones, RecvPthread(d)
      PROVE  Escritas /\ \A c \in Conexiones : Bien(c)
  <2>1. d[1] \in Usuarios
    BY Cs
  <2>2. UNCHANGED servidor
    BY <1>3 DEF RecvPthread, RecvInicio, RecvTabla, RecvEntra, RecvMensajes, Maneja, Contesta, RecvVuelve, sinTabla
  <2> HIDE DEF Escritas, Bien
  <2> QED
    BY <1>1, <1>3, <2>1, <2>2
<1>4. ASSUME NEW d \in Conexiones, Hilo(d)
      PROVE  Escritas /\ \A c \in Conexiones : Bien(c)
  <2>1. Escritas
    BY <1>0, <1>4, HiloPropio
  <2>2. ASSUME NEW c \in Conexiones \ {d}
        PROVE  Bien(c)
    <3>1. nombre'[c] = nombre[c] /\ alServidor'[c] = alServidor[c]
      BY <1>4, HiloPropio
    <3> QED
      BY <1>0, <3>1
  <2>3. Bien(d)
    <3>1. CASE ProcesaComando(d)
      <4>1. alServidor[d] # <<>> /\ alServidor' = [alServidor EXCEPT ![d] = Tail(@)]
        BY <3>1 DEF ProcesaComando, SinRegistrar, Nick, User, Join, Join0, PartirCanal, Kick, Mode,
           SoloContesta, Privmsg, Quit, ComandoVacio, Recibe
      <4>2. alServidor'[d] = Tail(alServidor[d])
        BY <4>1 DEF EnvioTypeOK
      <4>3. SinPrimero(d[1], Tail(alServidor[d])) /\ SoloPrimero(d[1], Tail(alServidor[d]))
        BY <1>0, <4>1, PrimeroCola
      <4> QED
        BY <4>2, <4>3
    <3>2. CASE ListNicks(d) \/ EnviarANick(d) \/ Enviar(d) \/ ListarNames(d)
      <4>1. UNCHANGED <<nombre, alServidor>>
        BY <3>2 DEF ListNicks, EnviarANick, Enviar, ListarNames, sinEnvios
      <4> QED
        BY <1>0, <4>1
    <3>3. CASE CerrarConexion(d)
      <4>1. UNCHANGED alServidor /\ nombre' = [nombre EXCEPT ![d] = Nadie]
        BY <3>3 DEF CerrarConexion
      <4>2. nombre'[d] = Nadie
        BY <4>1 DEF TipoBase
      <4> QED
        BY <1>0, <4>1, <4>2
    <3> QED
      BY <1>4, <3>1, <3>2, <3>3 DEF Hilo
  <2> HIDE DEF Bien
  <2> QED
    BY <2>1, <2>2, <2>3
<1>5. CASE UNCHANGED vars
  <2>1. UNCHANGED <<escribe, alServidor, nombre>>
    BY <1>5 DEF vars, envio, servidor
  <2> QED
    BY <1>0, <2>1
<1> HIDE DEF Escritas, Bien
<1> QED
  BY <1>2, <1>3, <1>4, <1>5 DEF Next
-----------------------------------------------------------------------------
(* One send that makes nobody leave.                                       *)
LEMMA QuedaUno ==
    ASSUME NEW u, NEW p, ~Echa(u, p.msg)
    PROVE  QuedaHilo(u, <<p>>) /\ <<p>> \in Seq({p})
BY DEF QuedaHilo

(* An answer that makes nobody leave.                                      *)
LEMMA QuedaRespuesta ==
    ASSUME NEW u, NEW tipo, tipo \notin {"ERR_BANNEDFROMCHAN", "PART"}, NEW n
    PROVE  /\ QuedaHilo(u, Respuesta(tipo, n))
           /\ \E S : Respuesta(tipo, n) \in Seq(S)
<1> DEFINE p == Aqui(Mensaje(tipo, Servicio, {}, n))
<1>1. ~Echa(u, p.msg)
  BY DEF Echa, Aqui, Mensaje
<1>2. Respuesta(tipo, n) = <<p>>
  BY DEF Respuesta
<1> HIDE DEF p
<1>3. QuedaHilo(u, <<p>>) /\ <<p>> \in Seq({p})
  BY <1>1, QuedaUno
<1> QED
  BY <1>2, <1>3

(* One more answer that does not make u leave: what it will see stays.     *)
LEMMA RecibiraMas ==
    ASSUME TipoRecepcion, NEW u, <<u, 1>> \in Conexiones, Recibira(u), UNCHANGED <<buffer, abiertas, vista>>,
           \/ alCliente'[<<u, 1>>] = alCliente[<<u, 1>>]
           \/ \E m : alCliente'[<<u, 1>>] = Append(alCliente[<<u, 1>>], m) /\ ~Echa(u, m)
    PROVE  Recibira(u)'
<1> DEFINE c == <<u, 1>>
           a == alCliente[c]
<1>0. a \in Seq(MensajesPara(u))
  BY DEF TipoRecepcion
<1>1. Ve(u)' <=> Ve(u)
  BY DEF Ve, EnCanal
<1>2. ASSUME NEW m, ~Echa(u, m), alCliente'[c] = Append(a, m)
      PROVE  Recibira(u)'
  <2>1. a \in Seq(MensajesPara(u) \cup {m}) /\ m \in MensajesPara(u) \cup {m}
    BY <1>0, SeqMonotonic
  <2>2. /\ Queda(u, a) => Queda(u, Append(a, m))
        /\ Vuelve(u, a) => Vuelve(u, Append(a, m))
    <3> HIDE DEF a
    <3> QED
      BY <1>2, <2>1, ColaMas
  <2> QED
    BY <1>1, <1>2, <2>2 DEF Recibira
<1>3. CASE alCliente'[c] = a
  BY <1>1, <1>3 DEF Recibira
<1> QED
  BY <1>2, <1>3

(* A send of the connection's own thread to others, or the look-up of whom *)
(* to send to.                                                             *)
LEMMA VeraEnvio ==
    ASSUME TipoRecepcion, TipoHilo, NEW u \in Usuarios, <<u, 1>> \in Conexiones, Vera(u),
           UNCHANGED <<buffer, abiertas, vista>>,
           hilo[<<u, 1>>] # <<>>, Head(hilo[<<u, 1>>]).paso # "aqui",
           NEW S, NEW s \in Seq(S), hilo'[<<u, 1>>] = s \o Tail(hilo[<<u, 1>>]),
           QuedaHilo(u, hilo[<<u, 1>>]) => QuedaHilo(u, s),
           \/ alCliente'[<<u, 1>>] = alCliente[<<u, 1>>]
           \/ \E m : /\ alCliente'[<<u, 1>>] = Append(alCliente[<<u, 1>>], m)
                     /\ QuedaHilo(u, hilo[<<u, 1>>]) => ~Echa(u, m)
    PROVE  Vera(u)'
<1> DEFINE c == <<u, 1>>
           h == hilo[c]
           t == Tail(h)
<1>0. h \in Seq(PasosDe(c)) /\ h # <<>> /\ t \in Seq(PasosDe(c))
  BY CabezaCola DEF TipoHilo
<1>1. /\ QuedaHilo(u, h) => QuedaHilo(u, t)
      /\ VuelveHilo(u, h) => VuelveHilo(u, t)
  <2> HIDE DEF h
  <2>1. /\ QuedaHilo(u, h) => ~Echa(u, Head(h).msg) /\ QuedaHilo(u, Tail(h))
        /\ VuelveHilo(u, h) => \/ VuelveHilo(u, Tail(h))
                               \/ Head(h).paso = "aqui" /\ Entra(u, Head(h).msg) /\ QuedaHilo(u, Tail(h))
    BY <1>0, HiloSigue
  <2> QED
    BY <2>1 DEF h
<1>2. /\ QuedaHilo(u, s) /\ QuedaHilo(u, t) => QuedaHilo(u, s \o t)
      /\ VuelveHilo(u, t) => VuelveHilo(u, s \o t)
  <2> HIDE DEF t
  <2> QED
    BY <1>0, HiloMas
<1>3. CASE VuelveHilo(u, h)
  BY <1>1, <1>2, <1>3 DEF Vera
<1>4. CASE QuedaHilo(u, h) /\ Recibira(u)
  <2>1. Recibira(u)'
    BY <1>4, RecibiraMas
  <2> QED
    BY <1>1, <1>2, <1>4, <2>1 DEF Vera
<1> QED
  BY <1>3, <1>4 DEF Vera
-----------------------------------------------------------------------------
(* What a command leaves to be sent to its author. *)
Dice(u, c) ==
    \/ VuelveHilo(u, hilo'[c])
    \/ QuedaHilo(u, hilo'[c]) /\ c \in miembros /\ nombre[c] = <<u, 1>>

(* A command that is only answered.                                        *)
LEMMA DiceRespuesta ==
    ASSUME TipoHilo, NEW u, NEW c \in Conexiones, NEW tipo, tipo \notin {"ERR_BANNEDFROMCHAN", "PART"}, NEW n,
           Manda(c, Respuesta(tipo, n)), c \in miembros, nombre[c] = <<u, 1>>
    PROVE  Dice(u, c)
<1>1. hilo'[c] = Respuesta(tipo, n)
  BY DEF Manda, TipoHilo
<1> QED
  BY <1>1, QuedaRespuesta DEF Dice

(* nick: a registered user does not get back the nick of CONNECT.          *)
LEMMA DiceNick ==
    ASSUME EnvioTypeOK, TipoOrdenes, TipoBase, TipoHilo, PrimerNick, NEW u, NEW c \in Conexiones, c = <<u, 1>>,
           Nick(c), c \in miembros', nombre'[c] = <<u, 1>>
    PROVE  Dice(u, c)
<1> DEFINE m == Head(alServidor[c])
<1>0. /\ alServidor[c] # <<>> /\ m.tipo = "NICK" /\ UNCHANGED miembros
  BY DEF Nick, Recibe, delCanal
<1>1. CASE ~Registrado(c) /\ UNCHANGED nombre
  BY <1>1 DEF Registrado, Nadie
<1>2. CASE Registrado(c) /\ nombre' = [nombre EXCEPT ![c] = m.a]
  <2>1. m.a = <<u, 1>>
    BY <1>2 DEF TipoBase
  <2>2. SinPrimero(u, alServidor[c])
    BY <1>2 DEF PrimerNick
  <2>3. Len(alServidor[c]) \in Nat \ {0} /\ m = alServidor[c][1]
    <3>1. alServidor[c] \in Seq(OrdenesDe(u))
      BY DEF TipoOrdenes
    <3> QED
      BY <1>0, <3>1, HeadTailProperties, EmptySeq, LenProperties
  <2>4. 1 \in 1..Len(alServidor[c])
    BY <2>3
  <2>5. m.tipo = "NICK" => m.a # <<u, 1>>
    <3> HIDE DEF m
    <3> QED
      BY <2>2, <2>3, <2>4 DEF SinPrimero
  <2> QED
    BY <1>0, <2>1, <2>5
<1>3. CASE Manda(c, Respuesta("ERR_NICKNAMEINUSE", m.orden)) /\ UNCHANGED nombre
  <2> HIDE DEF m
  <2> QED
    BY <1>0, <1>3, DiceRespuesta
<1> QED
  BY <1>1, <1>2, <1>3 DEF Nick

(* join: whoever gets into the channel gets the echo of JOIN, after the    *)
(* rest of the channel.                                                    *)
LEMMA DiceJoin ==
    ASSUME EnvioTypeOK, TipoOrdenes, TipoBase, TipoHilo, NEW u, NEW c \in Conexiones, c = <<u, 1>>,
           Join(c), c \in miembros', nombre'[c] = <<u, 1>>
    PROVE  Dice(u, c)
<1> DEFINE m == Head(alServidor[c])
           eco == Mensaje("JOIN", nombre[c], {}, m.orden)
<1>0. nombre[c] = <<u, 1>>
  BY DEF Join
<1>1. CASE Manda(c, <<AlCanal(eco, {nombre[c]}), Aqui(eco), Names>>)
  <2> DEFINE s == <<AlCanal(eco, {nombre[c]}), Aqui(eco), Names>>
  <2>1. hilo'[c] = s
    BY <1>1 DEF Manda, TipoHilo
  <2>2. Len(s) = 3 /\ s[2].paso = "aqui" /\ Entra(u, s[2].msg) /\ ~Echa(u, s[3].msg)
    BY <1>0 DEF Aqui, Mensaje, Names, Entra, Echa
  <2> HIDE DEF s
  <2>3. 2 \in 1..3 /\ \A j \in (2 + 1)..3 : j = 3
    OBVIOUS
  <2>4. VuelveHilo(u, s)
    BY <2>2, <2>3 DEF VuelveHilo
  <2> QED
    BY <2>1, <2>4 DEF Dice
<1>2. CASE c \in miembros /\ Manda(c, Respuesta("ERR_USERONCHANNEL", m.orden))
  <2> HIDE DEF m
  <2> QED
    BY <1>0, <1>2, DiceRespuesta
<1>3. CASE c \notin miembros /\ UNCHANGED miembros
  BY <1>3
<1> QED
  BY <1>1, <1>2, <1>3 DEF Join

(* kick: the author is told no more than the channel.                      *)
LEMMA DiceKick ==
    ASSUME EnvioTypeOK, TipoBase, TipoHilo, NEW u, NEW c \in Conexiones, c = <<u, 1>>,
           Kick(c), c \in miembros', nombre'[c] = <<u, 1>>
    PROVE  Dice(u, c)
<1> DEFINE m == Head(alServidor[c])
           aviso == Mensaje("KICK", nombre[c], {m.a}, m.orden)
<1>0. nombre[c] = <<u, 1>> /\ c \in miembros
  BY DEF Kick, Sale, delCanal
<1>1. CASE Manda(c, <<AlCanal(aviso, {m.a}), ANicks(aviso, {m.a})>>)
  <2> DEFINE s == <<AlCanal(aviso, {m.a}), ANicks(aviso, {m.a})>>
  <2>1. hilo'[c] = s
    BY <1>1 DEF Manda, TipoHilo
  <2>2. Len(s) = 2 /\ ~Echa(u, s[1].msg) /\ ~Echa(u, s[2].msg)
    BY DEF AlCanal, ANicks, Mensaje, Echa
  <2> HIDE DEF s
  <2>3. QuedaHilo(u, s)
    BY <2>2 DEF QuedaHilo
  <2> QED
    BY <1>0, <2>1, <2>3 DEF Dice
<1>2. CASE \E tipo \in {"ERR_NOTONCHANNEL", "ERR_CHANOPRIVSNEEDED"} : Manda(c, Respuesta(tipo, m.orden))
  <2> HIDE DEF m
  <2> QED
    BY <1>0, <1>2, DiceRespuesta
<1> QED
  BY <1>1, <1>2 DEF Kick

(* The commands that let nobody in; partirCanal leaves.                    *)
LEMMA DiceOtras ==
    ASSUME EnvioTypeOK, TipoBase, TipoHilo, NEW u, NEW c \in Conexiones, c = <<u, 1>>,
           SinRegistrar(c) \/ User(c) \/ Join0(c) \/ PartirCanal(c) \/ Mode(c) \/ SoloContesta(c)
             \/ Privmsg(c) \/ Quit(c) \/ ComandoVacio(c),
           c \in miembros', nombre'[c] = <<u, 1>>
    PROVE  Dice(u, c)
<1> DEFINE m == Head(alServidor[c])
<1>1. CASE SinRegistrar(c)
  BY <1>1 DEF SinRegistrar, Registrado, Nadie
<1>2. CASE User(c)
  <2>1. UNCHANGED miembros
    BY <1>2 DEF User, delCanal
  <2>2. c \notin temporal
    BY <2>1 DEF TipoBase
  <2>3. Manda(c, Respuesta("ERR_NONICKNAMEGIVEN", m.orden)) /\ UNCHANGED nombre
    BY <1>2, <2>2 DEF User
  <2> HIDE DEF m
  <2> QED
    BY <2>1, <2>3, DiceRespuesta
<1>3. CASE Join0(c)
  <2>1. Manda(c, Respuesta("ERR_NOSUCHCHANNEL", m.orden)) /\ UNCHANGED <<nombre, miembros>>
    BY <1>3 DEF Join0, delCanal
  <2> HIDE DEF m
  <2> QED
    BY <2>1, DiceRespuesta
<1>4. CASE PartirCanal(c)
  <2>1. c \in miembros => miembros' = miembros \ {c}
    BY <1>4 DEF PartirCanal, Sale
  <2>2. c \notin miembros => UNCHANGED miembros
    BY <1>4 DEF PartirCanal, delCanal
  <2> QED
    BY <2>1, <2>2
<1>5. CASE Mode(c)
  <2>1. /\ UNCHANGED <<nombre, miembros>>
        /\ \E tipo \in {"MODE", "ERR_CHANOPRIVSNEEDED"} : Manda(c, Respuesta(tipo, m.orden))
    BY <1>5 DEF Mode
  <2> HIDE DEF m
  <2> QED
    BY <2>1, DiceRespuesta
<1>6. CASE SoloContesta(c)
  <2>1. /\ UNCHANGED <<nombre, miembros>>
        /\ \E tipo \in {"TOPIC", "WHOIS", "AWAY"} : Manda(c, Respuesta(tipo, m.orden))
    BY <1>6 DEF SoloContesta, delCanal
  <2> HIDE DEF m
  <2> QED
    BY <2>1, DiceRespuesta
<1>7. CASE Privmsg(c)
  <2> DEFINE texto == Mensaje(m.tipo, nombre[c], {}, 0)
  <2>1. /\ UNCHANGED <<nombre, miembros>>
        /\ m.tipo \in {"TEXTO", "PRIVADO", "FSEND", "FCANCEL"}
        /\ Manda(c, <<AlCanal(texto, {nombre[c]})>>) \/ Manda(c, <<ANicks(texto, {m.a})>>)
    BY <1>7 DEF Privmsg, delCanal, Recibe
  <2>2. ~Echa(u, AlCanal(texto, {nombre[c]}).msg) /\ ~Echa(u, ANicks(texto, {m.a}).msg)
    BY <2>1 DEF Mensaje, AlCanal, ANicks, Echa
  <2> HIDE DEF texto, m
  <2>3. QuedaHilo(u, <<AlCanal(texto, {nombre[c]})>>) /\ QuedaHilo(u, <<ANicks(texto, {m.a})>>)
    BY <2>2, QuedaUno
  <2>4. hilo'[c] \in {<<AlCanal(texto, {nombre[c]})>>, <<ANicks(texto, {m.a})>>}
    BY <2>1 DEF Manda, TipoHilo
  <2> QED
    BY <2>1, <2>3, <2>4 DEF Dice
<1>8. CASE Quit(c)
  <2> DEFINE p == Aqui(Mensaje("NOTICE", Servicio, {}, 0))
  <2>1. UNCHANGED <<nombre, miembros>> /\ Manda(c, Append(<<p>>, Fin))
    BY <1>8 DEF Quit, delCanal, Respuesta
  <2>2. ~Echa(u, p.msg) /\ ~Echa(u, Fin.msg)
    BY DEF Echa, Aqui, Mensaje, Fin
  <2> HIDE DEF p
  <2>3. QuedaHilo(u, <<p>>) /\ <<p>> \in Seq({p}) /\ QuedaHilo(u, <<Fin>>) /\ <<Fin>> \in Seq({Fin})
    BY <2>2, QuedaUno
  <2>4. Append(<<p>>, Fin) = <<p>> \o <<Fin>>
    BY <2>3, MasUno
  <2>5. QuedaHilo(u, <<p>> \o <<Fin>>)
    BY <2>3, HiloMas
  <2>6. hilo'[c] = <<p>> \o <<Fin>>
    BY <2>1, <2>4 DEF Manda, TipoHilo
  <2> QED
    BY <2>1, <2>5, <2>6 DEF Dice
<1>9. CASE ComandoVacio(c)
  <2>1. Manda(c, Respuesta("ERR_UNKNOWNCOMMAND", 0)) /\ UNCHANGED <<nombre, miembros>>
    BY <1>9 DEF ComandoVacio, delCanal
  <2> QED
    BY <2>1, DiceRespuesta
<1> QED
  BY <1>1, <1>2, <1>3, <1>4, <1>5, <1>6, <1>7, <1>8, <1>9

(* A command of the connection in use leaves a client on the channel that  *)
(* sees itself, or will.                                                   *)
LEMMA ProcesaPropia ==
    ASSUME EnvioTypeOK, TipoOrdenes, TipoRecepcion, TipoBase, TipoHilo, PrimerNick,
           NEW u, NEW c \in Conexiones, c = <<u, 1>>, ProcesaComando(c), c \in miembros', nombre'[c] = <<u, 1>>,
           c \in miembros /\ nombre[c] = <<u, 1>> => Vera(u), UNCHANGED <<buffer, abiertas, vista>>
    PROVE  Vera(u)'
<1>1. hilo[c] = <<>> /\ UNCHANGED alCliente
  BY DEF ProcesaComando, SinRegistrar, Nick, User, Join, Join0, PartirCanal, Kick, Mode,
         SoloContesta, Privmsg, Quit, ComandoVacio, Recibe
<1>2. Dice(u, c)
  BY DiceNick, DiceJoin, DiceKick, DiceOtras DEF ProcesaComando
<1>3. CASE VuelveHilo(u, hilo'[c])
  BY <1>3 DEF Vera
<1>4. CASE QuedaHilo(u, hilo'[c]) /\ Vera(u)
  <2>1. Recibira(u)
    BY <1>1, <1>4, ColaVacia DEF Vera
  <2>2. Recibira(u)'
    BY <1>1, <2>1, RecibiraMas
  <2> QED
    BY <1>4, <2>2 DEF Vera
<1> QED
  BY <1>2, <1>3, <1>4 DEF Dice
-----------------------------------------------------------------------------
(* enviarMensajeACanal copies the nicks of the channel.                    *)
LEMMA ListNicksPropia ==
    ASSUME TipoRecepcion, TipoHilo, NEW u \in Usuarios, <<u, 1>> \in Conexiones, Vera(u),
           ListNicks(<<u, 1>>), UNCHANGED <<buffer, abiertas, vista>>
    PROVE  Vera(u)'
<1> DEFINE c == <<u, 1>>
           h == Head(hilo[c])
           nicks == Nombres(miembros) \ h.nicks
           s == IF miembros = {} THEN Respuesta("ERR_NOSUCHNICK", 0)
                ELSE IF nicks = {} THEN <<>> ELSE <<ANicks(h.msg, nicks)>>
<1>1. /\ hilo[c] # <<>> /\ h.paso # "aqui"
      /\ hilo'[c] = s \o Tail(hilo[c])
      /\ UNCHANGED alCliente
  BY DEF ListNicks, Paso, Despues, Manda, TipoHilo
<1>2. QuedaHilo(u, hilo[c]) => ~Echa(u, h.msg)
  BY <1>1, HiloSigue DEF TipoHilo
<1>3. /\ QuedaHilo(u, hilo[c]) => QuedaHilo(u, s)
      /\ \E S : s \in Seq(S)
  <2>1. CASE miembros = {}
    BY <2>1, QuedaRespuesta
  <2>2. CASE miembros # {} /\ nicks = {}
    <3>1. <<>> \in Seq({})
      OBVIOUS
    <3>2. s = <<>>
      BY <2>2
    <3> QED
      BY <3>1, <3>2, ColaVacia
  <2>3. CASE miembros # {} /\ nicks # {}
    <3> DEFINE p == ANicks(h.msg, nicks)
    <3>1. s = <<p>> /\ p.msg = h.msg
      BY <2>3 DEF ANicks
    <3> HIDE DEF p, s
    <3>2. <<p>> \in Seq({p})
      OBVIOUS
    <3>3. ~Echa(u, p.msg) => QuedaHilo(u, <<p>>)
      BY QuedaUno
    <3> QED
      BY <1>2, <3>1, <3>2, <3>3
  <2> QED
    BY <2>1, <2>2, <2>3
<1> HIDE DEF s
<1>4. PICK S : s \in Seq(S)
  BY <1>3
<1> QED
  BY <1>1, <1>3, <1>4, VeraEnvio

(* enviarMensajePrivado sends to one nick, or tells the author that it is  *)
(* gone.                                                                   *)
LEMMA EnviarANickPropia ==
    ASSUME TipoRecepcion, TipoHilo, NEW u \in Usuarios, <<u, 1>> \in Conexiones, Vera(u),
           EnviarANick(<<u, 1>>), UNCHANGED <<buffer, abiertas, vista>>
    PROVE  Vera(u)'
<1> DEFINE c == <<u, 1>>
           h == Head(hilo[c])
<1>1. hilo[c] # <<>> /\ h.paso # "aqui"
  BY DEF EnviarANick, Paso
<1>2. QuedaHilo(u, hilo[c]) => ~Echa(u, h.msg)
  BY <1>1, HiloSigue DEF TipoHilo
<1>3. PICK n \in h.nicks :
        LET quedan == IF h.nicks = {n} THEN <<>> ELSE <<ANicks(h.msg, h.nicks \ {n})>> IN
            \/ \E d \in Vivos(n) :
                /\ alCliente' = [alCliente EXCEPT ![d] =
                        Append(@, IF d = c THEN h.msg ELSE [h.msg EXCEPT !.orden = 0])]
                /\ Despues(c, quedan)
            \/ /\ \/ Despues(c, quedan)
                  \/ Despues(c, Respuesta("ERR_NOSUCHNICK", 0) \o quedan)
               /\ UNCHANGED alCliente
  BY DEF EnviarANick
<1> DEFINE quedan == IF h.nicks = {n} THEN <<>> ELSE <<ANicks(h.msg, h.nicks \ {n})>>
           s == Respuesta("ERR_NOSUCHNICK", 0) \o quedan
<1>4. /\ QuedaHilo(u, hilo[c]) => QuedaHilo(u, quedan)
      /\ \E S : quedan \in Seq(S)
  <2>1. CASE h.nicks = {n}
    <3>1. <<>> \in Seq({}) /\ quedan = <<>>
      BY <2>1
    <3> QED
      BY <3>1, ColaVacia
  <2>2. CASE h.nicks # {n}
    <3> DEFINE p == ANicks(h.msg, h.nicks \ {n})
    <3>1. quedan = <<p>> /\ p.msg = h.msg
      BY <2>2 DEF ANicks
    <3> HIDE DEF p, quedan
    <3>2. <<p>> \in Seq({p})
      OBVIOUS
    <3>3. ~Echa(u, p.msg) => QuedaHilo(u, <<p>>)
      BY QuedaUno
    <3> QED
      BY <1>2, <3>1, <3>2, <3>3
  <2> QED
    BY <2>1, <2>2
<1>5. /\ QuedaHilo(u, hilo[c]) => QuedaHilo(u, s)
      /\ \E S : s \in Seq(S)
  <2> HIDE DEF quedan
  <2>1. PICK S1 : quedan \in Seq(S1)
    BY <1>4
  <2>2. PICK S2 : Respuesta("ERR_NOSUCHNICK", 0) \in Seq(S2)
    BY QuedaRespuesta
  <2>3. QuedaHilo(u, Respuesta("ERR_NOSUCHNICK", 0))
    BY QuedaRespuesta
  <2>4. quedan \in Seq(S1 \cup S2) /\ Respuesta("ERR_NOSUCHNICK", 0) \in Seq(S1 \cup S2)
    BY <2>1, <2>2, SeqMonotonic
  <2>5. s \in Seq(S1 \cup S2)
    BY <2>4, ConcatProperties, Zenon
  <2>6. QuedaHilo(u, quedan) => QuedaHilo(u, s)
    BY <2>1, <2>2, <2>3, HiloMas
  <2> QED
    BY <1>4, <2>5, <2>6
<1>6. \/ /\ hilo'[c] = quedan \o Tail(hilo[c])
         /\ \/ alCliente'[c] = alCliente[c]
            \/ alCliente'[c] = Append(alCliente[c], h.msg)
      \/ /\ hilo'[c] = s \o Tail(hilo[c])
         /\ UNCHANGED alCliente
  <2>1. ASSUME Despues(c, quedan)
        PROVE  hilo'[c] = quedan \o Tail(hilo[c])
    BY <2>1 DEF Despues, Manda, TipoHilo
  <2>2. ASSUME Despues(c, s)
        PROVE  hilo'[c] = s \o Tail(hilo[c])
    BY <2>2 DEF Despues, Manda, TipoHilo
  <2>3. ASSUME NEW d, alCliente' = [alCliente EXCEPT ![d] =
                        Append(@, IF d = c THEN h.msg ELSE [h.msg EXCEPT !.orden = 0])]
        PROVE  alCliente'[c] = alCliente[c] \/ alCliente'[c] = Append(alCliente[c], h.msg)
    BY <2>3 DEF TipoRecepcion
  <2> HIDE DEF s
  <2>4. \/ \E d : /\ alCliente' = [alCliente EXCEPT ![d] =
                          Append(@, IF d = c THEN h.msg ELSE [h.msg EXCEPT !.orden = 0])]
                  /\ Despues(c, quedan)
        \/ /\ Despues(c, quedan) \/ Despues(c, s)
           /\ UNCHANGED alCliente
    BY <1>3 DEF s
  <2> QED
    BY <2>1, <2>2, <2>3, <2>4
<1> HIDE DEF quedan, s
<1>7. PICK S1 : quedan \in Seq(S1)
  BY <1>4
<1>8. PICK S2 : s \in Seq(S2)
  BY <1>5
<1>9. CASE /\ hilo'[c] = quedan \o Tail(hilo[c])
           /\ alCliente'[c] = alCliente[c] \/ alCliente'[c] = Append(alCliente[c], h.msg)
  <2>1. \/ alCliente'[c] = alCliente[c]
        \/ \E m : alCliente'[c] = Append(alCliente[c], m) /\ (QuedaHilo(u, hilo[c]) => ~Echa(u, m))
    BY <1>2, <1>9
  <2> QED
    BY <1>1, <1>4, <1>7, <1>9, <2>1, VeraEnvio
<1>10. CASE hilo'[c] = s \o Tail(hilo[c]) /\ UNCHANGED alCliente
  BY <1>1, <1>5, <1>8, <1>10, VeraEnvio
<1> QED
  BY <1>6, <1>9, <1>10

(* names lists the channel.                                                *)
LEMMA ListarNamesPropia ==
    ASSUME TipoRecepcion, TipoHilo, NEW u \in Usuarios, <<u, 1>> \in Conexiones, Vera(u),
           ListarNames(<<u, 1>>), UNCHANGED <<buffer, abiertas, vista>>
    PROVE  Vera(u)'
<1> DEFINE c == <<u, 1>>
           h == Head(hilo[c])
           p == Aqui([h.msg EXCEPT !.nicks = Nombres(miembros)])
<1>1. /\ hilo[c] # <<>> /\ h.paso # "aqui"
      /\ hilo'[c] = <<p>> \o Tail(hilo[c])
      /\ UNCHANGED alCliente
  BY DEF ListarNames, Paso, Despues, Manda, TipoHilo
<1>2. QuedaHilo(u, hilo[c]) => ~Echa(u, h.msg)
  BY <1>1, HiloSigue DEF TipoHilo
<1>3. p.msg.tipo = h.msg.tipo /\ p.msg.de = h.msg.de
  <2>1. h.msg \in MensajesIRC
    BY <1>1, PasoDe DEF MensajesPara
  <2>2. \A m \in MensajesIRC : /\ [m EXCEPT !.nicks = Nombres(miembros)].tipo = m.tipo
                               /\ [m EXCEPT !.nicks = Nombres(miembros)].de = m.de
    BY DEF MensajesIRC
  <2>3. p.msg = [h.msg EXCEPT !.nicks = Nombres(miembros)]
    BY DEF Aqui
  <2> QED
    BY <2>1, <2>2, <2>3
<1>4. ~Echa(u, h.msg) => ~Echa(u, p.msg)
  BY <1>3 DEF Echa
<1> HIDE DEF p
<1>5. <<p>> \in Seq({p}) /\ (QuedaHilo(u, hilo[c]) => QuedaHilo(u, <<p>>))
  BY <1>2, <1>4, QuedaUno
<1> QED
  BY <1>1, <1>5, VeraEnvio

(* The thread sends to its own client.                                     *)
LEMMA EnviarPropia ==
    ASSUME TipoRecepcion, TipoHilo, NEW u \in Usuarios, <<u, 1>> \in Conexiones, Vera(u),
           Enviar(<<u, 1>>), UNCHANGED <<buffer, abiertas, vista>>
    PROVE  Vera(u)'
<1> DEFINE c == <<u, 1>>
           h == hilo[c]
           m == Head(h).msg
           a == alCliente[c]
<1>0. h # <<>> /\ h \in Seq(PasosDe(c)) /\ c \in Conexiones
  BY DEF Enviar, Paso, TipoHilo
<1>1. hilo'[c] = Tail(h)
  <2>1. hilo'[c] = <<>> \o Tail(h)
    BY DEF Enviar, Despues, Manda, TipoHilo
  <2>2. Tail(h) \in Seq(PasosDe(c))
    BY <1>0, CabezaCola
  <2> QED
    BY <2>1, <2>2, ConcatEmptySeq
<1>2. alCliente'[c] = Append(a, m)
  BY DEF Enviar, TipoRecepcion
<1>3. m \in MensajesPara(u) /\ a \in Seq(MensajesPara(u))
  BY <1>0, PasoDe DEF TipoRecepcion
<1>4. /\ QuedaHilo(u, h) => ~Echa(u, m) /\ QuedaHilo(u, Tail(h))
      /\ VuelveHilo(u, h) => VuelveHilo(u, Tail(h)) \/ (Entra(u, m) /\ QuedaHilo(u, Tail(h)))
  <2> HIDE DEF h
  <2>1. /\ QuedaHilo(u, h) => ~Echa(u, Head(h).msg) /\ QuedaHilo(u, Tail(h))
        /\ VuelveHilo(u, h) => \/ VuelveHilo(u, Tail(h))
                               \/ Head(h).paso = "aqui" /\ Entra(u, Head(h).msg) /\ QuedaHilo(u, Tail(h))
    BY <1>0, HiloSigue
  <2> QED
    BY <2>1
<1>5. Entra(u, m) => Vuelve(u, Append(a, m))
  <2> HIDE DEF a, m
  <2> QED
    BY <1>3, ColaMas
<1>6. CASE VuelveHilo(u, Tail(h))
  BY <1>1, <1>6 DEF Vera
<1>7. CASE Entra(u, m) /\ QuedaHilo(u, Tail(h))
  BY <1>1, <1>2, <1>5, <1>7 DEF Vera, Recibira
<1>8. CASE QuedaHilo(u, h) /\ Recibira(u)
  <2>1. Recibira(u)'
    BY <1>2, <1>4, <1>8, RecibiraMas
  <2> QED
    BY <1>1, <1>4, <1>8, <2>1 DEF Vera
<1> QED
  BY <1>4, <1>6, <1>7, <1>8 DEF Vera
-----------------------------------------------------------------------------
(* The thread of another connection tells the one in use nothing that      *)
(* makes it leave: PART comes from its author, ERR_BANNEDFROMCHAN goes to  *)
(* it only.                                                                *)
LEMMA HiloAjeno ==
    ASSUME EnvioTypeOK, TipoRecepcion, TipoBase, TipoHilo, Nuevas,
           NEW u \in Usuarios, UnaSola(u), NEW c \in Conexiones, c = <<u, 1>>,
           NEW d \in Conexiones \ {c}, Hilo(d), c \in miembros', nombre'[c] = <<u, 1>>,
           c \in miembros /\ nombre[c] = <<u, 1>> => Vera(u)
    PROVE  Vera(u)'
<1>0. /\ hilo'[c] = hilo[c] /\ nombre'[c] = nombre[c]
      /\ UNCHANGED <<buffer, abiertas, vista>>
  BY HiloPropio DEF interfaz
<1>1. c \in miembros
  <2>1. CASE ProcesaComando(d)
    <3>1. UNCHANGED miembros \/ miembros' = miembros \cup {d} \/ \E x : miembros' = miembros \ {x}
      BY <2>1 DEF ProcesaComando, SinRegistrar, Nick, User, Join, Join0, PartirCanal, Kick, Mode,
           SoloContesta, Privmsg, Quit, ComandoVacio, delCanal, Sale
    <3> QED
      BY <3>1
  <2>2. CASE ListNicks(d) \/ EnviarANick(d) \/ Enviar(d) \/ ListarNames(d)
    BY <2>2 DEF ListNicks, EnviarANick, Enviar, ListarNames, sinEnvios, delCanal
  <2>3. CASE CerrarConexion(d)
    BY <2>3 DEF CerrarConexion, Sale
  <2> QED
    BY <2>1, <2>2, <2>3 DEF Hilo
<1>2. \/ alCliente'[c] = alCliente[c]
      \/ \E m : alCliente'[c] = Append(alCliente[c], m) /\ ~Echa(u, m)
  <2>1. CASE UNCHANGED alCliente
    BY <2>1
  <2>2. CASE Enviar(d)
    <3>1. \E m : alCliente' = [alCliente EXCEPT ![d] = m]
      BY <2>2 DEF Enviar
    <3> QED
      BY <3>1 DEF TipoRecepcion
  <2>3. CASE EnviarANick(d)
    <3> DEFINE h == Head(hilo[d])
    <3>1. hilo[d] # <<>> /\ h.paso = "nicks"
      BY <2>3 DEF EnviarANick, Paso
    <3>2. /\ h.msg \in MensajesIRC
          /\ h.msg.tipo = "ERR_BANNEDFROMCHAN" => h.paso = "aqui"
          /\ h.msg.tipo \in {"JOIN", "PART"} => h.msg.de[1] = d[1]
      BY <3>1, PasoDe DEF MensajesPara
    <3>3. d[1] # u
      <4>1. d[2] <= conexiones[d[1]] /\ d[2] \in Nat \ {0} /\ d = <<d[1], d[2]>>
        BY Cs, NuevaQuieta
      <4>2. ASSUME d[1] = u
            PROVE  FALSE
        <5>1. d[2] <= 1
          BY <4>1, <4>2 DEF UnaSola
        <5>2. d[2] = 1
          BY <4>1, <5>1
        <5> QED
          BY <4>1, <4>2, <5>2
      <4> QED
        BY <4>2
    <3>4. ~Echa(u, h.msg)
      BY <3>1, <3>2, <3>3 DEF Echa
    <3>5. \A m \in MensajesIRC : [m EXCEPT !.orden = 0].tipo = m.tipo /\ [m EXCEPT !.orden = 0].de = m.de
      BY DEF MensajesIRC
    <3>6. ~Echa(u, [h.msg EXCEPT !.orden = 0])
      BY <3>2, <3>4, <3>5 DEF Echa
    <3>7. UNCHANGED alCliente \/ \E e : alCliente' = [alCliente EXCEPT ![e] =
                        Append(@, IF e = d THEN h.msg ELSE [h.msg EXCEPT !.orden = 0])]
      BY <2>3 DEF EnviarANick
    <3> HIDE DEF h
    <3>8. CASE UNCHANGED alCliente
      BY <3>8
    <3>9. ASSUME NEW e, alCliente' = [alCliente EXCEPT ![e] =
                            Append(@, IF e = d THEN h.msg ELSE [h.msg EXCEPT !.orden = 0])]
          PROVE  \/ alCliente'[c] = alCliente[c]
                 \/ \E m : alCliente'[c] = Append(alCliente[c], m) /\ ~Echa(u, m)
      <4>1. CASE e # c
        BY <3>9, <4>1 DEF TipoRecepcion
      <4>2. CASE e = c
        <5>1. c # d /\ c \in DOMAIN alCliente
          BY DEF TipoRecepcion
        <5>2. alCliente'[c] = Append(alCliente[c], [h.msg EXCEPT !.orden = 0])
          BY <3>9, <4>2, <5>1
        <5> QED
          BY <3>6, <5>2
      <4> QED
        BY <4>1, <4>2
    <3> QED
      BY <3>7, <3>8, <3>9
  <2>4. CASE ProcesaComando(d)
    <3>1. CASE SinRegistrar(d) \/ Nick(d) \/ User(d) \/ SoloContesta(d)
      BY <2>1, <3>1 DEF SinRegistrar, Nick, User, SoloContesta
    <3>2. CASE Join(d) \/ Join0(d) \/ PartirCanal(d)
      BY <2>1, <3>2 DEF Join, Join0, PartirCanal
    <3>3. CASE Kick(d) \/ Mode(d)
      BY <2>1, <3>3 DEF Kick, Mode
    <3>4. CASE Privmsg(d) \/ Quit(d) \/ ComandoVacio(d)
      BY <2>1, <3>4 DEF Privmsg, Quit, ComandoVacio
    <3> QED
      BY <2>4, <3>1, <3>2, <3>3, <3>4 DEF ProcesaComando
  <2>5. CASE ListNicks(d)
    BY <2>1, <2>5 DEF ListNicks
  <2>6. CASE ListarNames(d)
    BY <2>1, <2>6 DEF ListarNames
  <2>7. CASE CerrarConexion(d)
    BY <2>1, <2>7 DEF CerrarConexion
  <2> QED
    BY <2>2, <2>3, <2>4, <2>5, <2>6, <2>7 DEF Hilo
<1>3. Vera(u)
  BY <1>0, <1>1
<1>4. CASE VuelveHilo(u, hilo[c])
  BY <1>0, <1>4 DEF Vera
<1>5. CASE QuedaHilo(u, hilo[c]) /\ Recibira(u)
  <2>1. Recibira(u)'
    BY <1>0, <1>2, <1>5, RecibiraMas
  <2> QED
    BY <1>0, <1>5, <2>1 DEF Vera
<1> QED
  BY <1>3, <1>4, <1>5 DEF Vera

(* Whatever a thread of the server does.                                   *)
LEMMA HiloVera ==
    ASSUME EnvioTypeOK, TipoOrdenes, TipoRecepcion, TipoBase, TipoHilo, Nuevas, PrimerNick,
           NEW u \in Usuarios, UnaSola(u), NEW c \in Conexiones, c = <<u, 1>>,
           NEW d \in Conexiones, Hilo(d), c \in miembros', nombre'[c] = <<u, 1>>,
           c \in miembros /\ nombre[c] = <<u, 1>> => Vera(u)
    PROVE  Vera(u)'
<1>0. UNCHANGED <<buffer, abiertas, vista>>
  BY HiloPropio DEF interfaz
<1>1. CASE d # c
  BY <1>1, HiloAjeno
<1>2. CASE d = c /\ ProcesaComando(c)
  BY <1>0, <1>2, ProcesaPropia
<1>3. CASE d = c /\ (ListNicks(c) \/ EnviarANick(c) \/ Enviar(c) \/ ListarNames(c))
  <2>1. UNCHANGED <<nombre, miembros>>
    BY <1>3 DEF ListNicks, EnviarANick, Enviar, ListarNames, sinEnvios, delCanal
  <2>2. Vera(u)
    BY <2>1
  <2> QED
    BY <1>0, <1>3, <2>2, ListNicksPropia, EnviarANickPropia, EnviarPropia, ListarNamesPropia
<1>4. CASE d = c /\ CerrarConexion(c)
  BY <1>4 DEF CerrarConexion, Sale
<1> QED
  BY <1>1, <1>2, <1>3, <1>4 DEF Hilo
-----------------------------------------------------------------------------
(* An answer that does not make it leave lets a client that sees itself on *)
(* the channel go on so; the echo of its JOIN lets it begin.               *)
LEMMA VeSigue ==
    ASSUME TipoVentanas, NEW u \in Usuarios, cnick[u] = <<u, 1>>, NEW m \in MensajesPara(u), ~HayKick,
           ComandosRecv(u, m)
    PROVE  /\ Ve(u) /\ ~Echa(u, m) => Ve(u)'
           /\ Entra(u, m) => Ve(u)'
<1> DEFINE yo == <<u, 1>>
           par == <<Canal, yo>>
<1>0. /\ abiertas \in [Usuarios -> SUBSET Ventanas]
      /\ vista \in [Usuarios -> SUBSET (Ventanas \X Nicks)]
      /\ yo \in Nicks
  BY DEF TipoVentanas, Nicks
<1>1. /\ Ve(u) <=> Canal \in abiertas[u] /\ par \in vista[u]
      /\ Ve(u)' <=> Canal \in abiertas'[u] /\ par \in vista'[u]
  BY DEF Ve, EnCanal
<1> HIDE DEF par
<1>2. CASE RplJoin(u, m)
  <2>1. abiertas'[u] = abiertas[u] \cup {Canal} /\ vista'[u] = vista[u] \cup ({Canal} \X {m.de})
    BY <1>0, <1>2 DEF RplJoin, Abre, Pon
  <2>2. Entra(u, m) => par \in {Canal} \X {m.de}
    BY DEF Entra, par
  <2> QED
    BY <1>1, <2>1, <2>2
<1>3. CASE RplPrivMsgCanal(u, m)
  <2>1. abiertas'[u] = abiertas[u] \cup {Canal} /\ vista'[u] = vista[u]
    BY <1>0, <1>3 DEF RplPrivMsgCanal, Abre
  <2>2. ~Entra(u, m)
    BY <1>3 DEF RplPrivMsgCanal, Entra
  <2> QED
    BY <1>1, <2>1, <2>2
<1>4. CASE RplPrivMsg(u, m)
  <2>1. abiertas'[u] = abiertas[u] \cup {m.de} /\ vista[u] \subseteq vista'[u]
    BY <1>0, <1>4 DEF RplPrivMsg, Abre, Pon
  <2>2. ~Entra(u, m)
    BY <1>4 DEF RplPrivMsg, Entra
  <2> QED
    BY <1>1, <2>1, <2>2
<1>5. CASE RplNamReply(u, m)
  <2>1. abiertas' = abiertas /\ vista[u] \subseteq vista'[u]
    BY <1>0, <1>5 DEF RplNamReply, Pon
  <2>2. ~Entra(u, m)
    BY <1>5 DEF RplNamReply, Entra
  <2> QED
    BY <1>1, <2>1, <2>2
<1>6. CASE RplNick(u, m)
  <2>1. m.de = Servicio /\ m.tipo = "NICK"
    BY <1>6 DEF RplNick, MensajesPara, MensajesIRC
  <2>2. yo # m.de
    BY <2>1 DEF Servicio
  <2> DEFINE nuevo == CHOOSE n \in m.nicks : TRUE
  <2>3. abiertas' = abiertas
    BY <1>6 DEF RplNick
  <2>4. vista' = [vista EXCEPT ![u] =
            {<<x[1], IF x[2] = m.de THEN nuevo ELSE x[2]>> : x \in @}]
    BY <1>6 DEF RplNick
  <2> HIDE DEF nuevo
  <2>5. vista'[u] = {<<x[1], IF x[2] = m.de THEN nuevo ELSE x[2]>> : x \in vista[u]}
    BY <1>0, <2>4
  <2>6. par[1] = Canal /\ par[2] = yo /\ par = <<Canal, yo>>
    BY DEF par
  <2>7. par \in vista[u] => par \in vista'[u]
    BY <2>2, <2>5, <2>6
  <2>8. ~Entra(u, m)
    BY <2>1 DEF Entra
  <2> QED
    BY <1>1, <2>3, <2>7, <2>8
<1>7. CASE RplPart(u, m)
  <2>1. ~Entra(u, m)
    BY <1>7 DEF RplPart, Entra
  <2>2. ASSUME ~Echa(u, m)
        PROVE  abiertas' = abiertas /\ vista'[u] = vista[u] \ ({Canal} \X {m.de}) /\ m.de # yo
    <3>1. m.de # yo
      BY <1>7, <2>2 DEF RplPart, Echa
    <3> QED
      BY <1>0, <1>7, <3>1 DEF RplPart, Quita
  <2>3. m.de # yo => par \notin {Canal} \X {m.de}
    BY DEF par
  <2> QED
    BY <1>1, <2>1, <2>2, <2>3
<1>8. CASE RplKick(u, m)
  BY <1>8 DEF RplKick, MensajesPara
<1>9. CASE ErrBannedFromChannel(u, m)
  BY <1>9 DEF ErrBannedFromChannel, Echa, Entra
<1>10. CASE RplMode(u, m) \/ ParseNoIRC(u, m)
  <2>1. UNCHANGED <<abiertas, vista>> /\ ~Entra(u, m)
    BY <1>10 DEF RplMode, ParseNoIRC, Entra
  <2> QED
    BY <1>1, <2>1
<1>11. CASE Muestra(u, m)
  <2>1. UNCHANGED <<abiertas, vista>> /\ m.tipo # "JOIN"
    BY <1>11 DEF Muestra, SoloSeMuestran, Saludos, Informes, Temas, Errores, Ausencias, Dialogos, Desconocidos
  <2> QED
    BY <1>1, <2>1 DEF Entra
<1> QED
  BY <1>2, <1>3, <1>4, <1>5, <1>6, <1>7, <1>8, <1>9, <1>10, <1>11 DEF ComandosRecv

(* An answer changes the windows of its user only.                         *)
LEMMA ManejaAjeno ==
    ASSUME NEW v, NEW u, u # v, TipoVentanas, v \in Usuarios, u \in Usuarios, NEW m, ComandosRecv(v, m)
    PROVE  abiertas'[u] = abiertas[u] /\ vista'[u] = vista[u]
<1>1. UNCHANGED abiertas \/ \E x : abiertas' = [abiertas EXCEPT ![v] = x]
  BY DEF ComandosRecv, RplJoin, RplPrivMsgCanal, RplPrivMsg, RplNamReply, RplNick, RplPart, RplKick,
     ErrBannedFromChannel, RplMode, ParseNoIRC, Muestra, Abre, Cierra
<1>2. UNCHANGED vista \/ \E x : vista' = [vista EXCEPT ![v] = x]
  BY DEF ComandosRecv, RplJoin, RplPrivMsgCanal, RplPrivMsg, RplNamReply, RplNick, RplPart, RplKick,
     ErrBannedFromChannel, RplMode, ParseNoIRC, Muestra, Pon, Quita, Cierra
<1> QED
  BY <1>1, <1>2 DEF TipoVentanas

(* The interface closes the windows of a user only with the connection.    *)
LEMMA VentanasDeja ==
    ASSUME TipoVentanas, EnvioTypeOK, NEW v \in Usuarios, Interfaz(v) \/ Envio(v), NEW u \in Usuarios, UnaSola(u)'
    PROVE  abiertas'[u] = abiertas[u] /\ vista'[u] = vista[u]
<1>1. \/ UNCHANGED <<abiertas, vista>>
      \/ /\ socket' = [socket EXCEPT ![v] = 0]
         /\ abiertas' = [abiertas EXCEPT ![v] = {}]
         /\ vista' = [vista EXCEPT ![v] = {}]
  <2>1. CASE Connect(v)
    BY <2>1 DEF Connect, interfaz
  <2>2. CASE TecleaSinTabla(v)
    BY <2>2 DEF TecleaSinTabla
  <2>3. CASE UNCHANGED ajenoOrden
    BY <2>3 DEF ajenoOrden, interfaz
  <2>4. CASE Envio(v)
    BY <2>4 DEF Envio, CierraSocket, Ofrece, EnviaResto, interfaz
  <2> QED
    BY <2>1, <2>2, <2>3, <2>4, OtrasOrdenes
<1>2. CASE socket' = [socket EXCEPT ![v] = 0] /\ abiertas' = [abiertas EXCEPT ![v] = {}]
           /\ vista' = [vista EXCEPT ![v] = {}]
  <2>1. v # u
    BY <1>2 DEF UnaSola, EnvioTypeOK
  <2> QED
    BY <1>2, <2>1 DEF TipoVentanas
<1> QED
  BY <1>1, <1>2
-----------------------------------------------------------------------------
(* recv_pthread of the connection in use: what arrives in alCliente passes *)
(* to the buffer and then to the windows, in order.                        *)
LEMMA RecvVera ==
    ASSUME EnvioTypeOK, TipoInterfaz, TipoVentanas, TipoRecepcion, Lectura, ~HayKick,
           NEW u \in Usuarios, UnaSola(u), NEW c \in Conexiones, c = <<u, 1>>, Vera(u), RecvPthread(c)
    PROVE  Vera(u)'
<1>0. /\ lee[c] = c /\ DOMAIN buffer = Conexiones /\ DOMAIN alCliente = Conexiones
      /\ receptor[c] \in {"entra", "recv", "maneja", "contesta", "contestado"} => tabla[u]
      /\ receptor[c] \in {"no", "inicio", "tabla", "entra", "recv", "fin"} => buffer[c] = <<>>
      /\ cnick[u] = <<u, 1>>
  <2>1. DOMAIN buffer = Conexiones /\ DOMAIN alCliente = Conexiones
    BY DEF TipoRecepcion
  <2>2. cnick[u] = <<u, 1>>
    BY DEF TipoInterfaz, UnaSola
  <2>3. /\ lee[c] = c
        /\ receptor[c] \in {"entra", "recv", "maneja", "contesta", "contestado"} => tabla[u]
        /\ receptor[c] \in {"no", "inicio", "tabla", "entra", "recv", "fin"} => buffer[c] = <<>>
    BY DEF Lectura
  <2> QED
    BY <2>1, <2>2, <2>3
<1>1. UNCHANGED hilo
  BY RecvDeja DEF servidor
<1>2. ASSUME Recibira(u) => Recibira(u)'
      PROVE  Vera(u)'
  BY <1>1, <1>2 DEF Vera
<1>3. CASE RecvMensajes(c)
  <2>1. buffer[c] = <<>> /\ UNCHANGED <<abiertas, vista>>
    BY <1>0, <1>3 DEF RecvMensajes, interfaz
  <2>2. Ve(u)' <=> Ve(u)
    BY <2>1 DEF Ve, EnCanal
  <2>3. \/ buffer'[c] = alCliente[c] /\ alCliente'[c] = <<>>
        \/ UNCHANGED <<buffer, alCliente>>
    <3>1. CASE /\ buffer' = [buffer EXCEPT ![c] = alCliente[c]]
               /\ alCliente' = [alCliente EXCEPT ![c] = <<>>]
      BY <1>0, <3>1
    <3> QED
      BY <1>0, <1>3, <3>1 DEF RecvMensajes
  <2>4. Recibira(u) => Recibira(u)'
    BY <2>1, <2>2, <2>3, ColaVacia DEF Recibira
  <2> QED
    BY <1>2, <2>4
<1>4. CASE Maneja(c)
  <2> DEFINE b == buffer[c]
             m == Head(b)
  <2>1. /\ m \in MensajesPara(u) /\ b \in Seq(MensajesPara(u)) /\ b # <<>>
    BY <1>4, ManejaCabeza DEF Maneja
  <2>2. ComandosRecv(u, m) /\ UNCHANGED alCliente /\ buffer' = [buffer EXCEPT ![c] = Tail(b)]
    BY <1>0, <1>4 DEF Maneja
  <2>3. buffer'[c] = Tail(b)
    BY <1>0, <2>2
  <2>4. /\ Queda(u, b) => ~Echa(u, m) /\ Queda(u, Tail(b))
        /\ Vuelve(u, b) => Vuelve(u, Tail(b)) \/ (Entra(u, m) /\ Queda(u, Tail(b)))
    <3> HIDE DEF b
    <3> QED
      BY <2>1, ColaSigue
  <2>5. /\ Ve(u) /\ ~Echa(u, m) => Ve(u)'
        /\ Entra(u, m) => Ve(u)'
    <3> HIDE DEF m
    <3> QED
      BY <1>0, <2>1, <2>2, VeSigue
  <2>6. Recibira(u) => Recibira(u)'
    <3>1. Vuelve(u, b) \/ (Queda(u, b) /\ Ve(u)) => Vuelve(u, Tail(b)) \/ (Queda(u, Tail(b)) /\ Ve(u)')
      BY <2>4, <2>5
    <3> QED
      BY <2>2, <2>3, <3>1 DEF Recibira
  <2> QED
    BY <1>2, <2>6
<1>5. CASE RecvInicio(c) \/ RecvTabla(c) \/ RecvEntra(c) \/ Contesta(c) \/ RecvVuelve(c)
  <2>1. UNCHANGED <<abiertas, vista, buffer, alCliente>>
    BY <1>5 DEF RecvInicio, RecvTabla, RecvEntra, Contesta, RecvVuelve, sinTabla, interfaz
  <2>2. Recibira(u) => Recibira(u)'
    BY <2>1 DEF Recibira, Ve, EnCanal
  <2> QED
    BY <1>2, <2>2
<1> QED
  BY <1>3, <1>4, <1>5 DEF RecvPthread

(* The threads of other users.                                             *)
LEMMA RecvAjeno ==
    ASSUME TipoVentanas, TipoRecepcion, NEW u \in Usuarios, NEW c \in Conexiones, c = <<u, 1>>, Vera(u),
           NEW d \in Conexiones, d[1] # u, RecvPthread(d)
    PROVE  Vera(u)'
<1>0. c # d /\ c[1] = u /\ d[1] \in Usuarios /\ lee[d] # c
  BY Cs DEF TipoRecepcion
<1>1. UNCHANGED hilo /\ buffer'[c] = buffer[c]
  BY <1>0, RecvDeja DEF servidor
<1>2. alCliente'[c] = alCliente[c]
  <2>1. UNCHANGED alCliente \/ alCliente' = [alCliente EXCEPT ![lee[d]] = <<>>]
    BY DEF RecvPthread, RecvInicio, RecvTabla, RecvEntra, RecvMensajes, Maneja, Contesta, RecvVuelve, sinTabla
  <2> QED
    BY <1>0, <2>1 DEF TipoRecepcion
<1>3. abiertas'[u] = abiertas[u] /\ vista'[u] = vista[u]
  <2>1. CASE Maneja(d)
    <3>1. ComandosRecv(d[1], Head(buffer[d])) \/ UNCHANGED <<abiertas, vista>>
      BY <2>1 DEF Maneja
    <3>2. ASSUME NEW m, ComandosRecv(d[1], m)
          PROVE  abiertas'[u] = abiertas[u] /\ vista'[u] = vista[u]
      BY <1>0, <3>2, ManejaAjeno
    <3> QED
      BY <3>1, <3>2
  <2>2. CASE ~Maneja(d)
    BY <2>2 DEF RecvPthread, RecvInicio, RecvTabla, RecvEntra, RecvMensajes, Contesta, RecvVuelve, sinTabla, interfaz
  <2> QED
    BY <2>1, <2>2
<1>4. (Recibira(u) => Recibira(u)')
  BY <1>1, <1>2, <1>3 DEF Recibira, Ve, EnCanal
<1> QED
  BY <1>1, <1>4 DEF Vera

(* Every step keeps Propia.                                                *)
LEMMA PropiaPaso ==
    ASSUME EnvioInv, EnvioInv', TipoInv, TipoInv', Nuevas, Lectura, PrimerNick, Propia, [Next]_vars
    PROVE  Propia'
<1>0. /\ EnvioTypeOK /\ EnvioTypeOK'
      /\ TipoInterfaz /\ TipoVentanas /\ TipoPreguntas /\ TipoOrdenes /\ TipoRecepcion
      /\ TipoBase /\ TipoHilo /\ TipoInterfaz'
  BY DEF EnvioInv, TipoInv
<1>1. UNCHANGED modo
  BY <1>0, TodoCrece
<1>2. HayKick' <=> HayKick
  BY <1>1 DEF HayKick
<1> SUFFICES ASSUME ~HayKick, NEW u \in Usuarios, UnaSola(u)', NEW c \in Conexiones, c = <<u, 1>>,
                    c \in miembros', nombre'[c] = <<u, 1>>
             PROVE  Vera(u)'
  <2>1. ASSUME NEW u \in Usuarios, UnaSola(u)'
        PROVE  <<u, 1>> \in Conexiones
    BY <1>0, <2>1 DEF UnaSola, TipoInterfaz
  <2> QED
    BY <1>2, <2>1 DEF Propia
<1>3. CASE Connect(u) /\ conexiones[u] = 0
  <2>1. nombre[c] = Nadie
    BY <1>3 DEF Nuevas
  <2>2. UNCHANGED nombre
    BY <1>3, ClienteDeja DEF Interfaz, servidor
  <2> QED
    BY <2>1, <2>2 DEF Nadie
<1>4. CASE UnaSola(u)
  <2>0. c \in miembros /\ nombre[c] = <<u, 1>> => Vera(u)
    BY <1>4 DEF Propia
  <2>1. ASSUME NEW v \in Usuarios, Interfaz(v) \/ Envio(v)
        PROVE  Vera(u)'
    <3>1. UNCHANGED <<buffer, alCliente, servidor>>
      BY <2>1, ClienteDeja
    <3>2. abiertas'[u] = abiertas[u] /\ vista'[u] = vista[u]
      BY <1>0, <2>1, VentanasDeja
    <3>3. Vera(u)
      BY <2>0, <3>1 DEF servidor, delCanal
    <3>4. UNCHANGED hilo
      BY <3>1 DEF servidor
    <3>5. Recibira(u) => Recibira(u)'
      BY <3>1, <3>2 DEF Recibira, Ve, EnCanal
    <3> QED
      BY <3>3, <3>4, <3>5 DEF Vera
  <2>2. ASSUME NEW d \in Conexiones, RecvPthread(d)
        PROVE  Vera(u)'
    <3>1. UNCHANGED servidor /\ receptor[d] # "no"
      BY <1>0, <2>2, RecvDeja
    <3>2. Vera(u)
      BY <2>0, <3>1 DEF servidor, delCanal
    <3>3. CASE d[1] = u
      <4>1. d = c
        BY <1>0, <1>4, <3>1, <3>3, ReceptorSolo
      <4> QED
        BY <1>0, <1>4, <2>2, <3>2, <4>1, RecvVera
    <3>4. CASE d[1] # u
      BY <1>0, <2>2, <3>2, <3>4, RecvAjeno
    <3> QED
      BY <3>3, <3>4
  <2>3. ASSUME NEW d \in Conexiones, Hilo(d)
        PROVE  Vera(u)'
    BY <1>0, <1>4, <2>0, <2>3, HiloVera
  <2>4. CASE UNCHANGED vars
    <3>1. UNCHANGED <<buffer, alCliente, hilo, abiertas, vista, miembros, nombre>>
      BY <2>4 DEF vars, recepcion, servidor, delCanal, interfaz
    <3>2. Vera(u)
      BY <2>0, <3>1
    <3> QED
      BY <3>1, <3>2 DEF Vera, Recibira, Ve, EnCanal
  <2> QED
    BY <2>1, <2>2, <2>3, <2>4 DEF Next
<1> QED
  BY <1>0, <1>3, <1>4, SolaDe

(* Nobody has connected.                                                   *)
LEMMA PropiaInicial == Init => PropiaInv
<1> SUFFICES ASSUME Init
             PROVE  PropiaInv
  OBVIOUS
<1>1. Nuevas
  BY DEF Init, Nuevas
<1>2. \A u \in Usuarios : ~UnaSola(u)
  BY DEF Init, UnaSola
<1>3. Lectura /\ Propia
  BY <1>2 DEF Lectura, Propia
<1>4. PrimerNick
  BY DEF Init, PrimerNick, SoloPrimero, SinPrimero
<1> QED
  BY <1>1, <1>3, <1>4 DEF PropiaInv

(* While no KICK is ordered, whoever is on the channel with the nick of    *)
(* CONNECT, and has connected once, sees itself there or has the echo of   *)
(* its last JOIN on the way, with nothing behind it that makes it leave.   *)
THEOREM PropiaSiempre == Spec => []PropiaInv
<1>1. EnvioInv /\ EnvioInv' /\ TipoInv /\ TipoInv' /\ PropiaInv /\ [Next]_vars => PropiaInv'
  <2> SUFFICES ASSUME EnvioInv, EnvioInv', TipoInv, TipoInv', PropiaInv, [Next]_vars
               PROVE  PropiaInv'
    OBVIOUS
  <2>0. /\ EnvioTypeOK /\ EnvioTypeOK'
        /\ TipoInterfaz /\ TipoVentanas /\ TipoPreguntas /\ TipoOrdenes /\ TipoRecepcion
        /\ TipoBase /\ TipoHilo /\ TipoInterfaz'
        /\ Nuevas /\ Lectura /\ PrimerNick /\ Propia
    BY DEF EnvioInv, TipoInv, PropiaInv
  <2>1. Nuevas'
    BY <2>0, NuevasPaso
  <2>2. Lectura'
    BY <2>0, LecturaPaso
  <2>3. PrimerNick'
    BY <2>0, PrimerNickPaso
  <2>4. Propia'
    BY <2>0, PropiaPaso
  <2> QED
    BY <2>1, <2>2, <2>3, <2>4 DEF PropiaInv
<1> QED
  BY <1>1, PropiaInicial, TipoSiempre, EnvioSiempre, PTL DEF Spec
=============================================================================
