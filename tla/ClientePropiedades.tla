------------------------- MODULE ClientePropiedades -------------------------
(* What the clients promise their users.                                   *)
EXTENDS Cliente

(* The orders that an answer may be about, and 0.  A connection without a  *)
(* thread counts on no answer, but the thread of the one before may find it.*)
Pide(u) == {0} \cup IF modo.fallan THEN 1..hecho[u] ELSE preguntas[u]

(* Types of the fields and of the queues: windows list nicks, operators    *)
(* are members, and whoever is a member is registered.                     *)
ClienteTypeOK ==
    /\ modo \in Modos
    /\ registro \in [Usuarios -> {"NO_CONECTADO", "CONECTADO"}]
    /\ socket \in [Usuarios -> Nat]
    /\ cnick \in [Usuarios -> Nicks \cup {Nadie}]
    /\ mutex \in [Usuarios -> {Libre, Fichero} \cup {Red(c) : c \in Conexiones}]
    /\ \A u \in Usuarios :
        /\ abiertas[u] \subseteq Ventanas
        /\ vista[u] \subseteq abiertas[u] \X Nicks
        /\ vistas[u] \subseteq Pide(u)
        /\ preguntas[u] \subseteq 1..hecho[u]
        /\ fichero[u] \in {"no", "ofrece", "ofrecido"}
    /\ receptor \in [Conexiones -> {"no", "inicio", "tabla", "entra", "recv", "maneja",
                                    "contesta", "contestado", "fin"}]
    /\ lee \in [Conexiones -> Conexiones]
    /\ nombre \in [Conexiones -> Nicks \cup {Nadie}]
    /\ operadores \subseteq miembros
    /\ miembros \subseteq {c \in Conexiones : Registrado(c)}
    /\ cerrada \subseteq Conexiones

(* Nothing is on its way: the last order has had all its effects.          *)
Quieto ==
    /\ \A c \in Conexiones :
        /\ hilo[c] = <<>> /\ alServidor[c] = <<>> /\ alCliente[c] = <<>>
        /\ receptor[c] \in {"no", "recv", "fin"}
    /\ \A u \in Usuarios : Escribiendo(u) = {} /\ fichero[u] # "ofrece"

(* The user's first connection is the one in use.                          *)
Sigue1(u) == socket[u] = 1 /\ Registrado(<<u, 1>>)

(* u has not left the server nor changed nick, which the server tells      *)
(* nobody else about (quit and nick answer their author only).             *)
Fiable(u) == conexiones[u] = 0 \/ (Sigue1(u) /\ nombre[<<u, 1>>] = cnick[u])

(* A user orders KICK.                                                     *)
HayKick == \E u \in Usuarios : \E k \in 1..Len(modo.guion[u]) : modo.guion[u][k] = "KICK"

(* Once a series of JOIN, PART, KICK, MODE and texts has had its effect,   *)
(* each client has the channel open if the server has it on the channel,   *)
(* and lists those the server lists (rplJoin, rplPart, rplKick and         *)
(* rplNamReply against join, partirCanal and kick), except for whoever has *)
(* left or changed nick.  The server executes one command at a time here:  *)
(* two at once may be told in another order than they were done.           *)
VistaFiel ==
    modo.serie /\ Quieto =>
        \A u, v \in Usuarios : Fiable(u) /\ Fiable(v) =>
            /\ EnCanal(u) <=> <<u, 1>> \in miembros
            /\ EnCanal(u) => \A n \in {<<v, 1>>, <<v, 2>>} :
                    n \in Lista(u, Canal) <=> n \in Nombres(miembros)

(* With commands of several users at a time, whoever the server has on the *)
(* channel sees it, and itself in it, once everything has arrived, if it   *)
(* goes by the nick that the client knows.  A KICK may undo it, unless the *)
(* commands are in series, when its victim joins again before it is told.  *)
VistaPropia ==
    (modo.serie \/ ~HayKick) /\ Quieto =>
        \A u \in Usuarios :
            /\ Sigue1(u) /\ receptor[<<u, 1>>] = "recv"
            /\ <<u, 1>> \in miembros /\ nombre[<<u, 1>>] = cnick[u]
            => EnCanal(u) /\ cnick[u] \in Lista(u, Canal)

(* Two threads that send with enviar_clienteThread never write in the      *)
(* middle of each other's message.  The interface, which does not take the *)
(* mutex, may; and IRCInterface_Connect initialises the mutex again, which *)
(* a thread of the connection before may have.                             *)
SinCruces ==
    \A c \in Conexiones : \A i \in 1..Len(alServidor[c]) :
        conexiones[c[1]] <= 1 /\ alServidor[c][i].de # Gui => alServidor[c][i].cruces \subseteq {Gui}

(* Everything a user asks is answered, with an echo, a list or an error    *)
(* that the receive thread shows, unless the user leaves before or two     *)
(* messages cross.                                                         *)
TodoRespondido ==
    []<>(~modo.trozos /\ ~modo.fallan =>
            \A u \in Usuarios : Sigue1(u) => preguntas[u] \subseteq vistas[u])

(* A connection that the user has closed is closed by the server too, and  *)
(* its nick is free again, although the receive thread still holds it in   *)
(* recv when close is called.                                              *)
NickLiberado ==
    []<>(\A u \in Usuarios : \A k \in 1..conexiones[u] : socket[u] # k => <<u, k>> \in cerrada)
=============================================================================
