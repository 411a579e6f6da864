------------------------------ MODULE Comandos ------------------------------
(***************************************************************************)
(* The commands of the server (NICK, USER, JOIN, LIST and WHO in           *)
(* funciones_registro.c, the others in funciones_servidor.c), executed by  *)
(* the threads of several connections at once.                             *)
(*                                                                         *)
(* Servidor shows that a descriptor has at most one thread at a time, so a *)
(* thread is named here by its descriptor and closing the connection is    *)
(* the same thread's last work.  Every call of the data base (IRCTAD) is   *)
(* atomic, by its own locks, and nothing holds from one call to the next.  *)
(* A handler starts by looking up the nick of its own socket, which only   *)
(* the same thread changes: that call is part of the handler's first step. *)
(* The replies to the author are one send, in the step that decides them,  *)
(* and what they say is left out.                                          *)
(* One channel stands for them all: they share nothing with each other.    *)
(***************************************************************************)
EXTENDS Naturals, Sequences, FiniteSets

CONSTANTS
    Fds,        \* descriptors for connections
    Nicks,
    Canal,      \* a channel
    MaxConns,   \* bound: connections during a behaviour
    Cierran,    \* bound: clients that may close their socket without QUIT
    Escenarios  \* bound: the nicks of the users already registered when a behaviour
                \* starts, and what each client may send from then on

Nadie == 0
Conns == 1..MaxConns
Destinos == Nicks \cup {Canal}

Listas == {"PRIVMSG", "PART", "NAMES", "WHOIS", "LIST"}
SinDatos == {"PING", "PONG", "TOPIC", "MOTD", "WHO", "OTRO"}

Ordenes ==
    [tipo : {"USER", "JOIN", "QUIT"} \cup SinDatos]
    \cup [tipo : {"NICK", "KICK"}, nick : Nicks]
    \cup [tipo : {"AWAY", "MODE"}, pone : BOOLEAN]
    \cup [tipo : Listas, destinos : Seq(Destinos)]

ASSUME ComandosAssumption ==
    /\ Fds \subseteq Nat \ {0}
    /\ 0 \notin Nicks
    /\ Canal \notin Nicks
    /\ MaxConns \in Nat
    /\ Cierran \subseteq Conns
    /\ \A e \in Escenarios :
        /\ e.antes \in Seq(Nicks)
        /\ Len(e.antes) <= MaxConns /\ Len(e.antes) <= Cardinality(Fds)
        /\ \A i, j \in DOMAIN e.antes : e.antes[i] = e.antes[j] => i = j
        /\ e.guion \in [Conns -> Seq(Ordenes)]

VARIABLES
    guion,      \* guion[c]: the commands client c may send, in order
    llegadas,   \* connections accepted so far
    peer,       \* peer[c]: "vivo", "fin" (closed) or "rst" (answered with a reset)
    duenno,     \* duenno[f]: the connection behind descriptor f, or Nadie
    proceso,    \* "vivo", or "muerto" by SIGPIPE
    temporal,   \* temporal[f]: the nick of the temporary user of socket f, or Nadie
    bd,         \* bd[f]: the nick registered with socket f, or Nadie
    miembros,   \* nicks on the channel, which exists while there are any
    operadores, \* who created the channel: MODE does not change another user's mode
    cerrado,    \* the channel has a mode that refuses who joins (key, limit, invite)
    ausentes,   \* sockets of users that are away
    resto,      \* tokens after the one strtok gave last, of whatever string it was
    restoDe,    \* the thread whose string that was
    liberado,   \* that string has been freed
    \* local to the threads
    pc,
    hechas,     \* hechas[c]: commands of c completed
    token,      \* token[f]: the destination in hand
    lista,      \* lista[f]: nicks of the list still to send to
    dest,       \* dest[f]: the socket looked up for one of them
    \* history
    testigos,   \* testigos[f]: in the channel, under one nick, since the list was made,
                \* and still without the message
    victima     \* victima[f]: the client f kicked, if it keeps its nick and was not told

clientes == <<guion, llegadas, peer>>
canal    == <<miembros, operadores, cerrado>>
base     == <<temporal, bd, canal, ausentes>>
strtok   == <<resto, restoDe, liberado>>
locales  == <<token, lista, dest>>
historia == <<testigos, victima>>
vars == <<clientes, duenno, proceso, base, strtok, pc, hechas, locales, historia>>

-----------------------------------------------------------------------------

Vivo == proceso = "vivo"
Conn(f) == duenno[f]
Orden(f) == guion[Conn(f)][hechas[Conn(f)] + 1]

EnUso(n) == \E g \in Fds : bd[g] = n
ConnDe(n) == {duenno[g] : g \in {g \in Fds : bd[g] = n}}
ConnsDe(S) == UNION {ConnDe(n) : n \in S}

Va(f, lugar) == pc' = [pc EXCEPT ![f] = lugar]

Empieza(f, tipo) ==
    /\ Vivo
    /\ pc[f] = "espera"
    /\ hechas[Conn(f)] < Len(guion[Conn(f)])
    /\ Orden(f).tipo = tipo

Termina(f) ==
    /\ Va(f, "espera")
    /\ hechas' = [hechas EXCEPT ![Conn(f)] = @ + 1]
    /\ token' = [token EXCEPT ![f] = Canal]
    /\ victima' = [victima EXCEPT ![f] = Nadie]

(* enviar: a peer that has closed answers with a reset, sooner or later,   *)
(* and the next send raises SIGPIPE, which has its default action.         *)
Enviar(c) ==
    /\ \/ peer' = peer
       \/ peer[c] = "fin" /\ peer' = [peer EXCEPT ![c] = "rst"]
    /\ proceso' = IF peer[c] = "rst" THEN "muerto" ELSE proceso
    /\ UNCHANGED <<guion, llegadas>>

Responde(f) == Enviar(Conn(f))

(* The connections in S stop being witnesses of any list being walked.     *)
SinTestigos(S) == [g \in Fds |-> testigos[g] \ S]
SinVictima(S) == [g \in Fds |-> IF victima[g] \in S THEN Nadie ELSE victima[g]]

Puesto(f) == Cardinality({g \in Fds : g <= f})

Init ==
    \E e \in Escenarios :
    LET previa(f) == Puesto(f) <= Len(e.antes)
    IN
    /\ guion = e.guion
    /\ llegadas = Len(e.antes)
    /\ duenno = [f \in Fds |-> IF previa(f) THEN Puesto(f) ELSE Nadie]
    /\ bd = [f \in Fds |-> IF previa(f) THEN e.antes[Puesto(f)] ELSE Nadie]
    /\ pc = [f \in Fds |-> IF previa(f) THEN "espera" ELSE "libre"]
    /\ peer = [c \in Conns |-> "vivo"]
    /\ proceso = "vivo"
    /\ temporal = [f \in Fds |-> Nadie]
    /\ miembros = {}
    /\ operadores = {}
    /\ cerrado = FALSE
    /\ ausentes = {}
    /\ resto = <<>>
    /\ restoDe = Nadie
    /\ liberado = FALSE
    /\ hechas = [c \in Conns |-> 0]
    /\ token = [f \in Fds |-> Canal]
    /\ lista = [f \in Fds |-> {}]
    /\ dest = [f \in Fds |-> Nadie]
    /\ testigos = [f \in Fds |-> {}]
    /\ victima = [f \in Fds |-> Nadie]

-----------------------------------------------------------------------------
(* Connections.                                                            *)

Conecta(f) ==
    /\ Vivo
    /\ llegadas < MaxConns
    /\ duenno[f] = Nadie
    /\ \A g \in Fds : duenno[g] = Nadie => f <= g
    /\ llegadas' = llegadas + 1
    /\ duenno' = [duenno EXCEPT ![f] = llegadas + 1]
    /\ Va(f, "espera")
    /\ UNCHANGED <<guion, peer, proceso, base, strtok, hechas, locales, historia>>

(* Commands that were already sent may still be executed.                  *)
Desconecta(c) ==
    /\ Vivo
    /\ \E f \in Fds : Conn(f) = c
    /\ peer[c] = "vivo"
    /\ peer' = [peer EXCEPT ![c] = "fin"]
    /\ testigos' = SinTestigos({c})
    /\ victima' = SinVictima({c})
    /\ UNCHANGED <<guion, llegadas, duenno, proceso, base, strtok, pc, hechas,
                   locales>>

Quit(f) ==
    /\ Empieza(f, "QUIT")
    /\ Responde(f)
    /\ Va(f, "cierra")
    /\ UNCHANGED <<duenno, base, strtok, hechas, locales, historia>>

(* recv returns 0 in the main thread.                                      *)
CierraPeer(f) ==
    /\ Vivo
    /\ pc[f] = "espera"
    /\ peer[Conn(f)] # "vivo"
    /\ Va(f, "cierra")
    /\ UNCHANGED <<clientes, duenno, proceso, base, strtok, hechas, locales, historia>>

(* Mutant: the user stays in the data base and its channels.               *)
CerrarQuit_Omitido(f) ==
    /\ Vivo
    /\ pc[f] = "cierra"
    /\ temporal' = [temporal EXCEPT ![f] = Nadie]
    /\ Va(f, "close")
    /\ UNCHANGED <<clientes, duenno, proceso, bd, canal, ausentes, strtok, hechas,
                   locales, historia>>

(* IRCTAD_Quit takes the user out of its channels too.                     *)
CerrarQuit(f) ==
    /\ Vivo
    /\ pc[f] = "cierra"
    /\ bd' = [bd EXCEPT ![f] = Nadie]
    /\ miembros' = miembros \ {bd[f]}
    /\ operadores' = operadores \ {bd[f]}
    /\ ausentes' = ausentes \ {f}
    /\ temporal' = [temporal EXCEPT ![f] = Nadie]
    /\ testigos' = SinTestigos({Conn(f)})
    /\ victima' = SinVictima({Conn(f)})
    /\ Va(f, "close")
    /\ UNCHANGED <<clientes, duenno, proceso, cerrado, strtok, hechas, locales>>

CerrarClose(f) ==
    /\ Vivo
    /\ pc[f] = "close"
    /\ duenno' = [duenno EXCEPT ![f] = Nadie]
    /\ Va(f, "libre")
    /\ UNCHANGED <<clientes, proceso, base, strtok, hechas, locales, historia>>

-----------------------------------------------------------------------------
(* NICK and USER.                                                          *)

(* A connection without a user looks for the nick in one call and keeps it *)
(* in its temporary record in a later one.                                 *)
NickMira(f) ==
    LET n == Orden(f).nick
    IN  /\ Empieza(f, "NICK")
        /\ bd[f] = Nadie
        /\ \/ /\ EnUso(n)
              /\ Responde(f)
              /\ Termina(f)
              /\ UNCHANGED testigos
           \/ /\ ~EnUso(n)
              /\ Va(f, "nickPone")
              /\ UNCHANGED <<clientes, proceso, hechas, token, testigos, victima>>
        /\ UNCHANGED <<duenno, base, strtok, lista, dest>>

NickPone(f) ==
    /\ Vivo
    /\ pc[f] = "nickPone"
    /\ temporal' = [temporal EXCEPT ![f] = Orden(f).nick]
    /\ Termina(f)
    /\ UNCHANGED <<clientes, duenno, proceso, bd, canal, ausentes, strtok, lista,
                   dest, testigos>>

Renombra(S, n, m) == IF n \in S THEN (S \ {n}) \cup {m} ELSE S

(* IRCTADUser_Set refuses a nick in use and otherwise renames the user     *)
(* wherever it is.                                                         *)
NickCambia(f) ==
    LET n == Orden(f).nick
        c == Conn(f)
    IN  /\ Empieza(f, "NICK")
        /\ bd[f] # Nadie
        /\ \/ /\ EnUso(n)
              /\ UNCHANGED <<base, testigos>>
              /\ Termina(f)
           \/ /\ ~EnUso(n)
              /\ bd' = [bd EXCEPT ![f] = n]
              /\ miembros' = Renombra(miembros, bd[f], n)
              /\ operadores' = Renombra(operadores, bd[f], n)
              /\ testigos' = SinTestigos({c})
              /\ victima' = SinVictima({c, Nadie})
              /\ Va(f, "espera")
              /\ hechas' = [hechas EXCEPT ![c] = @ + 1]
              /\ UNCHANGED <<temporal, cerrado, ausentes, token>>
        /\ Responde(f)
        /\ UNCHANGED <<duenno, strtok, lista, dest>>

(* Already registered, no nick given, nick taken in the meantime, or new.  *)
User(f) ==
    /\ Empieza(f, "USER")
    /\ \/ /\ bd[f] = Nadie /\ temporal[f] # Nadie /\ ~EnUso(temporal[f])
          /\ bd' = [bd EXCEPT ![f] = temporal[f]]
          /\ temporal' = [temporal EXCEPT ![f] = Nadie]
       \/ /\ bd[f] # Nadie \/ temporal[f] = Nadie \/ EnUso(temporal[f])
          /\ UNCHANGED <<bd, temporal>>
    /\ Responde(f)
    /\ Termina(f)
    /\ UNCHANGED <<duenno, canal, ausentes, strtok, lista, dest, testigos>>

-----------------------------------------------------------------------------
(* enviarMensajeACanal: the nicks are listed in one call, each one's socket*)
(* is looked up in another, and written to later.                          *)

(* A command of a user that is not registered only gets an error.          *)
SinRegistrar(f) ==
    /\ bd[f] = Nadie
    /\ \E tipo \in Listas \cup {"JOIN", "KICK", "AWAY", "MODE", "PING", "TOPIC",
                             "MOTD", "WHO"} : Empieza(f, tipo)
    /\ Responde(f)
    /\ Termina(f)
    /\ UNCHANGED <<duenno, base, strtok, lista, dest, testigos>>

(* Who does not get the message: the author of JOIN and PRIVMSG, the victim*)
(* of KICK; PART leaves nobody out.                                        *)
NickOrigin(f) ==
    CASE Orden(f).tipo = "PART" -> {}
      [] Orden(f).tipo = "KICK" -> {Orden(f).nick}
      [] OTHER -> {bd[f]}

Nombrados(f) == (IF token[f] = Canal THEN miembros ELSE {}) \ NickOrigin(f)

(* Mutant: the loop over the list starts at 1.                             *)
ListNicks_Corta(f) ==
    /\ Vivo
    /\ pc[f] = "lista"
    /\ \E n \in Nombrados(f) : lista' = [lista EXCEPT ![f] = Nombrados(f) \ {n}]
    /\ testigos' = [testigos EXCEPT ![f] =
                      {c \in ConnsDe(Nombrados(f)) : peer[c] = "vivo"}]
    /\ Va(f, "difunde")
    /\ UNCHANGED <<clientes, duenno, proceso, base, strtok, hechas, token, dest,
                   victima>>

(* With nobody left, or another name, there is no channel: an error.       *)
ListNicks(f) ==
    /\ Vivo
    /\ pc[f] = "lista"
    /\ lista' = [lista EXCEPT ![f] = Nombrados(f)]
    /\ testigos' = [testigos EXCEPT ![f] =
                      {c \in ConnsDe(Nombrados(f)) : peer[c] = "vivo"}]
    /\ Va(f, "difunde")
    /\ IF miembros = {} \/ token[f] # Canal
       THEN Responde(f) ELSE UNCHANGED <<clientes, proceso>>
    /\ UNCHANGED <<duenno, base, strtok, hechas, token, dest, victima>>

(* A message to a user, whose author is told that the user is away.        *)
Aparte(f) == Orden(f).tipo = "PRIVMSG" /\ token[f] # Canal

(* enviarMensajePrivado.  A nick that is gone is an error for the author,  *)
(* or, with no author (PART), a message for descriptor 0.                  *)
Mira(f) ==
    /\ Vivo
    /\ pc[f] = "difunde"
    /\ \E n \in lista[f] :
        /\ lista' = [lista EXCEPT ![f] = @ \ {n}]
        /\ \/ /\ \E g \in Fds :
                    /\ bd[g] = n
                    /\ dest' = [dest EXCEPT ![f] = g]
                    /\ Va(f, IF g \in ausentes /\ Aparte(f) THEN "enviaAway" ELSE "envia")
              /\ UNCHANGED <<clientes, proceso>>
           \/ /\ ~EnUso(n)
              /\ IF NickOrigin(f) = {} THEN UNCHANGED <<clientes, proceso>> ELSE Responde(f)
              /\ UNCHANGED <<dest, pc>>
    /\ UNCHANGED <<duenno, base, strtok, hechas, token, historia>>

(* Whoever has the descriptor by now gets the message; it is lost if nobody*)
(* has.                                                                    *)
Envia(f) ==
    LET c == duenno[dest[f]]
    IN  /\ Vivo
        /\ pc[f] \in {"envia", "enviaAway"}
        /\ IF c = Nadie
           THEN UNCHANGED <<clientes, proceso, historia>>
           ELSE /\ Enviar(c)
                /\ testigos' = [testigos EXCEPT ![f] = @ \ {c}]
                /\ victima' = [victima EXCEPT ![f] = IF @ = c THEN Nadie ELSE @]
        /\ dest' = [dest EXCEPT ![f] = Nadie]
        /\ Va(f, IF pc[f] = "envia" THEN "difunde" ELSE "away")
        /\ UNCHANGED <<duenno, base, strtok, hechas, token, lista>>

SendAway(f) ==
    /\ Vivo
    /\ pc[f] = "away"
    /\ Responde(f)
    /\ Va(f, "difunde")
    /\ UNCHANGED <<duenno, base, strtok, hechas, locales, historia>>

Difundido(f) == Vivo /\ pc[f] = "difunde" /\ lista[f] = {}
Olvida(f) == testigos' = [testigos EXCEPT ![f] = {}]

-----------------------------------------------------------------------------
(* strtok, over a static variable that all the threads share.              *)

EmpiezaStrtok(f, destinos) ==
    /\ resto' = Tail(destinos)
    /\ restoDe' = f
    /\ liberado' = FALSE

(* What is done with destination t.  PRIVMSG and PART keep it; NAMES and   *)
(* the like, also as the end of JOIN, send a reply and look for the next.  *)
Destino(f, t) ==
    IF Orden(f).tipo \in {"PRIVMSG", "PART"}
    THEN /\ token' = [token EXCEPT ![f] = t]
         /\ Va(f, "token")
         /\ UNCHANGED <<clientes, proceso>>
    ELSE /\ Responde(f)
         /\ Va(f, "siguiente")
         /\ UNCHANGED token

(* strtok(NULL, ",") goes on with the string that somebody started last.   *)
(* What it finds in memory that was freed is anything.                     *)
StrtokSigue(f) ==
    /\ Vivo
    /\ pc[f] = "siguiente"
    /\ \/ /\ ~liberado /\ resto # <<>>
          /\ resto' = Tail(resto)
          /\ Destino(f, Head(resto))
          /\ UNCHANGED <<restoDe, liberado>>
       \/ /\ liberado
          /\ \E t \in Destinos : Destino(f, t)
          /\ UNCHANGED strtok
    /\ UNCHANGED <<duenno, base, hechas, lista, dest, historia>>

(* The command is over and frees its own string; LIST sends the end of it.  *)
StrtokFin(f) ==
    /\ Vivo
    /\ pc[f] = "siguiente"
    /\ liberado \/ resto = <<>>
    /\ liberado' = (liberado \/ restoDe = f)
    /\ resto' = IF liberado' THEN <<>> ELSE resto
    /\ restoDe' = IF liberado' THEN Nadie ELSE restoDe
    /\ Termina(f)
    /\ IF Orden(f).tipo = "LIST" THEN Responde(f) ELSE UNCHANGED <<clientes, proceso>>
    /\ UNCHANGED <<duenno, base, lista, dest, testigos>>

-----------------------------------------------------------------------------
(* The commands that walk a list of destinations.                          *)

(* The list is empty: one reply, an error or everything there is.          *)
SinDestinos(f) ==
    /\ Orden(f).destinos = <<>>
    /\ Responde(f)
    /\ Termina(f)
    /\ UNCHANGED <<strtok, testigos>>

EmpiezaLista(f, tipo) ==
    /\ Empieza(f, tipo)
    /\ bd[f] # Nadie
    /\ \/ SinDestinos(f)
       \/ /\ Orden(f).destinos # <<>>
          /\ EmpiezaStrtok(f, Orden(f).destinos)
          /\ Destino(f, Head(Orden(f).destinos))
          /\ UNCHANGED <<hechas, historia>>
    /\ UNCHANGED <<duenno, base, lista, dest>>

Privmsg(f) == EmpiezaLista(f, "PRIVMSG")
Part(f) == EmpiezaLista(f, "PART")
Names(f) == EmpiezaLista(f, "NAMES")
Whois(f) == EmpiezaLista(f, "WHOIS")
List(f) == EmpiezaLista(f, "LIST")

(* A message to the channel or to one user.                                *)
PrivmsgTarget(f) ==
    /\ Vivo
    /\ pc[f] = "token" /\ Orden(f).tipo = "PRIVMSG"
    /\ IF token[f] = Canal
       THEN Va(f, "lista") /\ UNCHANGED lista
       ELSE /\ Va(f, "difunde")
            /\ lista' = [lista EXCEPT ![f] = {token[f]}]
    /\ UNCHANGED <<clientes, duenno, proceso, base, strtok, hechas, token, dest, historia>>

(* partirCanal: the message, or the error, goes to the author and to the   *)
(* channel.                                                                *)
PartirCanal(f) ==
    /\ Vivo
    /\ pc[f] = "token" /\ Orden(f).tipo = "PART"
    /\ IF token[f] = Canal
       THEN /\ miembros' = miembros \ {bd[f]}
            /\ operadores' = operadores \ {bd[f]}
            /\ testigos' = SinTestigos({Conn(f)})
       ELSE UNCHANGED <<miembros, operadores, testigos>>
    /\ Responde(f)
    /\ Va(f, "lista")
    /\ UNCHANGED <<duenno, temporal, bd, cerrado, ausentes, strtok, hechas, locales,
                   victima>>

(* Mutant: whoever joins is an operator.                                   *)
Join_Operador(f) ==
    /\ Empieza(f, "JOIN")
    /\ bd[f] # Nadie /\ bd[f] \notin miembros
    /\ operadores' = operadores \cup {bd[f]}
    /\ miembros' = miembros \cup {bd[f]}
    /\ Va(f, "lista")
    /\ UNCHANGED <<clientes, duenno, proceso, temporal, bd, cerrado, ausentes, strtok,
                   hechas, locales, historia>>

(* Refused, or in; the first to join creates the channel.                  *)
Join(f) ==
    /\ Empieza(f, "JOIN")
    /\ bd[f] # Nadie
    /\ \/ /\ bd[f] \in miembros \/ (miembros # {} /\ cerrado)
          /\ Responde(f)
          /\ Termina(f)
          /\ UNCHANGED <<canal, testigos>>
       \/ /\ bd[f] \notin miembros
          /\ miembros = {} \/ ~cerrado
          /\ cerrado' = FALSE
          /\ operadores' = IF miembros = {} THEN {bd[f]} ELSE operadores
          /\ miembros' = miembros \cup {bd[f]}
          /\ Va(f, "lista")
          /\ UNCHANGED <<clientes, proceso, hechas, token, testigos, victima>>
    /\ UNCHANGED <<duenno, temporal, bd, ausentes, strtok, lista, dest>>

JoinEco(f) ==
    /\ Difundido(f) /\ Orden(f).tipo = "JOIN"
    /\ Responde(f)
    /\ Va(f, "names")
    /\ Olvida(f)
    /\ UNCHANGED <<duenno, base, strtok, hechas, locales, victima>>

JoinNames(f) ==
    /\ Vivo
    /\ pc[f] = "names"
    /\ EmpiezaStrtok(f, <<Canal>>)
    /\ Destino(f, Canal)
    /\ UNCHANGED <<duenno, base, hechas, lista, dest, historia>>

(* The next destination of PRIVMSG and PART.                               *)
Siguiente(f) ==
    /\ Difundido(f) /\ Orden(f).tipo \in {"PRIVMSG", "PART"}
    /\ Va(f, "siguiente")
    /\ Olvida(f)
    /\ UNCHANGED <<clientes, duenno, proceso, base, strtok, hechas, locales,
                   victima>>

-----------------------------------------------------------------------------
(* KICK and MODE.                                                          *)

(* IRCTAD_GetUserModeOnChannel, with the answer that it is an operator.    *)
SiOperador(f, lugar) ==
    /\ bd[f] # Nadie
    /\ \/ /\ bd[f] \in operadores
          /\ Va(f, lugar)
          /\ UNCHANGED <<clientes, proceso, hechas, token, victima>>
       \/ /\ bd[f] \notin operadores
          /\ Responde(f)
          /\ Termina(f)
    /\ UNCHANGED <<duenno, base, strtok, lista, dest, testigos>>

Kick(f) == Empieza(f, "KICK") /\ SiOperador(f, "kickea")

KickUserFromChannel(f) ==
    LET n == Orden(f).nick
    IN  /\ Vivo
        /\ pc[f] = "kickea"
        /\ \/ /\ n \in miembros
              /\ miembros' = miembros \ {n}
              /\ operadores' = operadores \ {n}
              /\ testigos' = SinTestigos(ConnDe(n))
              /\ victima' = [victima EXCEPT ![f] =
                    IF \E c \in ConnDe(n) : peer[c] = "vivo"
                    THEN CHOOSE c \in ConnDe(n) : TRUE ELSE Nadie]
              /\ Va(f, "lista")
              /\ UNCHANGED <<clientes, proceso, hechas, token>>
           \/ /\ n \notin miembros
              /\ Responde(f)
              /\ Termina(f)
              /\ UNCHANGED <<miembros, operadores, testigos>>
        /\ UNCHANGED <<duenno, temporal, bd, cerrado, ausentes, strtok, lista, dest>>

(* The victim is no longer in the channel and is told apart.               *)
AvisaVictima(f) ==
    /\ Difundido(f) /\ Orden(f).tipo = "KICK" /\ token[f] = Canal
    /\ token' = [token EXCEPT ![f] = Orden(f).nick]
    /\ lista' = [lista EXCEPT ![f] = {Orden(f).nick}]
    /\ Olvida(f)
    /\ UNCHANGED <<clientes, duenno, proceso, base, strtok, pc, hechas, dest,
                   victima>>

KickFin(f) ==
    /\ Difundido(f) /\ Orden(f).tipo = "KICK" /\ token[f] # Canal
    /\ Termina(f)
    /\ UNCHANGED <<clientes, duenno, proceso, base, strtok, lista, dest,
                   testigos>>

Mode(f) == Empieza(f, "MODE") /\ SiOperador(f, "modo")

(* IRCTAD_Mode: the channel may go on to refuse who joins, or stop it.     *)
SetMode(f) ==
    /\ Vivo
    /\ pc[f] = "modo"
    /\ cerrado' = Orden(f).pone
    /\ Responde(f)
    /\ Termina(f)
    /\ UNCHANGED <<duenno, temporal, bd, miembros, operadores, ausentes, strtok, lista,
                   dest, testigos>>

-----------------------------------------------------------------------------
(* AWAY, and the commands that only reply.                                 *)

Away(f) ==
    /\ Empieza(f, "AWAY")
    /\ bd[f] # Nadie
    /\ ausentes' = IF Orden(f).pone THEN ausentes \cup {f} ELSE ausentes \ {f}
    /\ Responde(f)
    /\ Termina(f)
    /\ UNCHANGED <<duenno, temporal, bd, canal, strtok, lista, dest, testigos>>

Contesta(f, tipo) ==
    /\ Empieza(f, tipo)
    /\ Responde(f)
    /\ Termina(f)
    /\ UNCHANGED <<duenno, base, strtok, lista, dest, testigos>>

Ping(f) == bd[f] # Nadie /\ Contesta(f, "PING")
Motd(f) == bd[f] # Nadie /\ Contesta(f, "MOTD")
Who(f) == bd[f] # Nadie /\ Contesta(f, "WHO")
ComandoVacio(f) == Contesta(f, "OTRO")

(* The topic only shows in replies.                                        *)
Topic(f) == bd[f] # Nadie /\ Contesta(f, "TOPIC")

(* No reply, to nobody.                                                    *)
Pong(f) ==
    /\ Empieza(f, "PONG")
    /\ Termina(f)
    /\ UNCHANGED <<clientes, duenno, proceso, base, strtok, lista, dest, testigos>>

-----------------------------------------------------------------------------

Hilo(f) ==
    \/ Quit(f) \/ CierraPeer(f) \/ CerrarQuit(f) \/ CerrarClose(f)
    \/ NickMira(f) \/ NickPone(f) \/ NickCambia(f) \/ User(f)
    \/ SinRegistrar(f) \/ ListNicks(f) \/ Mira(f) \/ Envia(f)
    \/ SendAway(f) \/ StrtokSigue(f) \/ StrtokFin(f)
    \/ Privmsg(f) \/ Part(f) \/ Names(f) \/ Whois(f) \/ List(f)
    \/ PrivmsgTarget(f) \/ PartirCanal(f)
    \/ Join(f) \/ JoinEco(f) \/ JoinNames(f) \/ Siguiente(f)
    \/ Kick(f) \/ KickUserFromChannel(f) \/ AvisaVictima(f) \/ KickFin(f)
    \/ Mode(f) \/ SetMode(f) \/ Away(f)
    \/ Ping(f) \/ Pong(f) \/ Topic(f) \/ Motd(f) \/ Who(f) \/ ComandoVacio(f)

Next ==
    \/ \E f \in Fds : Conecta(f)
    \/ \E c \in Cierran : Desconecta(c)
    \/ \E f \in Fds : Hilo(f)

Spec == Init /\ [][Next]_vars
=============================================================================
