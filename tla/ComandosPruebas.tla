------------------------- MODULE ComandosPruebas -------------------------
(***************************************************************************)
(* Proofs about the commands of the server, for any descriptors, nicks and *)
(* connections, any commands that each client sends and any interleaving   *)
(* of their threads.                                                       *)
(***************************************************************************)
EXTENDS ComandosPropiedades, FiniteSetTheorems, TLAPS

USE DEF vars, clientes, canal, base, strtok, locales, historia, Vivo, Conn

(* The places in the code where a thread may be.                           *)
Fuera == {"libre", "espera", "cierra", "close"}
EnCanal == {"lista", "difunde", "envia", "enviaAway", "away"}
Lugares ==
    Fuera \cup EnCanal \cup {"nickPone", "token", "siguiente", "names", "kickea", "modo"}

(* Connections, descriptors and threads.                                   *)
TipoHilos ==
    /\ guion \in [Conns -> Seq(Ordenes)]
    /\ llegadas \in 0..MaxConns
    /\ peer \in [Conns -> {"vivo", "fin", "rst"}]
    /\ proceso \in {"vivo", "muerto"}
    /\ duenno \in [Fds -> Conns \cup {Nadie}]
    /\ hechas \in [Conns -> Nat]
    /\ pc \in [Fds -> Lugares]

(* The data base, with the temporary records.                              *)
TipoBase ==
    /\ temporal \in [Fds -> Nicks \cup {Nadie}]
    /\ bd \in [Fds -> Nicks \cup {Nadie}]
    /\ miembros \subseteq Nicks
    /\ operadores \subseteq Nicks
    /\ cerrado \in BOOLEAN
    /\ ausentes \subseteq Fds

(* What the threads are doing, and the string that strtok walks.           *)
TipoLocales ==
    /\ resto \in Seq(Destinos)
    /\ restoDe \in Fds \cup {Nadie}
    /\ liberado \in BOOLEAN
    /\ token \in [Fds -> Destinos]
    /\ lista \in [Fds -> SUBSET Destinos]
    /\ dest \in [Fds -> Fds \cup {Nadie}]
    /\ testigos \in [Fds -> SUBSET (Conns \cup {Nadie})]
    /\ victima \in [Fds -> Conns \cup {Nadie}]

(* The type invariant.                                                     *)
Tipos == TipoHilos /\ TipoBase /\ TipoLocales

(* A descriptor in use is that of one connection, and its thread, when it  *)
(* is in the middle of a command, has that command in hand.                *)
Conexiones ==
    /\ \A f \in Fds : duenno[f] <= llegadas
    /\ \A f, g \in Fds : duenno[f] = duenno[g] /\ duenno[f] # Nadie => f = g
    /\ \A f \in Fds : pc[f] = "libre" <=> duenno[f] = Nadie
    /\ \A f \in Fds : pc[f] \notin Fuera => hechas[Conn(f)] < Len(guion[Conn(f)])
    /\ \A f \in Fds : /\ pc[f] = "nickPone" => Orden(f).tipo = "NICK"
                      /\ pc[f] = "kickea" => Orden(f).tipo = "KICK"
                      /\ pc[f] = "modo" => Orden(f).tipo = "MODE"

(* Nicks are registered for connections that are there, each for one, and  *)
(* only registered nicks are on the channel.                               *)
Registro ==
    /\ \A f \in Fds : pc[f] \in {"libre", "close"} => bd[f] = Nadie
    /\ \A f, g \in Fds : bd[f] = bd[g] /\ bd[f] # Nadie => f = g
    /\ \A n \in miembros : \E g \in Fds : bd[g] = n

(* There is at most one operator, who is on the channel, and a thread in   *)
(* the middle of KICK or MODE is the operator's.                           *)
Mando ==
    /\ operadores \subseteq miembros
    /\ \A n, m \in operadores : n = m
    /\ OperadorAutorizado

(* Connection c is still to be written to by thread f.                     *)
LeFalta(f, c) ==
    \E g \in Fds : /\ duenno[g] = c
                   /\ bd[g] # Nadie
                   /\ \/ bd[g] \in lista[f]
                      \/ pc[f] \in {"envia", "enviaAway"} /\ dest[f] = g

(* A witness of a list is still to be written to.                          *)
Entrega ==
    \A f \in Fds : \A c \in testigos[f] :
        pc[f] \in EnCanal \ {"lista"} /\ LeFalta(f, c)

(* Whoever was kicked has the nick that was kicked, and is in the list that *)
(* comes after that of the channel.                                        *)
Aviso ==
    \A f \in Fds :
        /\ pc[f] \in Fuera \cup {"kickea"} => token[f] = Canal
        /\ victima[f] # Nadie =>
            /\ pc[f] \in {"lista", "difunde", "envia"} /\ Orden(f).tipo = "KICK"
            /\ \E g \in Fds : /\ duenno[g] = victima[f]
                              /\ bd[g] = Orden(f).nick
                              /\ token[f] # Canal =>
                                   \/ pc[f] # "lista" /\ bd[g] \in lista[f]
                                   \/ pc[f] = "envia" /\ dest[f] = g

(* The inductive invariant.                                                *)
ComandosInv == Tipos /\ Conexiones /\ Registro /\ Mando /\ Entrega /\ Aviso
-----------------------------------------------------------------------------
(* What a thread leaves alone.                                             *)

(* The commands that only one of the threads has in hand at a time.        *)
LEMMA HiloDeja ==
    ASSUME NEW f, Hilo(f)
    PROVE  /\ UNCHANGED <<guion, llegadas>>
           /\ duenno' = duenno \/ CerrarClose(f)
           /\ UNCHANGED bd \/ NickCambia(f) \/ User(f) \/ CerrarQuit(f)
           /\ \/ UNCHANGED <<miembros, operadores>>
              \/ NickCambia(f) \/ CerrarQuit(f) \/ Join(f) \/ PartirCanal(f) \/ KickUserFromChannel(f)
BY ZenonT(60) DEF Hilo, Quit, CierraPeer, CerrarQuit, CerrarClose, NickMira, NickPone,
   NickCambia, User, SinRegistrar, ListNicks, Mira, Envia, SendAway, StrtokSigue,
   StrtokFin, Privmsg, Part, Names, Whois, List, PrivmsgTarget, PartirCanal, Join, JoinEco,
   JoinNames, Siguiente, Kick, KickUserFromChannel, AvisaVictima, KickFin, Mode, SetMode,
   Away, Ping, Pong, Topic, Motd, Who, ComandoVacio, Contesta, EmpiezaLista, SinDestinos,
   Destino, EmpiezaStrtok, SiOperador, Empieza, Termina, Enviar, Responde, Va, Difundido,
   Olvida

(* A thread changes only its own local variables, and counts a command as  *)
(* completed when it goes back to wait for the next one.                   *)
LEMMA HiloLocales ==
    ASSUME NEW f, Hilo(f)
    PROVE  /\ lista' = lista \/ \E S : lista' = [lista EXCEPT ![f] = S]
           /\ dest' = dest \/ \E g : dest' = [dest EXCEPT ![f] = g]
           /\ token' = token \/ \E t : token' = [token EXCEPT ![f] = t]
           /\ pc' = pc \/ \E a \in Lugares : pc' = [pc EXCEPT ![f] = a]
           /\ \/ hechas' = hechas
              \/ /\ hechas' = [hechas EXCEPT ![Conn(f)] = @ + 1]
                 /\ pc' = [pc EXCEPT ![f] = "espera"]
                 /\ pc[f] \in Lugares \ {"libre", "cierra", "close"}
BY ZenonT(60) DEF Lugares, Fuera, EnCanal, Hilo, Quit, CierraPeer, CerrarQuit, CerrarClose,
   NickMira, NickPone, NickCambia, User, SinRegistrar, ListNicks, Mira, Envia, SendAway,
   StrtokSigue, StrtokFin, Privmsg, Part, Names, Whois, List, PrivmsgTarget, PartirCanal,
   Join, JoinEco, JoinNames, Siguiente, Kick, KickUserFromChannel, AvisaVictima, KickFin,
   Mode, SetMode, Away, Ping, Pong, Topic, Motd, Who, ComandoVacio, Contesta, EmpiezaLista,
   SinDestinos, Destino, EmpiezaStrtok, SiOperador, Empieza, Termina, Enviar, Responde, Va,
   Difundido, Olvida

(* What a step may do to the sockets, the temporary records and the string *)
(* of strtok.                                                              *)
LEMMA HiloDemas ==
    ASSUME NEW f, Hilo(f)
    PROVE  /\ peer' = peer \/ \E c : peer' = [peer EXCEPT ![c] = "rst"]
           /\ proceso' \in {proceso, "muerto"}
           /\ temporal' = temporal \/ temporal' = [temporal EXCEPT ![f] = Nadie] \/ NickPone(f)
           /\ cerrado' = cerrado \/ Join(f) \/ SetMode(f)
           /\ ausentes' \subseteq ausentes \cup {f}
           /\ \/ strtok' = strtok \/ StrtokSigue(f) \/ StrtokFin(f) \/ JoinNames(f)
              \/ Privmsg(f) \/ Part(f) \/ Names(f) \/ Whois(f) \/ List(f)
BY ZenonT(60) DEF Hilo, Quit, CierraPeer, CerrarQuit, CerrarClose, NickMira, NickPone,
   NickCambia, User, SinRegistrar, ListNicks, Mira, Envia, SendAway, StrtokSigue,
   StrtokFin, Privmsg, Part, Names, Whois, List, PrivmsgTarget, PartirCanal, Join, JoinEco,
   JoinNames, Siguiente, Kick, KickUserFromChannel, AvisaVictima, KickFin, Mode, SetMode,
   Away, Ping, Pong, Topic, Motd, Who, ComandoVacio, Contesta, EmpiezaLista, SinDestinos,
   Destino, EmpiezaStrtok, SiOperador, Empieza, Termina, Enviar, Responde, Va, Difundido,
   Olvida

(* Which steps change what a thread still has to do.                       *)
LEMMA HiloListas ==
    ASSUME NEW f, Hilo(f)
    PROVE  /\ \/ UNCHANGED lista
              \/ ListNicks(f) \/ Mira(f) \/ PrivmsgTarget(f) \/ AvisaVictima(f)
           /\ dest' = dest \/ dest' = [dest EXCEPT ![f] = Nadie] \/ Mira(f)
           /\ \/ token' = token \/ token' = [token EXCEPT ![f] = Canal]
              \/ StrtokSigue(f) \/ JoinNames(f) \/ AvisaVictima(f)
              \/ Privmsg(f) \/ Part(f) \/ Names(f) \/ Whois(f) \/ List(f)
           /\ \/ testigos' = testigos \/ testigos' = [testigos EXCEPT ![f] = {}]
              \/ \E S : testigos' = SinTestigos(S)
              \/ ListNicks(f) \/ Envia(f)
           /\ \/ victima' = victima \/ victima' = [victima EXCEPT ![f] = Nadie]
              \/ \E S : victima' = SinVictima(S)
              \/ KickUserFromChannel(f) \/ Envia(f)
BY ZenonT(60) DEF Hilo, Quit, CierraPeer, CerrarQuit, CerrarClose, NickMira, NickPone,
   NickCambia, User, SinRegistrar, ListNicks, Mira, Envia, SendAway, StrtokSigue,
   StrtokFin, Privmsg, Part, Names, Whois, List, PrivmsgTarget, PartirCanal, Join, JoinEco,
   JoinNames, Siguiente, Kick, KickUserFromChannel, AvisaVictima, KickFin, Mode, SetMode,
   Away, Ping, Pong, Topic, Motd, Who, ComandoVacio, Contesta, EmpiezaLista, SinDestinos,
   Destino, EmpiezaStrtok, SiOperador, Empieza, Termina, Enviar, Responde, Va, Difundido,
   Olvida
-----------------------------------------------------------------------------
(* Types.                                                                  *)

(* A thread in the middle of a command has one of the commands of its      *)
(* client.                                                                 *)
LEMMA OrdenTipo ==
    ASSUME Tipos, Conexiones, NEW f \in Fds, pc[f] # "libre",
           hechas[Conn(f)] < Len(guion[Conn(f)])
    PROVE  /\ Orden(f) \in Ordenes
           /\ Orden(f).tipo \in {"NICK", "KICK"} => Orden(f).nick \in Nicks
           /\ Orden(f).tipo \in {"AWAY", "MODE"} => Orden(f).pone \in BOOLEAN
           /\ Orden(f).tipo \in Listas => Orden(f).destinos \in Seq(Destinos)
<1>1. Conn(f) \in Conns /\ guion[Conn(f)] \in Seq(Ordenes) /\ hechas[Conn(f)] \in Nat
  BY DEF Tipos, TipoHilos, Conexiones
<1>2. Orden(f) \in Ordenes
  BY <1>1 DEF Orden
<1> DEFINE o == Orden(f)
<1>3. o \in Ordenes
  BY <1>2
<1> HIDE DEF o
<1>4. /\ o.tipo \in {"NICK", "KICK"} => o.nick \in Nicks
      /\ o.tipo \in {"AWAY", "MODE"} => o.pone \in BOOLEAN
      /\ o.tipo \in Listas => o.destinos \in Seq(Destinos)
  BY <1>3 DEF Ordenes, Listas, SinDatos
<1> QED
  BY <1>2, <1>4 DEF o

(* Every variable stays in its set when a thread takes a step.             *)
LEMMA TiposHilo ==
    ASSUME Tipos, Conexiones, NEW f \in Fds, Hilo(f)
    PROVE  Tipos'
<1>1. TipoHilos'
  <2>1. duenno' \in [Fds -> Conns \cup {Nadie}]
    BY HiloDeja DEF Tipos, TipoHilos, CerrarClose
  <2>2. peer' \in [Conns -> {"vivo", "fin", "rst"}] /\ proceso' \in {"vivo", "muerto"}
    BY HiloDemas DEF Tipos, TipoHilos
  <2>3. pc' \in [Fds -> Lugares]
    BY HiloLocales DEF Tipos, TipoHilos
  <2>4. hechas' \in [Conns -> Nat]
    <3>1. hechas \in [Conns -> Nat]
      BY DEF Tipos, TipoHilos
    <3> QED
      BY <3>1, HiloLocales
  <2> QED
    BY <2>1, <2>2, <2>3, <2>4, HiloDeja DEF Tipos, TipoHilos
<1>2. TipoBase'
  <2>1. bd' \in [Fds -> Nicks \cup {Nadie}]
    <3>1. CASE NickCambia(f)
      BY <3>1, OrdenTipo DEF NickCambia, Empieza, Tipos, TipoBase
    <3> QED
      BY <3>1, HiloDeja DEF User, CerrarQuit, Tipos, TipoBase
  <2>2. temporal' \in [Fds -> Nicks \cup {Nadie}]
    <3>1. CASE NickPone(f)
      <4>1. Orden(f).nick \in Nicks
        BY <3>1, OrdenTipo DEF NickPone, Conexiones, Fuera
      <4> QED
        BY <3>1, <4>1 DEF NickPone, Tipos, TipoBase
    <3> QED
      BY <3>1, HiloDemas DEF Tipos, TipoBase
  <2>3. miembros' \subseteq Nicks /\ operadores' \subseteq Nicks
    <3>1. CASE NickCambia(f)
      BY <3>1, OrdenTipo DEF NickCambia, Empieza, Renombra, Tipos, TipoBase
    <3>2. CASE Join(f)
      BY <3>2 DEF Join, Tipos, TipoBase
    <3> QED
      BY <3>1, <3>2, HiloDeja DEF CerrarQuit, PartirCanal, KickUserFromChannel, Tipos,
         TipoBase
  <2>4. cerrado' \in BOOLEAN
    <3>1. CASE SetMode(f)
      <4>1. Orden(f).pone \in BOOLEAN
        BY <3>1, OrdenTipo DEF SetMode, Conexiones, Fuera
      <4> QED
        BY <3>1, <4>1 DEF SetMode
    <3>2. CASE Join(f)
      BY <3>2 DEF Join, Tipos, TipoBase
    <3> QED
      BY <3>1, <3>2, HiloDemas DEF Tipos, TipoBase
  <2>5. ausentes' \subseteq Fds
    BY HiloDemas DEF Tipos, TipoBase
  <2> QED
    BY <2>1, <2>2, <2>3, <2>4, <2>5 DEF TipoBase
<1>3. resto' \in Seq(Destinos) /\ restoDe' \in Fds \cup {Nadie} /\ liberado' \in BOOLEAN
  <2> DEFINE Bien == resto' \in Seq(Destinos) /\ restoDe' \in Fds \cup {Nadie} /\ liberado' \in BOOLEAN
  <2>0. strtok' = strtok => Bien
    BY DEF Tipos, TipoLocales
  <2>1. ASSUME NEW tipo \in Listas, EmpiezaLista(f, tipo)
        PROVE  Bien
    <3>1. CASE SinDestinos(f)
      BY <2>0, <3>1 DEF SinDestinos
    <3>2. CASE ~SinDestinos(f)
      <4>1. Orden(f).destinos # <<>> /\ EmpiezaStrtok(f, Orden(f).destinos)
        BY <2>1, <3>2 DEF EmpiezaLista
      <4>2. Orden(f).destinos \in Seq(Destinos)
        BY <2>1, OrdenTipo DEF EmpiezaLista, Empieza
      <4>3. Tail(Orden(f).destinos) \in Seq(Destinos)
        BY <4>1, <4>2
      <4> QED
        BY <4>1, <4>3 DEF EmpiezaStrtok
    <3> QED
      BY <3>1, <3>2
  <2>2. ASSUME JoinNames(f) PROVE Bien
    <3>1. Canal \in Destinos
      BY DEF Destinos
    <3>2. Tail(<<Canal>>) \in Seq(Destinos)
      BY <3>1
    <3> QED
      BY <2>2, <3>2 DEF JoinNames, EmpiezaStrtok
  <2>3. ASSUME StrtokSigue(f) PROVE Bien
    <3>1. resto # <<>> => Tail(resto) \in Seq(Destinos)
      BY DEF Tipos, TipoLocales
    <3> QED
      BY <2>3, <3>1 DEF StrtokSigue, Tipos, TipoLocales
  <2>4. ASSUME StrtokFin(f) PROVE Bien
    <3>1. <<>> \in Seq(Destinos)
      OBVIOUS
    <3> QED
      BY <2>4, <3>1 DEF StrtokFin, Tipos, TipoLocales
  <2>5. {"PRIVMSG", "PART", "NAMES", "WHOIS", "LIST"} \subseteq Listas
    BY DEF Listas
  <2> HIDE DEF Bien
  <2>6. ASSUME Privmsg(f) \/ Part(f) \/ Names(f) \/ Whois(f) \/ List(f)
        PROVE  Bien
    BY <2>1, <2>5, <2>6 DEF Privmsg, Part, Names, Whois, List
  <2>7. Bien
    BY <2>0, <2>2, <2>3, <2>4, <2>6, HiloDemas
  <2> QED
    BY <2>7 DEF Bien
<1>4. token' \in [Fds -> Destinos]
  <2>1. ASSUME NEW t \in Destinos, Destino(f, t)
        PROVE  token' \in [Fds -> Destinos]
    BY <2>1 DEF Destino, Tipos, TipoLocales
  <2>2. Canal \in Destinos
    BY DEF Destinos
  <2>3. ASSUME NEW tipo \in Listas, EmpiezaLista(f, tipo)
        PROVE  token' \in [Fds -> Destinos]
    <3>1. CASE SinDestinos(f)
      BY <2>2, <3>1 DEF SinDestinos, Termina, Tipos, TipoLocales
    <3>2. CASE ~SinDestinos(f)
      <4>1. Orden(f).destinos # <<>> /\ Destino(f, Head(Orden(f).destinos))
        BY <2>3, <3>2 DEF EmpiezaLista
      <4>2. Orden(f).destinos \in Seq(Destinos)
        BY <2>3, OrdenTipo DEF EmpiezaLista, Empieza
      <4> QED
        BY <2>1, <4>1, <4>2
    <3> QED
      BY <3>1, <3>2
  <2>4. CASE StrtokSigue(f)
    <3>1. resto # <<>> => Head(resto) \in Destinos
      BY DEF Tipos, TipoLocales
    <3> QED
      BY <2>1, <2>4, <3>1 DEF StrtokSigue
  <2>5. CASE JoinNames(f)
    BY <2>1, <2>2, <2>5 DEF JoinNames
  <2>6. CASE AvisaVictima(f)
    <3>1. Orden(f).nick \in Nicks
      BY <2>6, OrdenTipo DEF AvisaVictima, Difundido, Conexiones, Fuera
    <3> QED
      BY <2>6, <3>1 DEF AvisaVictima, Destinos, Tipos, TipoLocales
  <2> QED
    BY <2>2, <2>3, <2>4, <2>5, <2>6, HiloListas DEF Privmsg, Part, Names, Whois, List,
       Listas, Tipos, TipoLocales
<1>5. lista' \in [Fds -> SUBSET Destinos]
  <2>1. CASE AvisaVictima(f)
    <3>1. Orden(f).nick \in Nicks
      BY <2>1, OrdenTipo DEF AvisaVictima, Difundido, Conexiones, Fuera
    <3> QED
      BY <2>1, <3>1 DEF AvisaVictima, Destinos, Tipos, TipoLocales
  <2>2. CASE ListNicks(f)
    <3>1. Nombrados(f) \subseteq Destinos
      BY DEF Nombrados, Destinos, Tipos, TipoBase
    <3> QED
      BY <2>2, <3>1 DEF ListNicks, Tipos, TipoLocales
  <2>3. CASE Mira(f)
    BY <2>3 DEF Mira, Tipos, TipoLocales
  <2>4. CASE PrivmsgTarget(f)
    BY <2>4 DEF PrivmsgTarget, Tipos, TipoLocales
  <2> QED
    BY <2>1, <2>2, <2>3, <2>4, HiloListas DEF Tipos, TipoLocales
<1>6. dest' \in [Fds -> Fds \cup {Nadie}]
  BY HiloListas DEF Mira, Tipos, TipoLocales
<1>7. testigos' \in [Fds -> SUBSET (Conns \cup {Nadie})]
  <2>1. CASE ListNicks(f)
    <3>1. {c \in ConnsDe(Nombrados(f)) : peer[c] = "vivo"} \subseteq Conns \cup {Nadie}
      BY DEF ConnsDe, ConnDe, Tipos, TipoHilos
    <3> QED
      BY <2>1, <3>1 DEF ListNicks, Tipos, TipoLocales
  <2>2. CASE Envia(f)
    BY <2>2 DEF Envia, Tipos, TipoLocales
  <2>3. ASSUME NEW S, testigos' = SinTestigos(S)
        PROVE  testigos' \in [Fds -> SUBSET (Conns \cup {Nadie})]
    BY <2>3 DEF SinTestigos, Tipos, TipoLocales
  <2> QED
    BY <2>1, <2>2, <2>3, HiloListas DEF Tipos, TipoLocales
<1>8. victima' \in [Fds -> Conns \cup {Nadie}]
  <2>1. CASE KickUserFromChannel(f)
    <3>1. \A n : ConnDe(n) \subseteq Conns \cup {Nadie}
      BY DEF ConnDe, Tipos, TipoHilos
    <3>2. (\E c \in ConnDe(Orden(f).nick) : peer[c] = "vivo") =>
            (CHOOSE c \in ConnDe(Orden(f).nick) : TRUE) \in Conns \cup {Nadie}
      BY <3>1
    <3> QED
      BY <2>1, <3>2 DEF KickUserFromChannel, Termina, Tipos, TipoLocales
  <2>2. ASSUME NEW S, victima' = SinVictima(S)
        PROVE  victima' \in [Fds -> Conns \cup {Nadie}]
    BY <2>2 DEF SinVictima, Tipos, TipoLocales
  <2>3. CASE Envia(f)
    BY <2>3 DEF Envia, Tipos, TipoLocales
  <2> QED
    BY <2>1, <2>2, <2>3, HiloListas DEF Tipos, TipoLocales
<1> QED
  BY <1>1, <1>2, <1>4, <1>5, <1>6, <1>7, <1>8, <1>3 DEF Tipos, TipoLocales

(* A connection is accepted, or closes its socket.                         *)
LEMMA TiposFuera ==
    ASSUME Tipos,
           \/ \E f \in Fds : Conecta(f)
           \/ \E c \in Cierran : Desconecta(c)
    PROVE  Tipos'
<1>1. CASE \E f \in Fds : Conecta(f)
  <2>1. PICK f \in Fds : Conecta(f)
    BY <1>1
  <2>2. llegadas' \in 0..MaxConns /\ llegadas + 1 \in Conns
    BY <2>1, ComandosAssumption DEF Conecta, Conns, Tipos, TipoHilos
  <2>3. TipoHilos'
    BY <2>1, <2>2 DEF Conecta, Va, Lugares, Fuera, Tipos, TipoHilos
  <2> QED
    BY <2>1, <2>3 DEF Conecta, Tipos, TipoBase, TipoLocales
<1>2. CASE \E c \in Cierran : Desconecta(c)
  <2>1. PICK c \in Cierran : Desconecta(c)
    BY <1>2
  <2>2. TipoHilos' /\ TipoBase'
    BY <2>1 DEF Desconecta, Tipos, TipoHilos, TipoBase
  <2>3. TipoLocales'
    BY <2>1 DEF Desconecta, SinTestigos, SinVictima, Tipos, TipoLocales
  <2> QED
    BY <2>2, <2>3 DEF Tipos
<1> QED
  BY <1>1, <1>2
-----------------------------------------------------------------------------
(* Connections and threads.                                                *)

(* Where a thread that gets into the middle of a command comes from.       *)
LEMMA HiloEntra ==
    ASSUME Tipos, NEW f \in Fds, Hilo(f)
    PROVE  /\ pc[f] # "libre"
           /\ pc'[f] = "libre" <=> CerrarClose(f)
           /\ pc'[f] \notin Fuera =>
                /\ hechas' = hechas
                /\ pc[f] \notin Fuera \/ (pc[f] = "espera" /\ hechas[Conn(f)] < Len(guion[Conn(f)]))
           /\ pc'[f] = "nickPone" => NickMira(f)
           /\ pc'[f] = "kickea" => Kick(f)
           /\ pc'[f] = "modo" => Mode(f)
           /\ \A g \in Fds \ {f} : pc'[g] = pc[g]
<1>1. pc \in [Fds -> Lugares] /\ \A g \in Fds \ {f} : pc'[g] = pc[g]
  BY HiloLocales DEF Tipos, TipoHilos
<1>2. /\ pc[f] # "libre"
      /\ pc'[f] = "libre" <=> CerrarClose(f)
      /\ pc'[f] = "nickPone" => NickMira(f)
      /\ pc'[f] = "kickea" => Kick(f)
      /\ pc'[f] = "modo" => Mode(f)
  BY <1>1, ZenonT(60) DEF Hilo, Quit, CierraPeer, CerrarQuit, CerrarClose, NickMira,
     NickPone, NickCambia, User, SinRegistrar, ListNicks, Mira, Envia, SendAway,
     StrtokSigue, StrtokFin, Privmsg, Part, Names, Whois, List, PrivmsgTarget, PartirCanal,
     Join, JoinEco, JoinNames, Siguiente, Kick, KickUserFromChannel, AvisaVictima, KickFin,
     Mode, SetMode, Away, Ping, Pong, Topic, Motd, Who, ComandoVacio, Contesta,
     EmpiezaLista, SinDestinos, Destino, EmpiezaStrtok, SiOperador, Empieza, Termina, Va,
     Difundido
<1>3. pc'[f] \notin Fuera =>
        /\ hechas' = hechas
        /\ pc[f] \notin Fuera \/ (pc[f] = "espera" /\ hechas[Conn(f)] < Len(guion[Conn(f)]))
  BY <1>1, ZenonT(60) DEF Fuera, Hilo, Quit, CierraPeer, CerrarQuit, CerrarClose, NickMira,
     NickPone, NickCambia, User, SinRegistrar, ListNicks, Mira, Envia, SendAway,
     StrtokSigue, StrtokFin, Privmsg, Part, Names, Whois, List, PrivmsgTarget, PartirCanal,
     Join, JoinEco, JoinNames, Siguiente, Kick, KickUserFromChannel, AvisaVictima, KickFin,
     Mode, SetMode, Away, Ping, Pong, Topic, Motd, Who, ComandoVacio, Contesta,
     EmpiezaLista, SinDestinos, Destino, EmpiezaStrtok, SiOperador, Empieza, Termina, Va,
     Difundido
<1> QED
  BY <1>1, <1>2, <1>3

(* A command in the middle of which a thread is stays in its hands.        *)
LEMMA OrdenQueda ==
    ASSUME Tipos, Conexiones, NEW f \in Fds, Hilo(f), NEW g \in Fds,
           pc[g] # "libre", g # f \/ hechas' = hechas, g # f \/ duenno' = duenno
    PROVE  /\ Conn(g)' = Conn(g) /\ guion' = guion
           /\ hechas'[Conn(g)] = hechas[Conn(g)]
           /\ Orden(g)' = Orden(g)
<1>1. Conn(g) \in Conns /\ Conn(f) \in Conns /\ (g # f => Conn(g) # Conn(f))
  BY HiloEntra DEF Tipos, TipoHilos, Conexiones
<1>2. Conn(g)' = Conn(g) /\ guion' = guion
  <2>1. CASE duenno' = duenno
    BY <2>1, HiloDeja
  <2>2. CASE g # f /\ CerrarClose(f)
    BY <2>2 DEF CerrarClose, Tipos, TipoHilos
  <2> QED
    BY <2>1, <2>2, HiloDeja
<1>3. hechas'[Conn(g)] = hechas[Conn(g)]
  <2>1. CASE hechas' = hechas
    BY <2>1
  <2>2. CASE g # f
    <3>1. hechas' = hechas \/ hechas' = [hechas EXCEPT ![Conn(f)] = @ + 1]
      BY HiloLocales
    <3> QED
      BY <1>1, <2>2, <3>1 DEF Tipos, TipoHilos
  <2> QED
    BY <2>1, <2>2
<1> QED
  BY <1>2, <1>3 DEF Orden

(* Descriptors and commands in hand after a step of a thread.              *)
LEMMA ConexionesHilo ==
    ASSUME Tipos, Conexiones, NEW f \in Fds, Hilo(f)
    PROVE  Conexiones'
<1>0. /\ duenno \in [Fds -> Conns \cup {Nadie}] /\ pc \in [Fds -> Lugares] /\ llegadas' = llegadas
      /\ llegadas \in Nat
  BY HiloDeja, ComandosAssumption DEF Tipos, TipoHilos
<1>1. CASE CerrarClose(f)
  <2>1. duenno' = [duenno EXCEPT ![f] = Nadie] /\ pc' = [pc EXCEPT ![f] = "libre"]
        /\ hechas' = hechas
    BY <1>1 DEF CerrarClose, Va
  <2>2. /\ \A g \in Fds : duenno'[g] <= llegadas
        /\ \A g, h \in Fds : duenno'[g] = duenno'[h] /\ duenno'[g] # Nadie => g = h
        /\ \A g \in Fds : pc'[g] = "libre" <=> duenno'[g] = Nadie
    BY <1>0, <2>1 DEF Conexiones, Nadie
  <2>3. ASSUME NEW g \in Fds, pc'[g] \notin Fuera
        PROVE  /\ hechas'[Conn(g)'] < Len(guion'[Conn(g)'])
               /\ Orden(g)' = Orden(g) /\ pc'[g] = pc[g]
    <3>1. g # f /\ pc'[g] = pc[g] /\ pc[g] \notin Fuera
      BY <1>0, <2>1, <2>3 DEF Fuera
    <3> QED
      BY <3>1, OrdenQueda DEF Conexiones, Fuera
  <2> QED
    BY <1>0, <2>2, <2>3 DEF Conexiones, Fuera
<1>2. CASE ~CerrarClose(f)
  <2>1. duenno' = duenno
    BY <1>2, HiloDeja
  <2>2. /\ \A g \in Fds : duenno'[g] <= llegadas
        /\ \A g, h \in Fds : duenno'[g] = duenno'[h] /\ duenno'[g] # Nadie => g = h
        /\ \A g \in Fds : pc'[g] = "libre" <=> duenno'[g] = Nadie
    BY <1>0, <1>2, <2>1, HiloEntra DEF Conexiones
  <2>3. ASSUME NEW g \in Fds, pc'[g] \notin Fuera
        PROVE  /\ hechas'[Conn(g)'] < Len(guion'[Conn(g)'])
               /\ Orden(g)' = Orden(g)
               /\ pc[g] # "libre"
    <3>1. pc[g] # "libre" /\ (g = f => hechas' = hechas)
      BY <2>3, HiloEntra DEF Fuera
    <3>2. hechas[Conn(g)] < Len(guion[Conn(g)])
      BY <2>3, HiloEntra DEF Conexiones
    <3> QED
      BY <2>1, <3>1, <3>2, OrdenQueda
  <2>4. ASSUME NEW g \in Fds
        PROVE  /\ pc'[g] = "nickPone" => Orden(g)'.tipo = "NICK"
               /\ pc'[g] = "kickea" => Orden(g)'.tipo = "KICK"
               /\ pc'[g] = "modo" => Orden(g)'.tipo = "MODE"
    <3>1. /\ pc'[g] = "nickPone" => Orden(g).tipo = "NICK"
          /\ pc'[g] = "kickea" => Orden(g).tipo = "KICK"
          /\ pc'[g] = "modo" => Orden(g).tipo = "MODE"
      BY HiloEntra DEF Conexiones, NickMira, Kick, Mode, Empieza
    <3> QED
      BY <2>3, <3>1 DEF Fuera
  <2> QED
    BY <1>0, <2>2, <2>3, <2>4 DEF Conexiones
<1> QED
  BY <1>1, <1>2

(* And when a connection is accepted, or closes its socket.                *)
LEMMA ConexionesFuera ==
    ASSUME Tipos, Conexiones,
           \/ \E f \in Fds : Conecta(f)
           \/ \E c \in Cierran : Desconecta(c)
    PROVE  Conexiones'
<1>1. CASE \E f \in Fds : Conecta(f)
  <2>1. PICK f \in Fds : Conecta(f)
    BY <1>1
  <2>2. /\ duenno \in [Fds -> Conns \cup {Nadie}] /\ pc \in [Fds -> Lugares]
        /\ llegadas \in Nat /\ llegadas' = llegadas + 1
        /\ duenno' = [duenno EXCEPT ![f] = llegadas + 1] /\ pc' = [pc EXCEPT ![f] = "espera"]
        /\ guion' = guion /\ hechas' = hechas
    BY <2>1, ComandosAssumption DEF Conecta, Va, Tipos, TipoHilos
  <2>3. \A g \in Fds : duenno[g] \in Nat /\ duenno[g] <= llegadas
    BY <2>2, ComandosAssumption DEF Conns, Nadie, Conexiones
  <2>4. /\ \A g \in Fds : duenno'[g] <= llegadas'
        /\ \A g, h \in Fds : duenno'[g] = duenno'[h] /\ duenno'[g] # Nadie => g = h
        /\ \A g \in Fds : pc'[g] = "libre" <=> duenno'[g] = Nadie
    BY <2>2, <2>3 DEF Conexiones, Nadie
  <2>5. ASSUME NEW g \in Fds, pc'[g] \notin Fuera
        PROVE  pc[g] = pc'[g] /\ Conn(g)' = Conn(g) /\ Orden(g)' = Orden(g)
    BY <2>2, <2>5 DEF Fuera, Orden
  <2> QED
    BY <2>2, <2>4, <2>5 DEF Conexiones, Fuera
<1>2. CASE \E c \in Cierran : Desconecta(c)
  BY <1>2 DEF Desconecta, Conexiones, Orden
<1> QED
  BY <1>1, <1>2
-----------------------------------------------------------------------------
(* The nicks and the channel.                                              *)

(* Which step leaves a connection without identity.                        *)
LEMMA HiloCierra ==
    ASSUME Tipos, NEW f \in Fds, Hilo(f), pc'[f] = "close"
    PROVE  CerrarQuit(f)
<1>1. pc \in [Fds -> Lugares]
  BY DEF Tipos, TipoHilos
<1> QED
  BY <1>1, ZenonT(60) DEF Hilo, Quit, CierraPeer, CerrarClose, NickMira, NickPone,
     NickCambia, User, SinRegistrar, ListNicks, Mira, Envia, SendAway, StrtokSigue,
     StrtokFin, Privmsg, Part, Names, Whois, List, PrivmsgTarget, PartirCanal, Join,
     JoinEco, JoinNames, Siguiente, Kick, KickUserFromChannel, AvisaVictima, KickFin, Mode,
     SetMode, Away, Ping, Pong, Topic, Motd, Who, ComandoVacio, Contesta, EmpiezaLista,
     SinDestinos, Destino, EmpiezaStrtok, SiOperador, Empieza, Termina, Va, Difundido

(* NICK and USER register a nick only if, in that very call, nobody has it;*)
(* QUIT takes it out of the channel too.                                   *)
LEMMA RegistroHilo ==
    ASSUME Tipos, Conexiones, Registro, NEW f \in Fds, Hilo(f)
    PROVE  Registro'
<1>0. /\ bd \in [Fds -> Nicks \cup {Nadie}] /\ temporal \in [Fds -> Nicks \cup {Nadie}]
      /\ miembros \subseteq Nicks /\ Nadie \notin Nicks
      /\ \A g \in Fds \ {f} : pc'[g] = pc[g]
      /\ pc \in [Fds -> Lugares]
  BY ComandosAssumption, HiloEntra DEF Tipos, TipoBase, TipoHilos, Nadie
<1>1. CASE NickCambia(f) /\ ~UNCHANGED base
  <2> DEFINE n == Orden(f).nick
  <2>1. /\ bd' = [bd EXCEPT ![f] = n] /\ bd[f] # Nadie /\ ~EnUso(n)
        /\ miembros' = Renombra(miembros, bd[f], n) /\ pc'[f] = "espera"
    BY <1>0, <1>1 DEF NickCambia, Va
  <2>2. n \in Nicks /\ \A g \in Fds : bd[g] # n
    BY <1>1, <2>1, OrdenTipo DEF NickCambia, Empieza, EnUso
  <2> HIDE DEF n
  <2>3. /\ \A g \in Fds : pc'[g] \in {"libre", "close"} => bd'[g] = Nadie
        /\ \A g, h \in Fds : bd'[g] = bd'[h] /\ bd'[g] # Nadie => g = h
    BY <1>0, <2>1, <2>2 DEF Registro
  <2>4. ASSUME NEW m \in miembros'
        PROVE  \E g \in Fds : bd'[g] = m
    <3>1. CASE m = n
      BY <1>0, <2>1, <3>1
    <3>2. CASE m # n
      <4>1. m \in miembros /\ m # bd[f]
        BY <2>1, <2>4, <3>2 DEF Renombra
      <4>2. PICK g \in Fds : bd[g] = m
        BY <4>1 DEF Registro
      <4> QED
        BY <1>0, <2>1, <4>1, <4>2
    <3> QED
      BY <3>1, <3>2
  <2> QED
    BY <2>3, <2>4 DEF Registro
<1>2. CASE CerrarQuit(f)
  <2>1. bd' = [bd EXCEPT ![f] = Nadie] /\ miembros' = miembros \ {bd[f]}
    BY <1>2 DEF CerrarQuit
  <2> QED
    BY <1>0, <2>1 DEF Registro
<1>3. CASE User(f)
  <2>1. /\ pc'[f] = "espera" /\ miembros' = miembros
        /\ \/ bd' = bd
           \/ /\ bd' = [bd EXCEPT ![f] = temporal[f]] /\ bd[f] = Nadie /\ temporal[f] # Nadie
              /\ ~EnUso(temporal[f])
    BY <1>0, <1>3 DEF User, Termina, Va
  <2> QED
    BY <1>0, <2>1 DEF Registro, EnUso
<1>4. CASE UNCHANGED bd /\ ~CerrarQuit(f)
  <2>1. miembros' \subseteq miembros \cup ({bd[f]} \ {Nadie})
    <3>1. CASE NickCambia(f)
      <4>1. ~(bd' = [bd EXCEPT ![f] = Orden(f).nick] /\ ~EnUso(Orden(f).nick))
        BY <1>0, <1>4 DEF EnUso
      <4> QED
        BY <3>1, <4>1 DEF NickCambia
    <3> QED
      BY <1>4, <3>1, HiloDeja DEF Join, PartirCanal, KickUserFromChannel
  <2>2. \A g \in Fds : pc'[g] \in {"libre", "close"} => bd[g] = Nadie
    BY <1>0, <1>4, HiloEntra, HiloCierra DEF Registro, CerrarClose
  <2> QED
    BY <1>4, <2>1, <2>2 DEF Registro
<1> QED
  BY <1>1, <1>2, <1>3, <1>4, HiloDeja

(* Connections that come and go do not touch the data base.                *)
LEMMA RegistroFuera ==
    ASSUME Tipos, Conexiones, Registro,
           \/ \E f \in Fds : Conecta(f)
           \/ \E c \in Cierran : Desconecta(c)
    PROVE  Registro'
<1>1. UNCHANGED <<bd, miembros>> /\ (pc' = pc \/ \E f \in Fds : pc' = [pc EXCEPT ![f] = "espera"])
  BY DEF Conecta, Desconecta, Va
<1> QED
  BY <1>1 DEF Registro, Tipos, TipoHilos

(* Nobody can take the rights of an operator that is using them: only an   *)
(* operator kicks, and there is only one, which is not created anew while  *)
(* there are members.                                                      *)
LEMMA MandoHilo ==
    ASSUME Tipos, Conexiones, Registro, Mando, NEW f \in Fds, Hilo(f)
    PROVE  Mando'
<1>0. /\ bd \in [Fds -> Nicks \cup {Nadie}] /\ miembros \subseteq Nicks /\ Nadie \notin Nicks
      /\ \A g \in Fds \ {f} : pc'[g] = pc[g]
      /\ pc \in [Fds -> Lugares]
      /\ operadores \subseteq miembros /\ \A n, m \in operadores : n = m
      /\ \A g \in Fds : pc[g] \in {"kickea", "modo"} => bd[g] \in operadores
      /\ \A g, h \in Fds : bd[g] = bd[h] /\ bd[g] # Nadie => g = h
  BY ComandosAssumption, HiloEntra DEF Tipos, TipoBase, TipoHilos, Nadie, Mando,
     OperadorAutorizado, Registro
<1>1. CASE CerrarQuit(f) \/ PartirCanal(f)
  <2>1. /\ \/ miembros' = miembros \ {bd[f]} /\ operadores' = operadores \ {bd[f]}
           \/ miembros' = miembros /\ operadores' = operadores
        /\ bd' = bd \/ bd' = [bd EXCEPT ![f] = Nadie]
        /\ pc'[f] \in {"close", "lista"}
    BY <1>0, <1>1 DEF CerrarQuit, PartirCanal, Va
  <2> QED
    BY <1>0, <2>1 DEF Mando, OperadorAutorizado
<1>2. CASE NickCambia(f)
  <2> DEFINE n == Orden(f).nick
  <2>1. /\ \/ /\ bd' = [bd EXCEPT ![f] = n] /\ bd[f] # Nadie
              /\ miembros' = Renombra(miembros, bd[f], n)
              /\ operadores' = Renombra(operadores, bd[f], n)
           \/ UNCHANGED <<bd, miembros, operadores>>
        /\ pc'[f] = "espera"
    BY <1>0, <1>2 DEF NickCambia, Termina, Va
  <2> HIDE DEF n
  <2> QED
    BY <1>0, <2>1 DEF Mando, OperadorAutorizado, Renombra
<1>3. CASE Join(f)
  <2>1. /\ bd' = bd /\ bd[f] # Nadie /\ pc'[f] \in {"espera", "lista"}
        /\ \/ UNCHANGED <<miembros, operadores>>
           \/ /\ miembros' = miembros \cup {bd[f]}
              /\ operadores' = IF miembros = {} THEN {bd[f]} ELSE operadores
    BY <1>0, <1>3 DEF Join, Termina, Va
  <2> QED
    BY <1>0, <2>1 DEF Mando, OperadorAutorizado
<1>4. CASE KickUserFromChannel(f)
  <2>1. /\ bd' = bd /\ pc[f] = "kickea" /\ pc'[f] \in {"espera", "lista"}
        /\ \/ UNCHANGED <<miembros, operadores>>
           \/ \E n : miembros' = miembros \ {n} /\ operadores' = operadores \ {n}
    BY <1>0, <1>4 DEF KickUserFromChannel, Termina, Va
  <2>2. \A g \in Fds : pc'[g] \notin {"kickea", "modo"}
    BY <1>0, <2>1
  <2> QED
    BY <1>0, <2>1, <2>2 DEF Mando, OperadorAutorizado
<1>5. CASE User(f)
  <2>1. /\ UNCHANGED <<miembros, operadores>> /\ pc'[f] = "espera"
        /\ bd' = bd \/ \E n : bd' = [bd EXCEPT ![f] = n]
    BY <1>0, <1>5 DEF User, Termina, Va
  <2> QED
    BY <1>0, <2>1 DEF Mando, OperadorAutorizado
<1>6. CASE UNCHANGED <<bd, miembros, operadores>>
  <2>1. pc'[f] \in {"kickea", "modo"} => bd[f] \in operadores
    <3>1. CASE Kick(f) \/ Mode(f)
      BY <1>0, <3>1 DEF Kick, Mode, SiOperador, Termina, Va
    <3> QED
      BY <3>1, HiloEntra
  <2> QED
    BY <1>0, <1>6, <2>1 DEF Mando, OperadorAutorizado
<1> QED
  BY <1>1, <1>2, <1>3, <1>4, <1>5, <1>6, HiloDeja

(* The rights stay when connections come and go.                           *)
LEMMA MandoFuera ==
    ASSUME Tipos, Mando,
           \/ \E f \in Fds : Conecta(f)
           \/ \E c \in Cierran : Desconecta(c)
    PROVE  Mando'
<1>1. /\ UNCHANGED <<bd, miembros, operadores>>
      /\ (pc' = pc \/ \E f \in Fds : pc' = [pc EXCEPT ![f] = "espera"])
  BY DEF Conecta, Desconecta, Va
<1> QED
  BY <1>1 DEF Mando, OperadorAutorizado, Tipos, TipoHilos
-----------------------------------------------------------------------------
(* Who still has to get a message, and who has to be told.                 *)

(* What a thread does to the messages of the others.                       *)
LEMMA AjenasQuedan ==
    ASSUME Tipos, NEW f \in Fds, Hilo(f), NEW k \in Fds \ {f}
    PROVE  /\ testigos'[k] \subseteq testigos[k]
           /\ victima'[k] \in {victima[k], Nadie}
           /\ lista'[k] = lista[k] /\ dest'[k] = dest[k] /\ token'[k] = token[k]
           /\ pc'[k] = pc[k]
<1>1. lista'[k] = lista[k] /\ dest'[k] = dest[k] /\ token'[k] = token[k] /\ pc'[k] = pc[k]
  <2>1. lista'[k] = lista[k]
    BY HiloLocales DEF Tipos, TipoLocales
  <2>2. dest'[k] = dest[k]
    BY HiloLocales DEF Tipos, TipoLocales
  <2>3. token'[k] = token[k]
    BY HiloLocales DEF Tipos, TipoLocales
  <2>4. pc'[k] = pc[k]
    BY HiloEntra
  <2> QED
    BY <2>1, <2>2, <2>3, <2>4
<1>2. testigos'[k] \subseteq testigos[k]
  <2>1. ASSUME NEW S, testigos' = SinTestigos(S)
        PROVE  testigos'[k] \subseteq testigos[k]
    BY <2>1 DEF SinTestigos
  <2> QED
    BY <2>1, HiloListas DEF ListNicks, Envia, Tipos, TipoLocales
<1>3. victima'[k] \in {victima[k], Nadie}
  <2>1. ASSUME NEW S, victima' = SinVictima(S)
        PROVE  victima'[k] \in {victima[k], Nadie}
    BY <2>1 DEF SinVictima
  <2>2. CASE KickUserFromChannel(f) \/ Envia(f)
    BY <2>2 DEF KickUserFromChannel, Termina, Envia, Tipos, TipoLocales
  <2> QED
    BY <2>1, <2>2, HiloListas DEF Tipos, TipoLocales
<1> QED
  BY <1>1, <1>2, <1>3

(* Whoever stops having the nick under which it was to get a message is no *)
(* longer waited for.                                                      *)
LEMMA IdentidadQueda ==
    ASSUME Tipos, Conexiones, Registro, NEW f \in Fds, Hilo(f), NEW g \in Fds, bd[g] # Nadie,
           \/ \E k \in Fds : duenno[g] \in testigos'[k]
           \/ \E k \in Fds : duenno[g] = victima'[k]
           \/ pc[f] \notin Fuera
    PROVE  duenno'[g] = duenno[g] /\ bd'[g] = bd[g]
<1>0. /\ bd \in [Fds -> Nicks \cup {Nadie}] /\ duenno \in [Fds -> Conns \cup {Nadie}]
      /\ pc[g] \notin {"libre", "close"} /\ duenno[g] # Nadie
  BY DEF Tipos, TipoBase, TipoHilos, Registro, Conexiones
<1>1. duenno'[g] = duenno[g]
  BY <1>0, HiloDeja DEF CerrarClose
<1>2. CASE CerrarQuit(f)
  <2>1. /\ bd' = [bd EXCEPT ![f] = Nadie] /\ pc[f] = "cierra"
        /\ testigos' = SinTestigos({Conn(f)}) /\ victima' = SinVictima({Conn(f)})
    BY <1>2 DEF CerrarQuit
  <2>2. g # f
    BY <1>0, <2>1 DEF SinTestigos, SinVictima, Fuera
  <2> QED
    BY <1>0, <1>1, <2>1, <2>2
<1>3. CASE NickCambia(f)
  <2>1. \/ bd' = bd
        \/ /\ \E n : bd' = [bd EXCEPT ![f] = n]
           /\ pc[f] = "espera"
           /\ testigos' = SinTestigos({Conn(f)}) /\ victima' = SinVictima({Conn(f), Nadie})
    BY <1>3 DEF NickCambia, Empieza
  <2>2. CASE bd' = bd
    BY <1>1, <2>2
  <2>3. CASE bd' # bd
    <3>1. g # f
      BY <1>0, <2>1, <2>3 DEF SinTestigos, SinVictima, Fuera
    <3> QED
      BY <1>0, <1>1, <2>1, <2>3, <3>1
  <2> QED
    BY <2>2, <2>3
<1>4. CASE User(f)
  BY <1>0, <1>1, <1>4 DEF User
<1>5. CASE UNCHANGED bd
  BY <1>1, <1>5
<1> QED
  BY <1>2, <1>3, <1>4, <1>5, HiloDeja

(* Places in which a list is being walked.                                 *)
Repartiendo == {"difunde", "envia", "enviaAway", "away"}

(* What a thread that walks a list does next.                              *)
LEMMA HiloReparte ==
    ASSUME NEW f, Hilo(f), pc[f] \in Repartiendo
    PROVE  \/ Mira(f) \/ Envia(f) \/ SendAway(f) \/ JoinEco(f) \/ Siguiente(f)
           \/ AvisaVictima(f) \/ KickFin(f)
BY DEF Repartiendo, Hilo, Quit, CierraPeer, CerrarQuit, CerrarClose, NickMira, NickPone,
   NickCambia, User, SinRegistrar, ListNicks, StrtokSigue, StrtokFin, Privmsg, Part, Names,
   Whois, List, PrivmsgTarget, PartirCanal, Join, JoinNames, Kick, KickUserFromChannel,
   Mode, SetMode, Away, Ping, Pong, Topic, Motd, Who, ComandoVacio, Contesta, EmpiezaLista,
   SiOperador, Empieza

(* Whoever was listed is written to, or leaves the channel or its nick     *)
(* first, after every step of a thread.                                    *)
LEMMA EntregaHilo ==
    ASSUME Tipos, Conexiones, Registro, Entrega, NEW f \in Fds, Hilo(f)
    PROVE  Entrega'
<1>0. /\ bd \in [Fds -> Nicks \cup {Nadie}] /\ duenno \in [Fds -> Conns \cup {Nadie}]
      /\ pc \in [Fds -> Lugares] /\ testigos \in [Fds -> SUBSET (Conns \cup {Nadie})]
      /\ lista \in [Fds -> SUBSET Destinos] /\ dest \in [Fds -> Fds \cup {Nadie}]
      /\ miembros \subseteq Nicks /\ Nadie \notin Nicks
  BY ComandosAssumption DEF Tipos, TipoBase, TipoHilos, TipoLocales, Nadie
<1>1. ASSUME NEW k \in Fds \ {f}, NEW c \in testigos'[k]
      PROVE  pc'[k] \in Repartiendo /\ LeFalta(k, c)'
  <2>1. c \in testigos[k]
    BY <1>1, AjenasQuedan
  <2>2. PICK g \in Fds : /\ duenno[g] = c /\ bd[g] # Nadie
                         /\ bd[g] \in lista[k] \/ (pc[k] \in {"envia", "enviaAway"} /\ dest[k] = g)
    BY <2>1 DEF Entrega, LeFalta
  <2>3. duenno'[g] = c /\ bd'[g] = bd[g]
    BY <1>1, <2>2, IdentidadQueda
  <2> QED
    BY <2>1, <2>2, <2>3, AjenasQuedan DEF Entrega, LeFalta, Repartiendo, EnCanal
<1>2. ASSUME NEW c \in testigos'[f]
      PROVE  pc'[f] \in Repartiendo /\ LeFalta(f, c)'
  <2>1. CASE ListNicks(f)
    <3>1. /\ lista' = [lista EXCEPT ![f] = Nombrados(f)]
          /\ testigos' = [testigos EXCEPT ![f] = {d \in ConnsDe(Nombrados(f)) : peer[d] = "vivo"}]
          /\ pc' = [pc EXCEPT ![f] = "difunde"] /\ UNCHANGED <<bd, duenno>>
      BY <2>1 DEF ListNicks, Va
    <3>2. c \in ConnsDe(Nombrados(f))
      BY <1>0, <1>2, <3>1
    <3>3. PICK n \in Nombrados(f) : c \in ConnDe(n)
      BY <3>2 DEF ConnsDe
    <3>4. PICK g \in Fds : duenno[g] = c /\ bd[g] = n
      BY <3>3 DEF ConnDe
    <3>5. n # Nadie
      BY <1>0, <3>3 DEF Nombrados
    <3> QED
      BY <1>0, <3>1, <3>3, <3>4, <3>5 DEF LeFalta, Repartiendo
  <2>2. CASE ~ListNicks(f)
    <3>1. c \in testigos[f] /\ (testigos' = [testigos EXCEPT ![f] = {}] => FALSE)
      <4>1. ASSUME NEW S, testigos' = SinTestigos(S)
            PROVE  c \in testigos[f]
        BY <1>2, <4>1 DEF SinTestigos
      <4>2. CASE Envia(f)
        BY <1>0, <1>2, <4>2 DEF Envia
      <4> QED
        BY <1>0, <1>2, <2>2, <4>1, <4>2, HiloListas
    <3>2. PICK g \in Fds : /\ duenno[g] = c /\ bd[g] # Nadie
                           /\ bd[g] \in lista[f] \/ (pc[f] \in {"envia", "enviaAway"} /\ dest[f] = g)
      BY <3>1 DEF Entrega, LeFalta
    <3>3. pc[f] \in Repartiendo
      BY <3>1 DEF Entrega, Repartiendo, EnCanal
    <3>4. duenno'[g] = c /\ bd'[g] = bd[g]
      BY <3>2, <3>3, IdentidadQueda DEF Repartiendo, Fuera
    <3>5. CASE Mira(f)
      <4>1. pc[f] = "difunde" /\ bd[g] \in lista[f]
        BY <3>2, <3>5 DEF Mira
      <4>2. PICK n \in lista[f] :
              /\ lista' = [lista EXCEPT ![f] = @ \ {n}]
              /\ \/ \E h \in Fds : /\ bd[h] = n /\ dest' = [dest EXCEPT ![f] = h]
                                   /\ \E a \in {"envia", "enviaAway"} : pc' = [pc EXCEPT ![f] = a]
                 \/ ~EnUso(n) /\ UNCHANGED <<dest, pc>>
        BY <3>5 DEF Mira, Va
      <4>3. CASE bd[g] # n
        <5>1. bd'[g] \in lista'[f] /\ pc'[f] \in Repartiendo
          BY <1>0, <3>4, <4>1, <4>2, <4>3 DEF Repartiendo
        <5> QED
          BY <3>2, <3>4, <5>1 DEF LeFalta
      <4>4. CASE bd[g] = n
        <5>1. PICK h \in Fds : /\ bd[h] = n /\ dest' = [dest EXCEPT ![f] = h]
                               /\ \E a \in {"envia", "enviaAway"} : pc' = [pc EXCEPT ![f] = a]
          BY <4>2, <4>4 DEF EnUso
        <5>2. h = g
          BY <3>2, <4>4, <5>1 DEF Registro
        <5>3. dest'[f] = g /\ pc'[f] \in {"envia", "enviaAway"}
          BY <1>0, <5>1, <5>2
        <5> QED
          BY <3>2, <3>4, <5>3 DEF LeFalta, Repartiendo
      <4> QED
        BY <4>3, <4>4
    <3>6. CASE Envia(f)
      <4>1. /\ pc[f] \in {"envia", "enviaAway"} /\ lista' = lista
            /\ \E a \in {"difunde", "away"} : pc' = [pc EXCEPT ![f] = a]
            /\ duenno[dest[f]] # Nadie =>
                  testigos' = [testigos EXCEPT ![f] = @ \ {duenno[dest[f]]}]
        BY <3>6 DEF Envia, Va
      <4>2. dest[f] # g
        <5>1. duenno[g] # Nadie
          BY <3>2 DEF Registro, Conexiones
        <5> QED
          BY <1>0, <1>2, <3>2, <4>1, <5>1
      <4>3. bd'[g] \in lista'[f] /\ pc'[f] \in Repartiendo
        BY <1>0, <3>2, <3>4, <4>1, <4>2 DEF Repartiendo
      <4> QED
        BY <3>2, <3>4, <4>3 DEF LeFalta
    <3>7. CASE SendAway(f)
      <4>1. pc[f] = "away" /\ pc' = [pc EXCEPT ![f] = "difunde"] /\ lista' = lista
        BY <3>7 DEF SendAway, Va
      <4>2. bd'[g] \in lista'[f] /\ pc'[f] \in Repartiendo
        BY <1>0, <3>2, <3>4, <4>1 DEF Repartiendo
      <4> QED
        BY <3>2, <3>4, <4>2 DEF LeFalta
    <3>8. ~KickFin(f)
      BY <3>2 DEF KickFin, Difundido
    <3>9. ~JoinEco(f) /\ ~Siguiente(f) /\ ~AvisaVictima(f)
      BY <3>1 DEF JoinEco, Siguiente, AvisaVictima, Olvida
    <3> QED
      BY <3>3, <3>5, <3>6, <3>7, <3>8, <3>9, HiloReparte
  <2> QED
    BY <2>1, <2>2
<1> QED
  BY <1>1, <1>2 DEF Entrega, Repartiendo, EnCanal

(* The same when connections come and go: a new one gets a descriptor that *)
(* nobody on the list has.                                                 *)
LEMMA EntregaFuera ==
    ASSUME Tipos, Conexiones, Registro, Entrega,
           \/ \E f \in Fds : Conecta(f)
           \/ \E c \in Cierran : Desconecta(c)
    PROVE  Entrega'
<1>0. /\ duenno \in [Fds -> Conns \cup {Nadie}] /\ pc \in [Fds -> Lugares]
      /\ testigos \in [Fds -> SUBSET (Conns \cup {Nadie})]
  BY DEF Tipos, TipoHilos, TipoLocales
<1>1. CASE \E f \in Fds : Conecta(f)
  <2>1. PICK f \in Fds : Conecta(f)
    BY <1>1
  <2>2. /\ duenno' = [duenno EXCEPT ![f] = llegadas + 1] /\ pc' = [pc EXCEPT ![f] = "espera"]
        /\ duenno[f] = Nadie /\ UNCHANGED <<bd, lista, dest, testigos>>
    BY <2>1 DEF Conecta, Va
  <2>3. pc[f] = "libre" /\ bd[f] = Nadie
    BY <2>2 DEF Conexiones, Registro
  <2>4. ASSUME NEW k \in Fds, NEW c \in testigos[k]
        PROVE  pc'[k] \in EnCanal \ {"lista"} /\ LeFalta(k, c)'
    <3>1. pc[k] \in EnCanal \ {"lista"} /\ LeFalta(k, c)
      BY <2>4 DEF Entrega
    <3>2. pc'[k] = pc[k]
      BY <1>0, <2>2, <2>3, <3>1 DEF EnCanal
    <3>3. PICK g \in Fds : /\ duenno[g] = c /\ bd[g] # Nadie
                           /\ bd[g] \in lista[k] \/ (pc[k] \in {"envia", "enviaAway"} /\ dest[k] = g)
      BY <3>1 DEF LeFalta
    <3>4. duenno'[g] = c
      BY <1>0, <2>2, <2>3, <3>3
    <3> QED
      BY <2>2, <3>1, <3>2, <3>3, <3>4 DEF LeFalta
  <2> QED
    BY <2>2, <2>4 DEF Entrega
<1>2. CASE \E c \in Cierran : Desconecta(c)
  BY <1>0, <1>2 DEF Desconecta, SinTestigos, Entrega, LeFalta
<1> QED
  BY <1>1, <1>2

(* Outside the lists the destination in hand is the channel.               *)
LEMMA HiloToken ==
    ASSUME Tipos, NEW f \in Fds, Hilo(f), pc'[f] \in Fuera \cup {"kickea"}
    PROVE  token'[f] = Canal \/ (token' = token /\ pc[f] \in Fuera)
<1>1. pc \in [Fds -> Lugares] /\ token \in [Fds -> Destinos]
  BY DEF Tipos, TipoHilos, TipoLocales
<1>2. pc'[f] \in {"libre", "cierra", "close"} \/ CerrarClose(f) => token' = token /\ pc[f] \in Fuera
  BY <1>1, ZenonT(60) DEF Fuera, Hilo, Quit, CierraPeer, CerrarQuit, CerrarClose, NickMira,
     NickPone, NickCambia, User, SinRegistrar, ListNicks, Mira, Envia, SendAway,
     StrtokSigue, StrtokFin, Privmsg, Part, Names, Whois, List, PrivmsgTarget, PartirCanal,
     Join, JoinEco, JoinNames, Siguiente, Kick, KickUserFromChannel, AvisaVictima, KickFin,
     Mode, SetMode, Away, Ping, Pong, Topic, Motd, Who, ComandoVacio, Contesta,
     EmpiezaLista, SinDestinos, Destino, EmpiezaStrtok, SiOperador, Empieza, Termina, Va,
     Difundido
<1>3. CASE pc'[f] = "kickea"
  <2>1. Kick(f)
    BY <1>3, HiloEntra
  <2> QED
    BY <1>1, <1>3, <2>1 DEF Kick, SiOperador, Empieza, Termina, Va, Fuera
<1>4. CASE pc'[f] = "espera"
  BY <1>1, <1>4, ZenonT(60) DEF Fuera, Hilo, Quit, CierraPeer, CerrarQuit, CerrarClose,
     NickMira, NickPone, NickCambia, User, SinRegistrar, ListNicks, Mira, Envia, SendAway,
     StrtokSigue, StrtokFin, Privmsg, Part, Names, Whois, List, PrivmsgTarget, PartirCanal,
     Join, JoinEco, JoinNames, Siguiente, Kick, KickUserFromChannel, AvisaVictima, KickFin,
     Mode, SetMode, Away, Ping, Pong, Topic, Motd, Who, ComandoVacio, Contesta,
     EmpiezaLista, SinDestinos, Destino, EmpiezaStrtok, SiOperador, Empieza, Termina, Va,
     Difundido
<1> QED
  BY <1>2, <1>3, <1>4 DEF Fuera

(* The steps of a thread that has kicked somebody.                         *)
LEMMA HiloAvisa ==
    ASSUME NEW f, Hilo(f), pc[f] \in {"lista", "difunde", "envia"}, Orden(f).tipo = "KICK"
    PROVE  ListNicks(f) \/ Mira(f) \/ Envia(f) \/ AvisaVictima(f) \/ KickFin(f)
<1>1. CASE pc[f] = "lista"
  BY <1>1, ZenonT(60) DEF Hilo, Quit, CierraPeer, CerrarQuit, CerrarClose, NickMira,
     NickPone, NickCambia, User, SinRegistrar, Mira, Envia, SendAway, StrtokSigue,
     StrtokFin, Privmsg, Part, Names, Whois, List, PrivmsgTarget, PartirCanal, Join,
     JoinEco, JoinNames, Siguiente, Kick, KickUserFromChannel, AvisaVictima, KickFin, Mode,
     SetMode, Away, Ping, Pong, Topic, Motd, Who, ComandoVacio, Contesta, EmpiezaLista,
     SiOperador, Empieza, Difundido
<1>2. CASE pc[f] \in {"difunde", "envia"}
  BY <1>2, HiloReparte DEF Repartiendo, SendAway, JoinEco, Siguiente
<1> QED
  BY <1>1, <1>2

(* Thread k has kicked the connection of g, which has to be told.          *)
Debe(k, g) ==
    /\ duenno[g] = victima[k]
    /\ bd[g] = Orden(k).nick
    /\ token[k] # Canal =>
         \/ pc[k] # "lista" /\ bd[g] \in lista[k]
         \/ pc[k] = "envia" /\ dest[k] = g

(* Whoever was kicked is still to be told after every step of a thread.    *)
LEMMA AvisoHilo ==
    ASSUME Tipos, Conexiones, Registro, Aviso, NEW f \in Fds, Hilo(f)
    PROVE  Aviso'
<1>0. /\ bd \in [Fds -> Nicks \cup {Nadie}] /\ duenno \in [Fds -> Conns \cup {Nadie}]
      /\ pc \in [Fds -> Lugares] /\ victima \in [Fds -> Conns \cup {Nadie}]
      /\ lista \in [Fds -> SUBSET Destinos] /\ dest \in [Fds -> Fds \cup {Nadie}]
      /\ token \in [Fds -> Destinos]
      /\ miembros \subseteq Nicks /\ Nadie \notin Nicks /\ Canal \notin Nicks
  BY ComandosAssumption DEF Tipos, TipoBase, TipoHilos, TipoLocales, Nadie
<1>1. ASSUME NEW k \in Fds, pc'[k] \in Fuera \cup {"kickea"}
      PROVE  token'[k] = Canal
  <2>1. CASE k = f
    BY <1>1, <2>1, HiloToken DEF Aviso
  <2>2. CASE k # f
    BY <1>1, <2>2, AjenasQuedan DEF Aviso
  <2> QED
    BY <2>1, <2>2
<1>2. ASSUME NEW k \in Fds, victima[k] # Nadie
      PROVE  /\ pc[k] \in {"lista", "difunde", "envia"} /\ Orden(k).tipo = "KICK"
             /\ Orden(k).nick \in Nicks
             /\ \E g \in Fds : Debe(k, g) /\ bd[g] # Nadie
  <2>1. pc[k] \in {"lista", "difunde", "envia"} /\ Orden(k).tipo = "KICK"
    BY <1>2 DEF Aviso
  <2>2. Orden(k).nick \in Nicks
    BY <2>1, OrdenTipo DEF Conexiones, Fuera
  <2> QED
    BY <1>0, <1>2, <2>1, <2>2 DEF Aviso, Debe
<1>3. ASSUME NEW k \in Fds \ {f}, victima'[k] # Nadie
      PROVE  /\ pc'[k] \in {"lista", "difunde", "envia"} /\ Orden(k)'.tipo = "KICK"
             /\ \E g \in Fds : Debe(k, g)'
  <2>1. victima'[k] = victima[k] /\ victima[k] # Nadie
    BY <1>3, AjenasQuedan
  <2>2. PICK g \in Fds : Debe(k, g) /\ bd[g] # Nadie
    BY <1>2, <2>1
  <2>3. duenno'[g] = duenno[g] /\ bd'[g] = bd[g]
    BY <2>1, <2>2, IdentidadQueda DEF Debe
  <2>4. pc[k] \in {"lista", "difunde", "envia"} /\ Orden(k)' = Orden(k) /\ Orden(k).tipo = "KICK"
    BY <1>2, <2>1, OrdenQueda
  <2>5. Debe(k, g)'
    BY <2>1, <2>2, <2>3, <2>4, AjenasQuedan DEF Debe
  <2> QED
    BY <2>4, <2>5, AjenasQuedan
<1>4. ASSUME victima'[f] # Nadie
      PROVE  /\ pc'[f] \in {"lista", "difunde", "envia"} /\ Orden(f)'.tipo = "KICK"
             /\ \E g \in Fds : Debe(f, g)'
  <2>1. CASE KickUserFromChannel(f)
    <3> DEFINE n == Orden(f).nick
    <3>0. pc[f] = "kickea" /\ n \in Nicks /\ Orden(f).tipo = "KICK" /\ token[f] = Canal
      BY <2>1, OrdenTipo DEF KickUserFromChannel, Conexiones, Fuera, Aviso
    <3>1. /\ n \in miembros
          /\ victima' = [victima EXCEPT ![f] =
                           IF \E c \in ConnDe(n) : peer[c] = "vivo"
                           THEN CHOOSE c \in ConnDe(n) : TRUE ELSE Nadie]
          /\ pc' = [pc EXCEPT ![f] = "lista"] /\ UNCHANGED <<guion, duenno, bd, hechas, token>>
      BY <1>0, <1>4, <2>1 DEF KickUserFromChannel, Termina, Va
    <3> HIDE DEF n
    <3>2. victima'[f] \in ConnDe(n)
      <4>1. \E c \in ConnDe(n) : TRUE
        BY <1>0, <1>4, <3>1
      <4> QED
        BY <1>0, <1>4, <3>1, <4>1
    <3>3. PICK g \in Fds : duenno[g] = victima'[f] /\ bd[g] = n
      BY <3>2 DEF ConnDe
    <3>4. Orden(f)' = Orden(f)
      BY <3>1 DEF Orden
    <3>5. Debe(f, g)' /\ pc'[f] = "lista"
      BY <1>0, <3>0, <3>1, <3>3, <3>4 DEF Debe, n
    <3> QED
      BY <3>0, <3>4, <3>5
  <2>2. CASE ~KickUserFromChannel(f)
    <3>1. victima[f] # Nadie /\ victima'[f] = victima[f]
      <4>1. ASSUME NEW S, victima' = SinVictima(S)
            PROVE  victima[f] # Nadie /\ victima'[f] = victima[f]
        BY <1>4, <4>1 DEF SinVictima
      <4>2. CASE Envia(f)
        BY <1>0, <1>4, <4>2 DEF Envia
      <4> QED
        BY <1>0, <1>4, <2>2, <4>1, <4>2, HiloListas
    <3>2. /\ pc[f] \in {"lista", "difunde", "envia"} /\ Orden(f).tipo = "KICK"
          /\ Orden(f).nick \in Nicks
      BY <1>2, <3>1
    <3>3. PICK g \in Fds : Debe(f, g) /\ bd[g] # Nadie
      BY <1>2, <3>1
    <3>4. duenno'[g] = duenno[g] /\ bd'[g] = bd[g]
      BY <3>2, <3>3, IdentidadQueda DEF Fuera
    <3>5. ASSUME hechas' = hechas, duenno' = duenno
          PROVE  Orden(f)' = Orden(f)
      BY <3>2, <3>5, HiloDeja DEF Orden
    <3>6. CASE ListNicks(f)
      <4>1. /\ pc[f] = "lista" /\ pc' = [pc EXCEPT ![f] = "difunde"]
            /\ UNCHANGED <<token, hechas, duenno>>
        BY <3>6 DEF ListNicks, Va
      <4>2. Debe(f, g)'
        BY <3>1, <3>3, <3>4, <3>5, <4>1 DEF Debe
      <4> QED
        BY <1>0, <3>2, <3>5, <4>1, <4>2
    <3>7. CASE Mira(f)
      <4>1. PICK n \in lista[f] :
              /\ lista' = [lista EXCEPT ![f] = @ \ {n}]
              /\ \/ \E h \in Fds :
                      /\ bd[h] = n /\ dest' = [dest EXCEPT ![f] = h]
                      /\ pc' = [pc EXCEPT ![f] = "envia"]
                 \/ ~EnUso(n) /\ UNCHANGED <<dest, pc>>
        BY <3>2, <3>7 DEF Mira, Va, Aparte
      <4>2. pc[f] = "difunde" /\ UNCHANGED <<token, hechas, duenno>>
        BY <3>7 DEF Mira
      <4>3. pc'[f] \in {"difunde", "envia"}
        BY <1>0, <4>1, <4>2
      <4>4. CASE bd[g] # n
        <5>1. Debe(f, g)'
          BY <1>0, <3>1, <3>3, <3>4, <3>5, <4>1, <4>2, <4>3, <4>4 DEF Debe
        <5> QED
          BY <3>2, <3>5, <4>2, <4>3, <5>1
      <4>5. CASE bd[g] = n
        <5>1. PICK h \in Fds : /\ bd[h] = n /\ dest' = [dest EXCEPT ![f] = h]
                               /\ pc' = [pc EXCEPT ![f] = "envia"]
          BY <4>1, <4>5 DEF EnUso
        <5>2. h = g
          BY <3>3, <4>5, <5>1 DEF Registro
        <5>3. Debe(f, g)'
          BY <1>0, <3>1, <3>3, <3>4, <3>5, <4>2, <5>1, <5>2 DEF Debe
        <5> QED
          BY <3>2, <3>5, <4>2, <4>3, <5>3
      <4> QED
        BY <4>4, <4>5
    <3>8. CASE Envia(f)
      <4>1. /\ pc[f] = "envia" /\ pc' = [pc EXCEPT ![f] = "difunde"]
            /\ UNCHANGED <<token, hechas, duenno, lista>>
            /\ duenno[dest[f]] # Nadie =>
                 victima' = [victima EXCEPT ![f] = IF @ = duenno[dest[f]] THEN Nadie ELSE @]
        BY <3>2, <3>8 DEF Envia, Va
      <4>2. dest[f] # g
        <5>1. duenno[g] = victima[f]
          BY <3>3 DEF Debe
        <5> QED
          BY <1>0, <1>4, <3>1, <4>1, <5>1
      <4>3. Debe(f, g)' /\ pc'[f] = "difunde"
        BY <1>0, <3>1, <3>3, <3>4, <3>5, <4>1, <4>2 DEF Debe
      <4> QED
        BY <3>2, <3>5, <4>1, <4>3
    <3>9. CASE AvisaVictima(f)
      <4>1. /\ pc[f] = "difunde" /\ lista' = [lista EXCEPT ![f] = {Orden(f).nick}]
            /\ UNCHANGED <<pc, hechas, duenno>>
        BY <3>9 DEF AvisaVictima, Difundido
      <4>2. Debe(f, g)'
        BY <1>0, <3>1, <3>3, <3>4, <3>5, <4>1 DEF Debe
      <4> QED
        BY <3>2, <3>5, <4>1, <4>2
    <3>10. CASE KickFin(f)
      <4>1. victima' = [victima EXCEPT ![f] = Nadie]
        BY <3>10 DEF KickFin, Termina
      <4> QED
        BY <1>0, <1>4, <4>1
    <3> QED
      BY <3>2, <3>6, <3>7, <3>8, <3>9, <3>10, HiloAvisa
  <2> QED
    BY <2>1, <2>2
<1>5. \A k \in Fds : victima'[k] # Nadie =>
        /\ pc'[k] \in {"lista", "difunde", "envia"} /\ Orden(k)'.tipo = "KICK"
        /\ \E g \in Fds : Debe(k, g)'
  BY <1>3, <1>4
<1> QED
  BY <1>1, <1>5 DEF Aviso, Debe

(* The same when connections come and go.                                  *)
LEMMA AvisoFuera ==
    ASSUME Tipos, Conexiones, Registro, Aviso,
           \/ \E f \in Fds : Conecta(f)
           \/ \E c \in Cierran : Desconecta(c)
    PROVE  Aviso'
<1>0. /\ duenno \in [Fds -> Conns \cup {Nadie}] /\ pc \in [Fds -> Lugares]
      /\ victima \in [Fds -> Conns \cup {Nadie}]
  BY DEF Tipos, TipoHilos, TipoLocales
<1>1. CASE \E f \in Fds : Conecta(f)
  <2>1. PICK f \in Fds : Conecta(f)
    BY <1>1
  <2>2. /\ duenno' = [duenno EXCEPT ![f] = llegadas + 1] /\ pc' = [pc EXCEPT ![f] = "espera"]
        /\ duenno[f] = Nadie /\ UNCHANGED <<guion, hechas, bd, lista, dest, victima, token>>
    BY <2>1 DEF Conecta, Va
  <2>3. pc[f] = "libre"
    BY <2>2 DEF Conexiones
  <2>4. \A k \in Fds : pc'[k] \in Fuera \cup {"kickea"} => token'[k] = Canal
    BY <1>0, <2>2, <2>3 DEF Aviso, Fuera
  <2>5. ASSUME NEW k \in Fds, victima[k] # Nadie
        PROVE  /\ pc'[k] \in {"lista", "difunde", "envia"} /\ Orden(k)'.tipo = "KICK"
               /\ \E g \in Fds : Debe(k, g)'
    <3>1. pc[k] \in {"lista", "difunde", "envia"} /\ Orden(k).tipo = "KICK"
      BY <2>5 DEF Aviso
    <3>2. k # f /\ pc'[k] = pc[k] /\ Orden(k)' = Orden(k)
      BY <1>0, <2>2, <2>3, <3>1 DEF Orden
    <3>3. PICK g \in Fds : Debe(k, g)
      BY <2>5 DEF Aviso, Debe
    <3>4. duenno'[g] = duenno[g]
      BY <1>0, <2>2, <2>5, <3>3 DEF Debe
    <3>5. Debe(k, g)'
      BY <2>2, <3>2, <3>3, <3>4 DEF Debe
    <3> QED
      BY <3>1, <3>2, <3>5
  <2> QED
    BY <2>2, <2>4, <2>5 DEF Aviso, Debe
<1>2. CASE \E c \in Cierran : Desconecta(c)
  <2>1. /\ \A k \in Fds : victima'[k] \in {victima[k], Nadie}
        /\ UNCHANGED <<guion, duenno, bd, pc, hechas, token, lista, dest>>
    BY <1>2 DEF Desconecta, SinVictima
  <2>2. \A k \in Fds : Orden(k)' = Orden(k)
    BY <2>1 DEF Orden
  <2> QED
    BY <2>1, <2>2 DEF Aviso
<1> QED
  BY <1>1, <1>2
-----------------------------------------------------------------------------
(* The start: users already registered, each with its descriptor.          *)

(* The users registered before have different descriptors.                 *)
LEMMA PuestoCrece ==
    ASSUME NEW f \in Fds
    PROVE  /\ Puesto(f) \in Nat \ {0}
           /\ \A g \in Fds : Puesto(f) = Puesto(g) => f = g
<1> DEFINE H(h) == {g \in Fds : g <= h}
<1>1. ASSUME NEW h \in Fds
      PROVE  IsFiniteSet(H(h)) /\ Cardinality(H(h)) \in Nat \ {0} /\ h \in H(h)
  <2>1. IsFiniteSet(0..h) /\ H(h) \subseteq 0..h /\ h \in H(h)
    BY ComandosAssumption, FS_Interval
  <2>2. IsFiniteSet(H(h))
    BY <2>1, FS_Subset
  <2>3. Cardinality(H(h)) \in Nat /\ Cardinality(H(h)) # 0
    BY <2>1, <2>2, FS_CardinalityType, FS_EmptySet
  <2> QED
    BY <2>1, <2>2, <2>3
<1>2. ASSUME NEW h \in Fds, NEW k \in Fds, h < k
      PROVE  Cardinality(H(h)) # Cardinality(H(k))
  <2>1. H(h) \subseteq H(k) /\ k \notin H(h)
    <3>1. h \in Nat /\ k \in Nat /\ \A g \in Fds : g \in Nat
      BY ComandosAssumption
    <3>2. \A g \in Fds : g <= h => g <= k
      BY <1>2, <3>1
    <3>3. ~(k <= h)
      BY <1>2, <3>1
    <3> QED
      BY <3>2, <3>3
  <2>2. H(h) # H(k)
    BY <1>1, <2>1
  <2> QED
    BY <1>1, <2>1, <2>2, FS_Subset
<1>3. \A g \in Fds : Cardinality(H(f)) = Cardinality(H(g)) => f = g
  <2>1. \A g \in Fds : f < g \/ g < f \/ f = g
    BY ComandosAssumption
  <2> QED
    BY <1>2, <2>1
<1> QED
  BY <1>1, <1>3 DEF Puesto

(* The invariant holds at the start.                                       *)
LEMMA ComandosInicio == Init => ComandosInv
<1> SUFFICES ASSUME Init PROVE ComandosInv
  OBVIOUS
<1>1. PICK e \in Escenarios :
        /\ guion = e.guion /\ llegadas = Len(e.antes)
        /\ duenno = [f \in Fds |-> IF Puesto(f) <= Len(e.antes) THEN Puesto(f) ELSE Nadie]
        /\ bd = [f \in Fds |-> IF Puesto(f) <= Len(e.antes) THEN e.antes[Puesto(f)] ELSE Nadie]
        /\ pc = [f \in Fds |-> IF Puesto(f) <= Len(e.antes) THEN "espera" ELSE "libre"]
        /\ peer = [c \in Conns |-> "vivo"] /\ proceso = "vivo"
        /\ temporal = [f \in Fds |-> Nadie]
        /\ miembros = {} /\ operadores = {} /\ cerrado = FALSE /\ ausentes = {}
        /\ resto = <<>> /\ restoDe = Nadie /\ liberado = FALSE
        /\ hechas = [c \in Conns |-> 0]
        /\ token = [f \in Fds |-> Canal] /\ lista = [f \in Fds |-> {}]
        /\ dest = [f \in Fds |-> Nadie] /\ testigos = [f \in Fds |-> {}]
        /\ victima = [f \in Fds |-> Nadie]
  BY DEF Init
<1>2. /\ e.antes \in Seq(Nicks) /\ Len(e.antes) \in Nat /\ Len(e.antes) <= MaxConns
      /\ \A i, j \in 1..Len(e.antes) : e.antes[i] = e.antes[j] => i = j
      /\ \A i \in 1..Len(e.antes) : e.antes[i] \in Nicks
      /\ e.guion \in [Conns -> Seq(Ordenes)] /\ MaxConns \in Nat /\ Nadie \notin Nicks
  BY ComandosAssumption DEF Nadie
<1>3. /\ \A f \in Fds : Puesto(f) \in Nat \ {0}
      /\ \A f, g \in Fds : Puesto(f) = Puesto(g) => f = g
  BY PuestoCrece
<1>4. \A f \in Fds : Puesto(f) <= Len(e.antes) =>
        Puesto(f) \in Conns /\ Puesto(f) \in 1..Len(e.antes)
  BY <1>2, <1>3 DEF Conns
<1>5. TipoHilos
  BY <1>1, <1>2, <1>4 DEF TipoHilos, Lugares, Fuera
<1>6. TipoBase
  BY <1>1, <1>2, <1>4 DEF TipoBase
<1>7. TipoLocales
  <2>1. resto \in Seq(Destinos) /\ token \in [Fds -> Destinos]
    <3>1. <<>> \in Seq(Destinos) /\ Canal \in Destinos
      BY DEF Destinos
    <3> QED
      BY <1>1, <3>1
  <2>2. /\ lista \in [Fds -> SUBSET Destinos] /\ dest \in [Fds -> Fds \cup {Nadie}]
        /\ testigos \in [Fds -> SUBSET (Conns \cup {Nadie})]
        /\ victima \in [Fds -> Conns \cup {Nadie}]
    BY <1>1
  <2>3. restoDe \in Fds \cup {Nadie} /\ liberado \in BOOLEAN
    BY <1>1
  <2> QED
    BY <2>1, <2>2, <2>3 DEF TipoLocales
<1>8. Conexiones
  <2>1. /\ \A f \in Fds : duenno[f] <= llegadas
        /\ \A f, g \in Fds : duenno[f] = duenno[g] /\ duenno[f] # Nadie => f = g
        /\ \A f \in Fds : pc[f] = "libre" <=> duenno[f] = Nadie
    BY <1>1, <1>2, <1>3 DEF Nadie
  <2>2. \A f \in Fds : pc[f] \in {"espera", "libre"}
    BY <1>1
  <2> QED
    BY <2>1, <2>2 DEF Conexiones, Fuera
<1>9. Registro
  <2>1. \A f, g \in Fds : bd[f] = bd[g] /\ bd[f] # Nadie => f = g
    BY <1>1, <1>2, <1>3, <1>4
  <2>2. \A f \in Fds : pc[f] \in {"libre", "close"} => bd[f] = Nadie
    BY <1>1
  <2> QED
    BY <1>1, <2>1, <2>2 DEF Registro
<1>10. Mando
  BY <1>1 DEF Mando, OperadorAutorizado
<1>11. Entrega
  BY <1>1 DEF Entrega
<1>12. Aviso
  BY <1>1 DEF Aviso
<1> QED
  BY <1>5, <1>6, <1>7, <1>8, <1>9, <1>10, <1>11, <1>12 DEF ComandosInv, Tipos

(* And after every step.                                                   *)
LEMMA ComandosPaso ==
    ASSUME ComandosInv, [Next]_vars
    PROVE  ComandosInv'
<1>1. CASE \E f \in Fds : Hilo(f)
  BY <1>1, TiposHilo, ConexionesHilo, RegistroHilo, MandoHilo, EntregaHilo, AvisoHilo DEF
     ComandosInv
<1>2. CASE (\E f \in Fds : Conecta(f)) \/ (\E c \in Cierran : Desconecta(c))
  BY <1>2, TiposFuera, ConexionesFuera, RegistroFuera, MandoFuera, EntregaFuera, AvisoFuera
     DEF ComandosInv
<1>3. CASE UNCHANGED vars
  <2>1. Tipos'
    BY <1>3 DEF ComandosInv, Tipos, TipoHilos, TipoBase, TipoLocales
  <2>2. Conexiones' /\ Registro' /\ Mando'
    BY <1>3 DEF ComandosInv, Conexiones, Registro, Mando, OperadorAutorizado, Orden
  <2>3. Entrega'
    BY <1>3 DEF ComandosInv, Entrega, LeFalta
  <2>4. Aviso'
    BY <1>3 DEF ComandosInv, Aviso, Orden
  <2> QED
    BY <2>1, <2>2, <2>3, <2>4 DEF ComandosInv
<1> QED
  BY <1>1, <1>2, <1>3 DEF Next

(* The inductive invariant of the commands: who has a descriptor, whose a  *)
(* nick is, who rules the channel, and who still has to be written to or   *)
(* told.                                                                   *)
THEOREM ComandosInvSiempre == Spec => []ComandosInv
BY ComandosInicio, ComandosPaso, PTL DEF Spec

(* A nick names one connection, which is there, and the channel has only   *)
(* such nicks: the check in IRCTADUser_New and IRCTADUser_Set is enough    *)
(* although NICK looks for the nick in an earlier call.                    *)
THEOREM NickDeUnoSiempre == Spec => []NickDeUno
<1>1. ComandosInv => NickDeUno
  <2> SUFFICES ASSUME ComandosInv PROVE NickDeUno
    OBVIOUS
  <2>1. ASSUME NEW n \in miembros
        PROVE  \E c \in ConnDe(n) : c # Nadie
    <3>1. PICK g \in Fds : bd[g] = n
      BY DEF ComandosInv, Registro
    <3>2. n # Nadie
      BY ComandosAssumption DEF ComandosInv, Tipos, TipoBase, Nadie
    <3>3. duenno[g] # Nadie
      BY <3>1, <3>2 DEF ComandosInv, Registro, Conexiones
    <3> QED
      BY <3>1, <3>3 DEF ConnDe
  <2> QED
    BY <2>1 DEF NickDeUno, ComandosInv, Registro
<1> QED
  BY <1>1, ComandosInvSiempre, PTL

(* kick and mode use the rights they looked up in an earlier call, and     *)
(* their author still has them.                                            *)
THEOREM OperadorAutorizadoSiempre == Spec => []OperadorAutorizado
<1>1. ComandosInv => OperadorAutorizado
  BY DEF ComandosInv, Mando
<1> QED
  BY <1>1, ComandosInvSiempre, PTL

(* enviarMensajeACanal reaches everybody who was on the channel when the   *)
(* nicks were listed and still has that nick, although each socket is      *)
(* looked up and written to in calls of their own; and whoever KICK takes  *)
(* out of the channel, and is therefore not in the list of nicks, is told  *)
(* by the message that follows.                                            *)
THEOREM EntregaCompletaSiempre == Spec => []EntregaCompleta
<1>1. ComandosInv => EntregaCompleta
  <2> SUFFICES ASSUME ComandosInv, NEW f \in Fds, Difundido(f)
               PROVE  /\ testigos[f] = {}
                      /\ Orden(f).tipo = "KICK" /\ token[f] # Canal => victima[f] = Nadie
    BY DEF EntregaCompleta
  <2>1. \A c : ~LeFalta(f, c)
    BY DEF LeFalta, Difundido
  <2>2. testigos[f] = {}
    BY <2>1 DEF ComandosInv, Entrega
  <2>3. ASSUME token[f] # Canal PROVE victima[f] = Nadie
    BY <2>3 DEF ComandosInv, Aviso, Difundido
  <2> QED
    BY <2>2, <2>3
<1> QED
  BY <1>1, ComandosInvSiempre, PTL
====
