--------------------------- MODULE ClientePruebas ---------------------------
(***************************************************************************)
(* Proof that the mutex of enviar_clienteThread keeps the messages of the  *)
(* threads of a client whole, for any users, connections and orders, and   *)
(* whatever the interface writes meanwhile.                                *)
(***************************************************************************)
EXTENDS ClientePropiedades, SequenceTheorems, TLAPS

Hebras == {Gui, Fichero} \cup {Red(c) : c \in Conexiones}
Argumentos == Nicks \cup {Nadie} \cup ModosCanal
Tipos == Ordenes \cup {"USER", "QUIT", "JOIN0", "FSEND", "FCANCEL"}
OrdenesIRC == [tipo : Tipos, a : Argumentos, orden : Nat, de : Hebras, en : Nat,
               cruces : SUBSET Hebras]

EnvioTypeOK ==
    /\ modo \in Modos
    /\ hecho \in [Usuarios -> Nat]
    /\ conexiones \in [Usuarios -> Nat]
    /\ socket \in [Usuarios -> Nat]
    /\ mutex \in [Usuarios -> Hebras \cup {Libre}]
    /\ escribe \in [Usuarios -> SUBSET OrdenesIRC]
    /\ alServidor \in [Conexiones -> Seq(OrdenesIRC)]

Limpia(m) == m.de # Gui => m.cruces \subseteq {Gui}

(* Nothing is written before there is a connection.                        *)
SinConexion == \A u \in Usuarios : conexiones[u] = 0 => socket[u] = 0 /\ escribe[u] = {}

(* Until there is a second connection, a thread that writes has the mutex, *)
(* and writes one message.                                                 *)
ConMutex ==
    \A u \in Usuarios : conexiones[u] <= 1 =>
        /\ \A m \in escribe[u] : m.de # Gui => mutex[u] = m.de /\ Limpia(m)
        /\ \A m, x \in escribe[u] : m.de # Gui /\ x.de # Gui => m = x

Recibidas ==
    \A c \in Conexiones : conexiones[c[1]] <= 1 =>
        \A i \in 1..Len(alServidor[c]) : Limpia(alServidor[c][i])

EnvioInv == EnvioTypeOK /\ SinConexion /\ ConMutex /\ Recibidas

(* Connections are pairs of a user and a number; orders are about nicks of *)
(* users or modes.                                                         *)
LEMMA Constantes ==
    ASSUME EnvioTypeOK
    PROVE  /\ \A c \in Conexiones : c[1] \in Usuarios /\ c[2] \in Nat \ {0}
           /\ \A u \in Usuarios : modo.otro[u] \in Usuarios /\ modo.letra[u] \in ModosCanal
           /\ Gui # Fichero /\ Gui # Libre /\ Fichero # Libre
           /\ \A c \in Conexiones : Red(c) # Gui /\ Red(c) # Libre
<1>1. \A c \in Conexiones : c[1] \in Usuarios /\ c[2] \in Nat \ {0}
  BY ClienteAssumption
<1>2. modo.otro \in [Usuarios -> Usuarios] /\ modo.letra \in [Usuarios -> ModosCanal]
  BY ClienteAssumption DEF EnvioTypeOK
<1> QED
  BY <1>1, <1>2 DEF Gui, Fichero, Libre, Red

(* A new order is a message of the interface in which nobody has written.  *)
LEMMA OrdenTipo ==
    ASSUME NEW tipo \in Tipos, NEW x \in Argumentos, NEW n \in Nat
    PROVE  /\ Orden(tipo, x, n) \in OrdenesIRC
           /\ Orden(tipo, x, n).de = Gui
           /\ Orden(tipo, x, n).cruces = {}
BY DEF Orden, OrdenesIRC, Hebras

(* What a writer does to another's message.                                *)
LEMMA CruzaTipo ==
    ASSUME NEW m \in OrdenesIRC, NEW x \in OrdenesIRC
    PROVE  /\ Cruza(m, x) \in OrdenesIRC
           /\ Cruza(m, x).de = m.de
           /\ Cruza(m, x).cruces \subseteq m.cruces \cup {x.de}
BY DEF Cruza, OrdenesIRC

-----------------------------------------------------------------------------
(* The kinds of steps, seen from the socket                                *)

(* Steps that send nothing and take nothing from the network.              *)
LEMMA SinEnvioMarco ==
    ASSUME EnvioInv, UNCHANGED <<modo, conexiones, mutex, escribe, alServidor>>,
           hecho' \in [Usuarios -> Nat], socket' \in [Usuarios -> Nat],
           \A u \in Usuarios : socket'[u] \in {0, socket[u]}
    PROVE  EnvioInv'
BY DEF EnvioInv, EnvioTypeOK, SinConexion, ConMutex, Recibidas, Limpia

(* The server takes a command.                                             *)
LEMMA RecibeMarco ==
    ASSUME EnvioInv, UNCHANGED <<modo, conexiones, mutex, escribe, hecho, socket>>,
           NEW c \in Conexiones, alServidor[c] # <<>>,
           alServidor' = [alServidor EXCEPT ![c] = Tail(@)]
    PROVE  EnvioInv'
<1>1. alServidor[c] \in Seq(OrdenesIRC)
  BY DEF EnvioInv, EnvioTypeOK
<1>2. /\ Tail(alServidor[c]) \in Seq(OrdenesIRC)
      /\ Len(Tail(alServidor[c])) = Len(alServidor[c]) - 1
      /\ \A i \in 1..Len(Tail(alServidor[c])) :
            i + 1 \in 1..Len(alServidor[c]) /\ Tail(alServidor[c])[i] = alServidor[c][i + 1]
  BY <1>1
<1>3. EnvioTypeOK'
  BY <1>2 DEF EnvioInv, EnvioTypeOK
<1>4. Recibidas'
  <2> SUFFICES ASSUME NEW d \in Conexiones, conexiones[d[1]] <= 1,
                      NEW i \in 1..Len(alServidor'[d])
               PROVE  Limpia(alServidor'[d][i])
    BY DEF Recibidas, Limpia
  <2>1. CASE d = c
    <3>1. alServidor'[d] = Tail(alServidor[c])
      BY <2>1 DEF EnvioInv, EnvioTypeOK
    <3> QED
      BY <1>2, <2>1, <3>1 DEF EnvioInv, Recibidas
  <2>2. CASE d # c
    BY <2>2 DEF EnvioInv, EnvioTypeOK, Recibidas
  <2> QED
    BY <2>1, <2>2
<1> QED
  BY <1>3, <1>4 DEF EnvioInv, SinConexion, ConMutex, Limpia

(* A message at the end of the queue of a connection.                      *)
LEMMA LlegaMarco ==
    ASSUME EnvioInv, UNCHANGED <<modo, conexiones>>, NEW c, NEW m \in OrdenesIRC,
           alServidor' = [alServidor EXCEPT ![c] = Append(@, m)],
           c \in Conexiones /\ conexiones[c[1]] <= 1 => Limpia(m)
    PROVE  alServidor' \in [Conexiones -> Seq(OrdenesIRC)] /\ Recibidas'
<1>1. \A d \in Conexiones : alServidor[d] \in Seq(OrdenesIRC)
  BY DEF EnvioInv, EnvioTypeOK
<1>2. \A d \in Conexiones :
        alServidor'[d] = IF d = c THEN Append(alServidor[d], m) ELSE alServidor[d]
  BY DEF EnvioInv, EnvioTypeOK
<1>3. alServidor' \in [Conexiones -> Seq(OrdenesIRC)]
  <2>1. \A d \in Conexiones : alServidor'[d] \in Seq(OrdenesIRC)
    BY <1>1, <1>2
  <2> QED
    BY <2>1 DEF EnvioInv, EnvioTypeOK
<1>4. ASSUME NEW d \in Conexiones, conexiones[d[1]] <= 1, NEW i \in 1..Len(alServidor'[d])
      PROVE  Limpia(alServidor'[d][i])
  <2>1. CASE d = c
    <3>1. alServidor'[d] = Append(alServidor[d], m)
      BY <1>2, <2>1
    <3>2. CASE i = Len(alServidor[d]) + 1
      BY <1>1, <1>4, <2>1, <3>1, <3>2
    <3>3. CASE i # Len(alServidor[d]) + 1
      <4>1. i \in 1..Len(alServidor[d]) /\ alServidor'[d][i] = alServidor[d][i]
        BY <1>1, <1>4, <3>1, <3>3
      <4> QED
        BY <1>4, <4>1 DEF EnvioInv, Recibidas
    <3> QED
      BY <3>2, <3>3
  <2>2. CASE d # c
    BY <1>2, <1>4, <2>2 DEF EnvioInv, Recibidas
  <2> QED
    BY <2>1, <2>2
<1> QED
  BY <1>3, <1>4 DEF Recibidas, Limpia

(* The two commands of CYCLE, in one message of the interface.             *)
LEMMA CycleMarco ==
    ASSUME EnvioInv, NEW u \in Usuarios, Cycle(u)
    PROVE  EnvioInv'
<1> DEFINE dos == <<Orden("PART", Nadie, 0), Orden("JOIN", Nadie, Sigue(u))>>
           c == <<u, socket[u]>>
<1>1. /\ EnvioTypeOK /\ SinConexion /\ ConMutex /\ Recibidas
      /\ UNCHANGED <<modo, conexiones, socket, mutex, escribe>>
      /\ alServidor' = [alServidor EXCEPT ![c] = @ \o dos]
  BY DEF EnvioInv, Cycle, sinOrden, estructura
<1>2. hecho' \in [Usuarios -> Nat] /\ Sigue(u) \in Nat /\ Nadie \in Argumentos
  BY <1>1 DEF EnvioTypeOK, Cycle, Ordena, Sigue, Argumentos
<1>3. {"PART", "JOIN"} \subseteq Tipos
  BY DEF Tipos, Ordenes
<1>4. /\ dos \in Seq(OrdenesIRC) /\ Len(dos) = 2
      /\ dos[1].de = Gui /\ dos[2].de = Gui
  BY <1>2, <1>3, OrdenTipo
<1> HIDE DEF dos, c
<1>5. \A d \in Conexiones :
        /\ alServidor[d] \in Seq(OrdenesIRC)
        /\ alServidor'[d] = IF d = c THEN alServidor[d] \o dos ELSE alServidor[d]
  BY <1>1 DEF EnvioTypeOK
<1>6. alServidor' \in [Conexiones -> Seq(OrdenesIRC)]
  <2>1. ASSUME NEW d \in Conexiones
        PROVE  alServidor'[d] \in Seq(OrdenesIRC)
    <3>1. alServidor[d] \o dos \in Seq(OrdenesIRC)
      BY <1>4, <1>5, ConcatProperties, Zenon
    <3> QED
      BY <1>5, <3>1
  <2> QED
    BY <1>1, <2>1 DEF EnvioTypeOK
<1>7. ASSUME NEW d \in Conexiones, conexiones[d[1]] <= 1, NEW i \in 1..Len(alServidor'[d])
      PROVE  Limpia(alServidor'[d][i])
  <2>0. /\ Len(alServidor[d]) \in Nat
        /\ Len(alServidor[d] \o dos) = Len(alServidor[d]) + 2
        /\ \A k \in 1..Len(alServidor[d]) + 2 :
             (alServidor[d] \o dos)[k] = IF k <= Len(alServidor[d]) THEN alServidor[d][k]
                                         ELSE dos[k - Len(alServidor[d])]
    <3>1. alServidor[d] \in Seq(OrdenesIRC)
      BY <1>5
    <3>2. /\ Len(alServidor[d] \o dos) = Len(alServidor[d]) + Len(dos)
          /\ \A k \in 1..Len(alServidor[d]) + Len(dos) :
                (alServidor[d] \o dos)[k] = IF k <= Len(alServidor[d]) THEN alServidor[d][k]
                                            ELSE dos[k - Len(alServidor[d])]
      BY <1>4, <3>1, ConcatProperties, Zenon
    <3>3. Len(alServidor[d]) \in Nat
      BY <3>1
    <3> QED
      BY <1>4, <3>2, <3>3, Zenon
  <2>1. CASE d = c /\ i > Len(alServidor[d])
    <3>1. alServidor'[d] = alServidor[d] \o dos
      BY <1>5, <2>1
    <3>2. i - Len(alServidor[d]) \in {1, 2} /\ alServidor'[d][i] = dos[i - Len(alServidor[d])]
      <4>1. i \in Nat /\ i <= Len(alServidor[d]) + 2
        BY <1>7, <2>0, <3>1
      <4>2. i \in 1..Len(alServidor[d]) + 2
        BY <2>0, <2>1, <4>1
      <4>3. alServidor'[d][i] = dos[i - Len(alServidor[d])]
        BY <2>0, <2>1, <3>1, <4>1, <4>2
      <4> QED
        BY <2>0, <2>1, <4>1, <4>3
    <3> QED
      BY <1>4, <3>2 DEF Limpia
  <2>2. CASE ~(d = c /\ i > Len(alServidor[d]))
    <3>1. i \in 1..Len(alServidor[d]) /\ alServidor'[d][i] = alServidor[d][i]
      <4>1. CASE d = c
        <5>0. alServidor'[d] = alServidor[d] \o dos
          BY <1>5, <4>1, Zenon
        <5>1. i \in Nat /\ 1 <= i /\ i <= Len(alServidor[d]) + 2
          BY <1>7, <2>0, <5>0
        <5>2. i <= Len(alServidor[d])
          BY <2>0, <2>2, <4>1, <5>1
        <5> QED
          BY <2>0, <5>0, <5>1, <5>2
      <4>2. CASE d # c
        BY <1>5, <1>7, <4>2
      <4> QED
        BY <4>1, <4>2
    <3> QED
      BY <1>1, <1>7, <3>1 DEF Recibidas
  <2> QED
    BY <2>1, <2>2
<1> QED
  BY <1>1, <1>2, <1>6, <1>7 DEF EnvioInv, EnvioTypeOK, SinConexion, ConMutex, Recibidas, Limpia

(* send, in a thread that has the mutex or in the interface.               *)
LEMMA SendMarco ==
    ASSUME EnvioInv, UNCHANGED <<modo, conexiones, socket>>, hecho' \in [Usuarios -> Nat],
           NEW u \in Usuarios, NEW h \in Hebras, NEW m \in OrdenesIRC,
           m.cruces = {}, Send(u, h, m),
           \/ h = Gui /\ mutex' = mutex
           \/ /\ h # Gui
              /\ mutex[u] = Libre
              /\ mutex' = IF modo.trozos /\ socket[u] # 0 THEN [mutex EXCEPT ![u] = h] ELSE mutex
    PROVE  EnvioInv'
<1> DEFINE tuyo == [m EXCEPT !.de = h, !.en = socket[u]]
           otros == {x.de : x \in {y \in escribe[u] : y.en = socket[u]}}
           mia == [tuyo EXCEPT !.cruces = otros]
<1>1. /\ EnvioTypeOK /\ SinConexion /\ ConMutex /\ Recibidas
      /\ socket[u] \in Nat /\ escribe[u] \in SUBSET OrdenesIRC
  BY DEF EnvioInv, EnvioTypeOK
<1>2. /\ tuyo \in OrdenesIRC /\ tuyo.de = h /\ tuyo.cruces = {}
  BY <1>1 DEF OrdenesIRC
<1>3. otros \in SUBSET Hebras
  BY <1>1 DEF OrdenesIRC
<1>4. /\ mia \in OrdenesIRC /\ mia.de = h /\ mia.cruces = otros
  BY <1>2, <1>3 DEF OrdenesIRC
<1>5. mutex' \in [Usuarios -> Hebras \cup {Libre}]
  BY <1>1 DEF EnvioTypeOK
<1>6. CASE socket[u] = 0
  <2>1. UNCHANGED <<alServidor, escribe, mutex>>
    BY <1>6 DEF Send
  <2> QED
    BY <2>1, SinEnvioMarco, <1>1 DEF EnvioTypeOK
<1>7. CASE socket[u] # 0 /\ ~modo.trozos
  <2>1. UNCHANGED <<escribe, mutex>>
    BY <1>7 DEF Send
  <2>2. alServidor' = [alServidor EXCEPT ![<<u, socket[u]>>] = Append(@, tuyo)]
    BY <1>7 DEF Send
  <2>3. alServidor' \in [Conexiones -> Seq(OrdenesIRC)] /\ Recibidas'
    <3> HIDE DEF tuyo
    <3>1. Limpia(tuyo)
      BY <1>2 DEF Limpia
    <3> QED
      BY <1>2, <2>2, <3>1, LlegaMarco
  <2> QED
    BY <1>1, <2>1, <2>3 DEF EnvioInv, EnvioTypeOK, SinConexion, ConMutex, Limpia
<1>8. CASE socket[u] # 0 /\ modo.trozos
  <2>1. /\ alServidor' = alServidor
        /\ escribe' = [escribe EXCEPT ![u] = {mia} \cup {Cruza(x, tuyo) : x \in @}]
    BY <1>8 DEF Send
  <2> HIDE DEF tuyo, mia, otros
  <2>2. \A x \in escribe[u] :
            /\ Cruza(x, tuyo) \in OrdenesIRC
            /\ Cruza(x, tuyo).de = x.de
            /\ Cruza(x, tuyo).cruces \subseteq x.cruces \cup {h}
    BY <1>1, <1>2, CruzaTipo
  <2>3. /\ escribe'[u] = {mia} \cup {Cruza(x, tuyo) : x \in escribe[u]}
        /\ \A v \in Usuarios \ {u} : escribe'[v] = escribe[v] /\ mutex'[v] = mutex[v]
        /\ DOMAIN escribe' = Usuarios
    BY <1>1, <2>1 DEF EnvioTypeOK
  <2>4. escribe' \in [Usuarios -> SUBSET OrdenesIRC]
    <3>1. escribe'[u] \in SUBSET OrdenesIRC
      BY <1>4, <2>2, <2>3
    <3> QED
      BY <1>1, <2>1, <2>3, <3>1 DEF EnvioTypeOK
  <2>5. conexiones[u] # 0
    BY <1>1, <1>8 DEF SinConexion
  <2>6. ASSUME conexiones[u] <= 1
        PROVE  /\ \A x \in escribe'[u] : x.de # Gui => mutex'[u] = x.de /\ Limpia(x)
               /\ \A x, y \in escribe'[u] : x.de # Gui /\ y.de # Gui => x = y
    <3>1. /\ \A x \in escribe[u] : x.de # Gui => mutex[u] = x.de /\ x.cruces \subseteq {Gui}
          /\ \A x, y \in escribe[u] : x.de # Gui /\ y.de # Gui => x = y
      BY <1>1, <2>6 DEF ConMutex, Limpia
    <3>2. CASE h = Gui
      <4>1. mutex' = mutex
        BY <3>2
      <4> QED
        BY <1>4, <2>2, <2>3, <3>1, <3>2, <4>1 DEF Limpia
    <3>3. CASE h # Gui
      <4>1. mutex[u] = Libre /\ mutex'[u] = h
        BY <1>1, <1>8, <3>3 DEF EnvioTypeOK
      <4>2. \A x \in escribe[u] : x.de = Gui
        <5>1. \A x \in escribe[u] : x.de \in Hebras
          BY <1>1 DEF OrdenesIRC
        <5>2. Libre \notin Hebras
          BY <1>1, Constantes DEF Hebras
        <5> QED
          BY <3>1, <4>1, <5>1, <5>2
      <4>3. otros \subseteq {Gui}
        BY <4>2 DEF otros
      <4> QED
        BY <1>4, <2>2, <2>3, <4>1, <4>2, <4>3 DEF Limpia
    <3> QED
      BY <3>2, <3>3
  <2>7. EnvioTypeOK'
    BY <1>1, <1>5, <2>1, <2>4 DEF EnvioTypeOK
  <2>8. ConMutex'
    BY <1>1, <2>3, <2>6 DEF ConMutex, Limpia
  <2>9. SinConexion'
    BY <1>1, <2>3, <2>5 DEF SinConexion
  <2> QED
    BY <1>1, <2>1, <2>7, <2>8, <2>9 DEF EnvioInv, Recibidas, Limpia
<1> QED
  BY <1>6, <1>7, <1>8, <1>1 DEF Send

(* The rest of a message: its thread, if it is not the interface, was the  *)
(* only one with a message half written.                                   *)
LEMMA RestoMarco ==
    ASSUME EnvioInv, NEW u \in Usuarios, EnviaResto(u)
    PROVE  EnvioInv'
<1>1. /\ EnvioTypeOK /\ SinConexion /\ ConMutex /\ Recibidas
      /\ UNCHANGED <<modo, conexiones, socket, hecho>>
  BY DEF EnvioInv, EnviaResto, ordenes, estructura
<1>2. PICK m \in escribe[u] :
        /\ alServidor' = [alServidor EXCEPT ![<<u, m.en>>] = Append(@, m)]
        /\ escribe' = [escribe EXCEPT ![u] = @ \ {m}]
        /\ mutex' = IF m.de = Gui THEN mutex ELSE [mutex EXCEPT ![u] = Libre]
  BY DEF EnviaResto
<1>3. m \in OrdenesIRC
  BY <1>1 DEF EnvioTypeOK
<1>4. conexiones[u] <= 1 => Limpia(m)
  BY <1>1 DEF ConMutex, Limpia
<1>5. alServidor' \in [Conexiones -> Seq(OrdenesIRC)] /\ Recibidas'
  <2>1. <<u, m.en>>[1] = u
    OBVIOUS
  <2> QED
    BY <1>1, <1>2, <1>3, <1>4, <2>1, LlegaMarco
<1>6. mutex' \in [Usuarios -> Hebras \cup {Libre}] /\ escribe' \in [Usuarios -> SUBSET OrdenesIRC]
  BY <1>1, <1>2 DEF EnvioTypeOK
<1>7. SinConexion'
  BY <1>1, <1>2 DEF SinConexion, EnvioTypeOK
<1>8. ConMutex'
  <2> SUFFICES ASSUME NEW v \in Usuarios, conexiones[v] <= 1
               PROVE  /\ \A x \in escribe'[v] : x.de # Gui => mutex'[v] = x.de /\ Limpia(x)
                      /\ \A x, y \in escribe'[v] : x.de # Gui /\ y.de # Gui => x = y
    BY <1>1 DEF ConMutex, Limpia
  <2>1. /\ \A x \in escribe[v] : x.de # Gui => mutex[v] = x.de /\ Limpia(x)
        /\ \A x, y \in escribe[v] : x.de # Gui /\ y.de # Gui => x = y
    BY <1>1 DEF ConMutex
  <2>2. CASE v = u
    <3>1. escribe'[v] = escribe[v] \ {m}
      BY <1>1, <1>2, <2>2 DEF EnvioTypeOK
    <3>2. CASE m.de = Gui
      BY <1>2, <2>1, <3>1, <3>2
    <3>3. CASE m.de # Gui
      BY <2>1, <2>2, <3>1, <3>3
    <3> QED
      BY <3>2, <3>3
  <2>3. CASE v # u
    <3>1. escribe'[v] = escribe[v] /\ mutex'[v] = mutex[v]
      BY <1>1, <1>2, <2>3 DEF EnvioTypeOK
    <3> QED
      BY <2>1, <3>1
  <2> QED
    BY <2>2, <2>3
<1> QED
  BY <1>1, <1>5, <1>6, <1>7, <1>8 DEF EnvioInv, EnvioTypeOK

(* Connecting: the first connection finds nobody writing; of the others    *)
(* nothing is said.                                                        *)
LEMMA ConnectMarco ==
    ASSUME EnvioInv, NEW u \in Usuarios, Connect(u)
    PROVE  EnvioInv'
<1> DEFINE c == <<u, conexiones[u] + 1>>
           nick == Orden("NICK", <<u, 1>>, 0)
           user == Orden("USER", <<u, 1>>, Sigue(u))
<1>1. /\ EnvioTypeOK /\ SinConexion /\ ConMutex /\ Recibidas
      /\ UNCHANGED <<modo, escribe>>
      /\ c \in Conexiones
  BY DEF EnvioInv, Connect
<1>2. conexiones[u] \in Nat /\ hecho' \in [Usuarios -> Nat]
  BY <1>1 DEF EnvioTypeOK, Connect, Ordena
<1>3. CASE UNCHANGED <<conexiones, socket, alServidor, mutex>>
  BY <1>1, <1>2, <1>3, SinEnvioMarco DEF EnvioTypeOK
<1>4. CASE /\ conexiones' = [conexiones EXCEPT ![u] = @ + 1]
           /\ socket' = [socket EXCEPT ![u] = c[2]]
           /\ alServidor' = [alServidor EXCEPT ![c] = <<nick, user>>]
           /\ mutex' = [mutex EXCEPT ![u] = Libre]
  <2>1. /\ nick \in OrdenesIRC /\ nick.de = Gui
        /\ user \in OrdenesIRC /\ user.de = Gui
    <3>1. <<u, 1>> \in Argumentos
      BY DEF Argumentos, Nicks
    <3>2. Sigue(u) \in Nat
      BY <1>1 DEF Sigue, EnvioTypeOK
    <3>3. {"NICK", "USER"} \subseteq Tipos
      BY DEF Tipos, Ordenes
    <3> QED
      BY <3>1, <3>2, <3>3, OrdenTipo
  <2> HIDE DEF nick, user
  <2>2. <<nick, user>> \in Seq(OrdenesIRC)
    BY <2>1
  <2>3. alServidor' \in [Conexiones -> Seq(OrdenesIRC)]
    BY <1>1, <1>4, <2>2 DEF EnvioTypeOK
  <2>4. /\ conexiones' \in [Usuarios -> Nat]
        /\ socket' \in [Usuarios -> Nat]
        /\ mutex' \in [Usuarios -> Hebras \cup {Libre}]
    BY <1>1, <1>2, <1>4 DEF EnvioTypeOK
  <2>5. EnvioTypeOK'
    BY <1>1, <1>2, <2>3, <2>4 DEF EnvioTypeOK
  <2>6. /\ conexiones'[u] = conexiones[u] + 1
        /\ \A v \in Usuarios \ {u} : /\ conexiones'[v] = conexiones[v]
                                     /\ socket'[v] = socket[v]
                                     /\ mutex'[v] = mutex[v]
    BY <1>1, <1>4 DEF EnvioTypeOK
  <2>7. SinConexion'
    BY <1>1, <1>2, <2>6 DEF SinConexion
  <2>8. ConMutex'
    <3> SUFFICES ASSUME NEW v \in Usuarios, conexiones'[v] <= 1
                 PROVE  /\ \A x \in escribe[v] : x.de # Gui => mutex'[v] = x.de /\ Limpia(x)
                        /\ \A x, y \in escribe[v] : x.de # Gui /\ y.de # Gui => x = y
      BY <1>1 DEF ConMutex, Limpia
    <3>1. CASE v = u
      <4>1. conexiones[u] = 0
        BY <1>2, <2>6, <3>1
      <4> QED
        BY <1>1, <3>1, <4>1 DEF SinConexion
    <3>2. CASE v # u
      BY <1>1, <2>6, <3>2 DEF ConMutex
    <3> QED
      BY <3>1, <3>2
  <2>9. Recibidas'
    <3> SUFFICES ASSUME NEW d \in Conexiones, conexiones'[d[1]] <= 1,
                        NEW i \in 1..Len(alServidor'[d])
                 PROVE  Limpia(alServidor'[d][i])
      BY DEF Recibidas, Limpia
    <3>1. CASE d = c
      <4>1. alServidor'[d] = <<nick, user>>
        BY <1>1, <1>4, <3>1 DEF EnvioTypeOK
      <4>2. i = 1 \/ i = 2
        BY <4>1
      <4> QED
        BY <2>1, <4>1, <4>2 DEF Limpia
    <3>2. CASE d # c
      <4>1. alServidor'[d] = alServidor[d]
        BY <1>1, <1>4, <3>2 DEF EnvioTypeOK
      <4>2. d[1] \in Usuarios
        BY <1>1, Constantes
      <4>3. conexiones[d[1]] <= 1
        BY <1>2, <2>6, <4>2
      <4> QED
        BY <1>1, <4>1, <4>3 DEF Recibidas
    <3> QED
      BY <3>1, <3>2
  <2> QED
    BY <2>5, <2>7, <2>8, <2>9 DEF EnvioInv
<1> QED
  BY <1>3, <1>4 DEF Connect

-----------------------------------------------------------------------------
(* Every step                                                              *)

(* The user's next order, sent by the interface.                           *)
LEMMA OrdenaMarco ==
    ASSUME EnvioInv, NEW u \in Usuarios, NEW o, Ordena(u, o),
           NEW tipo \in Tipos, NEW x \in Argumentos, NEW n \in Nat,
           EnviarCliente(u, Orden(tipo, x, n)),
           UNCHANGED <<modo, conexiones, socket, mutex>>
    PROVE  EnvioInv'
<1>1. hecho' \in [Usuarios -> Nat]
  BY DEF EnvioInv, EnvioTypeOK, Ordena
<1>2. Orden(tipo, x, n) \in OrdenesIRC /\ Orden(tipo, x, n).cruces = {}
  BY OrdenTipo
<1>3. Gui \in Hebras /\ Send(u, Gui, Orden(tipo, x, n))
  BY DEF Hebras, EnviarCliente
<1> QED
  BY <1>1, <1>2, <1>3, SendMarco

(* A thread sends with the mutex.                                          *)
LEMMA ThreadMarco ==
    ASSUME EnvioInv, NEW u \in Usuarios, NEW h \in Hebras, h # Gui,
           NEW tipo \in Tipos, NEW x \in Argumentos,
           EnviarClienteThread(u, h, Orden(tipo, x, 0)),
           UNCHANGED <<modo, conexiones, socket, hecho>>
    PROVE  EnvioInv'
<1>1. hecho' \in [Usuarios -> Nat]
  BY DEF EnvioInv, EnvioTypeOK
<1>2. Orden(tipo, x, 0) \in OrdenesIRC /\ Orden(tipo, x, 0).cruces = {}
  BY OrdenTipo
<1> QED
  BY <1>1, <1>2, SendMarco DEF EnviarClienteThread

(* A client that ends leaves nothing half written to be written.           *)
LEMMA MuereMarco ==
    ASSUME EnvioInv, NEW u \in Usuarios, TecleaSinTabla(u)
    PROVE  EnvioInv'
<1>1. /\ EnvioTypeOK /\ SinConexion /\ ConMutex /\ Recibidas
      /\ UNCHANGED <<modo, conexiones, mutex, alServidor>>
      /\ socket' = [socket EXCEPT ![u] = 0]
      /\ escribe' = [escribe EXCEPT ![u] = {}]
  BY DEF EnvioInv, TecleaSinTabla
<1>2. hecho' \in [Usuarios -> Nat]
  <2>1. Len(modo.guion[u]) \in Nat
    BY ClienteAssumption, <1>1 DEF EnvioTypeOK
  <2> QED
    BY <1>1, <2>1 DEF EnvioTypeOK, TecleaSinTabla
<1>3. EnvioTypeOK'
  BY <1>1, <1>2 DEF EnvioTypeOK
<1>4. SinConexion' /\ ConMutex' /\ Recibidas'
  BY <1>1 DEF EnvioTypeOK, SinConexion, ConMutex, Recibidas, Limpia
<1> QED
  BY <1>3, <1>4 DEF EnvioInv

LEMMA InterfazMarco ==
    ASSUME EnvioInv, NEW u \in Usuarios, Interfaz(u)
    PROVE  EnvioInv'
<1> DEFINE Sin == UNCHANGED <<modo, conexiones, socket, mutex>>
<1>1. /\ Sigue(u) \in Nat /\ 0 \in Nat
      /\ Nadie \in Argumentos /\ modo.letra[u] \in Argumentos
      /\ \A v \in Usuarios, k \in {1, 2} : <<v, k>> \in Argumentos
      /\ modo.otro[u] \in Usuarios
  BY Constantes DEF EnvioInv, EnvioTypeOK, Sigue, Argumentos, Nicks
<1>2. Ordenes \cup {"QUIT", "JOIN0"} \subseteq Tipos
  BY DEF Tipos
<1>3. ASSUME NEW o, Ordena(u, o), UNCHANGED <<modo, conexiones, mutex, escribe, alServidor, socket>>
      PROVE  EnvioInv'
  BY <1>3, SinEnvioMarco DEF EnvioInv, EnvioTypeOK, Ordena
<1>4. CASE Connect(u)
  BY <1>4, ConnectMarco
<1>5. CASE DisconnectServer(u)
  <2>1. Ordena(u, "DISCONNECT") /\ Sin
    BY <1>5 DEF DisconnectServer
  <2>2. CASE EnviarCliente(u, Orden("QUIT", Nadie, 0))
    BY <1>1, <1>2, <2>1, <2>2, OrdenaMarco
  <2>3. CASE UNCHANGED <<alServidor, escribe>>
    BY <1>3, <2>1, <2>3
  <2> QED
    BY <1>5, <2>2, <2>3 DEF DisconnectServer
<1>6. CASE ComandoGeneral(u)
  <2>1. PICK o \in {"JOIN", "NICK", "WHOIS", "AWAY", "TOPIC"} :
          Ordena(u, o) /\ EnviarCliente(u, Orden(o, <<u, 2>>, Sigue(u))) /\ Sin
    BY <1>6 DEF ComandoGeneral, sinOrden, estructura
  <2>2. o \in Tipos
    BY <1>2 DEF Ordenes
  <2> QED
    BY <1>1, <2>1, <2>2, OrdenaMarco
<1>7. CASE Privado(u)
  <2>1. Ordena(u, "PRIVADO") /\ Sin /\ EnviarCliente(u, Orden("PRIVADO", <<modo.otro[u], 1>>, 0))
    BY <1>7 DEF Privado, sinOrden, estructura
  <2>2. "PRIVADO" \in Tipos /\ <<modo.otro[u], 1>> \in Argumentos
    BY <1>1, <1>2 DEF Ordenes
  <2> QED
    BY <1>1, <2>1, <2>2, OrdenaMarco
<1>8. CASE DesdeSystem(u)
  BY <1>3, <1>8 DEF DesdeSystem, sinOrden, estructura
<1>9. CASE Part(u)
  <2>1. Ordena(u, "PART") /\ Sin /\ EnviarCliente(u, Orden("PART", Nadie, Sigue(u)))
    BY <1>9 DEF Part, sinOrden, estructura
  <2>2. "PART" \in Tipos
    BY <1>2 DEF Ordenes
  <2> QED
    BY <1>1, <2>1, <2>2, OrdenaMarco
<1>10. CASE PartAll(u)
  <2>1. Ordena(u, "PARTALL") /\ Sin /\ EnviarCliente(u, Orden("JOIN0", Nadie, Sigue(u)))
    BY <1>10 DEF PartAll, sinOrden, estructura
  <2> QED
    BY <1>1, <1>2, <2>1, OrdenaMarco
<1>11. CASE Cycle(u)
  BY <1>11, CycleMarco
<1>12. CASE KickNick(u)
  <2>1. Ordena(u, "KICK") /\ Sin /\ EnviarCliente(u, Orden("KICK", <<modo.otro[u], 1>>, Sigue(u)))
    BY <1>12 DEF KickNick, sinOrden, estructura
  <2>2. "KICK" \in Tipos /\ <<modo.otro[u], 1>> \in Argumentos
    BY <1>1, <1>2 DEF Ordenes
  <2> QED
    BY <1>1, <2>1, <2>2, OrdenaMarco
<1>13. CASE CambiaModo(u)
  <2>1. Ordena(u, "MODE") /\ Sin /\ EnviarCliente(u, Orden("MODE", modo.letra[u], Sigue(u)))
    BY <1>13 DEF CambiaModo, sinOrden, estructura
  <2>2. "MODE" \in Tipos
    BY <1>2 DEF Ordenes
  <2> QED
    BY <1>1, <2>1, <2>2, OrdenaMarco
<1>14. CASE NewCommandText(u)
  <2>1. Ordena(u, "TEXTO") /\ Sin /\ EnviarCliente(u, Orden("TEXTO", Nadie, 0))
    BY <1>14 DEF NewCommandText, sinOrden, estructura
  <2>2. "TEXTO" \in Tipos
    BY <1>2 DEF Ordenes
  <2> QED
    BY <1>1, <2>1, <2>2, OrdenaMarco
<1>15. CASE SendFile(u)
  BY <1>3, <1>15 DEF SendFile, estructura
<1>16. CASE TecleaSinTabla(u)
  BY <1>16, MuereMarco
<1> QED
  BY <1>4, <1>5, <1>6, <1>7, <1>8, <1>9, <1>10, <1>11, <1>12, <1>13, <1>14, <1>15, <1>16
  DEF Interfaz

LEMMA EnvioMarco ==
    ASSUME EnvioInv, NEW u \in Usuarios, Envio(u)
    PROVE  EnvioInv'
<1>1. CASE CierraSocket(u)
  BY <1>1, SinEnvioMarco DEF CierraSocket, EnvioInv, EnvioTypeOK, ordenes, envio
<1>2. CASE Ofrece(u)
  <2>1. Fichero \in Hebras /\ Fichero # Gui
    BY Constantes DEF EnvioInv, Hebras
  <2>2. "FSEND" \in Tipos /\ <<modo.otro[u], 1>> \in Argumentos
    BY Constantes DEF EnvioInv, Tipos, Argumentos, Nicks
  <2>3. /\ EnviarClienteThread(u, Fichero, Orden("FSEND", <<modo.otro[u], 1>>, 0))
        /\ UNCHANGED <<modo, conexiones, socket, hecho>>
    BY <1>2 DEF Ofrece, estructura, ordenes
  <2> QED
    BY <2>1, <2>2, <2>3, ThreadMarco
<1>3. CASE EnviaResto(u)
  BY <1>3, RestoMarco
<1> QED
  BY <1>1, <1>2, <1>3 DEF Envio

LEMMA RecvMarco ==
    ASSUME EnvioInv, NEW c \in Conexiones, RecvPthread(c)
    PROVE  EnvioInv'
<1>1. CASE Contesta(c)
  <2>1. c[1] \in Usuarios /\ Red(c) \in Hebras /\ Red(c) # Gui
    BY Constantes DEF EnvioInv, Hebras
  <2>2. "FCANCEL" \in Tipos /\ <<modo.otro[c[1]], 1>> \in Argumentos
    BY <2>1, Constantes DEF EnvioInv, Tipos, Argumentos, Nicks
  <2>3. /\ EnviarClienteThread(c[1], Red(c), Orden("FCANCEL", <<modo.otro[c[1]], 1>>, 0))
        /\ UNCHANGED <<modo, conexiones, socket, hecho>>
    BY <1>1 DEF Contesta, estructura, ordenes
  <2> QED
    BY <2>1, <2>2, <2>3, ThreadMarco
<1>2. CASE RecvInicio(c) \/ RecvTabla(c) \/ RecvEntra(c) \/ RecvMensajes(c) \/ Maneja(c) \/ RecvVuelve(c)
  <2>1. UNCHANGED <<modo, conexiones, mutex, escribe, alServidor, hecho, socket>>
    BY <1>2 DEF RecvInicio, RecvTabla, RecvEntra, RecvMensajes, Maneja, RecvVuelve, sinTabla,
                estructura, ordenes, envio
  <2> QED
    BY <2>1, SinEnvioMarco DEF EnvioInv, EnvioTypeOK
<1> QED
  BY <1>1, <1>2 DEF RecvPthread

LEMMA HiloMarco ==
    ASSUME EnvioInv, NEW c \in Conexiones, Hilo(c)
    PROVE  EnvioInv'
<1>1. CASE ProcesaComando(c)
  <2>1. UNCHANGED <<modo, conexiones, mutex, escribe, hecho, socket>>
    BY <1>1 DEF ProcesaComando, SinRegistrar, Nick, User, Join, Join0, PartirCanal, Kick, Mode,
                SoloContesta, Privmsg, Quit, ComandoVacio, sinServidor, estructura, ordenes, envio
  <2>2. alServidor[c] # <<>> /\ alServidor' = [alServidor EXCEPT ![c] = Tail(@)]
    BY <1>1 DEF ProcesaComando, SinRegistrar, Nick, User, Join, Join0, PartirCanal, Kick, Mode,
                SoloContesta, Privmsg, Quit, ComandoVacio, Recibe
  <2> QED
    BY <2>1, <2>2, RecibeMarco
<1>2. CASE ListNicks(c) \/ EnviarANick(c) \/ Enviar(c) \/ ListarNames(c) \/ CerrarConexion(c)
  <2>1. UNCHANGED <<modo, conexiones, mutex, escribe, alServidor, hecho, socket>>
    BY <1>2 DEF ListNicks, EnviarANick, Enviar, ListarNames, CerrarConexion, sinEnvios,
                sinServidor, estructura, ordenes, envio
  <2> QED
    BY <2>1, SinEnvioMarco DEF EnvioInv, EnvioTypeOK
<1> QED
  BY <1>1, <1>2 DEF Hilo

-----------------------------------------------------------------------------

(* Who writes to the server, with or without the mutex.                    *)
THEOREM EnvioSiempre == Spec => []EnvioInv
<1>1. Init => EnvioInv
  BY DEF Init, EnvioInv, EnvioTypeOK, SinConexion, ConMutex, Recibidas
<1>2. ASSUME EnvioInv, [Next]_vars
      PROVE  EnvioInv'
  <2>1. CASE UNCHANGED vars
    <3>1. UNCHANGED <<modo, conexiones, mutex, escribe, alServidor, hecho, socket>>
      BY <2>1 DEF vars, estructura, ordenes, envio
    <3> QED
      BY <1>2, <3>1, SinEnvioMarco DEF EnvioInv, EnvioTypeOK
  <2>2. CASE Next
    BY <1>2, <2>2, InterfazMarco, EnvioMarco, RecvMarco, HiloMarco DEF Next
  <2> QED
    BY <1>2, <2>1, <2>2
<1> QED
  BY <1>1, <1>2, PTL DEF Spec

(* The messages that the threads of a client send with the mutex get to    *)
(* the server whole, but for what the interface writes in the middle of    *)
(* them, until the user connects again.                                    *)
THEOREM SinCrucesSiempre == Spec => []SinCruces
<1>1. EnvioInv => SinCruces
  BY DEF EnvioInv, Recibidas, Limpia, SinCruces
<1> QED
  BY <1>1, EnvioSiempre, PTL
=============================================================================
