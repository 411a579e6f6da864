---------------------------- MODULE EnvioFichero ----------------------------
(***************************************************************************)
(* File transfers in the client: IRCInterface_SendFile (xchat2.c) in the   *)
(* thread of the interface, file_send_func with its timeout thread and     *)
(* file_recv_func (file_send.c), and the thread that reads from the server *)
(* (recv_pthread, which calls parse_fsend and parse_fcancel).              *)
(*                                                                         *)
(* The threads share cliente and the globals of file_send.c without a      *)
(* mutex, and stop each other with signals.  A signal sent to a thread is  *)
(* pending until the thread takes it, some steps later; the disposition of *)
(* a signal is one for the whole process.  Both handlers of the sending    *)
(* thread run cerrar_envio and end it, from wherever it is.                *)
(*                                                                         *)
(* Transfers are numbered in the order they are started; the number stands *)
(* for their Envio structure, their two threads and their descriptors.     *)
(***************************************************************************)
EXTENDS Naturals, Sequences

CONSTANTS
    MaxEnvios,      \* bound: transfers the user starts
    MaxRecepciones, \* bound: offers (FSEND) that arrive
    Nicks,          \* users of the server
    Modos           \* the uses of the client, one of which a behaviour makes

ASSUME EnvioFicheroAssumption ==
    /\ MaxEnvios \in Nat
    /\ MaxRecepciones \in Nat
    /\ \A m \in Modos :
        /\ m.envios \in 0..MaxEnvios            \* transfers started
        /\ m.recepciones \in 0..MaxRecepciones  \* offers that arrive
        /\ m.conectan \in BOOLEAN  \* receivers may connect
        /\ m.cancelan \in BOOLEAN  \* other users send FCANCEL
        /\ m.fallan \in BOOLEAN    \* there may be no thread or descriptor to be had

Envios == 1..MaxEnvios
Recepciones == 1..MaxRecepciones

(* A thread that is not a sending one, and whose signal runs cerrar_envio. *)
Otra == 0

VARIABLES
    modo,
    \* struct cliente
    envioSt,        \* cliente.envio
    recepcionSt,    \* cliente.recepcion
    file_thread_th, \* cliente.file_thread_th: the transfer whose thread it is, or 0
    \* globals of file_send.c: the transfer they hold, or 0
    envio, t_aux, socket_envio, desc_envio,
    recepcion,
    \* threads
    gui,            \* the interface, in SendFile: "libre", "ocupa", "crea"
    destino,        \* destino[i]: to whom; one for every transfer started
    red,            \* recv_pthread: "libre", in parse_fsend or in parse_fcancel
    ofertas,        \* offers answered
    emisor,         \* emisor[i]: where file_send_func is for transfer i
    reloj,          \* reloj[i]: where its timeout_aceptar is
    receptor,       \* receptor[r]: where file_recv_func is
    \* signals
    pendiente,      \* pendiente[i]: signals for the sending thread
    mascara,        \* mascara[i]: signals whose handler it is running
    sorpresas,      \* history: <<place, transfer>> where a handler found a sending thread
    usr1,           \* timeout threads with SIGUSR1 pending
    sigalrm, sigusr1, sigusr2,  \* dispositions
    \* outside
    conectado,      \* transfers whose receiver has connected
    reservado,      \* Envio structures in use
    abiertos,       \* open descriptors: <<use, transfer>>
    proceso,        \* "vivo" or "muerto"
    fcancel,        \* the nick of the FCANCEL being handled, if any
    cancelado       \* history: <<transfer, nick whose FCANCEL stopped it>>

estado == <<envioSt, recepcionSt, file_thread_th>>
globales == <<envio, t_aux, socket_envio, desc_envio>>
interfaz == <<gui, destino>>
hechos == Len(destino)
disposiciones == <<mascara, sorpresas, sigalrm, sigusr1, sigusr2>>
recibe == <<red, ofertas, recepcion, receptor, fcancel>>
fuera == <<modo, conectado, reservado, abiertos, proceso, cancelado>>
vars == <<estado, globales, interfaz, recibe, emisor, reloj, pendiente, usr1,
          disposiciones, fuera>>

-----------------------------------------------------------------------------

Vivo == proceso = "vivo"

(* cerrar_envio, in order.                                                 *)
Cierre == {"dialogo", "close", "kill", "free", "hilo", "disponible"}

(* Places where a handler that ends the sending thread does harm: it has a *)
(* descriptor that no global holds yet, or it has given all of them back.  *)
Delicados == {"guardasocket", "guardadesc", "exit"}

Va(i, lugar) == emisor' = [emisor EXCEPT ![i] = lugar]

(* The sending thread of transfer i is at a place and nothing but the      *)
(* variables its step names changes.                                       *)
En(i, lugar) == Vivo /\ emisor[i] = lugar

(* pthread_kill(t, SIGUSR1) for a timeout thread: a thread that has ended, *)
(* or no thread, is undefined: nothing happens or the process dies.        *)
MataReloj(t) ==
    IF t # 0 /\ reloj[t] # "fin"
    THEN usr1' = usr1 \cup {t} /\ UNCHANGED proceso
    ELSE proceso' \in {"vivo", "muerto"} /\ UNCHANGED usr1

Init ==
    /\ modo \in Modos
    /\ envioSt = "DISPONIBLE"
    /\ recepcionSt = "DISPONIBLE"
    /\ file_thread_th = 0
    /\ envio = 0
    /\ t_aux = 0
    /\ socket_envio = 0
    /\ desc_envio = 0
    /\ recepcion = 0
    /\ gui = "libre"
    /\ destino = << >>
    /\ red = "libre"
    /\ ofertas = 0
    /\ emisor = [i \in {Otra} \cup Envios |-> "no"]
    /\ reloj = [i \in Envios |-> "no"]
    /\ receptor = [r \in Recepciones |-> "no"]
    /\ pendiente = [i \in Envios |-> {}]
    /\ mascara = [i \in Envios |-> {}]
    /\ sorpresas = {}
    /\ usr1 = {}
    /\ sigalrm = "defecto"
    /\ sigusr1 = "defecto"
    /\ sigusr2 = "defecto"
    /\ conectado = {}
    /\ reservado = {}
    /\ abiertos = {}
    /\ proceso = "vivo"
    /\ fcancel = {}
    /\ cancelado = {}

-----------------------------------------------------------------------------
(* IRCInterface_SendFile                                                   *)

(* Mutant: the state of the client is not looked at.                       *)
SendFile_SinComprobar ==
    /\ Vivo
    /\ gui = "libre"
    /\ hechos < modo.envios
    /\ gui' = "ocupa"
    /\ UNCHANGED <<estado, globales, destino, recibe, emisor, reloj,
                   pendiente, usr1, disposiciones, fuera>>

(* A busy client only shows SEND_ERROR_BUSY.                               *)
SendFile ==
    /\ Vivo
    /\ gui = "libre"
    /\ hechos < modo.envios
    /\ envioSt = "DISPONIBLE"
    /\ gui' = "ocupa"
    /\ UNCHANGED <<estado, globales, destino, recibe, emisor, reloj,
                   pendiente, usr1, disposiciones, fuera>>

SendFileOcupa ==
    /\ Vivo
    /\ gui = "ocupa"
    /\ envioSt' = "OCUPADO"
    /\ \E n \in Nicks : destino' = Append(destino, n)
    /\ reservado' = reservado \cup {hechos + 1}
    /\ gui' = "crea"
    /\ UNCHANGED <<recepcionSt, file_thread_th, globales, recibe, emisor,
                   reloj, pendiente, usr1, disposiciones, modo, conectado, abiertos,
                   proceso, cancelado>>

SendFileCrea ==
    /\ Vivo
    /\ gui = "crea"
    /\ file_thread_th' = hechos
    /\ Va(hechos, "inicio")
    /\ gui' = "libre"
    /\ UNCHANGED <<envioSt, recepcionSt, globales, destino, recibe, reloj,
                   pendiente, usr1, disposiciones, fuera>>

(* Mutant: the client stays busy.                                          *)
SendFileFalla_SinDeshacer ==
    /\ Vivo
    /\ gui = "crea"
    /\ modo.fallan
    /\ reservado' = reservado \ {hechos}
    /\ gui' = "libre"
    /\ UNCHANGED <<estado, globales, destino, recibe, emisor, reloj, pendiente, usr1,
                   disposiciones, modo, conectado, abiertos, proceso, cancelado>>

(* No thread, or no memory before it: everything is given back.            *)
SendFileFalla ==
    /\ Vivo
    /\ gui = "crea"
    /\ modo.fallan
    /\ reservado' = reservado \ {hechos}
    /\ envioSt' = "DISPONIBLE"
    /\ gui' = "libre"
    /\ UNCHANGED <<recepcionSt, file_thread_th, globales, destino, recibe,
                   emisor, reloj, pendiente, usr1, disposiciones, modo, conectado,
                   abiertos, proceso, cancelado>>

-----------------------------------------------------------------------------
(* file_send_func                                                          *)

Inicio(i) ==
    /\ En(i, "inicio")
    /\ envio' = i
    /\ t_aux' = 0
    /\ socket_envio' = 0
    /\ desc_envio' = 0
    /\ Va(i, "senal")
    /\ UNCHANGED <<estado, interfaz, recibe, reloj, pendiente, usr1, disposiciones, fuera>>

InstalaFcancel(i) ==
    /\ En(i, "senal")
    /\ sigusr2' = "manejador_fcancel"
    /\ Va(i, "socket")
    /\ UNCHANGED <<estado, globales, interfaz, recibe, reloj, pendiente, usr1, mascara,
                   sorpresas, sigalrm, sigusr1, fuera>>

(* socket: the descriptor is open before socket_envio_archivo holds it.    *)
CrearSocket(i) ==
    /\ En(i, "socket")
    /\ \/ /\ abiertos' = abiertos \cup {<<"socket", i>>}
          /\ Va(i, "guardasocket")
       \/ /\ Va(i, "dialogo")
          /\ UNCHANGED abiertos
    /\ UNCHANGED <<estado, globales, interfaz, recibe, reloj, pendiente, usr1,
                   disposiciones, modo, conectado, reservado, proceso, cancelado>>

(* One of the calls that follow may fail: bind, listen, getsockname.       *)
GuardaSocket(i) ==
    /\ En(i, "guardasocket")
    /\ socket_envio' = i
    /\ Va(i, "fsend") \/ Va(i, "dialogo")
    /\ UNCHANGED <<estado, envio, t_aux, desc_envio, interfaz, recibe, reloj,
                   pendiente, usr1, disposiciones, fuera>>

(* FSEND leaves, and SIGALRM gets its handler.                             *)
Fsend(i) ==
    /\ En(i, "fsend")
    /\ sigalrm' = "manejador_aceptar"
    /\ Va(i, "timeout")
    /\ UNCHANGED <<estado, globales, interfaz, recibe, reloj, pendiente, usr1,
                   mascara, sorpresas, sigusr1, sigusr2, fuera>>

CreaTimeout(i) ==
    /\ En(i, "timeout")
    /\ \/ /\ t_aux' = i
          /\ reloj' = [reloj EXCEPT ![i] = "signal"]
       \/ /\ modo.fallan
          /\ UNCHANGED <<t_aux, reloj>>
    /\ Va(i, "espera")
    /\ UNCHANGED <<estado, envio, socket_envio, desc_envio, interfaz, recibe,
                   pendiente, usr1, disposiciones, fuera>>

EsperaAccept(i) ==
    /\ En(i, "espera")
    /\ envioSt' = "ESPERANDO_ACCEPT"
    /\ Va(i, "accept")
    /\ UNCHANGED <<recepcionSt, file_thread_th, globales, interfaz, recibe, reloj,
                   pendiente, usr1, disposiciones, fuera>>

(* accept blocks until the receiver connects; it may have no descriptor.   *)
AceptarConexion(i) ==
    /\ En(i, "accept")
    /\ i \in conectado
    /\ \/ /\ abiertos' = abiertos \cup {<<"desc", i>>}
          /\ Va(i, "guardadesc")
       \/ /\ modo.fallan
          /\ Va(i, "dialogo")
          /\ UNCHANGED abiertos
    /\ UNCHANGED <<estado, globales, interfaz, recibe, reloj, pendiente, usr1,
                   disposiciones, modo, conectado, reservado, proceso, cancelado>>

(* Only now does desc_envio_archivo hold what accept returned.             *)
GuardaDesc(i) ==
    /\ En(i, "guardadesc")
    /\ desc_envio' = i
    /\ Va(i, "ignora")
    /\ UNCHANGED <<estado, envio, t_aux, socket_envio, interfaz, recibe, reloj,
                   pendiente, usr1, disposiciones, fuera>>

IgnoraAlarma(i) ==
    /\ En(i, "ignora")
    /\ sigalrm' = "ignorada"
    /\ Va(i, "mata")
    /\ UNCHANGED <<estado, globales, interfaz, recibe, reloj, pendiente, usr1,
                   mascara, sorpresas, sigusr1, sigusr2, fuera>>

MataTimeout(i) ==
    /\ En(i, "mata")
    /\ MataReloj(t_aux)
    /\ Va(i, "enviando")
    /\ UNCHANGED <<estado, globales, interfaz, recibe, reloj, pendiente,
                   disposiciones, modo, conectado, reservado, abiertos, cancelado>>

(* Mutant: the state written is that of the files the client receives.     *)
Enviando_EnRecepcion(i) ==
    /\ En(i, "enviando")
    /\ recepcionSt' = "ENVIANDO_ARCHIVO"
    /\ Va(i, "send")
    /\ UNCHANGED <<envioSt, file_thread_th, globales, interfaz, recibe, reloj,
                   pendiente, usr1, disposiciones, fuera>>

Enviando(i) ==
    /\ En(i, "enviando")
    /\ envioSt' = "ENVIANDO_ARCHIVO"
    /\ Va(i, "send")
    /\ UNCHANGED <<recepcionSt, file_thread_th, globales, interfaz, recibe, reloj,
                   pendiente, usr1, disposiciones, fuera>>

(* All the packets of envio->data leave, or send fails.                    *)
Send(i) ==
    /\ En(i, "send")
    /\ \/ /\ envioSt' = "ENVIO_COMPLETADO"
          /\ Va(i, "dialogo")
       \/ /\ Va(i, "dialogo")
          /\ UNCHANGED envioSt
    /\ UNCHANGED <<recepcionSt, file_thread_th, globales, interfaz, recibe, reloj,
                   pendiente, usr1, disposiciones, fuera>>

-----------------------------------------------------------------------------
(* cerrar_envio                                                            *)

(* The message names the file when the transfer was completed.             *)
CerrarDialogo(i) ==
    /\ En(i, "dialogo")
    /\ proceso' = IF envioSt = "ENVIO_COMPLETADO" /\ envio = 0 THEN "muerto" ELSE "vivo"
    /\ Va(i, "close")
    /\ UNCHANGED <<estado, globales, interfaz, recibe, reloj, pendiente, usr1,
                   disposiciones, modo, conectado, reservado, abiertos, cancelado>>

(* Mutant: the listening socket stays open.                                *)
CerrarDescriptores_SinSocket(i) ==
    /\ En(i, "close")
    /\ abiertos' = abiertos \ {<<"desc", desc_envio>>}
    /\ Va(i, "kill")
    /\ UNCHANGED <<estado, globales, interfaz, recibe, reloj, pendiente, usr1,
                   disposiciones, modo, conectado, reservado, proceso, cancelado>>

CerrarDescriptores(i) ==
    /\ En(i, "close")
    /\ abiertos' = abiertos \ {<<"desc", desc_envio>>, <<"socket", socket_envio>>}
    /\ Va(i, "kill")
    /\ UNCHANGED <<estado, globales, interfaz, recibe, reloj, pendiente, usr1,
                   disposiciones, modo, conectado, reservado, proceso, cancelado>>

(* Mutant: the client is available before its transfer is given back.      *)
CerrarKill_YaDisponible(i) ==
    /\ En(i, "kill")
    /\ \/ t_aux # 0 /\ MataReloj(t_aux)
       \/ t_aux = 0 /\ UNCHANGED <<usr1, proceso>>
    /\ envioSt' = "DISPONIBLE"
    /\ Va(i, "free")
    /\ UNCHANGED <<recepcionSt, file_thread_th, globales, interfaz, recibe, reloj,
                   pendiente, disposiciones, modo, conectado, reservado, abiertos, cancelado>>

CerrarKill(i) ==
    /\ En(i, "kill")
    /\ \/ t_aux # 0 /\ MataReloj(t_aux)
       \/ t_aux = 0 /\ UNCHANGED <<usr1, proceso>>
    /\ Va(i, "free")
    /\ UNCHANGED <<estado, globales, interfaz, recibe, reloj, pendiente,
                   disposiciones, modo, conectado, reservado, abiertos, cancelado>>

(* IRC_MFree also sets envio to NULL; &envio->filename of that is fatal.   *)
CerrarFree(i) ==
    /\ En(i, "free")
    /\ \/ /\ envio # 0
          /\ reservado' = reservado \ {envio}
          /\ envio' = 0
          /\ UNCHANGED proceso
       \/ /\ envio = 0
          /\ proceso' = "muerto"
          /\ UNCHANGED <<reservado, envio>>
    /\ Va(i, "hilo")
    /\ UNCHANGED <<estado, t_aux, socket_envio, desc_envio, interfaz, recibe, reloj,
                   pendiente, usr1, disposiciones, modo, conectado, abiertos, cancelado>>

CerrarHilo(i) ==
    /\ En(i, "hilo")
    /\ file_thread_th' = 0
    /\ Va(i, "disponible")
    /\ UNCHANGED <<envioSt, recepcionSt, globales, interfaz, recibe, reloj, pendiente,
                   usr1, disposiciones, fuera>>

CerrarDisponible(i) ==
    /\ En(i, "disponible")
    /\ envioSt' = "DISPONIBLE"
    /\ Va(i, "exit")
    /\ UNCHANGED <<recepcionSt, file_thread_th, globales, interfaz, recibe, reloj,
                   pendiente, usr1, disposiciones, fuera>>

(* pthread_exit, in file_send_func or in the handler.                      *)
TerminaEnvio(i) ==
    /\ En(i, "exit")
    /\ Va(i, "fin")
    /\ UNCHANGED <<estado, globales, interfaz, recibe, reloj, pendiente, usr1,
                   disposiciones, fuera>>

Sorprende(i) == sorpresas' = sorpresas \cup (({emisor[i]} \cap Delicados) \X {i})

(* A pending signal runs its handler: cerrar_envio and pthread_exit.  The  *)
(* signal is blocked meanwhile, the other one is not.  Before the thread   *)
(* has called signal the disposition may still be the default one.         *)
Manejador(i, s) ==
    /\ Vivo
    /\ emisor[i] \notin {"no", "fin"}
    /\ s \in pendiente[i] \ mascara[i]
    /\ mascara' = [mascara EXCEPT ![i] = @ \cup {s}]
    /\ pendiente' = [pendiente EXCEPT ![i] = @ \ {s}]
    /\ LET d == IF s = "SIGALRM" THEN sigalrm ELSE sigusr2
       IN  \/ /\ d = "ignorada"
              /\ UNCHANGED <<emisor, sorpresas, proceso>>
           \/ /\ d = "defecto"
              /\ proceso' = "muerto"
              /\ UNCHANGED <<emisor, sorpresas>>
           \/ /\ d \in {"manejador_aceptar", "manejador_fcancel"}
              /\ Sorprende(i)
              /\ Va(i, "dialogo")
              /\ UNCHANGED proceso
    /\ UNCHANGED <<estado, globales, interfaz, recibe, reloj, usr1, sigalrm, sigusr1,
                   sigusr2, modo, conectado, reservado, abiertos, cancelado>>

-----------------------------------------------------------------------------
(* timeout_aceptar                                                         *)

TimeoutSignal(i) ==
    /\ Vivo
    /\ reloj[i] = "signal"
    /\ sigusr1' = "manejador_timeout"
    /\ reloj' = [reloj EXCEPT ![i] = "sleep"]
    /\ UNCHANGED <<estado, globales, interfaz, recibe, emisor, pendiente, usr1,
                   mascara, sorpresas, sigalrm, sigusr2, fuera>>

(* Mutant: the thread ends without waking the sender.                      *)
TimeoutSleep_SinAlarma(i) ==
    /\ Vivo
    /\ reloj[i] = "sleep"
    /\ reloj' = [reloj EXCEPT ![i] = "t_aux"]
    /\ UNCHANGED <<estado, globales, interfaz, recibe, emisor, pendiente, usr1,
                   disposiciones, fuera>>

(* TIMEOUT_ACCEPT seconds pass and SIGALRM goes to the sending thread,     *)
(* which may have ended: the same undefined choice.                        *)
TimeoutSleep(i) ==
    /\ Vivo
    /\ reloj[i] = "sleep"
    /\ \/ /\ emisor[i] # "fin"
          /\ pendiente' = [pendiente EXCEPT ![i] = @ \cup
                             IF sigalrm = "ignorada" THEN {} ELSE {"SIGALRM"}]
          /\ UNCHANGED proceso
       \/ /\ emisor[i] = "fin"
          /\ proceso' \in {"vivo", "muerto"}
          /\ UNCHANGED pendiente
    /\ reloj' = [reloj EXCEPT ![i] = "t_aux"]
    /\ UNCHANGED <<estado, globales, interfaz, recibe, emisor, usr1, disposiciones,
                   modo, conectado, reservado, abiertos, cancelado>>

TimeoutFin(i) ==
    /\ Vivo
    /\ reloj[i] = "t_aux"
    /\ t_aux' = 0
    /\ reloj' = [reloj EXCEPT ![i] = "fin"]
    /\ UNCHANGED <<estado, envio, socket_envio, desc_envio, interfaz, recibe, emisor,
                   pendiente, usr1, disposiciones, fuera>>

(* SIGUSR1 reaches the thread.  Before it has called signal the disposition*)
(* may still be the default one, which ends the process.                   *)
ManejadorTimeout(i) ==
    /\ Vivo
    /\ i \in usr1
    /\ reloj[i] \notin {"ajeno", "fin"}
    /\ usr1' = usr1 \ {i}
    /\ \/ /\ sigusr1 = "defecto"
          /\ proceso' = "muerto"
          /\ UNCHANGED <<t_aux, reloj>>
       \/ /\ sigusr1 = "manejador_timeout"
          /\ t_aux' = 0
          /\ reloj' = [reloj EXCEPT ![i] = "fin"]
          /\ UNCHANGED proceso
    /\ UNCHANGED <<estado, envio, socket_envio, desc_envio, interfaz, recibe, emisor,
                   pendiente, disposiciones, modo, conectado, reservado, abiertos, cancelado>>

-----------------------------------------------------------------------------
(* recv_pthread: parse_fcancel                                             *)

(* FCANCEL from nick n.  The state, the structure, the nick and the thread *)
(* are looked at one after the other, and the signal is sent afterwards.   *)
ParseFcancel(n) ==
    /\ Vivo
    /\ modo.cancelan
    /\ red = "libre"
    /\ envioSt \in {"ESPERANDO_ACCEPT", "ENVIANDO_ARCHIVO"}
    /\ fcancel' = {n}
    /\ red' = "envio"
    /\ UNCHANGED <<estado, globales, interfaz, recepcion, ofertas, receptor, emisor,
                   reloj, pendiente, usr1, disposiciones, fuera>>

(* The next test, if this one succeeds; or parse_fcancel returns.          *)
Comprueba(de, condicion, a) ==
    /\ Vivo
    /\ red = de
    /\ red' = IF condicion THEN a ELSE "libre"
    /\ fcancel' = IF condicion THEN fcancel ELSE {}
    /\ UNCHANGED <<estado, globales, interfaz, recepcion, ofertas, receptor, emisor,
                   reloj, pendiente, usr1, disposiciones, modo, conectado, reservado,
                   abiertos, cancelado>>

FcancelEnvio == Comprueba("envio", envio # 0, "nick") /\ UNCHANGED proceso

(* cerrar_envio may have set envio to NULL meanwhile, which is fatal.      *)
FcancelNick ==
    /\ Comprueba("nick", envio # 0 /\ fcancel = {destino[envio]}, "hilo")
    /\ proceso' = IF envio = 0 THEN "muerto" ELSE "vivo"

FcancelHilo == Comprueba("hilo", file_thread_th # 0, "mata") /\ UNCHANGED proceso

(* The thread may be gone, or be another by now; a thread that has ended   *)
(* is the undefined choice again.                                          *)
FcancelKill ==
    /\ Vivo
    /\ red = "mata"
    /\ \/ /\ \E i \in Envios :
               /\ i = file_thread_th
               /\ emisor[i] # "fin"
               /\ pendiente' = [pendiente EXCEPT ![i] = @ \cup {"SIGUSR2"}]
               /\ cancelado' = cancelado \cup ({i} \X fcancel)
          /\ UNCHANGED proceso
       \/ /\ \A i \in Envios : i = file_thread_th => emisor[i] = "fin"
          /\ proceso' \in {"vivo", "muerto"}
          /\ UNCHANGED <<pendiente, cancelado>>
    /\ red' = "libre"
    /\ fcancel' = {}
    /\ UNCHANGED <<estado, globales, interfaz, recepcion, ofertas, receptor,
                   emisor, reloj, usr1, disposiciones, modo, conectado, reservado, abiertos>>

-----------------------------------------------------------------------------
(* recv_pthread: parse_fsend                                               *)

(* Mutant: an offer is taken up while a file is being received.            *)
ParseFsend_SinComprobar ==
    /\ Vivo
    /\ red = "libre"
    /\ ofertas < modo.recepciones
    /\ ofertas' = ofertas + 1
    /\ red' = "dialogo"
    /\ UNCHANGED <<estado, globales, interfaz, recepcion, receptor, fcancel, emisor,
                   reloj, pendiente, usr1, disposiciones, fuera>>

(* An offer that finds the client receiving is dropped in silence.         *)
ParseFsend ==
    /\ Vivo
    /\ red = "libre"
    /\ ofertas < modo.recepciones
    /\ recepcionSt = "DISPONIBLE"
    /\ ofertas' = ofertas + 1
    /\ red' = "dialogo"
    /\ UNCHANGED <<estado, globales, interfaz, recepcion, receptor, fcancel, emisor,
                   reloj, pendiente, usr1, disposiciones, fuera>>

(* The user says no, and FCANCEL goes to the sender; or says yes.          *)
Dialogo ==
    /\ Vivo
    /\ red = "dialogo"
    /\ red' \in {"libre", "ocupa"}
    /\ UNCHANGED <<estado, globales, interfaz, recepcion, ofertas, receptor, fcancel,
                   emisor, reloj, pendiente, usr1, disposiciones, fuera>>

FsendOcupa ==
    /\ Vivo
    /\ red = "ocupa"
    /\ recepcionSt' = "OCUPADO"
    /\ red' = "crea"
    /\ UNCHANGED <<envioSt, file_thread_th, globales, interfaz, recepcion, ofertas,
                   receptor, fcancel, emisor, reloj, pendiente, usr1, disposiciones,
                   fuera>>

(* A failed pthread_create does not return -1: nothing is undone.          *)
FsendCrea ==
    /\ Vivo
    /\ red = "crea"
    /\ \/ receptor' = [receptor EXCEPT ![ofertas] = "inicio"]
       \/ modo.fallan /\ UNCHANGED receptor
    /\ red' = "libre"
    /\ UNCHANGED <<estado, globales, interfaz, recepcion, ofertas, fcancel, emisor,
                   reloj, pendiente, usr1, disposiciones, fuera>>

-----------------------------------------------------------------------------
(* file_recv_func                                                          *)

Recibe(r, de, a) ==
    /\ Vivo
    /\ receptor[r] = de
    /\ receptor' = [receptor EXCEPT ![r] = a]
    /\ UNCHANGED <<file_thread_th, globales, interfaz, red, ofertas, fcancel, emisor,
                   reloj, pendiente, usr1, disposiciones, modo, conectado, reservado,
                   proceso, cancelado>>

RecvInicio(r) ==
    /\ recepcion' = r
    /\ \/ /\ Recibe(r, "inicio", "espera")
          /\ abiertos' = abiertos \cup {<<"fp", r>>}
       \/ /\ Recibe(r, "inicio", "cierra")
          /\ UNCHANGED abiertos
    /\ UNCHANGED <<envioSt, recepcionSt>>

RecvEspera(r) ==
    /\ Recibe(r, "espera", "conecta")
    /\ recepcionSt' = "ESPERANDO_ACCEPT"
    /\ UNCHANGED <<envioSt, recepcion, abiertos>>

RecvConecta(r) ==
    /\ \/ /\ Recibe(r, "conecta", "marca")
          /\ abiertos' = abiertos \cup {<<"recv", r>>}
       \/ /\ Recibe(r, "conecta", "cierra")
          /\ UNCHANGED abiertos
    /\ UNCHANGED <<envioSt, recepcionSt, recepcion>>

(* The state written is that of the transfers the client sends.            *)
RecvMarca(r) ==
    /\ Recibe(r, "marca", "recv")
    /\ envioSt' = "ENVIANDO_ARCHIVO"
    /\ UNCHANGED <<recepcionSt, recepcion, abiertos>>

(* The file is complete, or recv fails or finds the end before.            *)
Recv(r) ==
    /\ Recibe(r, "recv", "cierra")
    /\ recepcionSt' \in {recepcionSt, "ENVIO_COMPLETADO"}
    /\ UNCHANGED <<envioSt, recepcion, abiertos>>

(* Mutant: the file stays open.                                            *)
CerrarRecepcion_SinFclose(r) ==
    /\ Recibe(r, "cierra", "disponible")
    /\ abiertos' = abiertos \ {<<"recv", recepcion>>}
    /\ recepcion' = 0
    /\ UNCHANGED <<envioSt, recepcionSt>>

CerrarRecepcion(r) ==
    /\ Recibe(r, "cierra", "disponible")
    /\ abiertos' = abiertos \ {<<"recv", recepcion>>, <<"fp", recepcion>>}
    /\ recepcion' = 0
    /\ UNCHANGED <<envioSt, recepcionSt>>

(* Mutant: the thread ends and the client stays busy.                      *)
RecepcionDisponible_Omitido(r) ==
    /\ Recibe(r, "disponible", "fin")
    /\ UNCHANGED <<envioSt, recepcionSt, recepcion, abiertos>>

RecepcionDisponible(r) ==
    /\ Recibe(r, "disponible", "fin")
    /\ recepcionSt' = "DISPONIBLE"
    /\ UNCHANGED <<envioSt, recepcion, abiertos>>

-----------------------------------------------------------------------------
(* The receiver of transfer i, having its FSEND, connects.  (Once nobody   *)
(* will accept, it makes no difference whether it does.)                   *)
Conecta(i) ==
    /\ Vivo
    /\ modo.conectan
    /\ <<"socket", i>> \in abiertos
    /\ emisor[i] \in {"timeout", "espera", "accept"}
    /\ conectado' = conectado \cup {i}
    /\ UNCHANGED <<estado, globales, interfaz, recibe, emisor, reloj, pendiente,
                   usr1, disposiciones, modo, reservado, abiertos, proceso, cancelado>>

-----------------------------------------------------------------------------

Interfaz == SendFile \/ SendFileOcupa \/ SendFileCrea \/ SendFileFalla

CerrarEnvio(i) ==
    \/ CerrarDialogo(i)
    \/ CerrarDescriptores(i)
    \/ CerrarKill(i)
    \/ CerrarFree(i)
    \/ CerrarHilo(i)
    \/ CerrarDisponible(i)
    \/ TerminaEnvio(i)

FileSendFunc(i) ==
    \/ Inicio(i)
    \/ InstalaFcancel(i)
    \/ CrearSocket(i)
    \/ GuardaSocket(i)
    \/ Fsend(i)
    \/ CreaTimeout(i)
    \/ EsperaAccept(i)
    \/ AceptarConexion(i)
    \/ GuardaDesc(i)
    \/ IgnoraAlarma(i)
    \/ MataTimeout(i)
    \/ Enviando(i)
    \/ Send(i)
    \/ CerrarEnvio(i)

TimeoutAceptar(i) == TimeoutSignal(i) \/ TimeoutSleep(i) \/ TimeoutFin(i)

Senales(i) ==
    \/ \E s \in {"SIGALRM", "SIGUSR2"} : Manejador(i, s)
    \/ ManejadorTimeout(i)

RecvPthread ==
    \/ \E n \in Nicks : ParseFcancel(n)
    \/ FcancelEnvio
    \/ FcancelNick
    \/ FcancelHilo
    \/ FcancelKill
    \/ ParseFsend
    \/ Dialogo
    \/ FsendOcupa
    \/ FsendCrea

FileRecvFunc(r) ==
    \/ RecvInicio(r)
    \/ RecvEspera(r)
    \/ RecvConecta(r)
    \/ RecvMarca(r)
    \/ Recv(r)
    \/ CerrarRecepcion(r)
    \/ RecepcionDisponible(r)

Next ==
    \/ Interfaz
    \/ RecvPthread
    \/ \E i \in Envios : FileSendFunc(i) \/ TimeoutAceptar(i) \/ Senales(i) \/ Conecta(i)
    \/ \E r \in Recepciones : FileRecvFunc(r)

Spec == Init /\ [][Next]_vars
=============================================================================
