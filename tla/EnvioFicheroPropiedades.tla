---------------------- MODULE EnvioFicheroPropiedades ----------------------
(***************************************************************************)
(* What the file transfers of the client must keep true.                   *)
(***************************************************************************)
EXTENDS EnvioFichero

Lugares ==
    {"no", "inicio", "senal", "socket", "fsend", "timeout", "espera", "accept", "ignora",
     "mata", "enviando", "send", "fin"} \cup Delicados \cup Cierre
EnviaSt ==
    {"DISPONIBLE", "OCUPADO", "ESPERANDO_ACCEPT", "ENVIANDO_ARCHIVO", "ENVIO_COMPLETADO"}
EnCurso(i) == emisor[i] \notin {"no", "exit", "fin"}
HayAudio == modo.hablan > 0 \/ modo.escuchan > 0

(* Hanging up the conversation that the user started may run cerrar_envio  *)
(* in the thread that listens.  That makes the client available while its  *)
(* transfer is still going on, and a second one may be started.            *)
CierraOtro == modo.cuelgan /\ modo.escuchan > 0 /\ modo.envios > 1

(* A signal caught a sending thread between cliente.envio = DISPONIBLE and *)
(* pthread_exit: it runs cerrar_envio once more, on whatever the globals   *)
(* hold by then, which may be the next transfer.                           *)
SinTardias == \A i \in Envios : <<"exit", i>> \notin sorpresas

Recibiendo(r) == receptor[r] \notin {"no", "fin"}

(* Type invariant of EnvioFichero.                                         *)
TypeOK ==
    /\ modo \in Modos
    /\ envioSt \in EnviaSt
    /\ recepcionSt \in EnviaSt \ {"ENVIANDO_ARCHIVO"}
    /\ {file_thread_th, envio, t_aux, socket_envio, desc_envio, hechos}
            \subseteq 0..MaxEnvios
    /\ {recepcion, ofertas} \subseteq 0..MaxRecepciones
    /\ gui \in {"libre", "ocupa", "crea", "audio", "audiocrea", "audiosale"}
    /\ red \in {"libre", "dialogo", "ocupa", "crea", "envio", "nick", "hilo", "mata",
                "audio", "audiocrea", "audiosale"}
    /\ destino \in Seq(Nicks)
    /\ fcancel \subseteq Nicks
    /\ emisor \in [{Otra} \cup Envios -> Lugares \cup {"ajeno"}]
    /\ reloj \in [Envios -> {"no", "signal", "sleep", "t_aux", "ajeno", "fin"}]
    /\ receptor \in [Recepciones -> {"no", "inicio", "espera", "conecta", "marca",
                                     "recv", "cierra", "disponible", "fin"}]
    /\ pendiente \in [Envios -> SUBSET {"SIGALRM", "SIGUSR2"}]
    /\ mascara \in [Envios -> SUBSET {"SIGALRM", "SIGUSR2"}]
    /\ sorpresas \subseteq Delicados \X Envios
    /\ usr1 \subseteq Envios
    /\ sigalrm \in {"defecto", "manejador_aceptar", "ignorada"}
    /\ sigusr1 \in {"defecto", "manejador_timeout", "manejadorexitaudio"}
    /\ sigusr2 \in {"defecto", "manejador_fcancel", "manejadorexitsend"}
    /\ conectado \subseteq Envios
    /\ reservado \subseteq Envios
    /\ abiertos \subseteq ({"socket", "desc"} \X Envios) \cup ({"recv", "fp"} \X Recepciones)
    /\ proceso \in {"vivo", "muerto"}
    /\ cancelado \subseteq Envios \X Nicks

(* One transfer at a time uses the globals of file_send.c: cliente.envio   *)
(* is looked at and taken in two steps, and given back last.  (A signal    *)
(* that comes later still, before pthread_exit, runs cerrar_envio in the   *)
(* thread that ends, and so may hanging up beside a transfer.)             *)
UnSoloEnvio ==
    ~CierraOtro /\ SinTardias => \A i, j \in Envios : EnCurso(i) /\ EnCurso(j) => i = j

(* What a sending thread reads, or is about to free, is its own transfer   *)
(* and still in memory, in every race of accept, the timeout thread and    *)
(* SIGALRM that leaves the thread before cliente.envio is given back.      *)
(* (With FCANCEL, or if accept fails, a second signal runs cerrar_envio    *)
(* again; hanging up a conversation may run it too.)                       *)
DatosPropios ==
    ~modo.cancelan /\ ~modo.fallan /\ ~modo.cuelgan /\ SinTardias =>
        \A i \in Envios : EnCurso(i) =>
            /\ emisor[i] \notin {"hilo", "disponible"} => i \in reservado
            /\ emisor[i] \notin {"inicio", "hilo", "disponible"} => envio = i

(* No descriptor and no memory outlives its transfer, but the descriptor   *)
(* that socket or accept had just returned to a thread which a handler     *)
(* ended before it stored it: cerrar_envio closes what the globals hold.   *)
(* (With conversations an FCANCEL may run cerrarAudioSend instead; a signal*)
(* that comes late closes what another transfer has open.)                 *)
TodoDevuelto ==
    Vivo /\ ~CierraOtro /\ SinTardias /\ ~(modo.cancelan /\ HayAudio) =>
        /\ \A i \in Envios : emisor[i] = "fin" =>
            /\ i \notin reservado
            /\ <<"socket", i>> \in abiertos => <<"guardasocket", i>> \in sorpresas
            /\ <<"desc", i>> \in abiertos => <<"guardadesc", i>> \in sorpresas
        /\ \A r \in Recepciones : receptor[r] = "fin" =>
            {<<"recv", r>>, <<"fp", r>>} \cap abiertos = {}

(* The same for what is received: one file at a time.                      *)
UnaRecepcion == \A r, q \in Recepciones : Recibiendo(r) /\ Recibiendo(q) => r = q

(* The client says it is busy only while a transfer is being prepared or   *)
(* sent, so the user who waits for the end can send again.                 *)
OcupadoSiEnvia ==
    Vivo /\ envioSt # "DISPONIBLE" => gui = "crea" \/ \E i \in Envios : EnCurso(i)

(* The same, for as long as nothing is received and no FCANCEL meets a     *)
(* conversation: timeouts, refusals, failures and FCANCELs, in any order,  *)
(* leave the client free.                                                  *)
LibreTrasEnviar ==
    modo.recepciones = 0 /\ ~(modo.cancelan /\ HayAudio) => OcupadoSiEnvia

(* The same for receiving, if there are threads to be had.                 *)
OcupadoSiRecibe ==
    Vivo /\ ~modo.fallan /\ recepcionSt # "DISPONIBLE" =>
        red = "crea" \/ \E r \in Recepciones : Recibiendo(r)

(* FCANCEL stops a transfer only when it comes from its receiver.          *)
CanceladoPorDestino == \A c \in cancelado : destino[c[1]] = c[2]

(* The wait for a receiver ends: the timeout thread sees to it.  (If that  *)
(* thread could be had, nobody hangs up the conversation they started,     *)
(* which may close the transfer from another thread, and no late signal to *)
(* an earlier transfer ends the timeout thread of this one.)               *)
EsperaAcotada ==
    []<>(Vivo /\ ~modo.fallan /\ SinTardias /\ ~(modo.cuelgan /\ modo.escuchan > 0) =>
            \A i \in Envios : emisor[i] # "accept")
=============================================================================
