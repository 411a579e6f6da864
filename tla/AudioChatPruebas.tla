------------------------- MODULE AudioChatPruebas -------------------------
(***************************************************************************)
(* Proofs about file transfers and conversations of the client, for any    *)
(* number of either and any way of using the client: SpecCliente, of which *)
(* the threads of file_send.c, file_recv_func, audiochat.c, the interface  *)
(* and the reader are the actions.                                         *)
(*                                                                         *)
(* Each invariant rests on those before it: the types, what a use of the   *)
(* client excludes, who owns the globals, what they name.                  *)
(***************************************************************************)
EXTENDS AudioChatPropiedades, TLAPS

USE DEF estado, globales, interfaz, disposiciones, recibe, fuera, vars, audioCliente, datosSend,
        datosRecv, audioHebras, audioVars, sinGui, sinRed, sinProceso

(* What the thread of the interface leaves alone when it sends a file.     *)
LEMMA InterfazDeja ==
    ASSUME Interfaz, UNCHANGED audioVars
    PROVE  UNCHANGED <<modo, recepcionSt, envio, t_aux, socket_envio,
                       desc_envio, recepcion, red, ofertas, reloj, receptor,
                       pendiente, mascara, sorpresas, usr1, sigalrm, sigusr1, sigusr2,
                       conectado, abiertos, proceso, fcancel, cancelado,
                       audiochatsend, audiochatrecv, audio_send_thread_th,
                       audio_recv_thread_th, playing, audiodata,
                       socketsendaudio, audiodatarecv, flagsendaudio,
                       flagrecvaudio, hablados, escuchados, paso, manejando,
                       senales, recursos>>
BY DEF Interfaz, SendFile, SendFileOcupa, SendFileCrea, SendFileFalla

(* The thread that reads from the server, with files.                      *)
LEMMA RedDeja ==
    ASSUME RecvPthread, UNCHANGED audioVars
    PROVE  UNCHANGED <<modo, envioSt, file_thread_th, envio, t_aux,
                       socket_envio, desc_envio, recepcion, gui, destino,
                       emisor, reloj, mascara, sorpresas, usr1, sigalrm, sigusr1,
                       sigusr2, conectado, reservado, abiertos, audiochatsend,
                       audiochatrecv, audio_send_thread_th,
                       audio_recv_thread_th, playing, audiodata,
                       socketsendaudio, audiodatarecv, flagsendaudio,
                       flagrecvaudio, hablados, escuchados, paso, manejando,
                       senales, recursos>>
BY DEF RecvPthread, ParseFcancel, Comprueba, FcancelEnvio, FcancelNick, FcancelHilo,
   FcancelKill, ParseFsend, Dialogo, FsendOcupa, FsendCrea

(* A thread that receives a file.                                          *)
LEMMA ReceptorDeja ==
    ASSUME NEW r \in Recepciones, FileRecvFunc(r), UNCHANGED audioVars
    PROVE  UNCHANGED <<modo, file_thread_th, envio, t_aux, socket_envio,
                       desc_envio, gui, destino, red, ofertas, emisor, reloj,
                       pendiente, mascara, sorpresas, usr1, sigalrm, sigusr1, sigusr2,
                       conectado, reservado, proceso, fcancel, cancelado,
                       audiochatsend, audiochatrecv, audio_send_thread_th,
                       audio_recv_thread_th, playing, audiodata,
                       socketsendaudio, audiodatarecv, flagsendaudio,
                       flagrecvaudio, hablados, escuchados, paso, manejando,
                       senales, recursos>>
BY DEF FileRecvFunc, Recibe, RecvInicio, RecvEspera, RecvConecta, RecvMarca, Recv,
   CerrarRecepcion, RecepcionDisponible

(* A thread that sends a file, or one that runs its cerrar_envio.          *)
LEMMA EmisorDeja ==
    ASSUME NEW i, FileSendFunc(i), UNCHANGED audioVars
    PROVE  UNCHANGED <<modo, recepcionSt, recepcion, gui, destino, red,
                       ofertas, receptor, pendiente, mascara, sorpresas, sigusr1,
                       conectado, fcancel, cancelado, audiochatsend,
                       audiochatrecv, audio_send_thread_th,
                       audio_recv_thread_th, playing, audiodata,
                       socketsendaudio, audiodatarecv, flagsendaudio,
                       flagrecvaudio, hablados, escuchados, paso, manejando,
                       senales, recursos>>
BY DEF FileSendFunc, Inicio, InstalaFcancel, CrearSocket, GuardaSocket, Fsend, CreaTimeout,
   EsperaAccept, AceptarConexion, GuardaDesc, IgnoraAlarma, MataTimeout, MataReloj,
   Enviando, Send, CerrarEnvio, CerrarDialogo, CerrarDescriptores, CerrarKill, CerrarFree,
   CerrarHilo, CerrarDisponible, TerminaEnvio

(* A timeout thread.                                                       *)
LEMMA RelojDeja ==
    ASSUME NEW i, TimeoutAceptar(i), UNCHANGED audioVars
    PROVE  UNCHANGED <<modo, envioSt, recepcionSt, file_thread_th, envio,
                       socket_envio, desc_envio, recepcion, gui, destino, red,
                       ofertas, emisor, receptor, mascara, sorpresas, usr1, sigalrm,
                       sigusr2, conectado, reservado, abiertos, fcancel,
                       cancelado, audiochatsend, audiochatrecv,
                       audio_send_thread_th, audio_recv_thread_th, playing,
                       audiodata, socketsendaudio, audiodatarecv,
                       flagsendaudio, flagrecvaudio, hablados, escuchados,
                       paso, manejando, senales, recursos>>
BY DEF TimeoutAceptar, TimeoutSignal, TimeoutSleep, TimeoutFin

(* A signal of the file transfers.                                         *)
LEMMA SenalesDeja ==
    ASSUME NEW i, Senales(i), UNCHANGED audioVars
    PROVE  UNCHANGED <<modo, envioSt, recepcionSt, file_thread_th, envio,
                       socket_envio, desc_envio, recepcion, gui, destino, red,
                       ofertas, receptor, sigalrm, sigusr1, sigusr2,
                       conectado, reservado, abiertos, fcancel, cancelado,
                       audiochatsend, audiochatrecv, audio_send_thread_th,
                       audio_recv_thread_th, playing, audiodata,
                       socketsendaudio, audiodatarecv, flagsendaudio,
                       flagrecvaudio, hablados, escuchados, paso, manejando,
                       senales, recursos>>
BY DEF Senales, Manejador, ManejadorTimeout, Va

(* A receiver that connects.                                               *)
LEMMA ConectaDeja ==
    ASSUME NEW i, Conecta(i), UNCHANGED audioVars
    PROVE  UNCHANGED <<modo, envioSt, recepcionSt, file_thread_th, envio,
                       t_aux, socket_envio, desc_envio, recepcion, gui,
                       destino, red, ofertas, emisor, reloj, receptor,
                       pendiente, mascara, sorpresas, usr1, sigalrm, sigusr1, sigusr2,
                       reservado, abiertos, proceso, fcancel, cancelado,
                       audiochatsend, audiochatrecv, audio_send_thread_th,
                       audio_recv_thread_th, playing, audiodata,
                       socketsendaudio, audiodatarecv, flagsendaudio,
                       flagrecvaudio, hablados, escuchados, paso, manejando,
                       senales, recursos>>
BY DEF Conecta

(* The thread of the interface, with conversations.                        *)
LEMMA InterfazAudioDeja ==
    ASSUME InterfazAudio
    PROVE  UNCHANGED <<modo, envioSt, recepcionSt, file_thread_th, envio,
                       t_aux, socket_envio, desc_envio, recepcion, destino,
                       red, ofertas, emisor, reloj, receptor, pendiente,
                       mascara, sorpresas, usr1, sigalrm, sigusr1, sigusr2, conectado,
                       reservado, abiertos, fcancel, cancelado, audiochatsend,
                       audio_send_thread_th, audiodata, socketsendaudio,
                       audiodatarecv, flagsendaudio, flagrecvaudio, hablados,
                       manejando>>
BY DEF InterfazAudio, StartAudioChat, StartOcupado, StopAudioChat, StartSocket, StartCrea,
   ExitAudioChat, ExitKill, Senala

(* The thread that reads from the server, with conversations.              *)
LEMMA RedAudioDeja ==
    ASSUME RedAudio
    PROVE  UNCHANGED <<modo, envioSt, recepcionSt, file_thread_th, envio,
                       t_aux, socket_envio, desc_envio, recepcion, gui,
                       destino, ofertas, emisor, reloj, receptor, pendiente,
                       mascara, sorpresas, usr1, sigalrm, sigusr1, sigusr2, conectado,
                       reservado, abiertos, fcancel, cancelado, audiochatrecv,
                       audio_recv_thread_th, playing, audiodata,
                       socketsendaudio, audiodatarecv, flagsendaudio,
                       flagrecvaudio, escuchados, manejando>>
BY DEF RedAudio, ParseAudiochat, AudioDialogo, AudioCrea, ParseAudioexit, AudioexitKill, Senala

(* cerrarAudioSend and cerrarAudioRecv.                                    *)
LEMMA CierreDeja ==
    ASSUME NEW h, CerrarAudio(h)
    PROVE  UNCHANGED <<modo, envioSt, recepcionSt, file_thread_th, envio,
                       t_aux, socket_envio, desc_envio, recepcion, gui,
                       destino, red, ofertas, receptor, pendiente, mascara, sorpresas,
                       usr1, sigalrm, sigusr1, sigusr2, conectado, reservado,
                       abiertos, proceso, fcancel, cancelado, playing,
                       hablados, escuchados, manejando, senales>>
BY DEF CerrarAudio, SendDatos, SendSocket, SendFin, RecvDisponible, RecvDatos, RecvFin,
   Sale

(* A thread that talks.                                                    *)
LEMMA HablaDeja ==
    ASSUME NEW i, AudiochatSend(i)
    PROVE  UNCHANGED <<modo, envioSt, recepcionSt, file_thread_th, envio,
                       t_aux, socket_envio, desc_envio, recepcion, gui,
                       destino, red, ofertas, emisor, reloj, receptor,
                       pendiente, mascara, sorpresas, usr1, sigalrm, conectado,
                       reservado, abiertos, fcancel, cancelado, audiochatsend,
                       audiochatrecv, audio_send_thread_th,
                       audio_recv_thread_th, playing, audiodatarecv,
                       flagrecvaudio, hablados, escuchados, manejando,
                       senales>>
BY DEF AudiochatSend, HablaInicio, HablaSocket, HablaAbre, HablaFalla, Instala

(* A thread that listens.                                                  *)
LEMMA EscuchaDeja ==
    ASSUME NEW j, AudiochatRecv(j)
    PROVE  UNCHANGED <<modo, envioSt, recepcionSt, file_thread_th, envio,
                       t_aux, socket_envio, desc_envio, recepcion, gui,
                       destino, red, ofertas, emisor, reloj, receptor,
                       pendiente, mascara, sorpresas, usr1, sigalrm, conectado,
                       reservado, abiertos, fcancel, cancelado, audiochatsend,
                       audiochatrecv, audio_send_thread_th,
                       audio_recv_thread_th, playing, audiodata,
                       socketsendaudio, flagsendaudio, hablados, escuchados,
                       manejando, senales, recursos>>
BY DEF AudiochatRecv, EscuchaInicio, EscuchaAbre, EscuchaFalla, Instala

(* A signal with conversations.                                            *)
LEMMA SenalesAudioDeja ==
    ASSUME SenalesAudio
    PROVE  UNCHANGED <<modo, envioSt, recepcionSt, file_thread_th, envio,
                       socket_envio, desc_envio, recepcion, gui, destino, red,
                       ofertas, receptor, sigalrm, sigusr1, sigusr2,
                       conectado, reservado, abiertos, fcancel, cancelado,
                       audiochatsend, audiochatrecv, audio_send_thread_th,
                       audio_recv_thread_th, playing, audiodata,
                       socketsendaudio, audiodatarecv, flagsendaudio,
                       flagrecvaudio, hablados, escuchados, recursos>>
BY DEF SenalesAudio, ManejadorHabla, ManejadorEscucha, FcancelAjeno, TimeoutAjeno
-----------------------------------------------------------------------------
(* Types.                                                                  *)

(* Places in the code, and structures.                                     *)
LugaresReceptor ==
    {"no", "inicio", "espera", "conecta", "marca", "recv", "cierra", "disponible", "fin"}
LugaresReloj == {"no", "signal", "sleep", "t_aux", "ajeno", "fin"}
LugaresAudio ==
    {"no", "inicio", "socket", "abre", "habla", "escucha", "send_datos", "send_socket",
     "send_fin", "recv_disponible", "recv_datos", "recv_fin", "cerrar_envio", "fin"}

(* What the thread of the interface keeps.                                 *)
TipoInterfaz ==
    /\ modo \in Modos
    /\ gui \in {"libre", "ocupa", "crea", "audio", "audiocrea", "audiosale"}
    /\ destino \in Seq(Nicks) /\ Len(destino) <= MaxEnvios
    /\ gui = "ocupa" => Len(destino) < modo.envios
    /\ gui = "crea" => Len(destino) > 0
    /\ escuchados \in 0..MaxEscuchan /\ audio_recv_thread_th \in 0..MaxEscuchan
    /\ gui = "audio" => escuchados < modo.escuchan
    /\ gui = "audiocrea" => escuchados > 0
    /\ playing \in {0, 1}

(* What the thread that reads from the server keeps.                       *)
TipoRed ==
    /\ modo \in Modos
    /\ red \in {"libre", "dialogo", "ocupa", "crea", "envio", "nick", "hilo", "mata",
                "audio", "audiocrea", "audiosale"}
    /\ ofertas \in 0..MaxRecepciones /\ fcancel \subseteq Nicks
    /\ red \in {"dialogo", "ocupa", "crea"} => ofertas > 0
    /\ hablados \in 0..MaxHablan /\ audio_send_thread_th \in 0..MaxHablan
    /\ red = "audio" => hablados < modo.hablan
    /\ red = "audiocrea" => hablados > 0

(* What a receiving thread keeps.                                          *)
TipoRecibe ==
    /\ recepcionSt \in EnviaSt \ {"ENVIANDO_ARCHIVO"}
    /\ recepcion \in 0..MaxRecepciones
    /\ receptor \in [Recepciones -> LugaresReceptor]

(* The globals of file_send.c.                                             *)
TipoEnvia ==
    /\ envioSt \in EnviaSt
    /\ file_thread_th \in 0..MaxEnvios /\ envio \in 0..MaxEnvios /\ t_aux \in 0..MaxEnvios
    /\ socket_envio \in 0..MaxEnvios /\ desc_envio \in 0..MaxEnvios

(* The threads of a transfer.                                              *)
TipoHilos ==
    /\ emisor \in [{Otra} \cup Envios -> Lugares \cup {"ajeno"}]
    /\ reloj \in [Envios -> LugaresReloj]

(* Signals and their handlers.                                             *)
TipoSenales ==
    /\ pendiente \in [Envios -> SUBSET {"SIGALRM", "SIGUSR2"}]
    /\ mascara \in [Envios -> SUBSET {"SIGALRM", "SIGUSR2"}]
    /\ sorpresas \subseteq Delicados \X Envios
    /\ usr1 \subseteq Envios
    /\ sigalrm \in {"defecto", "manejador_aceptar", "ignorada"}
    /\ sigusr1 \in {"defecto", "manejador_timeout", "manejadorexitaudio"}
    /\ sigusr2 \in {"defecto", "manejador_fcancel", "manejadorexitsend"}
    /\ manejando \subseteq Hebras /\ senales \subseteq Hebras

(* What is in use, and the process.                                        *)
TipoFuera ==
    /\ conectado \subseteq Envios /\ reservado \subseteq Envios
    /\ abiertos \subseteq ({"socket", "desc"} \X Envios) \cup ({"recv", "fp"} \X Recepciones)
    /\ proceso \in {"vivo", "muerto"}
    /\ cancelado \subseteq Envios \X Nicks

(* The state of a conversation.                                            *)
TipoAudio ==
    /\ audiochatsend \in {"DISPONIBLE", "OCUPADO"} /\ audiochatrecv \in {"DISPONIBLE", "OCUPADO"}
    /\ audiodata \in 0..MaxHablan /\ socketsendaudio \in 0..MaxHablan
    /\ audiodatarecv \in 0..MaxEscuchan
    /\ flagsendaudio \in -1..2 /\ flagrecvaudio \in -1..2

(* Where the threads of audiochat.c are.                                   *)
TipoPaso ==
    /\ paso \in [Hebras -> LugaresAudio]
    /\ recursos \subseteq ({"envio", "socket"} \X Hablas) \cup ({"udp", "recepcion", "direccion"} \X Escuchas)

(* The type invariant, by the thread that keeps each part.                 *)
Tipos == /\ TipoInterfaz /\ TipoRed /\ TipoRecibe /\ TipoEnvia /\ TipoHilos
         /\ TipoSenales /\ TipoFuera /\ TipoAudio /\ TipoPaso

(* The bounds of a use of the client.                                      *)
LEMMA ModoTipo ==
    ASSUME modo \in Modos
    PROVE  /\ modo.envios \in 0..MaxEnvios /\ modo.recepciones \in 0..MaxRecepciones
           /\ modo.hablan \in 0..MaxHablan /\ modo.escuchan \in 0..MaxEscuchan
           /\ MaxEnvios \in Nat /\ MaxRecepciones \in Nat /\ MaxHablan \in Nat
           /\ MaxEscuchan \in Nat
BY EnvioFicheroAssumption, AudioChatAssumption

(* Sending a file from the interface keeps every variable in its set.      *)
LEMMA TiposInterfaz ==
    ASSUME Tipos, Interfaz, UNCHANGED audioVars
    PROVE  Tipos'
<1>0. modo \in Modos /\ MaxEnvios \in Nat /\ modo.envios \in 0..MaxEnvios
  BY ModoTipo DEF Tipos, TipoInterfaz
<1>1. UNCHANGED <<TipoRed, TipoRecibe, TipoSenales, TipoAudio, TipoPaso>>
  BY InterfazDeja DEF LugaresAudio, LugaresReceptor, TipoRed, TipoRecibe, TipoSenales,
     TipoAudio, TipoPaso
<1>2. /\ UNCHANGED <<modo, escuchados, audio_recv_thread_th, playing, recepcionSt, reloj, envio,
                     t_aux, socket_envio, desc_envio, conectado, abiertos, proceso, cancelado>>
  BY InterfazDeja
<1>3. CASE SendFile
  <2>1. UNCHANGED <<destino, envioSt, file_thread_th, reservado, emisor>> /\ gui' = "ocupa"
        /\ Len(destino) < modo.envios
    BY <1>3 DEF SendFile, hechos
  <2> QED
    BY <1>1, <1>2, <2>1 DEF LugaresReloj, Tipos, TipoInterfaz, TipoEnvia, TipoHilos,
       TipoFuera
<1>4. CASE SendFileOcupa
  <2>1. UNCHANGED <<file_thread_th, emisor>> /\ gui' = "crea" /\ gui = "ocupa" /\ envioSt' = "OCUPADO"
        /\ reservado' = reservado \cup {Len(destino) + 1}
        /\ \E n \in Nicks : destino' = Append(destino, n)
    BY <1>4 DEF SendFileOcupa, hechos
  <2>2. TipoInterfaz' /\ Len(destino) + 1 \in Envios
    BY <1>0, <1>2, <2>1 DEF Tipos, TipoInterfaz, Envios
  <2> QED
    BY <1>1, <1>2, <2>1, <2>2 DEF LugaresReloj, Tipos, TipoEnvia, TipoHilos, TipoFuera,
       EnviaSt
<1>5. CASE SendFileCrea
  <2>1. UNCHANGED <<destino, reservado, envioSt>> /\ gui' = "libre" /\ gui = "crea" 
        /\ file_thread_th' = Len(destino) /\ emisor' = [emisor EXCEPT ![Len(destino)] = "inicio"]
    BY <1>5 DEF SendFileCrea, hechos, Va
  <2>2. TipoInterfaz' /\ Len(destino) \in 0..MaxEnvios
    BY <1>0, <1>2, <2>1 DEF Tipos, TipoInterfaz
  <2> QED
    BY <1>1, <1>2, <2>1, <2>2 DEF LugaresReloj, Tipos, TipoEnvia, TipoHilos, TipoFuera,
       Lugares
<1>6. CASE SendFileFalla
  <2>1. /\ UNCHANGED <<destino, file_thread_th, emisor>> /\ gui' = "libre" /\ envioSt' = "DISPONIBLE"
        /\ reservado' = reservado \ {hechos}
    BY <1>6 DEF SendFileFalla
  <2> QED
    BY <1>1, <1>2, <2>1 DEF LugaresReloj, Tipos, TipoInterfaz, TipoEnvia, TipoHilos,
       TipoFuera, EnviaSt
<1> QED
  BY <1>3, <1>4, <1>5, <1>6 DEF Interfaz

(* So does reading FSEND and FCANCEL.                                      *)
LEMMA TiposRed ==
    ASSUME Tipos, RecvPthread, UNCHANGED audioVars
    PROVE  Tipos'
<1>0. modo \in Modos /\ MaxRecepciones \in Nat /\ modo.recepciones \in 0..MaxRecepciones
  BY ModoTipo DEF Tipos, TipoInterfaz
<1>1. UNCHANGED <<TipoInterfaz, TipoEnvia, TipoHilos, TipoAudio, TipoPaso>>
  BY RedDeja DEF LugaresAudio, LugaresReloj, TipoInterfaz, TipoEnvia, TipoHilos, TipoAudio,
     TipoPaso
<1>2. UNCHANGED <<modo, recepcion, hablados, audio_send_thread_th, mascara, sorpresas, usr1, sigalrm,
                  sigusr1,
                  sigusr2, manejando, senales, conectado, reservado, abiertos>>
  BY RedDeja
<1>3. TipoRed'
  BY <1>0, <1>2 DEF Tipos, TipoRed, RecvPthread, ParseFcancel, Comprueba, FcancelEnvio,
     FcancelNick, FcancelHilo, FcancelKill, ParseFsend, Dialogo, FsendOcupa, FsendCrea
<1>4. TipoRecibe'
  BY <1>2 DEF LugaresReceptor, Tipos, TipoRed, TipoRecibe, RecvPthread, ParseFcancel,
     Comprueba, FcancelEnvio, FcancelNick, FcancelHilo, FcancelKill, ParseFsend, Dialogo,
     FsendOcupa, FsendCrea, Recepciones, EnviaSt
<1>5. TipoSenales'
  BY <1>2 DEF Tipos, TipoSenales, RecvPthread, ParseFcancel, Comprueba, FcancelEnvio,
     FcancelNick, FcancelHilo, FcancelKill, ParseFsend, Dialogo, FsendOcupa, FsendCrea
<1>6. TipoFuera'
  BY <1>2 DEF Tipos, TipoRed, TipoFuera, RecvPthread, ParseFcancel, Comprueba, FcancelEnvio,
     FcancelNick, FcancelHilo, FcancelKill, ParseFsend, Dialogo, FsendOcupa, FsendCrea
<1> QED
  BY <1>1, <1>3, <1>4, <1>5, <1>6 DEF Tipos

(* So does receiving a file.                                               *)
LEMMA TiposReceptor ==
    ASSUME Tipos, NEW r \in Recepciones, FileRecvFunc(r), UNCHANGED audioVars
    PROVE  Tipos'
<1>1. UNCHANGED <<TipoInterfaz, TipoRed, TipoHilos, TipoSenales, TipoAudio, TipoPaso>>
  BY ReceptorDeja DEF LugaresAudio, LugaresReloj, TipoInterfaz, TipoRed, TipoHilos,
     TipoSenales, TipoAudio, TipoPaso
<1>2. UNCHANGED <<file_thread_th, envio, t_aux, socket_envio, desc_envio, conectado, reservado,
                  proceso, cancelado>>
  BY ReceptorDeja
<1>3. /\ recepcionSt' \in EnviaSt \ {"ENVIANDO_ARCHIVO"}
      /\ recepcion' \in {recepcion, r, 0}
      /\ \E a \in {"espera", "cierra", "conecta", "marca", "recv", "disponible", "fin"} :
            receptor' = [receptor EXCEPT ![r] = a]
      /\ envioSt' \in {envioSt, "ENVIANDO_ARCHIVO"}
      /\ abiertos' \subseteq abiertos \cup {<<"recv", r>>, <<"fp", r>>}
  BY DEF LugaresReceptor, Tipos, TipoRecibe, FileRecvFunc, Recibe, RecvInicio, RecvEspera,
     RecvConecta, RecvMarca, Recv, CerrarRecepcion, RecepcionDisponible, EnviaSt
<1>4. TipoRecibe' /\ TipoEnvia'
  BY <1>2, <1>3, EnvioFicheroAssumption DEF LugaresReceptor, Tipos, TipoRecibe, TipoEnvia,
     EnviaSt, Recepciones
<1>5. TipoFuera'
  BY <1>2, <1>3 DEF Tipos, TipoFuera
<1> QED
  BY <1>1, <1>4, <1>5 DEF Tipos

(* cerrar_envio, in the thread of a transfer or in another's.              *)
LEMMA TiposCerrarEnvio ==
    ASSUME Tipos, NEW i \in {Otra} \cup Envios, CerrarEnvio(i), UNCHANGED audioVars
    PROVE  Tipos'
<1>1. UNCHANGED <<TipoInterfaz, TipoRed, TipoRecibe, TipoAudio, TipoPaso>>
  BY EmisorDeja DEF LugaresAudio, LugaresReceptor, FileSendFunc, TipoInterfaz, TipoRed,
     TipoRecibe, TipoAudio, TipoPaso
<1>2. UNCHANGED <<pendiente, mascara, sorpresas, sigusr1, manejando, senales, conectado, cancelado>>
  BY EmisorDeja DEF FileSendFunc
<1>3. /\ \E a \in Lugares : emisor' = [emisor EXCEPT ![i] = a]
      /\ envioSt' \in {envioSt, "DISPONIBLE"}
      /\ file_thread_th' \in {file_thread_th, 0} /\ envio' \in {envio, 0}
      /\ UNCHANGED <<t_aux, socket_envio, desc_envio, reloj, sigalrm, sigusr2>>
      /\ usr1' \in {usr1, usr1 \cup {t_aux}} /\ (t_aux = 0 => usr1' = usr1)
      /\ abiertos' \subseteq abiertos /\ reservado' \subseteq reservado
      /\ proceso' \in {proceso, "vivo", "muerto"}
  BY DEF CerrarEnvio, CerrarDialogo, CerrarDescriptores, CerrarKill, MataReloj, CerrarFree,
     CerrarHilo, CerrarDisponible, TerminaEnvio, En, Va, Lugares, Cierre, Delicados
<1>4. TipoEnvia' /\ TipoFuera'
  BY <1>2, <1>3, EnvioFicheroAssumption DEF Tipos, TipoEnvia, TipoFuera, EnviaSt
<1>5. TipoHilos'
  BY <1>3 DEF LugaresReloj, Tipos, TipoHilos
<1>6. TipoSenales'
  BY <1>2, <1>3, EnvioFicheroAssumption DEF Tipos, TipoSenales, TipoEnvia, Envios
<1> QED
  BY <1>1, <1>4, <1>5, <1>6 DEF Tipos

(* So does sending one, and every step of cerrar_envio.                    *)
LEMMA TiposEmisor ==
    ASSUME Tipos, NEW i \in Envios, FileSendFunc(i), UNCHANGED audioVars
    PROVE  Tipos'
<1>0. i \in 0..MaxEnvios
  BY EnvioFicheroAssumption DEF Envios
<1>1. CASE CerrarEnvio(i)
  BY <1>1, TiposCerrarEnvio
<1>2. CASE Inicio(i) \/ InstalaFcancel(i) \/ CrearSocket(i) \/ GuardaSocket(i) \/ Fsend(i)
           \/ CreaTimeout(i) \/ EsperaAccept(i) \/ AceptarConexion(i) \/ GuardaDesc(i)
           \/ IgnoraAlarma(i) \/ MataTimeout(i) \/ Enviando(i) \/ Send(i)
  <2>1. UNCHANGED <<TipoInterfaz, TipoRed, TipoRecibe, TipoAudio, TipoPaso>>
    BY EmisorDeja DEF LugaresAudio, LugaresReceptor, TipoInterfaz, TipoRed, TipoRecibe,
       TipoAudio, TipoPaso
  <2>2. UNCHANGED <<pendiente, mascara, sorpresas, sigusr1, manejando, senales, conectado, cancelado>>
    BY EmisorDeja
  <2>3. /\ \E a \in Lugares : emisor' = [emisor EXCEPT ![i] = a]
        /\ envioSt' \in {envioSt, "ESPERANDO_ACCEPT", "ENVIANDO_ARCHIVO", "ENVIO_COMPLETADO"}
        /\ file_thread_th' = file_thread_th /\ envio' \in {envio, i} /\ t_aux' \in {t_aux, 0, i}
        /\ socket_envio' \in {socket_envio, 0, i} /\ desc_envio' \in {desc_envio, 0, i}
        /\ (reloj' = reloj \/ reloj' = [reloj EXCEPT ![i] = "signal"])
        /\ sigalrm' \in {sigalrm, "manejador_aceptar", "ignorada"}
        /\ sigusr2' \in {sigusr2, "manejador_fcancel"}
        /\ usr1' \in {usr1, usr1 \cup {t_aux}} /\ (t_aux = 0 => usr1' = usr1)
        /\ abiertos' \subseteq abiertos \cup {<<"socket", i>>, <<"desc", i>>}
        /\ reservado' = reservado
        /\ proceso' \in {proceso, "vivo", "muerto"}
    BY <1>2 DEF Inicio, InstalaFcancel, CrearSocket, GuardaSocket, Fsend, CreaTimeout,
       EsperaAccept, AceptarConexion, GuardaDesc, IgnoraAlarma, MataTimeout, MataReloj,
       Enviando, Send, En, Va, Lugares, Cierre, Delicados
  <2>4. TipoEnvia' /\ TipoFuera'
    BY <1>0, <2>2, <2>3, EnvioFicheroAssumption DEF Tipos, TipoEnvia, TipoFuera, EnviaSt
  <2>5. TipoHilos'
    BY <2>3 DEF LugaresReloj, Tipos, TipoHilos
  <2>6. TipoSenales'
    BY <2>2, <2>3, EnvioFicheroAssumption DEF Tipos, TipoSenales, TipoEnvia, Envios
  <2> QED
    BY <2>1, <2>4, <2>5, <2>6 DEF Tipos
<1> QED
  BY <1>1, <1>2 DEF FileSendFunc

(* So does the timeout thread.                                             *)
LEMMA TiposReloj ==
    ASSUME Tipos, NEW i \in Envios, TimeoutAceptar(i), UNCHANGED audioVars
    PROVE  Tipos'
<1>1. UNCHANGED <<TipoInterfaz, TipoRed, TipoRecibe, TipoAudio, TipoPaso>>
  BY RelojDeja DEF LugaresAudio, LugaresReceptor, TipoInterfaz, TipoRed, TipoRecibe,
     TipoAudio, TipoPaso
<1>2. UNCHANGED <<envioSt, file_thread_th, envio, socket_envio, desc_envio, emisor, mascara,
                  sorpresas, usr1,
                  sigalrm, sigusr2, manejando, senales, conectado, reservado, abiertos, cancelado>>
  BY RelojDeja
<1>3. /\ \E a \in {"sleep", "t_aux", "fin"} : reloj' = [reloj EXCEPT ![i] = a]
      /\ sigusr1' \in {sigusr1, "manejador_timeout"} /\ t_aux' \in {t_aux, 0}
      /\ \E S \in SUBSET {"SIGALRM"} : 
            pendiente' = pendiente \/ pendiente' = [pendiente EXCEPT ![i] = @ \cup S]
      /\ proceso' \in {proceso, "vivo", "muerto"}
  BY DEF TimeoutAceptar, TimeoutSignal, TimeoutSleep, TimeoutFin
<1>4. TipoEnvia' /\ TipoFuera' /\ TipoHilos'
  BY <1>2, <1>3, EnvioFicheroAssumption DEF LugaresReloj, Tipos, TipoEnvia, TipoFuera,
     TipoHilos
<1>5. TipoSenales'
  BY <1>2, <1>3 DEF Tipos, TipoSenales
<1> QED
  BY <1>1, <1>4, <1>5 DEF Tipos

(* So do the signals of a transfer.                                        *)
LEMMA TiposSenales ==
    ASSUME Tipos, NEW i \in Envios, Senales(i), UNCHANGED audioVars
    PROVE  Tipos'
<1>1. UNCHANGED <<TipoInterfaz, TipoRed, TipoRecibe, TipoAudio, TipoPaso>>
  BY SenalesDeja DEF LugaresAudio, LugaresReceptor, TipoInterfaz, TipoRed, TipoRecibe,
     TipoAudio, TipoPaso
<1>2. UNCHANGED <<envioSt, file_thread_th, envio, socket_envio, desc_envio, sigusr1, sigalrm,
                  sigusr2, manejando, senales, conectado, reservado, abiertos, cancelado>>
  BY SenalesDeja
<1>3. /\ emisor' = emisor \/ emisor' = [emisor EXCEPT ![i] = "dialogo"]
      /\ reloj' = reloj \/ reloj' = [reloj EXCEPT ![i] = "fin"]
      /\ t_aux' \in {t_aux, 0} /\ usr1' \subseteq usr1
      /\ \E s \in {"SIGALRM", "SIGUSR2"} :
            /\ mascara' = mascara \/ mascara' = [mascara EXCEPT ![i] = @ \cup {s}]
            /\ pendiente' = pendiente \/ pendiente' = [pendiente EXCEPT ![i] = @ \ {s}]
      /\ proceso' \in {proceso, "muerto"}
      /\ sorpresas' \subseteq sorpresas \cup (Delicados \X {i})
  BY DEF Senales, Manejador, ManejadorTimeout, Va, Sorprende
<1>4. TipoEnvia' /\ TipoFuera' /\ TipoHilos'
  BY <1>2, <1>3, EnvioFicheroAssumption DEF LugaresReloj, Tipos, TipoEnvia, TipoFuera,
     TipoHilos, Lugares, Cierre, Delicados
<1>5. TipoSenales'
  BY <1>2, <1>3 DEF Tipos, TipoSenales
<1> QED
  BY <1>1, <1>4, <1>5 DEF Tipos

(* So does the receiver that connects.                                     *)
LEMMA TiposConecta ==
    ASSUME Tipos, NEW i \in Envios, Conecta(i), UNCHANGED audioVars
    PROVE  Tipos'
<1>1. UNCHANGED <<TipoInterfaz, TipoRed, TipoRecibe, TipoEnvia, TipoHilos, TipoSenales,
                  TipoAudio,
                  TipoPaso>>
  BY ConectaDeja DEF LugaresAudio, LugaresReloj, LugaresReceptor, TipoInterfaz, TipoRed,
     TipoRecibe, TipoEnvia, TipoHilos, TipoSenales, TipoAudio, TipoPaso
<1>2. TipoFuera'
  BY DEF Conecta, Tipos, TipoFuera
<1> QED
  BY <1>1, <1>2 DEF Tipos

(* So do the buttons of a conversation.                                    *)
LEMMA TiposInterfazAudio ==
    ASSUME Tipos, InterfazAudio
    PROVE  Tipos'
<1>0. modo \in Modos /\ MaxEscuchan \in Nat /\ modo.escuchan \in 0..MaxEscuchan
  BY ModoTipo DEF Tipos, TipoInterfaz
<1>1. UNCHANGED <<TipoRed, TipoRecibe, TipoEnvia, TipoHilos>>
  BY InterfazAudioDeja DEF LugaresReloj, LugaresReceptor, TipoRed, TipoRecibe, TipoEnvia,
     TipoHilos
<1>2. UNCHANGED <<modo, destino, pendiente, mascara, sorpresas, usr1, sigalrm, sigusr1, sigusr2, manejando,
                  conectado, reservado, abiertos, cancelado, audiochatsend, audiodata,
                  socketsendaudio, audiodatarecv, flagsendaudio, flagrecvaudio>>
  BY InterfazAudioDeja
<1>3. TipoInterfaz'
  BY <1>0, <1>2 DEF Tipos, TipoInterfaz, InterfazAudio, StartAudioChat, StartOcupado,
     StopAudioChat, StartSocket, StartCrea, ExitAudioChat, ExitKill
<1>4. /\ proceso' \in {proceso, "vivo", "muerto"} /\ audiochatrecv' \in {audiochatrecv, "OCUPADO", "DISPONIBLE"}
      /\ paso' = paso \/ paso' = [paso EXCEPT ![<<"escucha", escuchados>>] = "inicio"]
      /\ senales' \subseteq senales \cup ({"escucha"} \X Escuchas)
  BY <1>0 DEF Tipos, TipoInterfaz, InterfazAudio, StartAudioChat, StartOcupado,
     StopAudioChat, StartSocket, StartCrea, ExitAudioChat, ExitKill, Senala, A, Escuchas
<1>5. recursos' \subseteq recursos \cup ({"udp", "recepcion", "direccion"} \X Escuchas)
  BY <1>0 DEF Tipos, TipoInterfaz, InterfazAudio, StartAudioChat, StartOcupado,
     StopAudioChat, StartSocket, StartCrea, ExitAudioChat, ExitKill, Escuchas
<1>6. TipoSenales' /\ TipoFuera' /\ TipoAudio' /\ TipoPaso'
  BY <1>2, <1>4, <1>5 DEF LugaresAudio, Tipos, TipoSenales, TipoFuera, TipoAudio, TipoPaso,
     Hebras
<1> QED
  BY <1>1, <1>3, <1>6 DEF Tipos

(* So do AUDIOCHAT and AUDIOEXIT.                                          *)
LEMMA TiposRedAudio ==
    ASSUME Tipos, RedAudio
    PROVE  Tipos'
<1>0. modo \in Modos /\ MaxHablan \in Nat /\ modo.hablan \in 0..MaxHablan
  BY ModoTipo DEF Tipos, TipoInterfaz
<1>1. UNCHANGED <<TipoInterfaz, TipoRecibe, TipoEnvia, TipoHilos>>
  BY RedAudioDeja DEF LugaresReloj, LugaresReceptor, TipoInterfaz, TipoRecibe, TipoEnvia,
     TipoHilos
<1>2. UNCHANGED <<modo, ofertas, fcancel, pendiente, mascara, sorpresas, usr1, sigalrm, sigusr1, sigusr2,
                  manejando,
                  conectado, reservado, abiertos, cancelado, audiochatrecv, audiodata,
                  socketsendaudio, audiodatarecv, flagsendaudio, flagrecvaudio>>
  BY RedAudioDeja
<1>3. TipoRed'
  BY <1>0, <1>2 DEF Tipos, TipoRed, RedAudio, ParseAudiochat, AudioDialogo, AudioCrea,
     ParseAudioexit, AudioexitKill
<1>4. /\ proceso' \in {proceso, "vivo", "muerto"} /\ audiochatsend' \in {audiochatsend, "OCUPADO"}
      /\ paso' = paso \/ paso' = [paso EXCEPT ![<<"habla", hablados>>] = "inicio"]
      /\ senales' \subseteq senales \cup ({"habla"} \X Hablas)
  BY <1>0 DEF Tipos, TipoRed, RedAudio, ParseAudiochat, AudioDialogo, AudioCrea,
     ParseAudioexit, AudioexitKill, Senala, A, Hablas
<1>5. recursos' \subseteq recursos \cup ({"envio"} \X Hablas)
  BY <1>0 DEF Tipos, TipoRed, RedAudio, ParseAudiochat, AudioDialogo, AudioCrea,
     ParseAudioexit, AudioexitKill, Hablas
<1>6. TipoSenales' /\ TipoFuera' /\ TipoAudio' /\ TipoPaso'
  BY <1>2, <1>4, <1>5 DEF LugaresAudio, Tipos, TipoSenales, TipoFuera, TipoAudio, TipoPaso,
     Hebras
<1> QED
  BY <1>1, <1>3, <1>6 DEF Tipos

(* So does the end of a conversation, whichever thread runs it.            *)
LEMMA TiposCierre ==
    ASSUME Tipos, NEW h \in Hebras, CerrarAudio(h)
    PROVE  Tipos'
<1>0. MaxHablan \in Nat /\ MaxEscuchan \in Nat
  BY ModoTipo DEF Tipos, TipoInterfaz
<1>1. UNCHANGED <<TipoRecibe, TipoEnvia, TipoSenales, TipoFuera>>
  BY CierreDeja DEF LugaresReceptor, TipoRecibe, TipoEnvia, TipoSenales, TipoFuera
<1>2. UNCHANGED <<modo, gui, destino, escuchados, playing, red, ofertas, fcancel, hablados>>
  BY CierreDeja
<1>3. /\ \E a \in {"send_socket", "send_fin", "recv_datos", "recv_fin", "fin"} :
            paso' = [paso EXCEPT ![h] = a]
      /\ audio_recv_thread_th' \in {audio_recv_thread_th, 0}
      /\ audio_send_thread_th' \in {audio_send_thread_th, 0}
      /\ audiochatsend' \in {audiochatsend, "DISPONIBLE"} /\ audiochatrecv' \in {audiochatrecv, "DISPONIBLE"}
      /\ audiodata' \in {audiodata, 0} /\ audiodatarecv' \in {audiodatarecv, 0}
      /\ socketsendaudio' \in {socketsendaudio, 0}
      /\ flagsendaudio' \in {flagsendaudio, -1} /\ flagrecvaudio' \in {flagrecvaudio, -1}
      /\ recursos' \subseteq recursos
  BY DEF CerrarAudio, SendDatos, SendSocket, SendFin, RecvDisponible, RecvDatos, RecvFin,
     Sale, A
<1>4. /\ emisor' = emisor \/ emisor' = [emisor EXCEPT ![h[2]] = "fin"]
      /\ reloj' = reloj \/ reloj' = [reloj EXCEPT ![h[2]] = "fin"]
  BY DEF CerrarAudio, SendDatos, SendSocket, SendFin, RecvDisponible, RecvDatos, RecvFin,
     Sale
<1>5. TipoHilos'
  BY <1>4 DEF LugaresReloj, Tipos, TipoHilos, Lugares
<1>6. TipoInterfaz' /\ TipoRed'
  BY <1>0, <1>2, <1>3 DEF Tipos, TipoInterfaz, TipoRed
<1>7. TipoAudio' /\ TipoPaso'
  BY <1>0, <1>3 DEF LugaresAudio, Tipos, TipoAudio, TipoPaso
<1> QED
  BY <1>1, <1>5, <1>6, <1>7 DEF Tipos

(* So does talking.                                                        *)
LEMMA TiposHabla ==
    ASSUME Tipos, NEW i \in Hablas, AudiochatSend(i)
    PROVE  Tipos'
<1>0. MaxHablan \in Nat /\ i \in 0..MaxHablan
  BY AudioChatAssumption DEF Hablas
<1>1. UNCHANGED <<TipoInterfaz, TipoRed, TipoRecibe, TipoEnvia, TipoHilos>>
  BY HablaDeja DEF LugaresReloj, LugaresReceptor, TipoInterfaz, TipoRed, TipoRecibe,
     TipoEnvia, TipoHilos
<1>2. UNCHANGED <<pendiente, mascara, sorpresas, usr1, sigalrm, manejando, senales, conectado, reservado,
                  abiertos,
                  cancelado, audiochatsend, audiochatrecv, audiodatarecv, flagrecvaudio>>
  BY HablaDeja
<1>3. /\ paso' = paso \/ \E a \in {"socket", "abre", "habla", "send_datos"} :
                            paso' = [paso EXCEPT ![<<"habla", i>>] = a]
      /\ sigusr1' \in {sigusr1, "manejadorexitaudio"} /\ sigusr2' \in {sigusr2, "manejadorexitsend"}
      /\ proceso' \in {proceso, "vivo", "muerto"}
      /\ audiodata' \in {audiodata, i} /\ socketsendaudio' \in {socketsendaudio, i}
      /\ flagsendaudio' \in {flagsendaudio, 0, 1, 2}
      /\ recursos' \subseteq recursos \cup {<<"socket", i>>}
  BY DEF AudiochatSend, HablaInicio, HablaSocket, HablaAbre, HablaFalla, Instala, A
<1>4. TipoSenales' /\ TipoFuera' /\ TipoAudio' /\ TipoPaso'
  BY <1>0, <1>2, <1>3 DEF LugaresAudio, Tipos, TipoSenales, TipoFuera, TipoAudio, TipoPaso
<1> QED
  BY <1>1, <1>4 DEF Tipos

(* So does listening.                                                      *)
LEMMA TiposEscucha ==
    ASSUME Tipos, NEW j \in Escuchas, AudiochatRecv(j)
    PROVE  Tipos'
<1>0. MaxEscuchan \in Nat /\ j \in 0..MaxEscuchan
  BY AudioChatAssumption DEF Escuchas
<1>1. UNCHANGED <<TipoInterfaz, TipoRed, TipoRecibe, TipoEnvia, TipoHilos>>
  BY EscuchaDeja DEF LugaresReloj, LugaresReceptor, TipoInterfaz, TipoRed, TipoRecibe,
     TipoEnvia, TipoHilos
<1>2. UNCHANGED <<pendiente, mascara, sorpresas, usr1, sigalrm, manejando, senales, conectado, reservado,
                  abiertos,
                  cancelado, audiochatsend, audiochatrecv, audiodata, socketsendaudio,
                  flagsendaudio, recursos>>
  BY EscuchaDeja
<1>3. /\ paso' = paso \/ \E a \in {"abre", "escucha", "recv_disponible"} :
                            paso' = [paso EXCEPT ![<<"escucha", j>>] = a]
      /\ sigusr1' \in {sigusr1, "manejadorexitaudio"} /\ sigusr2' \in {sigusr2, "manejadorexitsend"}
      /\ proceso' \in {proceso, "vivo", "muerto"}
      /\ audiodatarecv' \in {audiodatarecv, j} /\ flagrecvaudio' \in {flagrecvaudio, 1, 2}
  BY DEF AudiochatRecv, EscuchaInicio, EscuchaAbre, EscuchaFalla, Instala, A
<1>4. TipoSenales' /\ TipoFuera' /\ TipoAudio' /\ TipoPaso'
  BY <1>0, <1>2, <1>3 DEF LugaresAudio, Tipos, TipoSenales, TipoFuera, TipoAudio, TipoPaso
<1> QED
  BY <1>1, <1>4 DEF Tipos

(* So do the signals of a conversation, handled in any thread.             *)
LEMMA TiposSenalesAudio ==
    ASSUME Tipos, SenalesAudio
    PROVE  Tipos'
<1>1. UNCHANGED <<TipoInterfaz, TipoRed, TipoRecibe, TipoAudio>>
  BY SenalesAudioDeja DEF LugaresReceptor, TipoInterfaz, TipoRed, TipoRecibe, TipoAudio
<1>2. UNCHANGED <<envioSt, file_thread_th, envio, socket_envio, desc_envio, sigalrm, sigusr1,
                  sigusr2,
                  conectado, reservado, abiertos, cancelado, recursos>>
  BY SenalesAudioDeja
<1>3. /\ emisor' = emisor \/ (\E i \in Envios : emisor' = [emisor EXCEPT ![i] = "ajeno"])
         \/ emisor' = [emisor EXCEPT ![Otra] = "dialogo"]
      /\ reloj' = reloj \/ \E i \in Envios : reloj' = [reloj EXCEPT ![i] = "ajeno"]
      /\ t_aux' \in {t_aux, 0} /\ proceso' \in {proceso, "vivo", "muerto"}
  BY DEF SenalesAudio, ManejadorHabla, ManejadorEscucha, FcancelAjeno, TimeoutAjeno, Va
<1>4. /\ usr1' \subseteq usr1 /\ senales' \subseteq senales /\ manejando' \subseteq manejando \cup senales
      /\ \/ UNCHANGED <<mascara, pendiente>>
         \/ \E i \in Envios : /\ mascara' = [mascara EXCEPT ![i] = @ \cup {"SIGUSR2"}]
                              /\ pendiente' = [pendiente EXCEPT ![i] = @ \ {"SIGUSR2"}]
      /\ sorpresas' \subseteq sorpresas \cup (Delicados \X Envios)
  BY DEF SenalesAudio, ManejadorHabla, ManejadorEscucha, FcancelAjeno, TimeoutAjeno, Sorprende
<1>5. paso' = paso \/ \E h \in Hebras, a \in {"recv_disponible", "fin", "send_datos", "cerrar_envio"} :
                        paso' = [paso EXCEPT ![h] = a]
  BY DEF SenalesAudio, ManejadorHabla, ManejadorEscucha, FcancelAjeno, TimeoutAjeno, A,
     Hebras
<1>6. TipoHilos' /\ TipoEnvia' /\ TipoFuera'
  BY <1>2, <1>3, EnvioFicheroAssumption DEF LugaresReloj, Tipos, TipoHilos, TipoEnvia,
     TipoFuera, Lugares, Cierre, Delicados
<1>7. TipoSenales'
  BY <1>2, <1>4 DEF Tipos, TipoSenales
<1>8. TipoPaso'
  <2>1. paso \in [Hebras -> LugaresAudio]
    BY DEF Tipos, TipoPaso
  <2>2. {"recv_disponible", "fin", "send_datos", "cerrar_envio"} \subseteq LugaresAudio
    BY DEF LugaresAudio
  <2>3. paso' \in [Hebras -> LugaresAudio]
    <3>1. CASE paso' = paso
      BY <2>1, <3>1
    <3>2. CASE paso' # paso
      <4>1. PICK h \in Hebras, a \in LugaresAudio : paso' = [paso EXCEPT ![h] = a]
        BY <1>5, <2>2, <3>2
      <4> QED
        BY <2>1, <4>1
    <3> QED
      BY <3>1, <3>2
  <2> QED
    BY <1>2, <2>3 DEF Tipos, TipoPaso
<1> QED
  BY <1>1, <1>6, <1>7, <1>8 DEF Tipos

(* The types hold after every step.                                        *)
LEMMA TiposPaso ==
    ASSUME Tipos, [NextCliente]_<<vars, audioVars>>
    PROVE  Tipos'
<1>1. CASE UNCHANGED <<vars, audioVars>>
  <2>1. TipoInterfaz' /\ TipoRed' /\ TipoRecibe'
    BY <1>1 DEF Tipos, TipoInterfaz, TipoRed, TipoRecibe
  <2>2. TipoEnvia' /\ TipoHilos' /\ TipoSenales'
    BY <1>1 DEF Tipos, TipoEnvia, TipoHilos, TipoSenales
  <2>3. TipoFuera' /\ TipoAudio' /\ TipoPaso'
    BY <1>1 DEF Tipos, TipoFuera, TipoAudio, TipoPaso
  <2> QED
    BY <2>1, <2>2, <2>3 DEF Tipos
<1>2. CASE Next /\ UNCHANGED audioVars
  BY <1>2, TiposInterfaz, TiposRed, TiposReceptor, TiposEmisor, TiposReloj, TiposSenales,
     TiposConecta DEF Next
<1>3. CASE CerrarEnvio(Otra) /\ UNCHANGED audioVars
  BY <1>3, TiposCerrarEnvio
<1>4. CASE InterfazAudio \/ RedAudio \/ SenalesAudio
  BY <1>4, TiposInterfazAudio, TiposRedAudio, TiposSenalesAudio
<1>5. CASE \E h \in Hebras : CerrarAudio(h)
  BY <1>5, TiposCierre
<1>6. CASE \/ \E i \in Hablas : AudiochatSend(i)
           \/ \E j \in Escuchas : AudiochatRecv(j)
  BY <1>6, TiposHabla, TiposEscucha
<1> QED
  BY <1>1, <1>2, <1>3, <1>4, <1>5, <1>6 DEF NextCliente

(* The types hold at the start.                                            *)
LEMMA TiposInit == InitCliente => Tipos
<1> SUFFICES ASSUME InitCliente PROVE Tipos
  OBVIOUS
<1>0. MaxEnvios \in Nat /\ MaxRecepciones \in Nat /\ MaxHablan \in Nat /\ MaxEscuchan \in Nat
  BY EnvioFicheroAssumption, AudioChatAssumption
<1>1. TipoInterfaz /\ TipoRed /\ TipoRecibe /\ TipoEnvia
  BY <1>0 DEF LugaresReceptor, InitCliente, Init, AudioInit, TipoInterfaz, TipoRed,
     TipoRecibe, TipoEnvia, EnviaSt
<1>2. TipoHilos /\ TipoSenales /\ TipoFuera
  BY DEF LugaresReloj, InitCliente, Init, AudioInit, TipoHilos, TipoSenales, TipoFuera,
     Lugares, Cierre, Delicados
<1>3. TipoAudio /\ TipoPaso
  BY <1>0 DEF LugaresAudio, InitCliente, AudioInit, TipoAudio, TipoPaso
<1> QED
  BY <1>1, <1>2, <1>3 DEF Tipos

(* Every variable of the two programs stays in its set: threads are at     *)
(* places of their own code, thread numbers and globals name a thread there*)
(* can be.                                                                 *)
THEOREM TiposSiempre == SpecCliente => []Tipos
BY TiposInit, TiposPaso, PTL DEF SpecCliente

(* The types in the form in which a run checks them.                       *)
LEMMA TiposDan == Tipos => AudioTypeOK
<1> SUFFICES ASSUME Tipos PROVE AudioTypeOK
  OBVIOUS
<1>1. hechos \in 0..MaxEnvios
  BY EnvioFicheroAssumption DEF hechos, Tipos, TipoInterfaz
<1>2. TypeOK
  BY <1>1 DEF LugaresReloj, LugaresReceptor, Tipos, TipoInterfaz, TipoRed, TipoRecibe,
     TipoEnvia, TipoHilos, TipoSenales, TipoFuera, TypeOK
<1>3. {manejando, senales} \subseteq SUBSET Hebras
  BY DEF Tipos, TipoSenales
<1> QED
  BY <1>2, <1>3 DEF LugaresAudio, Tipos, TipoInterfaz, TipoRed, TipoAudio, TipoPaso,
     AudioTypeOK

(* The type invariant of the client with files and conversations.          *)
THEOREM AudioTypeOKSiempre == SpecCliente => []AudioTypeOK
BY TiposSiempre, TiposDan, PTL
-----------------------------------------------------------------------------
(* Receiving files.                                                        *)

(* A thread between file_recv_func taking cliente.recepcion and giving it  *)
(* back is the one that recepcion names, and only one is; outside it holds *)
(* no descriptor and no file.                                              *)
RecepcionInv ==
    /\ UnaRecepcion
    /\ \A r \in Recepciones : Recibiendo(r) => recepcionSt # "DISPONIBLE"
    /\ red = "crea" => recepcionSt # "DISPONIBLE"
    /\ red \in {"dialogo", "ocupa", "crea"} => \A r \in Recepciones : ~Recibiendo(r)
    /\ \A r \in Recepciones :
        IF receptor[r] \in {"no", "inicio", "disponible", "fin"}
        THEN {<<"recv", r>>, <<"fp", r>>} \cap abiertos = {}
        ELSE recepcion = r

(* What the other threads leave alone.                                     *)
LEMMA RecepcionAjena ==
    ASSUME \/ /\ \/ Interfaz \/ CerrarEnvio(Otra)
                 \/ \E i \in Envios : FileSendFunc(i) \/ TimeoutAceptar(i) \/ Senales(i) \/ Conecta(i)
              /\ UNCHANGED audioVars
           \/ InterfazAudio \/ SenalesAudio
           \/ \E h \in Hebras : CerrarAudio(h)
           \/ \E i \in Hablas : AudiochatSend(i)
           \/ \E j \in Escuchas : AudiochatRecv(j)
    PROVE  /\ UNCHANGED <<modo, recepcionSt, red, receptor, recepcion>>
           /\ abiertos' \subseteq abiertos \cup ({"socket", "desc"} \X Envios)
<1>1. ASSUME NEW i \in {Otra} \cup Envios, FileSendFunc(i), i \in Envios \/ CerrarEnvio(i)
      PROVE  abiertos' \subseteq abiertos \cup ({"socket", "desc"} \X Envios)
  BY <1>1 DEF FileSendFunc, Inicio, InstalaFcancel, CrearSocket, GuardaSocket, Fsend,
     CreaTimeout, EsperaAccept, AceptarConexion, GuardaDesc, IgnoraAlarma, MataTimeout,
     Enviando, Send, CerrarEnvio, CerrarDialogo, CerrarDescriptores, CerrarKill, CerrarFree,
     CerrarHilo, CerrarDisponible, TerminaEnvio, En, Otra
<1>2. CASE CerrarEnvio(Otra) /\ UNCHANGED audioVars
  BY <1>1, <1>2, EmisorDeja DEF FileSendFunc
<1>3. CASE (\E i \in Envios : FileSendFunc(i)) /\ UNCHANGED audioVars
  BY <1>1, <1>3, EmisorDeja
<1> QED
  BY <1>2, <1>3, InterfazDeja, RelojDeja, SenalesDeja, ConectaDeja, InterfazAudioDeja,
     SenalesAudioDeja, CierreDeja, HablaDeja, EscuchaDeja

(* Receiving stays with one thread after every step: parse_fsend looks at  *)
(* the state of the client and takes it in the only thread that does.      *)
LEMMA RecepcionPaso ==
    ASSUME Tipos, RecepcionInv, [NextCliente]_<<vars, audioVars>>
    PROVE  RecepcionInv'
<1>0. receptor \in [Recepciones -> LugaresReceptor]
  BY DEF Tipos, TipoRecibe
<1>1. ASSUME UNCHANGED <<modo, recepcionSt, red, receptor, recepcion>>,
             abiertos' \subseteq abiertos \cup ({"socket", "desc"} \X Envios)
      PROVE  RecepcionInv'
  BY <1>1 DEF RecepcionInv, UnaRecepcion, Recibiendo
<1>2. CASE UNCHANGED <<vars, audioVars>>
  BY <1>1, <1>2
<1>3. CASE RecvPthread /\ UNCHANGED audioVars
  <2>1. UNCHANGED <<modo, recepcion, abiertos>>
    BY <1>3, RedDeja
  <2>2. CASE FsendCrea
    <3>1. red = "crea" /\ red' = "libre" /\ recepcionSt' = recepcionSt
          /\ (receptor' = receptor \/ receptor' = [receptor EXCEPT ![ofertas] = "inicio"])
      BY <2>2 DEF FsendCrea
    <3> QED
      BY <1>0, <2>1, <3>1 DEF RecepcionInv, UnaRecepcion, Recibiendo
  <2>3. CASE FsendOcupa
    BY <2>1, <2>3 DEF FsendOcupa, RecepcionInv, UnaRecepcion, Recibiendo
  <2>4. CASE ParseFsend
    BY <2>1, <2>4 DEF ParseFsend, RecepcionInv, UnaRecepcion, Recibiendo
  <2>5. CASE Dialogo \/ FcancelKill \/ FcancelEnvio \/ FcancelNick \/ FcancelHilo
             \/ \E n \in Nicks : ParseFcancel(n)
    BY <2>1, <2>5 DEF Dialogo, FcancelKill, ParseFcancel, Comprueba, FcancelEnvio,
       FcancelNick, FcancelHilo, RecepcionInv, UnaRecepcion, Recibiendo
  <2> QED
    BY <1>3, <2>2, <2>3, <2>4, <2>5 DEF RecvPthread
<1>4. CASE RedAudio
  <2>1. UNCHANGED <<modo, recepcion, recepcionSt, receptor, abiertos>>
    BY <1>4, RedAudioDeja
  <2>2. red' \notin {"dialogo", "ocupa", "crea"} \/ red' = red
    BY <1>4 DEF RedAudio, ParseAudiochat, AudioDialogo, AudioCrea, ParseAudioexit, AudioexitKill
  <2> QED
    BY <2>1, <2>2 DEF RecepcionInv, UnaRecepcion, Recibiendo
<1>5. ASSUME NEW r \in Recepciones, FileRecvFunc(r), UNCHANGED audioVars
      PROVE  RecepcionInv'
  <2>1. UNCHANGED <<modo, red>>
    BY <1>5, ReceptorDeja
  <2>2. Recibiendo(r) /\ \A q \in Recepciones : q # r => receptor'[q] = receptor[q]
    BY <1>0, <1>5 DEF FileRecvFunc, RecvInicio, RecvEspera, RecvConecta, RecvMarca, Recv,
       CerrarRecepcion, RecepcionDisponible, Recibe, Recibiendo
  <2>3. \/ /\ receptor'[r] \notin {"no", "fin"}
           /\ recepcionSt' = "DISPONIBLE" => recepcionSt = "DISPONIBLE"
        \/ receptor'[r] = "fin"
    BY <1>0, <1>5 DEF FileRecvFunc, RecvInicio, RecvEspera, RecvConecta, RecvMarca, Recv,
       CerrarRecepcion, RecepcionDisponible, Recibe
  <2>4. /\ \A q \in Recepciones \ {r} : {<<"recv", q>>, <<"fp", q>>} \cap abiertos' \subseteq abiertos
        /\ IF receptor'[r] \in {"no", "inicio", "disponible", "fin"}
           THEN {<<"recv", r>>, <<"fp", r>>} \cap abiertos' = {}
           ELSE recepcion' = r
    BY <1>0, <1>5 DEF FileRecvFunc, RecvInicio, RecvEspera, RecvConecta, RecvMarca, Recv,
       CerrarRecepcion, RecepcionDisponible, Recibe, RecepcionInv
  <2>5. \A q \in Recepciones : q # r => ~Recibiendo(q)
    BY <2>2 DEF RecepcionInv, UnaRecepcion
  <2> QED
    BY <2>1, <2>2, <2>3, <2>4, <2>5 DEF RecepcionInv, UnaRecepcion, Recibiendo
<1> QED
  BY <1>1, <1>2, <1>3, <1>4, <1>5, RecepcionAjena DEF NextCliente, Next

(* What is received belongs, at every moment, to the one thread that       *)
(* recepcion names.                                                        *)
THEOREM RecepcionSiempre == SpecCliente => []RecepcionInv
<1>1. InitCliente => RecepcionInv
  BY DEF InitCliente, Init, RecepcionInv, UnaRecepcion, Recibiendo
<1> QED
  BY <1>1, TiposSiempre, RecepcionPaso, PTL DEF SpecCliente

(* One file at a time is received: no two threads are in file_recv_func.   *)
THEOREM UnaRecepcionSiempre == SpecCliente => []UnaRecepcion
<1>1. RecepcionInv => UnaRecepcion
  BY DEF RecepcionInv
<1> QED
  BY <1>1, RecepcionSiempre, PTL

(* A client that says it is receiving has a thread that receives, so it    *)
(* becomes free again whatever that thread meets on its way.               *)
THEOREM OcupadoSiRecibeSiempre == SpecCliente => []OcupadoSiRecibe
<1> DEFINE I == ~modo.fallan /\ recepcionSt # "DISPONIBLE" =>
                    red = "crea" \/ \E r \in Recepciones : Recibiendo(r)
<1>1. InitCliente => I
  BY DEF InitCliente, Init
<1>2. Tipos /\ I /\ [NextCliente]_<<vars, audioVars>> => I'
  <2> SUFFICES ASSUME Tipos, I, [NextCliente]_<<vars, audioVars>> PROVE I'
    OBVIOUS
  <2>0. receptor \in [Recepciones -> LugaresReceptor]
    BY DEF Tipos, TipoRecibe
  <2>1. ASSUME UNCHANGED <<modo, recepcionSt, receptor>>, red = "crea" => red' = "crea"
        PROVE  I'
    BY <2>1 DEF Recibiendo
  <2>2. CASE RecvPthread /\ UNCHANGED audioVars
    <3>1. modo' = modo
      BY <2>2, RedDeja
    <3>2. CASE FsendCrea
      <4>1. red = "crea" /\ ofertas \in Recepciones
        BY <3>2, EnvioFicheroAssumption DEF FsendCrea, Tipos, TipoRed, Recepciones
      <4>2. recepcionSt' = recepcionSt
            /\ (receptor' = [receptor EXCEPT ![ofertas] = "inicio"] \/ modo.fallan)
        BY <3>2 DEF FsendCrea
      <4> QED
        BY <2>0, <3>1, <4>1, <4>2 DEF Recibiendo
    <3>3. CASE FsendOcupa
      BY <3>3 DEF FsendOcupa
    <3>4. CASE ParseFsend \/ Dialogo \/ FcancelKill \/ FcancelEnvio \/ FcancelNick \/ FcancelHilo
             \/ \E n \in Nicks : ParseFcancel(n)
      BY <2>1, <3>4 DEF ParseFsend, Dialogo, FcancelKill, ParseFcancel, Comprueba,
         FcancelEnvio, FcancelNick, FcancelHilo
    <3> QED
      BY <2>2, <3>2, <3>3, <3>4 DEF RecvPthread
  <2>3. CASE RedAudio
    BY <2>1, <2>3, RedAudioDeja DEF RedAudio, ParseAudiochat, AudioDialogo, AudioCrea,
       ParseAudioexit, AudioexitKill
  <2>4. ASSUME NEW r \in Recepciones, FileRecvFunc(r), UNCHANGED audioVars
        PROVE  I'
    <3>1. receptor'[r] \notin {"no", "fin"} \/ recepcionSt' = "DISPONIBLE"
      BY <2>0, <2>4 DEF FileRecvFunc, RecvInicio, RecvEspera, RecvConecta, RecvMarca, Recv,
         CerrarRecepcion, RecepcionDisponible, Recibe
    <3> QED
      BY <3>1 DEF Recibiendo
  <2>5. CASE UNCHANGED <<vars, audioVars>>
    BY <2>1, <2>5
  <2> QED
    BY <2>1, <2>2, <2>3, <2>4, <2>5, RecepcionAjena DEF NextCliente, Next
<1>3. I => OcupadoSiRecibe
  BY DEF OcupadoSiRecibe
<1> QED
  BY <1>1, <1>2, <1>3, TiposSiempre, PTL DEF SpecCliente
-----------------------------------------------------------------------------
(* What a use of the client excludes.                                      *)

(* Without conversations in one direction nothing of it ever appears, and  *)
(* only a conversation installs its handlers.                              *)
UsoConversa ==
    /\ modo.escuchan = 0 => /\ gui \notin {"audio", "audiocrea", "audiosale"} /\ audio_recv_thread_th = 0
                            /\ \A j \in Escuchas : paso[<<"escucha", j>>] = "no"
                                                   /\ <<"escucha", j>> \notin senales
    /\ modo.hablan = 0 => /\ red \notin {"audio", "audiocrea", "audiosale"} /\ audio_send_thread_th = 0
                          /\ \A i \in Hablas : paso[<<"habla", i>>] = "no"
                                               /\ <<"habla", i>> \notin senales
    /\ sigusr1 = "manejadorexitaudio" \/ sigusr2 = "manejadorexitsend" => HayAudio

(* Only hanging up signals a conversation, and only hanging up one the user*)
(* started runs cerrar_envio outside the threads of file_send.c.           *)
UsoCuelga ==
    /\ ~modo.cuelgan => senales = {} /\ gui # "audiosale" /\ red # "audiosale"
    /\ emisor[Otra] # "no" => modo.cuelgan /\ modo.escuchan > 0

(* Only an FCANCEL that meets a conversation sends the thread of a file to *)
(* the end of that conversation.                                           *)
UsoFcancel ==
    /\ ~modo.cancelan => red \notin {"envio", "nick", "hilo", "mata"}
                         /\ \A i \in Envios : "SIGUSR2" \notin pendiente[i]
    /\ \A i \in Envios : emisor[i] = "ajeno" \/ paso[<<"emisor", i>>] # "no" =>
                            modo.cancelan /\ HayAudio

(* Without files to send nothing of file_send.c appears.                   *)
UsoFicheros ==
    SinFicheros =>
        /\ gui \notin {"ocupa", "crea"} /\ usr1 = {} /\ t_aux = 0
        /\ sigusr1 # "manejador_timeout"
        /\ \A i \in Envios : /\ emisor[i] = "no" /\ reloj[i] = "no"
                             /\ paso[<<"emisor", i>>] = "no" /\ paso[<<"reloj", i>>] = "no"

(* Without files to receive nothing of file_recv_func appears.             *)
UsoRecepcion ==
    modo.recepciones = 0 =>
        red \notin {"dialogo", "ocupa", "crea"} /\ \A r \in Recepciones : receptor[r] = "no"

(* Who receives nothing has no receiving thread, after every step.         *)
LEMMA UsoRecepcionPaso ==
    ASSUME Tipos, UsoRecepcion, [NextCliente]_<<vars, audioVars>>
    PROVE  UsoRecepcion'
<1>0. receptor \in [Recepciones -> LugaresReceptor] /\ ofertas \in Nat /\ modo.recepciones \in Nat
  BY ModoTipo DEF Tipos, TipoInterfaz, TipoRecibe, TipoRed
<1>1. ASSUME modo' = modo, receptor' = receptor,
             red' \in {"dialogo", "ocupa", "crea"} => red \in {"dialogo", "ocupa", "crea"}
      PROVE  UsoRecepcion'
  BY <1>1 DEF UsoRecepcion
<1>2. CASE RecvPthread /\ UNCHANGED audioVars
  <2>1. modo' = modo
    BY <1>2, RedDeja
  <2> QED
    BY <1>0, <1>2, <2>1 DEF RecvPthread, ParseFcancel, Comprueba, FcancelEnvio, FcancelNick,
       FcancelHilo, FcancelKill, ParseFsend, Dialogo, FsendOcupa, FsendCrea, UsoRecepcion
<1>3. ASSUME NEW r \in Recepciones, FileRecvFunc(r), UNCHANGED audioVars
      PROVE  UsoRecepcion'
  <2>1. modo' = modo /\ receptor[r] # "no"
    BY <1>3, ReceptorDeja DEF FileRecvFunc, RecvInicio, RecvEspera, RecvConecta, RecvMarca,
       Recv, CerrarRecepcion, RecepcionDisponible, Recibe
  <2> QED
    BY <1>3, <2>1, ReceptorDeja DEF UsoRecepcion
<1>4. CASE RedAudio
  BY <1>1, <1>4, RedAudioDeja DEF RedAudio, ParseAudiochat, AudioDialogo, AudioCrea,
     ParseAudioexit, AudioexitKill
<1>5. CASE UNCHANGED <<vars, audioVars>>
  BY <1>1, <1>5
<1> QED
  BY <1>1, <1>2, <1>3, <1>4, <1>5, RecepcionAjena DEF NextCliente, Next

(* Who has no conversation has none of its threads or handlers, after every*)
(* step.                                                                   *)
LEMMA UsoConversaPaso ==
    ASSUME Tipos, UsoConversa, [NextCliente]_<<vars, audioVars>>
    PROVE  UsoConversa'
<1>0. /\ paso \in [Hebras -> LugaresAudio] /\ modo.escuchan \in Nat /\ modo.hablan \in Nat
      /\ escuchados \in Nat /\ hablados \in Nat
  BY ModoTipo DEF Tipos, TipoPaso, TipoInterfaz, TipoRed
<1>1. ASSUME UNCHANGED <<modo, audio_recv_thread_th, audio_send_thread_th, paso, senales>>,
             gui' \in {"audio", "audiocrea", "audiosale"} => gui' = gui,
             red' \in {"audio", "audiocrea", "audiosale"} => red' = red,
             sigusr1' = "manejadorexitaudio" => sigusr1' = sigusr1,
             sigusr2' = "manejadorexitsend" => sigusr2' = sigusr2
      PROVE  UsoConversa'
  BY <1>1 DEF UsoConversa, HayAudio
<1>2. CASE Interfaz /\ UNCHANGED audioVars
  BY <1>1, <1>2, InterfazDeja DEF Interfaz, SendFile, SendFileOcupa, SendFileCrea,
     SendFileFalla
<1>3. CASE RecvPthread /\ UNCHANGED audioVars
  BY <1>1, <1>3, RedDeja DEF RecvPthread, ParseFcancel, Comprueba, FcancelEnvio,
     FcancelNick, FcancelHilo, FcancelKill, ParseFsend, Dialogo, FsendOcupa, FsendCrea
<1>4. ASSUME NEW i, FileSendFunc(i), UNCHANGED audioVars
      PROVE  UsoConversa'
  <2>1. sigusr2' \in {sigusr2, "manejador_fcancel"}
    BY <1>4 DEF FileSendFunc, Inicio, InstalaFcancel, CrearSocket, GuardaSocket, Fsend,
       CreaTimeout, EsperaAccept, AceptarConexion, GuardaDesc, IgnoraAlarma, MataTimeout,
       Enviando, Send, CerrarEnvio, CerrarDialogo, CerrarDescriptores, CerrarKill,
       CerrarFree, CerrarHilo, CerrarDisponible, TerminaEnvio
  <2> QED
    BY <1>1, <1>4, <2>1, EmisorDeja
<1>5. ASSUME NEW i \in Envios, TimeoutAceptar(i), UNCHANGED audioVars
      PROVE  UsoConversa'
  BY <1>1, <1>5, RelojDeja DEF TimeoutAceptar, TimeoutSignal, TimeoutSleep, TimeoutFin
<1>6. ASSUME UNCHANGED <<modo, gui, red, audio_recv_thread_th, audio_send_thread_th, paso,
                         senales,
                         sigusr1, sigusr2>>
      PROVE  UsoConversa'
  BY <1>1, <1>6
<1>7. CASE InterfazAudio
  <2>1. UNCHANGED <<modo, red, audio_send_thread_th, sigusr1, sigusr2>>
    BY <1>7, InterfazAudioDeja
  <2>2. CASE modo.escuchan = 0
    <3>1. UNCHANGED <<gui, audio_recv_thread_th, paso, senales>>
      BY <1>0, <1>7, <2>2 DEF UsoConversa, Tipos, TipoInterfaz, InterfazAudio,
         StartAudioChat, StartOcupado, StopAudioChat, StartSocket, StartCrea,
         ExitAudioChat, ExitKill, Senala
    <3> QED
      BY <1>6, <2>1, <3>1
  <2>3. CASE modo.escuchan # 0
    <3>1. \A i \in Hablas : paso'[<<"habla", i>>] = paso[<<"habla", i>>]
                            /\ (<<"habla", i>> \in senales' => <<"habla", i>> \in senales)
      BY <1>0, <1>7 DEF InterfazAudio, StartAudioChat, StartOcupado, StopAudioChat, Hebras,
         StartSocket, StartCrea, ExitAudioChat, ExitKill, Senala, A
    <3> QED
      BY <2>1, <2>3, <3>1 DEF UsoConversa, HayAudio
  <2> QED
    BY <2>2, <2>3
<1>8. CASE RedAudio
  <2>1. UNCHANGED <<modo, gui, audio_recv_thread_th, sigusr1, sigusr2>>
    BY <1>8, RedAudioDeja
  <2>2. CASE modo.hablan = 0
    <3>1. UNCHANGED <<red, audio_send_thread_th, paso, senales>>
      BY <1>0, <1>8, <2>2 DEF UsoConversa, RedAudio, ParseAudiochat, AudioDialogo,
         AudioCrea, ParseAudioexit, AudioexitKill, Senala
    <3> QED
      BY <1>6, <2>1, <3>1
  <2>3. CASE modo.hablan # 0
    <3>1. \A j \in Escuchas : paso'[<<"escucha", j>>] = paso[<<"escucha", j>>]
                              /\ (<<"escucha", j>> \in senales' => <<"escucha", j>> \in senales)
      BY <1>0, <1>8 DEF RedAudio, ParseAudiochat, AudioDialogo, AudioCrea, ParseAudioexit,
         AudioexitKill, Senala, A, Hebras
    <3> QED
      BY <2>1, <2>3, <3>1 DEF UsoConversa, HayAudio
  <2> QED
    BY <2>2, <2>3
<1>9. ASSUME NEW h \in Hebras, CerrarAudio(h)
      PROVE  UsoConversa'
  <2>1. UNCHANGED <<modo, gui, red, senales, sigusr1, sigusr2>>
    BY <1>9, CierreDeja
  <2>2. /\ audio_recv_thread_th' \in {audio_recv_thread_th, 0}
        /\ audio_send_thread_th' \in {audio_send_thread_th, 0}
        /\ paso[h] # "no" /\ \A k \in Hebras : k # h => paso'[k] = paso[k]
    BY <1>0, <1>9 DEF CerrarAudio, SendDatos, SendSocket, SendFin, RecvDisponible,
       RecvDatos, RecvFin, Sale, A, Cierra, En_
  <2> QED
    BY <2>1, <2>2 DEF UsoConversa, HayAudio, Hebras
<1>10. ASSUME NEW i \in Hablas, AudiochatSend(i)
       PROVE  UsoConversa'
  <2>1. UNCHANGED <<modo, gui, red, senales, audio_recv_thread_th, audio_send_thread_th>>
    BY <1>10, HablaDeja
  <2>2. /\ <<"habla", i>> \in Hebras /\ paso[<<"habla", i>>] # "no"
        /\ \A k \in Hebras : k # <<"habla", i>> => paso'[k] = paso[k]
    BY <1>0, <1>10 DEF AudiochatSend, HablaInicio, HablaSocket, HablaAbre, HablaFalla, A,
       En_, Hebras
  <2>3. modo.hablan > 0
    BY <1>0, <2>2 DEF UsoConversa
  <2> QED
    BY <2>1, <2>2, <2>3 DEF UsoConversa, HayAudio, Hebras
<1>11. ASSUME NEW j \in Escuchas, AudiochatRecv(j)
       PROVE  UsoConversa'
  <2>1. UNCHANGED <<modo, gui, red, senales, audio_recv_thread_th, audio_send_thread_th>>
    BY <1>11, EscuchaDeja
  <2>2. /\ <<"escucha", j>> \in Hebras /\ paso[<<"escucha", j>>] # "no"
        /\ \A k \in Hebras : k # <<"escucha", j>> => paso'[k] = paso[k]
    BY <1>0, <1>11 DEF AudiochatRecv, EscuchaInicio, EscuchaAbre, EscuchaFalla, A, En_,
       Hebras
  <2>3. modo.escuchan > 0
    BY <1>0, <2>2 DEF UsoConversa
  <2> QED
    BY <2>1, <2>2, <2>3 DEF UsoConversa, HayAudio, Hebras
<1>12. CASE SenalesAudio
  <2>1. UNCHANGED <<modo, gui, red, audio_recv_thread_th, audio_send_thread_th, sigusr1,
                    sigusr2>>
        /\ senales' \subseteq senales
    BY <1>12, SenalesAudioDeja DEF SenalesAudio, ManejadorHabla, ManejadorEscucha,
       FcancelAjeno, TimeoutAjeno
  <2>2. \E h \in Hebras :
            /\ \A k \in Hebras : k # h => paso'[k] = paso[k]
            /\ \/ h \in senales
               \/ \E i \in Envios : h = <<"emisor", i>> \/ h = <<"reloj", i>>
    <3>1. ASSUME NEW i \in Hablas, ManejadorHabla(i)
          PROVE  /\ <<"habla", i>> \in Hebras \cap senales
                 /\ \A k \in Hebras : k # <<"habla", i>> => paso'[k] = paso[k]
      BY <1>0, <3>1 DEF ManejadorHabla, A, Hebras
    <3>2. ASSUME NEW j \in Escuchas, ManejadorEscucha(j)
          PROVE  /\ <<"escucha", j>> \in Hebras \cap senales
                 /\ \A k \in Hebras : k # <<"escucha", j>> => paso'[k] = paso[k]
      BY <1>0, <3>2 DEF ManejadorEscucha, A, Hebras
    <3>3. ASSUME NEW i \in Envios, FcancelAjeno(i)
          PROVE  /\ <<"emisor", i>> \in Hebras
                 /\ \A k \in Hebras : k # <<"emisor", i>> => paso'[k] = paso[k]
      BY <1>0, <3>3 DEF FcancelAjeno, A, Hebras
    <3>4. ASSUME NEW i \in Envios, TimeoutAjeno(i)
          PROVE  /\ <<"reloj", i>> \in Hebras
                 /\ \A k \in Hebras : k # <<"reloj", i>> => paso'[k] = paso[k]
      BY <1>0, <3>4 DEF TimeoutAjeno, A, Hebras
    <3> QED
      BY <1>12, <3>1, <3>2, <3>3, <3>4, Zenon DEF SenalesAudio
  <2> QED
    BY <2>1, <2>2 DEF UsoConversa, HayAudio, Hebras
<1>13. CASE UNCHANGED <<vars, audioVars>>
  BY <1>6, <1>13
<1> QED
  BY <1>2, <1>3, <1>4, <1>5, <1>6, <1>7, <1>8, <1>9, <1>10, <1>11, <1>12, <1>13,
     ReceptorDeja, SenalesDeja, ConectaDeja DEF NextCliente, Next, FileSendFunc

(* The place in the code of audiochat.c of a thread of the file transfers. *)
LEMMA PasoAjeno ==
    ASSUME Tipos, NEW h \in {"emisor", "reloj"} \X Envios,
           \/ InterfazAudio \/ RedAudio
           \/ \E i \in Hablas : AudiochatSend(i) \/ ManejadorHabla(i)
           \/ \E j \in Escuchas : AudiochatRecv(j) \/ ManejadorEscucha(j)
    PROVE  paso'[h] = paso[h]
<1>0. paso \in [Hebras -> LugaresAudio] /\ h \in Hebras /\ h[1] \notin {"habla", "escucha"}
  BY DEF Tipos, TipoPaso, Hebras
<1>1. CASE InterfazAudio
  BY <1>0, <1>1 DEF InterfazAudio, StartAudioChat, StartOcupado, StopAudioChat,
     StartSocket, StartCrea, ExitAudioChat, ExitKill, A
<1>2. CASE RedAudio
  BY <1>0, <1>2 DEF RedAudio, ParseAudiochat, AudioDialogo, AudioCrea, ParseAudioexit,
     AudioexitKill, A
<1>3. ASSUME NEW i \in Hablas, AudiochatSend(i) \/ ManejadorHabla(i)
      PROVE  paso'[h] = paso[h]
  BY <1>0, <1>3 DEF AudiochatSend, HablaInicio, HablaSocket, HablaAbre, HablaFalla,
     ManejadorHabla, A
<1>4. ASSUME NEW j \in Escuchas, AudiochatRecv(j) \/ ManejadorEscucha(j)
      PROVE  paso'[h] = paso[h]
  BY <1>0, <1>4 DEF AudiochatRecv, EscuchaInicio, EscuchaAbre, EscuchaFalla,
     ManejadorEscucha, A
<1> QED
  BY <1>1, <1>2, <1>3, <1>4

(* What cerrarAudioSend and cerrarAudioRecv do to the thread they end.     *)
LEMMA CierreDe ==
    ASSUME Tipos, NEW h \in Hebras, CerrarAudio(h)
    PROVE  /\ paso[h] \notin {"no", "fin"} /\ \A k \in Hebras : k # h => paso'[k] = paso[k]
           /\ paso'[h] # "no"
           /\ h[1] = "emisor" => emisor[h[2]] = "ajeno"
           /\ h[1] = "reloj" => reloj[h[2]] = "ajeno"
           /\ \/ emisor' = emisor
              \/ h[1] = "emisor" /\ h[2] \in Envios /\ emisor' = [emisor EXCEPT ![h[2]] = "fin"]
           /\ \/ reloj' = reloj
              \/ h[1] = "reloj" /\ h[2] \in Envios /\ reloj' = [reloj EXCEPT ![h[2]] = "fin"]
<1>1. paso \in [Hebras -> LugaresAudio]
  BY DEF Tipos, TipoPaso
<1>2. h[1] \in {"emisor", "reloj"} => h[2] \in Envios
  BY DEF Hebras
<1>3. /\ paso[h] \notin {"no", "fin"} /\ \A k \in Hebras : k # h => paso'[k] = paso[k]
      /\ paso'[h] # "no"
      /\ h[1] = "emisor" => emisor[h[2]] = "ajeno"
      /\ h[1] = "reloj" => reloj[h[2]] = "ajeno"
  BY <1>1 DEF CerrarAudio, SendDatos, SendSocket, SendFin, RecvDisponible, RecvDatos,
     RecvFin, Sale, Cierra, En_, A
<1>4. /\ emisor' = emisor \/ (h[1] = "emisor" /\ emisor' = [emisor EXCEPT ![h[2]] = "fin"])
      /\ reloj' = reloj \/ (h[1] = "reloj" /\ reloj' = [reloj EXCEPT ![h[2]] = "fin"])
  BY DEF CerrarAudio, SendDatos, SendSocket, SendFin, RecvDisponible, RecvDatos, RecvFin,
     Sale
<1> QED
  BY <1>2, <1>3, <1>4

(* A step of a thread that sends, or that runs cerrar_envio.               *)
LEMMA EmisorDe ==
    ASSUME NEW i, FileSendFunc(i)
    PROVE  /\ emisor[i] \notin {"no", "fin", "ajeno"}
           /\ \E a \in Lugares \ {"no", "inicio"} :
                emisor' = [emisor EXCEPT ![i] = a] /\ (emisor[i] = "exit" <=> a = "fin")
BY DEF FileSendFunc, Inicio, InstalaFcancel, CrearSocket, GuardaSocket, Fsend, CreaTimeout,
   EsperaAccept, AceptarConexion, GuardaDesc, IgnoraAlarma, MataTimeout, Enviando, Send,
   CerrarEnvio, CerrarDialogo, CerrarDescriptores, CerrarKill, CerrarFree, CerrarHilo,
   CerrarDisponible, TerminaEnvio, En, Va, Lugares, Cierre, Delicados

(* Without hanging up no conversation is signalled, and cerrar_envio stays *)
(* in its own threads, after every step.                                   *)
LEMMA UsoCuelgaPaso ==
    ASSUME Tipos, UsoConversa, UsoCuelga, [NextCliente]_<<vars, audioVars>>
    PROVE  UsoCuelga'
<1>0. /\ emisor \in [{Otra} \cup Envios -> Lugares \cup {"ajeno"}] /\ Otra \notin Envios
      /\ modo.escuchan \in Nat
  BY ModoTipo DEF Tipos, TipoInterfaz, TipoHilos, Otra, Envios
<1>1. ASSUME modo' = modo, senales' \subseteq senales, emisor'[Otra] = emisor[Otra],
             gui' = "audiosale" => gui = "audiosale", red' = "audiosale" => red = "audiosale"
      PROVE  UsoCuelga'
  BY <1>1 DEF UsoCuelga
<1>2. CASE Interfaz /\ UNCHANGED audioVars
  <2>1. CASE SendFileCrea
    <3>1. hechos # Otra /\ hechos \in Nat
      BY <2>1, EnvioFicheroAssumption DEF SendFileCrea, Tipos, TipoInterfaz, hechos, Otra
    <3> QED
      BY <1>0, <1>1, <1>2, <2>1, <3>1, InterfazDeja DEF SendFileCrea, Va
  <2>2. CASE SendFile \/ SendFileOcupa \/ SendFileFalla
    BY <1>1, <1>2, <2>2, InterfazDeja DEF SendFile, SendFileOcupa, SendFileFalla
  <2> QED
    BY <1>2, <2>1, <2>2 DEF Interfaz
<1>3. ASSUME NEW i \in Envios, FileSendFunc(i), UNCHANGED audioVars
      PROVE  UsoCuelga'
  BY <1>0, <1>1, <1>3, EmisorDe, EmisorDeja
<1>4. CASE CerrarEnvio(Otra) /\ UNCHANGED audioVars
  BY <1>4, EmisorDe, EmisorDeja DEF UsoCuelga, FileSendFunc
<1>5. ASSUME NEW i \in Envios, Senales(i), UNCHANGED audioVars
      PROVE  UsoCuelga'
  <2>1. emisor' = emisor \/ emisor' = [emisor EXCEPT ![i] = "dialogo"]
    BY <1>5 DEF Senales, Manejador, ManejadorTimeout, Va
  <2> QED
    BY <1>0, <1>1, <1>5, <2>1, SenalesDeja
<1>6. CASE InterfazAudio
  <2>1. modo.cuelgan \/ (senales' = senales /\ gui' # "audiosale")
    BY <1>6 DEF InterfazAudio, StartAudioChat, StartOcupado, StopAudioChat, StartSocket,
       StartCrea, ExitAudioChat, ExitKill, UsoCuelga
  <2> QED
    BY <1>6, <2>1, InterfazAudioDeja DEF UsoCuelga
<1>7. CASE RedAudio
  <2>1. modo.cuelgan \/ (senales' = senales /\ red' # "audiosale")
    BY <1>7 DEF RedAudio, ParseAudiochat, AudioDialogo, AudioCrea, ParseAudioexit,
       AudioexitKill, UsoCuelga
  <2> QED
    BY <1>7, <2>1, RedAudioDeja DEF UsoCuelga
<1>8. ASSUME NEW h \in Hebras, CerrarAudio(h)
      PROVE  UsoCuelga'
  BY <1>0, <1>1, <1>8, CierreDe, CierreDeja
<1>9. CASE SenalesAudio
  <2>1. modo' = modo
    BY <1>9, SenalesAudioDeja
  <2>2. ASSUME NEW j \in Escuchas, ManejadorEscucha(j)
        PROVE  UsoCuelga'
    <3>1. <<"escucha", j>> \in senales /\ senales' \subseteq senales
      BY <2>2 DEF ManejadorEscucha
    <3> QED
      BY <1>0, <2>1, <3>1 DEF UsoConversa, UsoCuelga
  <2>3. CASE \/ \E i \in Hablas : ManejadorHabla(i)
             \/ \E i \in Envios : FcancelAjeno(i) \/ TimeoutAjeno(i)
    <3>1. /\ senales' \subseteq senales /\ emisor'[Otra] = emisor[Otra]
          /\ gui' = gui /\ red' = red
      BY <1>0, <2>3 DEF ManejadorHabla, FcancelAjeno, TimeoutAjeno, Va
    <3> QED
      BY <1>1, <2>1, <3>1
  <2> QED
    BY <1>9, <2>2, <2>3 DEF SenalesAudio
<1>10. ASSUME UNCHANGED <<modo, senales, emisor, gui>>, red' = "audiosale" => red = "audiosale"
       PROVE  UsoCuelga'
  BY <1>1, <1>10
<1>11. CASE RecvPthread /\ UNCHANGED audioVars
  <2>1. red' # "audiosale" \/ red' = red
    BY <1>11 DEF RecvPthread, ParseFcancel, Comprueba, FcancelEnvio, FcancelNick, FcancelHilo,
       FcancelKill, ParseFsend, Dialogo, FsendOcupa, FsendCrea
  <2> QED
    BY <1>10, <1>11, <2>1, RedDeja
<1> QED
  BY <1>2, <1>3, <1>4, <1>5, <1>6, <1>7, <1>8, <1>9, <1>10, <1>11, ReceptorDeja,
     RelojDeja, ConectaDeja, HablaDeja, EscuchaDeja DEF NextCliente, Next

(* Without an FCANCEL beside a conversation no handler of the other program*)
(* runs in the thread of a file, after every step.                         *)
LEMMA UsoFcancelPaso ==
    ASSUME Tipos, UsoConversa, UsoFcancel, [NextCliente]_<<vars, audioVars>>
    PROVE  UsoFcancel'
<1>0. /\ emisor \in [{Otra} \cup Envios -> Lugares \cup {"ajeno"}] /\ Otra \notin Envios
      /\ pendiente \in [Envios -> SUBSET {"SIGALRM", "SIGUSR2"}]
      /\ paso \in [Hebras -> LugaresAudio] /\ \A i \in Envios : <<"emisor", i>> \in Hebras
  BY EnvioFicheroAssumption DEF Tipos, TipoHilos, TipoSenales, TipoPaso, Otra, Envios,
     Hebras
<1>1. ASSUME modo' = modo, red' \in {"envio", "nick", "hilo", "mata"} => red' = red,
             \A i \in Envios : /\ pendiente'[i] \subseteq pendiente[i] \cup {"SIGALRM"}
                               /\ emisor'[i] = "ajeno" => emisor[i] = "ajeno"
                               /\ paso'[<<"emisor", i>>] = paso[<<"emisor", i>>]
      PROVE  UsoFcancel'
  BY <1>1 DEF UsoFcancel, HayAudio
<1>2. CASE Interfaz /\ UNCHANGED audioVars
  <2>1. \A i \in Envios : emisor'[i] = "ajeno" => emisor[i] = "ajeno"
    BY <1>0, <1>2 DEF Interfaz, SendFile, SendFileOcupa, SendFileCrea, SendFileFalla, Va
  <2> QED
    BY <1>1, <1>2, <2>1, InterfazDeja
<1>3. CASE RecvPthread /\ UNCHANGED audioVars
  <2>1. CASE modo.cancelan
    BY <1>3, <2>1, RedDeja DEF UsoFcancel, HayAudio
  <2>2. CASE ~modo.cancelan
    <3>1. pendiente' = pendiente /\ red' \notin {"envio", "nick", "hilo", "mata"}
      BY <1>3, <2>2 DEF RecvPthread, ParseFcancel, Comprueba, FcancelEnvio, FcancelNick,
         FcancelHilo, FcancelKill, ParseFsend, Dialogo, FsendOcupa, FsendCrea, UsoFcancel
    <3> QED
      BY <1>1, <1>3, <3>1, RedDeja
  <2> QED
    BY <2>1, <2>2
<1>4. ASSUME NEW i \in {Otra} \cup Envios, FileSendFunc(i), UNCHANGED audioVars
      PROVE  UsoFcancel'
  <2>1. \A k \in Envios : emisor'[k] = "ajeno" => emisor[k] = "ajeno"
    BY <1>0, <1>4, EmisorDe DEF Lugares, Cierre, Delicados
  <2> QED
    BY <1>1, <1>4, <2>1, EmisorDeja
<1>5. ASSUME NEW i \in Envios, TimeoutAceptar(i), UNCHANGED audioVars
      PROVE  UsoFcancel'
  <2>1. \A k \in Envios : pendiente'[k] \subseteq pendiente[k] \cup {"SIGALRM"}
    BY <1>0, <1>5 DEF TimeoutAceptar, TimeoutSignal, TimeoutSleep, TimeoutFin
  <2> QED
    BY <1>1, <1>5, <2>1, RelojDeja
<1>6. ASSUME NEW i \in Envios, Senales(i), UNCHANGED audioVars
      PROVE  UsoFcancel'
  <2>1. /\ emisor' = emisor \/ emisor' = [emisor EXCEPT ![i] = "dialogo"]
        /\ \A k \in Envios : pendiente'[k] \subseteq pendiente[k]
    BY <1>0, <1>6 DEF Senales, Manejador, ManejadorTimeout, Va
  <2> QED
    BY <1>0, <1>1, <1>6, <2>1, SenalesDeja
<1>7. CASE InterfazAudio
  BY <1>1, <1>7, PasoAjeno, InterfazAudioDeja
<1>8. CASE RedAudio
  <2>1. red' \in {"envio", "nick", "hilo", "mata"} => red' = red
    BY <1>8 DEF RedAudio, ParseAudiochat, AudioDialogo, AudioCrea, ParseAudioexit, AudioexitKill
  <2> QED
    BY <1>1, <1>8, <2>1, PasoAjeno, RedAudioDeja
<1>9. ASSUME NEW h \in Hebras, CerrarAudio(h)
      PROVE  UsoFcancel'
  <2>1. \A k \in Envios : emisor'[k] = "ajeno" => emisor[k] = "ajeno"
    BY <1>0, <1>9, CierreDe
  <2>2. \A k \in Envios : paso'[<<"emisor", k>>] # "no" => paso[<<"emisor", k>>] # "no"
    BY <1>0, <1>9, CierreDe
  <2> QED
    BY <1>9, <2>1, <2>2, CierreDeja DEF UsoFcancel, HayAudio
<1>10. CASE \/ \E i \in Hablas : AudiochatSend(i)
            \/ \E j \in Escuchas : AudiochatRecv(j)
  BY <1>1, <1>10, PasoAjeno, HablaDeja, EscuchaDeja
<1>11. CASE SenalesAudio
  <2>1. modo' = modo /\ red' = red
    BY <1>11, SenalesAudioDeja
  <2>2. ASSUME NEW i \in Envios, FcancelAjeno(i)
        PROVE  UsoFcancel'
    <3>1. "SIGUSR2" \in pendiente[i] /\ sigusr2 = "manejadorexitsend"
          /\ pendiente' = [pendiente EXCEPT ![i] = @ \ {"SIGUSR2"}]
      BY <2>2 DEF FcancelAjeno
    <3>2. modo.cancelan /\ HayAudio
      BY <3>1 DEF UsoFcancel, UsoConversa
    <3> QED
      BY <2>1, <3>2 DEF UsoFcancel, HayAudio
  <2>3. ASSUME NEW i \in Envios, TimeoutAjeno(i)
        PROVE  UsoFcancel'
    <3>1. UNCHANGED <<emisor, pendiente>>
          /\ \A k \in Envios : paso'[<<"emisor", k>>] = paso[<<"emisor", k>>]
      BY <1>0, <2>3 DEF TimeoutAjeno, A
    <3> QED
      BY <1>1, <2>1, <3>1
  <2>4. CASE \/ \E i \in Hablas : ManejadorHabla(i)
             \/ \E j \in Escuchas : ManejadorEscucha(j)
    <3>1. pendiente' = pendiente /\ \A k \in Envios : emisor'[k] = emisor[k]
      BY <1>0, <2>4 DEF ManejadorHabla, ManejadorEscucha, Va
    <3> QED
      BY <1>1, <2>1, <2>4, <3>1, PasoAjeno
  <2> QED
    BY <1>11, <2>2, <2>3, <2>4 DEF SenalesAudio
<1>12. ASSUME UNCHANGED <<modo, red, pendiente, emisor, paso>>
       PROVE  UsoFcancel'
  BY <1>1, <1>12
<1> QED
  BY <1>2, <1>3, <1>4, <1>5, <1>6, <1>7, <1>8, <1>9, <1>10, <1>11, <1>12, ReceptorDeja,
     ConectaDeja DEF NextCliente, Next, FileSendFunc

(* Who sends no file has none of the threads of file_send.c, after every   *)
(* step.                                                                   *)
LEMMA UsoFicherosPaso ==
    ASSUME Tipos, UsoFicheros, [NextCliente]_<<vars, audioVars>>
    PROVE  UsoFicheros'
<1>0. /\ emisor \in [{Otra} \cup Envios -> Lugares \cup {"ajeno"}] /\ Otra \notin Envios
      /\ \A i \in Envios : <<"emisor", i>> \in Hebras /\ <<"reloj", i>> \in Hebras
      /\ \A h \in {"emisor", "reloj"} \X Envios : \E i \in Envios : h \in {<<"emisor", i>>, <<"reloj", i>>}
  BY EnvioFicheroAssumption DEF Tipos, TipoHilos, Otra, Envios, Hebras
<1> SUFFICES ASSUME modo.envios = 0, modo' = modo
             PROVE  UsoFicheros'
  <2>1. modo' = modo
    BY InterfazDeja, RedDeja, ReceptorDeja, EmisorDeja, RelojDeja, SenalesDeja,
       ConectaDeja, InterfazAudioDeja, RedAudioDeja, CierreDeja, HablaDeja, EscuchaDeja,
       SenalesAudioDeja DEF NextCliente, Next, FileSendFunc
  <2> QED
    BY <2>1 DEF UsoFicheros, SinFicheros
<1>1. /\ gui \notin {"ocupa", "crea"} /\ usr1 = {} /\ t_aux = 0 /\ sigusr1 # "manejador_timeout"
      /\ \A i \in Envios : /\ emisor[i] = "no" /\ reloj[i] = "no"
                           /\ paso[<<"emisor", i>>] = "no" /\ paso[<<"reloj", i>>] = "no"
  BY DEF UsoFicheros, SinFicheros
<1>2. ASSUME gui' \notin {"ocupa", "crea"}, UNCHANGED <<usr1, reloj>>, t_aux' \in {0, t_aux},
             sigusr1' \in {sigusr1, "manejadorexitaudio"},
             \A i \in Envios : emisor'[i] = emisor[i],
             \A h \in {"emisor", "reloj"} \X Envios : paso'[h] = paso[h]
      PROVE  UsoFicheros'
  BY <1>1, <1>2 DEF UsoFicheros
<1>3. CASE Interfaz /\ UNCHANGED audioVars
  <2>1. hechos \in Nat
    BY DEF hechos, Tipos, TipoInterfaz
  <2> QED
    BY <1>1, <1>3, <2>1 DEF Interfaz, SendFile, SendFileOcupa, SendFileCrea, SendFileFalla
<1>4. ASSUME NEW i \in Envios, FileSendFunc(i) \/ TimeoutAceptar(i) \/ Senales(i)
      PROVE  FALSE
  BY <1>1, <1>4, EmisorDe DEF TimeoutAceptar, TimeoutSignal, TimeoutSleep, TimeoutFin,
     Senales, Manejador, ManejadorTimeout
<1>5. CASE CerrarEnvio(Otra) /\ UNCHANGED audioVars
  <2>1. usr1' = usr1 /\ reloj' = reloj /\ t_aux' = t_aux
    BY <1>1, <1>5 DEF CerrarEnvio, CerrarDialogo, CerrarDescriptores, CerrarKill,
       MataReloj, CerrarFree, CerrarHilo, CerrarDisponible, TerminaEnvio
  <2>2. \A i \in Envios : emisor'[i] = emisor[i]
    BY <1>0, <1>5, EmisorDe DEF FileSendFunc
  <2> QED
    BY <1>1, <1>2, <1>5, <2>1, <2>2, EmisorDeja DEF FileSendFunc
<1>6. CASE InterfazAudio
  <2>1. gui' \notin {"ocupa", "crea"}
    BY <1>1, <1>6 DEF InterfazAudio, StartAudioChat, StartOcupado, StopAudioChat,
       StartSocket, StartCrea, ExitAudioChat, ExitKill
  <2> QED
    BY <1>2, <1>6, <2>1, PasoAjeno, InterfazAudioDeja
<1>7. CASE RedAudio
  BY <1>1, <1>2, <1>7, PasoAjeno, RedAudioDeja
<1>8. ASSUME NEW h \in Hebras, CerrarAudio(h)
      PROVE  UsoFicheros'
  <2>1. /\ paso[h] # "no" /\ \A k \in Hebras : k # h => paso'[k] = paso[k]
        /\ \/ emisor' = emisor
           \/ h[1] = "emisor" /\ h[2] \in Envios /\ emisor' = [emisor EXCEPT ![h[2]] = "fin"]
        /\ \/ reloj' = reloj
           \/ h[1] = "reloj" /\ h[2] \in Envios /\ reloj' = [reloj EXCEPT ![h[2]] = "fin"]
        /\ h[1] = "emisor" => emisor[h[2]] = "ajeno"
        /\ h[1] = "reloj" => reloj[h[2]] = "ajeno"
    BY <1>8, CierreDe
  <2>2. emisor' = emisor /\ reloj' = reloj
    BY <1>1, <2>1
  <2>3. \A k \in {"emisor", "reloj"} \X Envios : paso'[k] = paso[k]
    <3>1. \A i \in Envios : paso[<<"emisor", i>>] = "no" /\ paso[<<"reloj", i>>] = "no"
      BY <1>1
    <3>2. paso[h] # "no"
      BY <2>1
    <3>3. \A i \in Envios : h # <<"emisor", i>> /\ h # <<"reloj", i>>
      BY <3>1, <3>2
    <3>4. \A i \in Envios : /\ paso'[<<"emisor", i>>] = paso[<<"emisor", i>>]
                            /\ paso'[<<"reloj", i>>] = paso[<<"reloj", i>>]
      BY <1>0, <2>1, <3>3
    <3>5. ASSUME NEW k \in {"emisor", "reloj"} \X Envios
          PROVE  paso'[k] = paso[k]
      <4>1. PICK i \in Envios : k = <<"emisor", i>> \/ k = <<"reloj", i>>
        BY <1>0
      <4> QED
        BY <3>4, <4>1
    <3> QED
      BY <3>5
  <2> QED
    BY <1>1, <1>2, <1>8, <2>2, <2>3, CierreDeja
<1>9. CASE \/ \E i \in Hablas : AudiochatSend(i)
           \/ \E j \in Escuchas : AudiochatRecv(j)
  <2>1. sigusr1' \in {sigusr1, "manejadorexitaudio"}
    BY <1>9 DEF AudiochatSend, HablaInicio, HablaSocket, HablaAbre, HablaFalla,
       AudiochatRecv, EscuchaInicio, EscuchaAbre, EscuchaFalla, Instala
  <2> QED
    BY <1>1, <1>2, <1>9, <2>1, PasoAjeno, HablaDeja, EscuchaDeja
<1>10. CASE SenalesAudio
  <2>1. ~\E i \in Envios : FcancelAjeno(i) \/ TimeoutAjeno(i)
    BY <1>1 DEF FcancelAjeno, TimeoutAjeno
  <2>2. \/ \E i \in Hablas : ManejadorHabla(i)
        \/ \E j \in Escuchas : ManejadorEscucha(j)
    BY <1>10, <2>1 DEF SenalesAudio
  <2>3. UNCHANGED <<usr1, reloj>> /\ t_aux' \in {0, t_aux} /\ \A i \in Envios : emisor'[i] = emisor[i]
    BY <1>0, <2>2 DEF ManejadorHabla, ManejadorEscucha, Va
  <2> QED
    BY <1>1, <1>2, <1>10, <2>2, <2>3, PasoAjeno, SenalesAudioDeja
<1>11. ASSUME UNCHANGED <<gui, usr1, reloj, t_aux, sigusr1, emisor, paso>>
       PROVE  UsoFicheros'
  BY <1>1, <1>2, <1>11
<1> QED
  BY <1>3, <1>4, <1>5, <1>6, <1>7, <1>8, <1>9, <1>10, <1>11, RedDeja, ReceptorDeja,
     ConectaDeja DEF NextCliente, Next

(* What a use of the client excludes, all of it.                           *)
UsoInv == UsoConversa /\ UsoCuelga /\ UsoFcancel /\ UsoFicheros /\ UsoRecepcion

(* The parts of the client a use of it does not touch stay as they were.   *)
THEOREM UsoSiempre == SpecCliente => []UsoInv
<1>1. InitCliente => UsoInv
  <2> SUFFICES ASSUME InitCliente PROVE UsoInv
    OBVIOUS
  <2>1. \A i \in Envios : <<"emisor", i>> \in Hebras /\ <<"reloj", i>> \in Hebras
    BY DEF Hebras
  <2>2. /\ \A i \in Hablas : <<"habla", i>> \in Hebras
        /\ \A j \in Escuchas : <<"escucha", j>> \in Hebras
    BY DEF Hebras
  <2> QED
    BY <2>1, <2>2 DEF InitCliente, Init, AudioInit, UsoInv, UsoConversa, UsoCuelga,
       UsoFcancel, UsoFicheros, UsoRecepcion
<1>2. Tipos /\ UsoInv /\ [NextCliente]_<<vars, audioVars>> => UsoInv'
  BY UsoConversaPaso, UsoCuelgaPaso, UsoFcancelPaso, UsoFicherosPaso, UsoRecepcionPaso DEF
     UsoInv
<1> QED
  BY <1>1, <1>2, TiposSiempre, PTL DEF SpecCliente
-----------------------------------------------------------------------------
(* One transfer at a time.                                                 *)

(* The history only grows, so that a late signal is not forgotten.         *)
LEMMA SorpresasCrecen ==
    ASSUME [NextCliente]_<<vars, audioVars>>
    PROVE  sorpresas \subseteq sorpresas' /\ (SinTardias' => SinTardias)
<1>1. ASSUME NEW i, Senales(i)
      PROVE  sorpresas \subseteq sorpresas'
  BY <1>1 DEF Senales, Manejador, ManejadorTimeout, Sorprende
<1>2. ASSUME SenalesAudio
      PROVE  sorpresas \subseteq sorpresas'
  <2>1. ASSUME NEW i, FcancelAjeno(i)
        PROVE  sorpresas \subseteq sorpresas'
    BY <2>1 DEF FcancelAjeno, Sorprende
  <2>2. ASSUME NEW i, ManejadorHabla(i) \/ ManejadorEscucha(i) \/ TimeoutAjeno(i)
        PROVE  sorpresas \subseteq sorpresas'
    BY <2>2 DEF ManejadorHabla, ManejadorEscucha, TimeoutAjeno
  <2> QED
    BY <1>2, <2>1, <2>2 DEF SenalesAudio
<1>3. sorpresas \subseteq sorpresas'
  BY <1>1, <1>2, InterfazDeja, RedDeja, ReceptorDeja, EmisorDeja, RelojDeja, ConectaDeja,
     InterfazAudioDeja, RedAudioDeja, CierreDeja, HablaDeja, EscuchaDeja DEF NextCliente, Next,
     FileSendFunc
<1> QED
  BY <1>3 DEF SinTardias

(* What a handler does to a sending thread: it is noted where it was.      *)
LEMMA SenalesDe ==
    ASSUME Tipos, NEW i \in Envios, Senales(i)
    PROVE  \/ emisor' = emisor
           \/ /\ emisor[i] \notin {"no", "fin"} /\ emisor' = [emisor EXCEPT ![i] = "dialogo"]
              /\ emisor[i] \in Delicados => <<emisor[i], i>> \in sorpresas'
<1>1. ASSUME NEW s, Manejador(i, s)
      PROVE  \/ emisor' = emisor
             \/ /\ emisor[i] \notin {"no", "fin"} /\ emisor' = [emisor EXCEPT ![i] = "dialogo"]
                /\ sorpresas' = sorpresas \cup (({emisor[i]} \cap Delicados) \X {i})
  <2>1. /\ emisor[i] \notin {"no", "fin"}
        /\ \/ emisor' = emisor
           \/ Va(i, "dialogo") /\ Sorprende(i)
    BY <1>1, Zenon DEF Manejador
  <2> QED
    BY <2>1 DEF Va, Sorprende
<1>2. ASSUME sorpresas' = sorpresas \cup (({emisor[i]} \cap Delicados) \X {i}), emisor[i] \in Delicados
      PROVE  <<emisor[i], i>> \in sorpresas'
  BY <1>2
<1>3. CASE ManejadorTimeout(i)
  BY <1>3 DEF ManejadorTimeout
<1> QED
  BY <1>1, <1>2, <1>3 DEF Senales

(* The same of the signals that may run handlers of audiochat.c.           *)
LEMMA SenalesAudioDe ==
    ASSUME Tipos, SenalesAudio
    PROVE  \/ \A i \in Envios : emisor'[i] = emisor[i]
           \/ \E k \in Envios :
                /\ emisor[k] \notin {"no", "fin"} /\ emisor' = [emisor EXCEPT ![k] = "ajeno"]
                /\ emisor[k] \in Delicados => <<emisor[k], k>> \in sorpresas'
<1>0. emisor \in [{Otra} \cup Envios -> Lugares \cup {"ajeno"}] /\ Otra \notin Envios
  BY EnvioFicheroAssumption DEF Tipos, TipoHilos, Otra, Envios
<1>1. CASE \E i \in Envios : FcancelAjeno(i)
  BY <1>0, <1>1 DEF FcancelAjeno, Va, Sorprende
<1>2. CASE ~\E i \in Envios : FcancelAjeno(i)
  BY <1>0, <1>2 DEF SenalesAudio, ManejadorHabla, ManejadorEscucha, TimeoutAjeno, Va
<1> QED
  BY <1>1, <1>2

(* Only the interface starts a transfer, if no signal comes late.          *)
LEMMA EnCursoMengua ==
    ASSUME Tipos, NextCliente, ~(Interfaz /\ UNCHANGED audioVars)
    PROVE  \A i \in Envios : /\ SinTardias' /\ EnCurso(i)' => EnCurso(i)
                             /\ emisor'[i] = "no" <=> emisor[i] = "no"
                             /\ emisor'[i] = "inicio" => emisor[i] = "inicio"
<1>0. emisor \in [{Otra} \cup Envios -> Lugares \cup {"ajeno"}] /\ Otra \notin Envios
  BY EnvioFicheroAssumption DEF Tipos, TipoHilos, Otra, Envios
<1>1. ASSUME NEW k \in {Otra} \cup Envios, FileSendFunc(k)
      PROVE  \A i \in Envios : /\ EnCurso(i)' => EnCurso(i)
                               /\ emisor'[i] = "no" <=> emisor[i] = "no"
                               /\ emisor'[i] = "inicio" => emisor[i] = "inicio"
  BY <1>0, <1>1, EmisorDe DEF EnCurso
<1>2. ASSUME NEW k \in Envios, NEW a \in {"dialogo", "ajeno"},
             emisor[k] \notin {"no", "fin"}, emisor' = [emisor EXCEPT ![k] = a],
             emisor[k] \in Delicados => <<emisor[k], k>> \in sorpresas'
      PROVE  \A i \in Envios : /\ SinTardias' /\ EnCurso(i)' => EnCurso(i)
                               /\ emisor'[i] = "no" <=> emisor[i] = "no"
                               /\ emisor'[i] = "inicio" => emisor[i] = "inicio"
  BY <1>0, <1>2 DEF EnCurso, SinTardias, Delicados
<1>3. ASSUME NEW h \in Hebras, CerrarAudio(h)
      PROVE  \A i \in Envios : /\ EnCurso(i)' => EnCurso(i)
                               /\ emisor'[i] = "no" <=> emisor[i] = "no"
                               /\ emisor'[i] = "inicio" => emisor[i] = "inicio"
  BY <1>0, <1>3, CierreDe DEF EnCurso
<1>4. ASSUME \A i \in Envios : emisor'[i] = emisor[i]
      PROVE  \A i \in Envios : /\ EnCurso(i)' => EnCurso(i)
                               /\ emisor'[i] = "no" <=> emisor[i] = "no"
                               /\ emisor'[i] = "inicio" => emisor[i] = "inicio"
  BY <1>4 DEF EnCurso
<1>5. ASSUME NEW k \in Envios, Senales(k)
      PROVE  \A i \in Envios : /\ SinTardias' /\ EnCurso(i)' => EnCurso(i)
                               /\ emisor'[i] = "no" <=> emisor[i] = "no"
                               /\ emisor'[i] = "inicio" => emisor[i] = "inicio"
  BY <1>2, <1>4, <1>5, SenalesDe
<1>6. CASE SenalesAudio
  BY <1>2, <1>4, <1>6, SenalesAudioDe
<1> QED
  BY <1>1, <1>3, <1>4, <1>5, <1>6, RedDeja, ReceptorDeja, RelojDeja, ConectaDeja,
     InterfazAudioDeja, RedAudioDeja, HablaDeja, EscuchaDeja DEF NextCliente, Next,
     FileSendFunc

(* Who makes the client available.                                         *)
LEMMA EnvioStLibre ==
    ASSUME NextCliente, envioSt' = "DISPONIBLE", envioSt # "DISPONIBLE",
           ~(Interfaz /\ UNCHANGED audioVars)
    PROVE  \E i \in {Otra} \cup Envios : CerrarDisponible(i) /\ UNCHANGED audioVars
<1>1. ASSUME NEW i \in {Otra} \cup Envios, FileSendFunc(i)
      PROVE  CerrarDisponible(i)
  BY <1>1 DEF FileSendFunc, Inicio, InstalaFcancel, CrearSocket, GuardaSocket, Fsend,
     CreaTimeout, EsperaAccept, AceptarConexion, GuardaDesc, IgnoraAlarma, MataTimeout,
     Enviando, Send, CerrarEnvio, CerrarDialogo, CerrarDescriptores, CerrarKill, CerrarFree,
     CerrarHilo, TerminaEnvio
<1>2. ASSUME NEW r \in Recepciones, FileRecvFunc(r)
      PROVE  FALSE
  BY <1>2 DEF FileRecvFunc, RecvInicio, RecvEspera, RecvConecta, RecvMarca, Recv,
     CerrarRecepcion, RecepcionDisponible
<1> QED
  BY <1>1, <1>2, RedDeja, RelojDeja, SenalesDeja, ConectaDeja, InterfazAudioDeja,
     RedAudioDeja, CierreDeja, HablaDeja, EscuchaDeja, SenalesAudioDeja DEF NextCliente,
     Next, FileSendFunc

(* Only the interface gets in or out of the steps that prepare a transfer. *)
LEMMA GuiAjena ==
    ASSUME NextCliente, ~(Interfaz /\ UNCHANGED audioVars)
    PROVE  UNCHANGED <<modo, destino>>
           /\ (gui' = gui \/ (gui \notin {"ocupa", "crea"} /\ gui' \notin {"ocupa", "crea"}))
<1>1. CASE InterfazAudio
  BY <1>1, InterfazAudioDeja DEF InterfazAudio, StartAudioChat, StartOcupado,
     StopAudioChat, StartSocket, StartCrea, ExitAudioChat, ExitKill
<1> QED
  BY <1>1, RedDeja, ReceptorDeja, EmisorDeja, RelojDeja, SenalesDeja, ConectaDeja,
     RedAudioDeja, CierreDeja, HablaDeja, EscuchaDeja, SenalesAudioDeja DEF NextCliente,
     Next, FileSendFunc

(* Transfers get their numbers in order, and the one being prepared has no *)
(* thread yet.                                                             *)
Numerados ==
    /\ hechos <= modo.envios
    /\ \A i \in Envios : emisor[i] # "no" => i <= hechos
    /\ gui = "crea" => emisor[hechos] = "no"

(* cliente.envio is taken by the interface before there is a thread, and   *)
(* given back by that thread when it has nothing left to do but to end.    *)
EnvioSolo ==
    ~(modo.cuelgan /\ modo.escuchan > 0) /\ SinTardias =>
        /\ \A i, j \in Envios : EnCurso(i) /\ EnCurso(j) => i = j
        /\ gui \in {"ocupa", "crea"} => \A i \in Envios : ~EnCurso(i)
        /\ gui = "crea" => envioSt # "DISPONIBLE"
        /\ \A i \in Envios : EnCurso(i) => envioSt # "DISPONIBLE"

(* The numbering holds after every step.                                   *)
LEMMA NumeradosPaso ==
    ASSUME Tipos, Numerados, [NextCliente]_<<vars, audioVars>>
    PROVE  Numerados'
<1>0. /\ emisor \in [{Otra} \cup Envios -> Lugares \cup {"ajeno"}]
      /\ destino \in Seq(Nicks) /\ Len(destino) \in Nat /\ Len(destino) <= MaxEnvios
      /\ modo.envios \in 0..MaxEnvios /\ MaxEnvios \in Nat
      /\ gui = "ocupa" => Len(destino) < modo.envios
      /\ gui = "crea" => Len(destino) > 0
  BY ModoTipo DEF Tipos, TipoHilos, TipoInterfaz
<1>1. CASE Interfaz /\ UNCHANGED audioVars
  <2>1. modo' = modo
    BY <1>1, InterfazDeja
  <2>2. CASE SendFile \/ SendFileFalla
    BY <2>1, <2>2 DEF SendFile, SendFileFalla, Numerados, hechos
  <2>3. CASE SendFileOcupa
    <3>1. PICK n \in Nicks : destino' = Append(destino, n)
      BY <2>3 DEF SendFileOcupa
    <3>2. Len(destino') = Len(destino) + 1 /\ emisor' = emisor /\ gui = "ocupa"
      BY <1>0, <2>3, <3>1 DEF SendFileOcupa
    <3>3. Len(destino) + 1 \in Envios
      BY <1>0, <3>2 DEF Envios
    <3>4. \A i \in Envios : emisor[i] # "no" => i <= Len(destino)
      BY DEF Numerados, hechos
    <3>5. emisor[Len(destino) + 1] = "no"
      BY <1>0, <3>3, <3>4 DEF Envios
    <3>6. \A i \in Envios : emisor[i] # "no" => i <= Len(destino) + 1
      BY <1>0, <3>4 DEF Envios
    <3> QED
      BY <1>0, <2>1, <3>2, <3>5, <3>6 DEF Numerados, hechos
  <2>4. CASE SendFileCrea
    <3>1. destino' = destino /\ gui' = "libre" /\ emisor' = [emisor EXCEPT ![Len(destino)] = "inicio"]
      BY <2>4 DEF SendFileCrea, Va, hechos
    <3> QED
      BY <1>0, <2>1, <3>1 DEF Numerados, hechos, Envios
  <2> QED
    BY <1>1, <2>2, <2>3, <2>4 DEF Interfaz
<1>2. CASE NextCliente /\ ~(Interfaz /\ UNCHANGED audioVars)
  <2>1. gui = "crea" => hechos \in Envios
    BY <1>0 DEF Envios, hechos
  <2>2. hechos' = hechos /\ modo' = modo /\ (gui' = "crea" => gui = "crea")
    BY <1>2, GuiAjena DEF hechos
  <2>3. \A i \in Envios : emisor'[i] = "no" <=> emisor[i] = "no"
    BY <1>2, EnCursoMengua
  <2> QED
    BY <2>1, <2>2, <2>3 DEF Numerados
<1>3. CASE UNCHANGED <<vars, audioVars>>
  BY <1>3 DEF Numerados, hechos
<1> QED
  BY <1>1, <1>2, <1>3

(* One transfer at a time after every step: the interface looks at         *)
(* cliente.envio and takes it in two steps, but nobody else ever takes it. *)
LEMMA EnvioSoloPaso ==
    ASSUME Tipos, UsoInv, EnvioSolo, [NextCliente]_<<vars, audioVars>>
    PROVE  EnvioSolo'
<1>0. /\ emisor \in [{Otra} \cup Envios -> Lugares \cup {"ajeno"}] /\ Otra \notin Envios
  BY EnvioFicheroAssumption DEF Tipos, TipoHilos, Otra, Envios
<1> SUFFICES ASSUME SinTardias', SinTardias
             PROVE  EnvioSolo'
  BY SorpresasCrecen DEF EnvioSolo
<1>1. CASE Interfaz /\ UNCHANGED audioVars
  <2>1. modo' = modo
    BY <1>1, InterfazDeja
  <2>2. CASE SendFile
    BY <2>1, <2>2 DEF SendFile, EnvioSolo, EnCurso
  <2>3. CASE SendFileOcupa
    BY <2>1, <2>3 DEF SendFileOcupa, EnvioSolo, EnCurso
  <2>4. CASE SendFileCrea
    <3>1. gui = "crea" /\ gui' = "libre" /\ envioSt' = envioSt /\ emisor' = [emisor EXCEPT ![hechos] = "inicio"]
      BY <2>4 DEF SendFileCrea, Va
    <3> QED
      BY <1>0, <2>1, <3>1 DEF EnvioSolo, EnCurso
  <2>5. CASE SendFileFalla
    BY <2>1, <2>5 DEF SendFileFalla, EnvioSolo, EnCurso
  <2> QED
    BY <1>1, <2>2, <2>3, <2>4, <2>5 DEF Interfaz
<1>2. CASE NextCliente /\ ~(Interfaz /\ UNCHANGED audioVars)
  <2>1. /\ modo' = modo
        /\ gui' \in {"ocupa", "crea"} => gui' = gui
        /\ \A i \in Envios : EnCurso(i)' => EnCurso(i)
    BY <1>2, GuiAjena, EnCursoMengua
  <2>2. CASE envioSt' = "DISPONIBLE" /\ envioSt # "DISPONIBLE"
    <3>1. PICK i \in {Otra} \cup Envios : CerrarDisponible(i)
      BY <1>2, <2>2, EnvioStLibre
    <3>2. emisor[i] = "disponible" /\ emisor' = [emisor EXCEPT ![i] = "exit"]
      BY <3>1 DEF CerrarDisponible, En, Va
    <3>3. CASE i = Otra
      BY <2>1, <3>2, <3>3 DEF UsoInv, UsoCuelga, EnvioSolo
    <3>4. CASE i \in Envios
      <4>1. EnCurso(i) /\ ~EnCurso(i)'
        BY <1>0, <3>2, <3>4 DEF EnCurso
      <4> QED
        BY <2>1, <3>4, <4>1 DEF EnvioSolo
    <3> QED
      BY <3>3, <3>4
  <2>3. CASE envioSt' = "DISPONIBLE" => envioSt = "DISPONIBLE"
    BY <2>1, <2>3 DEF EnvioSolo
  <2> QED
    BY <2>2, <2>3
<1>3. CASE UNCHANGED <<vars, audioVars>>
  BY <1>3 DEF EnvioSolo, EnCurso
<1> QED
  BY <1>1, <1>2, <1>3

(* One transfer at a time, in the form that is inductive.                  *)
THEOREM EnvioSoloSiempre == SpecCliente => [](Numerados /\ EnvioSolo)
<1>1. InitCliente => Numerados /\ EnvioSolo
  <2> SUFFICES ASSUME InitCliente PROVE Numerados /\ EnvioSolo
    OBVIOUS
  <2>1. hechos = 0 /\ modo.envios \in Nat
    BY ModoTipo DEF InitCliente, Init, hechos
  <2> QED
    BY <2>1 DEF InitCliente, Init, Numerados, EnvioSolo, EnCurso
<1>2. Tipos /\ UsoInv /\ Numerados /\ EnvioSolo /\ [NextCliente]_<<vars, audioVars>>
        => (Numerados /\ EnvioSolo)'
  BY NumeradosPaso, EnvioSoloPaso
<1> QED
  BY <1>1, <1>2, TiposSiempre, UsoSiempre, PTL DEF SpecCliente

(* Which is what the run checks.                                           *)
LEMMA EnvioSoloDa ==
    ASSUME Tipos, Numerados, EnvioSolo
    PROVE  UnSoloEnvio
<1>1. CASE modo.cuelgan /\ modo.escuchan > 0
  <2> SUFFICES ASSUME modo.envios <= 1, NEW i \in Envios, NEW j \in Envios, EnCurso(i), EnCurso(j)
               PROVE  i = j
    BY <1>1, ModoTipo DEF UnSoloEnvio, CierraOtro, Tipos, TipoInterfaz
  <2>1. i <= hechos /\ j <= hechos /\ hechos <= modo.envios
    BY DEF Numerados, EnCurso
  <2>2. hechos \in Nat /\ modo.envios \in Nat
    BY ModoTipo DEF Tipos, TipoInterfaz, hechos
  <2> QED
    BY <2>1, <2>2 DEF Envios
<1>2. CASE ~(modo.cuelgan /\ modo.escuchan > 0)
  BY <1>2 DEF EnvioSolo, UnSoloEnvio
<1> QED
  BY <1>1, <1>2

(* No two threads are in file_send_func or in its cerrar_envio, so the     *)
(* globals of file_send.c (envio, socket_envio, desc_envio) have one user: *)
(* as long as no signal comes after cliente.envio = DISPONIBLE and nobody  *)
(* hangs up a conversation beside two transfers (CierraOtro).              *)
THEOREM UnSoloEnvioSiempre == SpecCliente => []UnSoloEnvio
BY TiposSiempre, EnvioSoloSiempre, EnvioSoloDa, PTL
-----------------------------------------------------------------------------
(* The client is free again.                                               *)

(* Who makes the client busy, and how a transfer ends.                     *)
LEMMA EnvioStOcupa ==
    ASSUME Tipos, NextCliente, envioSt' # "DISPONIBLE", envioSt = "DISPONIBLE",
           ~(Interfaz /\ UNCHANGED audioVars)
    PROVE  \/ \E i \in Envios : EnCurso(i)'
           \/ \E r \in Recepciones : receptor[r] # "no"
<1>0. emisor \in [{Otra} \cup Envios -> Lugares \cup {"ajeno"}]
  BY DEF Tipos, TipoHilos
<1>1. ASSUME NEW i \in {Otra} \cup Envios, CerrarEnvio(i)
      PROVE  FALSE
  BY <1>1 DEF CerrarEnvio, CerrarDialogo, CerrarDescriptores, CerrarKill, CerrarFree,
     CerrarHilo, CerrarDisponible, TerminaEnvio
<1>2. ASSUME NEW i \in Envios, FileSendFunc(i)
      PROVE  EnCurso(i)'
  BY <1>0, <1>1, <1>2 DEF FileSendFunc, Inicio, InstalaFcancel, CrearSocket, GuardaSocket,
     Fsend, CreaTimeout, EsperaAccept, AceptarConexion, GuardaDesc, IgnoraAlarma,
     MataTimeout, Enviando, Send, Va, EnCurso
<1>3. ASSUME NEW r \in Recepciones, FileRecvFunc(r)
      PROVE  receptor[r] # "no"
  BY <1>3 DEF FileRecvFunc, RecvInicio, RecvEspera, RecvConecta, RecvMarca, Recv,
     CerrarRecepcion, RecepcionDisponible, Recibe
<1> QED
  BY <1>1, <1>2, <1>3, RedDeja, RelojDeja, SenalesDeja, ConectaDeja, InterfazAudioDeja,
     RedAudioDeja, CierreDeja, HablaDeja, EscuchaDeja, SenalesAudioDeja DEF NextCliente,
     Next

(* A transfer ends in cerrar_envio, or in what a handler of audiochat.c    *)
(* runs in its thread.                                                     *)
LEMMA EnCursoAcaba ==
    ASSUME Tipos, NextCliente, NEW i \in Envios, EnCurso(i), ~EnCurso(i)'
    PROVE  CerrarDisponible(i) \/ emisor[i] = "ajeno"
<1>0. emisor \in [{Otra} \cup Envios -> Lugares \cup {"ajeno"}] /\ Otra \notin Envios
  BY EnvioFicheroAssumption DEF Tipos, TipoHilos, Otra, Envios
<1>1. ASSUME NEW k \in {Otra} \cup Envios, FileSendFunc(k)
      PROVE  CerrarDisponible(i)
  <2>1. k = i /\ emisor'[i] = "exit"
    BY <1>0, <1>1, EmisorDe DEF EnCurso
  <2> QED
    BY <1>0, <1>1, <2>1 DEF FileSendFunc, Inicio, InstalaFcancel, CrearSocket, GuardaSocket,
       Fsend, CreaTimeout, EsperaAccept, AceptarConexion, GuardaDesc, IgnoraAlarma,
       MataTimeout, Enviando, Send, CerrarEnvio, CerrarDialogo, CerrarDescriptores,
       CerrarKill, CerrarFree, CerrarHilo, TerminaEnvio, Va
<1>2. CASE Interfaz
  BY <1>0, <1>2 DEF Interfaz, SendFile, SendFileOcupa, SendFileCrea, SendFileFalla, Va,
     EnCurso
<1>3. ASSUME NEW k \in Envios, Senales(k)
      PROVE  FALSE
  BY <1>0, <1>3 DEF Senales, Manejador, ManejadorTimeout, Va, EnCurso
<1>4. ASSUME NEW h \in Hebras, CerrarAudio(h)
      PROVE  emisor[i] = "ajeno"
  BY <1>0, <1>4, CierreDe DEF EnCurso
<1>5. CASE SenalesAudio
  BY <1>0, <1>5 DEF SenalesAudio, ManejadorHabla, ManejadorEscucha, FcancelAjeno,
     TimeoutAjeno, Va, EnCurso
<1>6. emisor' # emisor
  BY DEF EnCurso
<1> QED
  BY <1>1, <1>2, <1>3, <1>4, <1>5, <1>6, RedDeja, ReceptorDeja, RelojDeja, ConectaDeja,
     InterfazAudioDeja, RedAudioDeja, HablaDeja, EscuchaDeja DEF NextCliente, Next,
     FileSendFunc

(* Timeouts, refusals, failures and FCANCELs, in any order, leave the      *)
(* client free to send again: it says it is busy only while there is a     *)
(* transfer.  Without receptions, and without FCANCEL beside conversations.*)
THEOREM LibreTrasEnviarSiempre == SpecCliente => []LibreTrasEnviar
<1> DEFINE I == modo.recepciones = 0 /\ ~(modo.cancelan /\ HayAudio) /\ envioSt # "DISPONIBLE"
                    => gui = "crea" \/ \E i \in Envios : EnCurso(i)
<1>1. InitCliente => I
  BY DEF InitCliente, Init
<1>2. Tipos /\ UsoInv /\ I /\ [NextCliente]_<<vars, audioVars>> => I'
  <2> SUFFICES ASSUME Tipos, UsoInv, I, [NextCliente]_<<vars, audioVars>>,
                      modo'.recepciones = 0, ~(modo'.cancelan /\ HayAudio'), envioSt' # "DISPONIBLE"
               PROVE  gui' = "crea" \/ \E i \in Envios : EnCurso(i)'
    OBVIOUS
  <2>0. /\ emisor \in [{Otra} \cup Envios -> Lugares \cup {"ajeno"}]
        /\ gui = "crea" => hechos \in Envios
    BY EnvioFicheroAssumption DEF Tipos, TipoHilos, TipoInterfaz, hechos, Envios
  <2>1. CASE Interfaz /\ UNCHANGED audioVars
    <3>1. modo' = modo
      BY <2>1, InterfazDeja
    <3>2. CASE SendFile \/ SendFileOcupa \/ SendFileFalla
      BY <3>2 DEF SendFile, SendFileOcupa, SendFileFalla
    <3>3. CASE SendFileCrea
      BY <2>0, <3>3 DEF SendFileCrea, Va, EnCurso
    <3> QED
      BY <2>1, <3>2, <3>3 DEF Interfaz
  <2>2. CASE NextCliente /\ ~(Interfaz /\ UNCHANGED audioVars)
    <3>1. modo' = modo /\ (gui = "crea" => gui' = "crea") /\ modo.recepciones = 0 /\ ~(modo.cancelan /\ HayAudio)
      BY <2>2, GuiAjena DEF HayAudio
    <3>2. \A r \in Recepciones : receptor[r] = "no"
      BY <3>1 DEF UsoInv, UsoRecepcion
    <3>3. \A i \in Envios : emisor[i] # "ajeno"
      BY <3>1 DEF UsoInv, UsoFcancel
    <3>4. CASE envioSt = "DISPONIBLE"
      BY <2>2, <3>2, <3>4, EnvioStOcupa
    <3>5. ASSUME NEW i \in Envios, EnCurso(i)
          PROVE  EnCurso(i)'
      <4>1. ~CerrarDisponible(i)
        BY DEF CerrarDisponible
      <4> QED
        BY <2>2, <3>3, <3>5, <4>1, EnCursoAcaba
    <3> QED
      BY <3>1, <3>4, <3>5
  <2>3. CASE UNCHANGED <<vars, audioVars>>
    BY <2>3 DEF EnCurso, HayAudio
  <2> QED
    BY <2>1, <2>2, <2>3
<1>3. I => LibreTrasEnviar
  BY DEF LibreTrasEnviar, OcupadoSiEnvia
<1> QED
  BY <1>1, <1>2, <1>3, TiposSiempre, UsoSiempre, PTL DEF SpecCliente
-----------------------------------------------------------------------------
(* What a transfer holds is its own, and is given back.                    *)

(* A process that has died takes no step.                                  *)
LEMMA SoloVivo ==
    ASSUME NextCliente
    PROVE  Vivo
<1>1. ASSUME NEW i, FileSendFunc(i) \/ TimeoutAceptar(i) \/ Senales(i) \/ Conecta(i)
      PROVE  Vivo
  BY <1>1 DEF FileSendFunc, Inicio, InstalaFcancel, CrearSocket, GuardaSocket, Fsend,
     CreaTimeout, EsperaAccept, AceptarConexion, GuardaDesc, IgnoraAlarma, MataTimeout,
     Enviando, Send, CerrarEnvio, CerrarDialogo, CerrarDescriptores, CerrarKill, CerrarFree,
     CerrarHilo, CerrarDisponible, TerminaEnvio, En, TimeoutAceptar, TimeoutSignal,
     TimeoutSleep, TimeoutFin, Senales, Manejador, ManejadorTimeout, Conecta
<1>2. CASE Interfaz \/ RecvPthread \/ \E r \in Recepciones : FileRecvFunc(r)
  BY <1>2 DEF Interfaz, SendFile, SendFileOcupa, SendFileCrea, SendFileFalla, RecvPthread,
     ParseFcancel, Comprueba, FcancelEnvio, FcancelNick, FcancelHilo, FcancelKill,
     ParseFsend, Dialogo, FsendOcupa, FsendCrea, FileRecvFunc, RecvInicio, RecvEspera,
     RecvConecta, RecvMarca, Recv, CerrarRecepcion, RecepcionDisponible, Recibe
<1>3. CASE InterfazAudio \/ RedAudio \/ SenalesAudio
  BY <1>3 DEF InterfazAudio, StartAudioChat, StartOcupado, StopAudioChat, StartSocket,
     StartCrea, ExitAudioChat, ExitKill, RedAudio, ParseAudiochat, AudioDialogo, AudioCrea,
     ParseAudioexit, AudioexitKill, SenalesAudio, ManejadorHabla, ManejadorEscucha,
     FcancelAjeno, TimeoutAjeno
<1>4. CASE \E h \in Hebras : CerrarAudio(h)
  BY <1>4 DEF CerrarAudio, SendDatos, SendSocket, SendFin, RecvDisponible, RecvDatos,
     RecvFin, Cierra, En_
<1>5. CASE \E i \in Hablas : AudiochatSend(i)
  BY <1>5 DEF AudiochatSend, HablaInicio, HablaSocket, HablaAbre, HablaFalla, En_
<1>6. CASE \E j \in Escuchas : AudiochatRecv(j)
  BY <1>6 DEF AudiochatRecv, EscuchaInicio, EscuchaAbre, EscuchaFalla, En_
<1> QED
  BY <1>1, <1>2, <1>3, <1>4, <1>5, <1>6 DEF NextCliente, Next, FileSendFunc

(* What a transfer has open, unless a handler ended its thread before the  *)
(* global that is to hold the descriptor did.                              *)
ConSocket(i) == <<"socket", i>> \in abiertos /\ <<"guardasocket", i>> \notin sorpresas
ConDesc(i) == <<"desc", i>> \in abiertos /\ <<"guardadesc", i>> \notin sorpresas

(* It is named by the globals from which cerrar_envio closes it, until it  *)
(* is closed, or is about to be stored in them.                            *)
DevueltoInv ==
    ~CierraOtro /\ SinTardias /\ ~(modo.cancelan /\ HayAudio) =>
        /\ envio # 0 => emisor[envio] \notin {"no", "inicio", "hilo", "disponible", "exit", "fin"}
        /\ \A i \in Envios :
            /\ emisor[i] \in {"no", "inicio", "kill", "free", "hilo", "disponible", "exit", "fin"}
                    => ~ConSocket(i) /\ ~ConDesc(i)
            /\ ConSocket(i) => socket_envio = i \/ emisor[i] = "guardasocket"
            /\ ConDesc(i) => desc_envio = i \/ emisor[i] = "guardadesc"
            /\ Vivo /\ emisor[i] \in {"hilo", "disponible", "exit", "fin"} => i \notin reservado

(* A handler took the thread of transfer i from where it was.              *)
Atrapado(i) ==
    /\ emisor[i] \notin {"no", "fin"} /\ emisor'[i] \in {"ajeno", "dialogo"}
    /\ emisor[i] \in Delicados => <<emisor[i], i>> \in sorpresas'

(* A step of a thread that is neither sending nor running cerrar_envio.    *)
LEMMA DevueltoAjeno ==
    ASSUME Tipos, UsoInv, DevueltoInv, NextCliente,
           UNCHANGED <<modo, socket_envio, desc_envio, reservado, envio>>,
           \A i \in Envios : (<<"socket", i>> \in abiertos' => <<"socket", i>> \in abiertos)
                             /\ (<<"desc", i>> \in abiertos' => <<"desc", i>> \in abiertos),
           \A i \in Envios : emisor'[i] = emisor[i] \/ Atrapado(i)
    PROVE  DevueltoInv'
<1> SUFFICES ASSUME ~CierraOtro, ~(modo.cancelan /\ HayAudio), SinTardias, SinTardias'
             PROVE  DevueltoInv'
  BY SorpresasCrecen DEF DevueltoInv, CierraOtro, HayAudio
<1>1. Vivo /\ (envio # 0 => envio \in Envios) /\ sorpresas \subseteq sorpresas'
  BY SoloVivo, SorpresasCrecen, EnvioFicheroAssumption DEF Tipos, TipoEnvia, Envios
<1>2. \A i \in Envios :
        \/ emisor'[i] = emisor[i]
        \/ /\ EnCurso(i) /\ emisor'[i] \in {"ajeno", "dialogo"}
           /\ emisor[i] = "guardasocket" => <<"guardasocket", i>> \in sorpresas'
           /\ emisor[i] = "guardadesc" => <<"guardadesc", i>> \in sorpresas'
  BY DEF Atrapado, EnCurso, Delicados, SinTardias
<1>3. \A i \in Envios : (ConSocket(i)' => ConSocket(i)) /\ (ConDesc(i)' => ConDesc(i))
  BY <1>1 DEF ConSocket, ConDesc
<1>4. envio' # 0 => emisor'[envio'] \notin {"no", "inicio", "hilo", "disponible", "exit", "fin"}
  BY <1>1, <1>2 DEF DevueltoInv
<1>5. ASSUME NEW i \in Envios
      PROVE  /\ emisor'[i] \in {"no", "inicio", "kill", "free", "hilo", "disponible", "exit", "fin"}
                    => ~ConSocket(i)' /\ ~ConDesc(i)'
             /\ ConSocket(i)' => socket_envio' = i \/ emisor'[i] = "guardasocket"
             /\ ConDesc(i)' => desc_envio' = i \/ emisor'[i] = "guardadesc"
             /\ emisor'[i] \in {"hilo", "disponible", "exit", "fin"} => i \notin reservado'
  <2>1. CASE emisor'[i] = emisor[i]
    BY <1>1, <1>3, <2>1 DEF DevueltoInv
  <2>2. CASE emisor'[i] # emisor[i]
    <3>1. /\ emisor'[i] \in {"ajeno", "dialogo"}
          /\ emisor[i] = "guardasocket" => ~ConSocket(i)'
          /\ emisor[i] = "guardadesc" => ~ConDesc(i)'
      BY <1>2, <2>2 DEF ConSocket, ConDesc
    <3> QED
      BY <1>3, <3>1 DEF DevueltoInv
  <2> QED
    BY <2>1, <2>2
<1> QED
  BY <1>4, <1>5 DEF DevueltoInv

(* That correspondence after a step of the thread that sends.              *)
LEMMA DevueltoEmisor ==
    ASSUME Tipos, UsoInv, UnSoloEnvio, DevueltoInv,
           NEW i \in Envios, FileSendFunc(i), UNCHANGED audioVars
    PROVE  DevueltoInv'
<1>0. /\ emisor \in [{Otra} \cup Envios -> Lugares \cup {"ajeno"}]
      /\ envio # 0 => envio \in Envios
      /\ modo' = modo /\ 0 \notin Envios
  BY EmisorDeja, EnvioFicheroAssumption DEF Tipos, TipoHilos, TipoEnvia, Envios
<1> SUFFICES ASSUME ~CierraOtro, ~(modo.cancelan /\ HayAudio), SinTardias
             PROVE  DevueltoInv'
  BY <1>0, EmisorDeja DEF DevueltoInv, CierraOtro, HayAudio, SinTardias
<1>1. /\ emisor[i] \notin {"no", "fin"} /\ Vivo /\ sorpresas' = sorpresas
      /\ \A k \in Envios : k # i => emisor'[k] = emisor[k]
  <2>1. NextCliente
    BY DEF NextCliente, Next
  <2> QED
    BY <1>0, <2>1, EmisorDe, EmisorDeja, SoloVivo
<1>2. CASE TerminaEnvio(i)
  <2>1. /\ UNCHANGED <<modo, envio, socket_envio, desc_envio, abiertos, reservado>>
        /\ emisor[i] = "exit" /\ emisor'[i] = "fin"
    BY <1>0, <1>2 DEF TerminaEnvio, En, Va
  <2>2. \A k \in Envios : (ConSocket(k)' <=> ConSocket(k)) /\ (ConDesc(k)' <=> ConDesc(k))
    BY <1>1, <2>1 DEF ConSocket, ConDesc
  <2>3. envio # 0 => emisor'[envio] = emisor[envio]
    BY <1>0, <1>1, <2>1 DEF DevueltoInv
  <2> QED
    BY <1>0, <1>1, <2>1, <2>2, <2>3 DEF DevueltoInv
<1>3. ASSUME ~TerminaEnvio(i)
      PROVE  DevueltoInv'
  <2>1. EnCurso(i)
    BY <1>1, <1>3 DEF EnCurso, FileSendFunc, Inicio, InstalaFcancel, CrearSocket,
       GuardaSocket, Fsend, CreaTimeout, EsperaAccept, AceptarConexion, GuardaDesc,
       IgnoraAlarma, MataTimeout, Enviando, Send, CerrarEnvio, CerrarDialogo,
       CerrarDescriptores, CerrarKill, CerrarFree, CerrarHilo, CerrarDisponible, En
  <2>2. \A k \in Envios : k # i => emisor[k] \in {"no", "exit", "fin"}
    BY <2>1 DEF UnSoloEnvio, EnCurso
  <2>3. /\ envio # 0 => envio = i /\ emisor[i] \notin {"inicio", "hilo", "disponible"}
        /\ \A k \in Envios : k # i => /\ ~ConSocket(k) /\ ~ConDesc(k)
                                     /\ (emisor[k] \in {"exit", "fin"} => k \notin reservado)
    BY <1>0, <1>1, <2>2 DEF DevueltoInv
  <2>4. /\ emisor[i] \in {"inicio", "kill", "free", "hilo", "disponible"} => ~ConSocket(i) /\ ~ConDesc(i)
        /\ ConSocket(i) => socket_envio = i \/ emisor[i] = "guardasocket"
        /\ ConDesc(i) => desc_envio = i \/ emisor[i] = "guardadesc"
        /\ emisor[i] \in {"hilo", "disponible"} => i \notin reservado
    BY <1>1 DEF DevueltoInv
  <2>5. ASSUME \A k \in Envios : k # i => (<<"socket", k>> \in abiertos' => <<"socket", k>> \in abiertos)
                                         /\ (<<"desc", k>> \in abiertos' => <<"desc", k>> \in abiertos),
               reservado' \subseteq reservado,
               envio' # 0 => envio' = i /\ emisor'[i] \notin {"no", "inicio", "hilo", "disponible", "exit", "fin"},
               emisor'[i] \in {"no", "inicio", "kill", "free", "hilo", "disponible", "exit", "fin"}
                    => ~ConSocket(i)' /\ ~ConDesc(i)',
               ConSocket(i)' => socket_envio' = i \/ emisor'[i] = "guardasocket",
               ConDesc(i)' => desc_envio' = i \/ emisor'[i] = "guardadesc",
               (Vivo /\ emisor[i] \in {"hilo", "disponible", "exit", "fin"} => i \notin reservado)'
        PROVE  DevueltoInv'
    <3>1. \A k \in Envios : k # i => ~ConSocket(k)' /\ ~ConDesc(k)'
      BY <1>1, <2>3, <2>5 DEF ConSocket, ConDesc
    <3>2. ASSUME NEW k \in Envios, k # i
          PROVE  emisor'[k] = emisor[k] /\ (emisor'[k] \in {"hilo", "disponible", "exit", "fin"} => k \notin reservado')
      BY <1>1, <2>2, <2>3, <2>5, <3>2
    <3> QED
      BY <1>0, <2>5, <3>1, <3>2 DEF DevueltoInv
  <2>6. CASE \/ InstalaFcancel(i) \/ Fsend(i) \/ CreaTimeout(i) \/ EsperaAccept(i)
             \/ IgnoraAlarma(i) \/ MataTimeout(i) \/ Enviando(i) \/ Send(i) \/ CerrarDialogo(i)
    <3>1. UNCHANGED <<envio, socket_envio, desc_envio, abiertos, reservado>>
          /\ emisor[i] \notin {"inicio", "hilo", "disponible", "guardasocket", "guardadesc"}
          /\ emisor'[i] \notin {"no", "inicio", "kill", "free", "hilo", "disponible", "exit", "fin"}
      BY <1>0, <2>6 DEF InstalaFcancel, Fsend, CreaTimeout, EsperaAccept, IgnoraAlarma,
         MataTimeout, Enviando, Send, CerrarDialogo, En, Va
    <3>2. (ConSocket(i)' <=> ConSocket(i)) /\ (ConDesc(i)' <=> ConDesc(i))
      BY <1>1, <3>1 DEF ConSocket, ConDesc
    <3> QED
      BY <2>3, <2>4, <2>5, <3>1, <3>2
  <2>7. CASE Inicio(i)
    <3>1. /\ envio' = i /\ UNCHANGED <<abiertos, reservado>> /\ emisor[i] = "inicio" /\ emisor'[i] = "senal"
          /\ socket_envio' = 0 /\ desc_envio' = 0
      BY <1>0, <2>7 DEF Inicio, En, Va
    <3>2. (ConSocket(i)' <=> ConSocket(i)) /\ (ConDesc(i)' <=> ConDesc(i))
      BY <1>1, <3>1 DEF ConSocket, ConDesc
    <3> QED
      BY <2>4, <2>5, <3>1, <3>2
  <2>8. CASE CrearSocket(i) \/ AceptarConexion(i)
    <3>1. /\ UNCHANGED <<envio, reservado, socket_envio, desc_envio>> /\ emisor[i] \in {"socket", "accept"}
          /\ \/ /\ emisor'[i] = "guardasocket" /\ abiertos' = abiertos \cup {<<"socket", i>>}
             \/ /\ emisor'[i] = "guardadesc" /\ abiertos' = abiertos \cup {<<"desc", i>>}
             \/ /\ emisor'[i] = "dialogo" /\ abiertos' = abiertos
      BY <1>0, <2>8 DEF CrearSocket, AceptarConexion, En, Va
    <3>2. /\ ConSocket(i)' => ConSocket(i) \/ emisor'[i] = "guardasocket"
          /\ ConDesc(i)' => ConDesc(i) \/ emisor'[i] = "guardadesc"
      BY <1>1, <3>1 DEF ConSocket, ConDesc
    <3>3. \A k \in Envios : k # i => (<<"socket", k>> \in abiertos' => <<"socket", k>> \in abiertos)
                                    /\ (<<"desc", k>> \in abiertos' => <<"desc", k>> \in abiertos)
      BY <3>1
    <3> QED
      BY <2>3, <2>4, <2>5, <3>1, <3>2, <3>3
  <2>9. CASE GuardaSocket(i) \/ GuardaDesc(i)
    <3>1. /\ UNCHANGED <<envio, reservado, abiertos>>
          /\ \/ emisor[i] = "guardasocket" /\ socket_envio' = i /\ desc_envio' = desc_envio
             \/ emisor[i] = "guardadesc" /\ desc_envio' = i /\ socket_envio' = socket_envio
          /\ emisor'[i] \in {"fsend", "dialogo", "ignora"}
      BY <1>0, <2>9 DEF GuardaSocket, GuardaDesc, En, Va
    <3>2. (ConSocket(i)' <=> ConSocket(i)) /\ (ConDesc(i)' <=> ConDesc(i))
      BY <1>1, <3>1 DEF ConSocket, ConDesc
    <3> QED
      BY <2>3, <2>4, <2>5, <3>1, <3>2
  <2>10. CASE CerrarDescriptores(i)
    <3>1. /\ UNCHANGED <<envio, reservado, socket_envio, desc_envio>>
          /\ abiertos' = abiertos \ {<<"desc", desc_envio>>, <<"socket", socket_envio>>}
          /\ emisor[i] = "close" /\ emisor'[i] = "kill"
      BY <1>0, <2>10 DEF CerrarDescriptores, En, Va
    <3>2. ~ConSocket(i)' /\ ~ConDesc(i)'
      BY <1>1, <2>4, <3>1 DEF ConSocket, ConDesc
    <3> QED
      BY <2>3, <2>5, <3>1, <3>2
  <2>11. CASE CerrarKill(i) \/ CerrarHilo(i) \/ CerrarDisponible(i)
    <3>1. /\ UNCHANGED <<envio, reservado, socket_envio, desc_envio, abiertos>>
          /\ \/ emisor[i] = "kill" /\ emisor'[i] = "free"
             \/ emisor[i] = "hilo" /\ emisor'[i] = "disponible"
             \/ emisor[i] = "disponible" /\ emisor'[i] = "exit"
      BY <1>0, <2>11 DEF CerrarKill, CerrarHilo, CerrarDisponible, En, Va
    <3>2. ~ConSocket(i)' /\ ~ConDesc(i)'
      BY <1>1, <2>4, <3>1 DEF ConSocket, ConDesc
    <3> QED
      BY <2>3, <2>4, <2>5, <3>1, <3>2
  <2>12. CASE CerrarFree(i)
    <3>1. /\ UNCHANGED <<socket_envio, desc_envio, abiertos>> /\ emisor[i] = "free" /\ envio' = 0
          /\ emisor'[i] = "hilo" /\ reservado' \subseteq reservado /\ (Vivo' => envio # 0)
          /\ envio # 0 => reservado' = reservado \ {envio}
      BY <1>0, <2>12 DEF CerrarFree, En, Va, Vivo
    <3>2. Vivo' => i \notin reservado'
      BY <2>3, <3>1
    <3>3. ~ConSocket(i)' /\ ~ConDesc(i)'
      BY <1>1, <2>4, <3>1 DEF ConSocket, ConDesc
    <3> QED
      BY <2>5, <3>1, <3>2, <3>3 DEF Vivo
  <2> QED
    BY <1>3, <2>6, <2>7, <2>8, <2>9, <2>10, <2>11, <2>12 DEF FileSendFunc, CerrarEnvio
<1> QED
  BY <1>2, <1>3

(* And after every step.                                                   *)
LEMMA DevueltoPaso ==
    ASSUME Tipos, UsoInv, Numerados, UnSoloEnvio, DevueltoInv, [NextCliente]_<<vars, audioVars>>
    PROVE  DevueltoInv'
<1>0. /\ emisor \in [{Otra} \cup Envios -> Lugares \cup {"ajeno"}] /\ Otra \notin Envios
      /\ envio # 0 => envio \in Envios
  BY EnvioFicheroAssumption DEF Tipos, TipoHilos, TipoEnvia, Envios, Otra
<1>1. CASE Interfaz /\ UNCHANGED audioVars
  <2>1. UNCHANGED <<modo, sorpresas, envio, socket_envio, desc_envio, abiertos, proceso>>
    BY <1>1, InterfazDeja
  <2>2. \A i \in Envios : emisor'[i] = emisor[i] \/ (emisor[i] = "no" /\ emisor'[i] = "inicio")
    BY <1>0, <1>1 DEF Interfaz, SendFile, SendFileOcupa, SendFileCrea, SendFileFalla,
       Numerados, Va
  <2>3. \A i \in Envios : i \in reservado' => i \in reservado \/ emisor'[i] = "no"
    <3>1. CASE SendFileOcupa
      <4>1. reservado' = reservado \cup {hechos + 1} /\ emisor' = emisor
        BY <3>1 DEF SendFileOcupa
      <4>2. hechos \in Nat
        BY DEF Tipos, TipoInterfaz, hechos
      <4>3. hechos + 1 \in Envios => emisor[hechos + 1] = "no"
        BY <4>2 DEF Numerados
      <4> QED
        BY <4>1, <4>3
    <3> QED
      BY <1>1, <3>1 DEF Interfaz, SendFile, SendFileCrea, SendFileFalla
  <2> QED
    BY <1>0, <2>1, <2>2, <2>3 DEF DevueltoInv, ConSocket, ConDesc, CierraOtro, HayAudio, Vivo,
       SinTardias
<1>2. ASSUME NEW i \in Envios, FileSendFunc(i), UNCHANGED audioVars
      PROVE  DevueltoInv'
  BY <1>2, DevueltoEmisor
<1>3. CASE CerrarEnvio(Otra) /\ UNCHANGED audioVars
  <2>1. modo' = modo /\ sorpresas' = sorpresas /\ Vivo
    BY <1>3, EmisorDeja, SoloVivo DEF FileSendFunc, NextCliente
  <2>2. /\ UNCHANGED <<socket_envio, desc_envio>> /\ abiertos' \subseteq abiertos
        /\ reservado' \subseteq reservado /\ envio' \in {0, envio}
    BY <1>3 DEF CerrarEnvio, CerrarDialogo, CerrarDescriptores, CerrarKill, CerrarFree,
       CerrarHilo, CerrarDisponible, TerminaEnvio
  <2>3. \A i \in Envios : emisor'[i] = emisor[i]
    BY <1>0, <1>3, EmisorDe DEF FileSendFunc
  <2> QED
    BY <1>0, <2>1, <2>2, <2>3 DEF DevueltoInv, ConSocket, ConDesc, CierraOtro, HayAudio,
       SinTardias
<1>4. ASSUME NEW r \in Recepciones, FileRecvFunc(r), UNCHANGED audioVars
      PROVE  DevueltoInv'
  <2>1. \A i \in Envios : (<<"socket", i>> \in abiertos' => <<"socket", i>> \in abiertos)
                           /\ (<<"desc", i>> \in abiertos' => <<"desc", i>> \in abiertos)
    BY <1>4 DEF FileRecvFunc, RecvInicio, RecvEspera, RecvConecta, RecvMarca, Recv,
       CerrarRecepcion, RecepcionDisponible
  <2>2. NextCliente
    BY <1>4 DEF NextCliente, Next
  <2>3. UNCHANGED <<modo, socket_envio, desc_envio, reservado, envio, emisor>>
    BY <1>4, ReceptorDeja
  <2> QED
    BY <2>1, <2>2, <2>3, DevueltoAjeno
<1>5. ASSUME NextCliente, UNCHANGED <<modo, socket_envio, desc_envio, reservado, envio,
                                      abiertos>>,
             \A i \in Envios : emisor'[i] = emisor[i] \/ Atrapado(i)
      PROVE  DevueltoInv'
  BY <1>5, DevueltoAjeno
<1>6. ASSUME NEW i \in Envios, Senales(i), UNCHANGED audioVars
      PROVE  DevueltoInv'
  <2>1. \A k \in Envios : emisor'[k] = emisor[k] \/ Atrapado(k)
    BY <1>0, <1>6, SenalesDe DEF Atrapado
  <2>2. NextCliente
    BY <1>6 DEF NextCliente, Next
  <2> QED
    BY <1>5, <1>6, <2>1, <2>2, SenalesDeja
<1>7. ASSUME NEW h \in Hebras, CerrarAudio(h)
      PROVE  DevueltoInv'
  <2>1. CASE emisor' = emisor
    <3>1. NextCliente
      BY <1>7 DEF NextCliente
    <3> QED
      BY <1>5, <1>7, <2>1, <3>1, CierreDeja
  <2>2. CASE emisor' # emisor
    <3>1. h[2] \in Envios /\ emisor[h[2]] = "ajeno" /\ modo' = modo
      BY <1>7, <2>2, CierreDe, CierreDeja
    <3> QED
      BY <3>1 DEF UsoInv, UsoFcancel, DevueltoInv, HayAudio
  <2> QED
    BY <2>1, <2>2
<1>8. CASE SenalesAudio
  <2>1. \A k \in Envios : emisor'[k] = emisor[k] \/ Atrapado(k)
    BY <1>0, <1>8, SenalesAudioDe DEF Atrapado
  <2>2. NextCliente
    BY <1>8 DEF NextCliente
  <2> QED
    BY <1>5, <1>8, <2>1, <2>2, SenalesAudioDeja
<1>9. ASSUME NextCliente, UNCHANGED <<modo, socket_envio, desc_envio, reservado, envio,
                                      abiertos, emisor>>
      PROVE  DevueltoInv'
  BY <1>5, <1>9
<1>10. CASE UNCHANGED <<vars, audioVars>>
  BY <1>10 DEF DevueltoInv, ConSocket, ConDesc, CierraOtro, HayAudio, Vivo, SinTardias
<1>11. CASE NextCliente
  BY <1>1, <1>2, <1>3, <1>4, <1>6, <1>7, <1>8, <1>9, <1>11, RedDeja, RelojDeja,
     ConectaDeja, InterfazAudioDeja, RedAudioDeja, HablaDeja, EscuchaDeja DEF NextCliente,
     Next
<1> QED
  BY <1>10, <1>11

(* A transfer that has ended has freed its structure and closed what it had*)
(* open, except the descriptor that socket or accept had returned and no   *)
(* global held when a handler ended the thread; and so has one that was    *)
(* received.  It is not claimed of late signals, of hanging up beside two  *)
(* transfers, or of an FCANCEL beside a conversation.                      *)
THEOREM TodoDevueltoSiempre == SpecCliente => []TodoDevuelto
<1>1. InitCliente => DevueltoInv
  BY DEF InitCliente, Init, DevueltoInv, ConSocket, ConDesc
<1>2. DevueltoInv /\ RecepcionInv => TodoDevuelto
  BY DEF DevueltoInv, RecepcionInv, TodoDevuelto, ConSocket, ConDesc
<1>3. Tipos /\ UsoInv /\ Numerados /\ UnSoloEnvio /\ DevueltoInv /\ [NextCliente]_<<vars, audioVars>>
        => DevueltoInv'
  BY DevueltoPaso
<1> QED
  BY <1>1, <1>2, <1>3, TiposSiempre, UsoSiempre, EnvioSoloSiempre, UnSoloEnvioSiempre,
     RecepcionSiempre, PTL DEF SpecCliente
-----------------------------------------------------------------------------
(* What a sending thread uses is its own.                                  *)

(* Where a sending thread has not yet started its timeout thread.          *)
AntesDelReloj == {"no", "inicio", "senal", "socket", "guardasocket", "fsend", "timeout"}

(* A timeout thread, its alarm and its signal belong to a transfer that has*)
(* started it.                                                             *)
RelojDe ==
    /\ t_aux # 0 => reloj[t_aux] # "no"
    /\ \A i \in usr1 : reloj[i] # "no"
    /\ \A i \in Envios :
        /\ emisor[i] \in AntesDelReloj => reloj[i] = "no"
        /\ reloj[i] = "no" => "SIGALRM" \notin pendiente[i]

(* Without an FCANCEL, a failure, a hang up or a late signal, the globals  *)
(* are those of the transfer under way, and the alarm reaches it only while*)
(* it waits.                                                               *)
Propios ==
    ~modo.cancelan /\ ~modo.fallan /\ ~modo.cuelgan /\ SinTardias =>
        /\ gui = "crea" => hechos \in reservado
        /\ \A i \in Envios :
            /\ EnCurso(i) /\ emisor[i] \notin {"hilo", "disponible"} => i \in reservado
            /\ EnCurso(i) /\ emisor[i] \notin {"inicio", "hilo", "disponible"} => envio = i
            /\ emisor[i] \in {"mata", "enviando", "send"} => sigalrm = "ignorada"
            /\ emisor[i] \in Cierre =>
                  sigalrm = "ignorada" \/ "SIGALRM" \in mascara[i] \/ reloj[i] = "no"

(* Timeout threads belong to their transfer after every step.              *)
LEMMA RelojDePaso ==
    ASSUME Tipos, Numerados, RelojDe, [NextCliente]_<<vars, audioVars>>
    PROVE  RelojDe'
<1>0. /\ emisor \in [{Otra} \cup Envios -> Lugares \cup {"ajeno"}] /\ Otra \notin Envios
      /\ reloj \in [Envios -> LugaresReloj] /\ pendiente \in [Envios -> SUBSET {"SIGALRM", "SIGUSR2"}]
      /\ t_aux # 0 => t_aux \in Envios
      /\ usr1 \subseteq Envios /\ 0 \notin Envios
  BY EnvioFicheroAssumption DEF Tipos, TipoHilos, TipoEnvia, TipoSenales, Envios, Otra
<1>1. ASSUME \A i \in Envios : reloj'[i] = "no" <=> reloj[i] = "no",
             t_aux' \in {0, t_aux}, usr1' \subseteq usr1 \cup ({t_aux} \ {0}),
             \A i \in Envios : "SIGALRM" \in pendiente'[i] => "SIGALRM" \in pendiente[i] \/ reloj[i] # "no",
             \A i \in Envios : emisor'[i] \in AntesDelReloj => emisor[i] \in AntesDelReloj
      PROVE  RelojDe'
  BY <1>0, <1>1 DEF RelojDe
<1>2. CASE Interfaz /\ UNCHANGED audioVars
  <2>1. \A i \in Envios : emisor'[i] = emisor[i] \/ emisor[i] = "no"
    BY <1>0, <1>2 DEF Interfaz, SendFile, SendFileOcupa, SendFileCrea, SendFileFalla,
       Numerados, Va
  <2> QED
    BY <1>1, <1>2, <2>1, InterfazDeja DEF AntesDelReloj
<1>3. CASE RecvPthread /\ UNCHANGED audioVars
  <2>1. \A i \in Envios : "SIGALRM" \in pendiente'[i] => "SIGALRM" \in pendiente[i]
    BY <1>0, <1>3 DEF RecvPthread, ParseFcancel, Comprueba, FcancelEnvio, FcancelNick,
       FcancelHilo, FcancelKill, ParseFsend, Dialogo, FsendOcupa, FsendCrea
  <2> QED
    BY <1>1, <1>3, <2>1, RedDeja
<1>4. ASSUME NEW i \in {Otra} \cup Envios, FileSendFunc(i), ~CreaTimeout(i), UNCHANGED audioVars
      PROVE  RelojDe'
  <2>1. /\ reloj' = reloj /\ t_aux' \in {0, t_aux} /\ usr1' \subseteq usr1 \cup ({t_aux} \ {0})
        /\ pendiente' = pendiente
    BY <1>4 DEF FileSendFunc, Inicio, InstalaFcancel, CrearSocket, GuardaSocket, Fsend,
       EsperaAccept, AceptarConexion, GuardaDesc, IgnoraAlarma, MataTimeout, MataReloj,
       Enviando, Send, CerrarEnvio, CerrarDialogo, CerrarDescriptores, CerrarKill,
       CerrarFree, CerrarHilo, CerrarDisponible, TerminaEnvio
  <2>2. \E a : emisor' = [emisor EXCEPT ![i] = a] /\ (a \in AntesDelReloj => emisor[i] \in AntesDelReloj)
    BY <1>4 DEF FileSendFunc, Inicio, InstalaFcancel, CrearSocket, GuardaSocket, Fsend,
       EsperaAccept, AceptarConexion, GuardaDesc, IgnoraAlarma, MataTimeout, Enviando, Send,
       CerrarEnvio, CerrarDialogo, CerrarDescriptores, CerrarKill, CerrarFree, CerrarHilo,
       CerrarDisponible, TerminaEnvio, En, Va, AntesDelReloj
  <2> QED
    BY <1>0, <1>1, <2>1, <2>2
<1>5. ASSUME NEW i \in Envios, CreaTimeout(i), UNCHANGED audioVars
      PROVE  RelojDe'
  <2>1. /\ emisor' = [emisor EXCEPT ![i] = "espera"] /\ UNCHANGED <<usr1, pendiente>>
        /\ \/ t_aux' = i /\ reloj' = [reloj EXCEPT ![i] = "signal"]
           \/ UNCHANGED <<t_aux, reloj>>
    BY <1>5 DEF CreaTimeout, Va
  <2> QED
    BY <1>0, <2>1 DEF RelojDe, AntesDelReloj
<1>6. ASSUME NEW i \in Envios, TimeoutAceptar(i), UNCHANGED audioVars
      PROVE  RelojDe'
  <2>1. /\ t_aux' \in {0, t_aux} /\ reloj[i] # "no"
        /\ \E a : reloj' = [reloj EXCEPT ![i] = a] /\ a # "no"
        /\ \A k \in Envios : k # i => pendiente'[k] = pendiente[k]
    BY <1>0, <1>6 DEF TimeoutAceptar, TimeoutSignal, TimeoutSleep, TimeoutFin
  <2> QED
    BY <1>0, <1>1, <1>6, <2>1, RelojDeja
<1>7. ASSUME NEW i \in Envios, Senales(i), UNCHANGED audioVars
      PROVE  RelojDe'
  <2>1. /\ t_aux' \in {0, t_aux} /\ usr1' \subseteq usr1
        /\ reloj' = reloj \/ (i \in usr1 /\ reloj' = [reloj EXCEPT ![i] = "fin"])
        /\ \A k \in Envios : pendiente'[k] \subseteq pendiente[k]
        /\ emisor' = emisor \/ emisor' = [emisor EXCEPT ![i] = "dialogo"]
    BY <1>0, <1>7 DEF Senales, Manejador, ManejadorTimeout, Va
  <2>2. \A k \in Envios : reloj'[k] = "no" <=> reloj[k] = "no"
    BY <1>0, <2>1 DEF RelojDe
  <2>3. \A k \in Envios : emisor'[k] \in AntesDelReloj => emisor[k] \in AntesDelReloj
    BY <1>0, <2>1 DEF AntesDelReloj
  <2> QED
    BY <1>1, <2>1, <2>2, <2>3
<1>8. ASSUME NEW h \in Hebras, CerrarAudio(h)
      PROVE  RelojDe'
  <2>1. /\ \A i \in Envios : reloj'[i] = "no" <=> reloj[i] = "no"
        /\ \A i \in Envios : emisor'[i] \in AntesDelReloj => emisor[i] \in AntesDelReloj
    BY <1>0, <1>8, CierreDe DEF AntesDelReloj
  <2> QED
    BY <1>1, <1>8, <2>1, CierreDeja
<1>9. CASE SenalesAudio
  <2>1. ASSUME NEW i \in Envios, FcancelAjeno(i)
        PROVE  RelojDe'
    <3>1. /\ UNCHANGED <<t_aux, usr1, reloj>> /\ emisor' = [emisor EXCEPT ![i] = "ajeno"]
          /\ pendiente' = [pendiente EXCEPT ![i] = @ \ {"SIGUSR2"}]
      BY <2>1 DEF FcancelAjeno, Va
    <3> QED
      BY <1>0, <1>1, <3>1 DEF AntesDelReloj
  <2>2. ASSUME NEW i \in Envios, TimeoutAjeno(i)
        PROVE  RelojDe'
    <3>1. /\ UNCHANGED <<t_aux, emisor, pendiente>> /\ reloj' = [reloj EXCEPT ![i] = "ajeno"]
          /\ usr1' \subseteq usr1 /\ reloj[i] # "no"
      BY <2>2 DEF TimeoutAjeno, RelojDe
    <3> QED
      BY <1>0, <1>1, <3>1
  <2>3. CASE (\E i \in Hablas : ManejadorHabla(i)) \/ (\E j \in Escuchas : ManejadorEscucha(j))
    <3>1. /\ UNCHANGED <<usr1, reloj, pendiente>> /\ t_aux' \in {0, t_aux}
          /\ \A i \in Envios : emisor'[i] = emisor[i]
      BY <1>0, <2>3 DEF ManejadorHabla, ManejadorEscucha, Va
    <3> QED
      BY <1>1, <3>1
  <2> QED
    BY <1>9, <2>1, <2>2, <2>3 DEF SenalesAudio
<1>10. ASSUME UNCHANGED <<t_aux, usr1, reloj, pendiente, emisor>>
       PROVE  RelojDe'
  BY <1>10 DEF RelojDe
<1>11. CASE CerrarEnvio(Otra) /\ UNCHANGED audioVars
  <2>1. ~CreaTimeout(Otra)
    BY <1>11 DEF CreaTimeout, CerrarEnvio, CerrarDialogo, CerrarDescriptores, CerrarKill,
       CerrarFree, CerrarHilo, CerrarDisponible, TerminaEnvio, En
  <2> QED
    BY <1>4, <1>11, <2>1 DEF FileSendFunc
<1> QED
  BY <1>2, <1>3, <1>4, <1>5, <1>6, <1>7, <1>8, <1>9, <1>10, <1>11, ReceptorDeja,
     ConectaDeja, InterfazAudioDeja, RedAudioDeja, HablaDeja, EscuchaDeja DEF NextCliente,
     Next

(* The globals are those of the transfer after a step of its thread.       *)
LEMMA PropiosEmisor ==
    ASSUME Tipos, UsoInv, Numerados, EnvioSolo, RelojDe, Propios,
           ~modo.cancelan, ~modo.fallan, ~modo.cuelgan, SinTardias,
           NEW i \in Envios, FileSendFunc(i), UNCHANGED audioVars
    PROVE  Propios'
<1>0. /\ emisor \in [{Otra} \cup Envios -> Lugares \cup {"ajeno"}]
      /\ mascara \in [Envios -> SUBSET {"SIGALRM", "SIGUSR2"}]
      /\ reloj \in [Envios -> LugaresReloj]
  BY DEF Tipos, TipoHilos, TipoSenales
<1>1. UNCHANGED <<modo, gui, destino, mascara>>
  BY EmisorDeja
<1>2. /\ emisor[i] \notin {"no", "fin"}
      /\ \A k \in Envios : k # i => emisor'[k] = emisor[k]
  BY <1>0, EmisorDe
<1>3. CASE TerminaEnvio(i)
  <2>1. /\ UNCHANGED <<envio, reservado, sigalrm, reloj, sorpresas>>
        /\ emisor' = [emisor EXCEPT ![i] = "fin"]
    BY <1>3 DEF TerminaEnvio, Va
  <2> QED
    BY <1>0, <1>1, <2>1 DEF Propios, EnCurso, Cierre, hechos
<1>4. ASSUME ~TerminaEnvio(i)
      PROVE  Propios'
  <2>1. EnCurso(i)
    BY <1>2, <1>4 DEF EnCurso, FileSendFunc, Inicio, InstalaFcancel, CrearSocket,
       GuardaSocket, Fsend, CreaTimeout, EsperaAccept, AceptarConexion, GuardaDesc,
       IgnoraAlarma, MataTimeout, Enviando, Send, CerrarEnvio, CerrarDialogo,
       CerrarDescriptores, CerrarKill, CerrarFree, CerrarHilo, CerrarDisponible, En
  <2>2. /\ \A k \in Envios : k # i => emisor[k] \in {"no", "exit", "fin"}
        /\ gui # "crea"
    BY <2>1 DEF EnvioSolo, EnCurso
  <2>3. ASSUME EnCurso(i)' /\ emisor'[i] \notin {"hilo", "disponible"} => i \in reservado',
               EnCurso(i)' /\ emisor'[i] \notin {"inicio", "hilo", "disponible"} => envio' = i,
               emisor'[i] \in {"mata", "enviando", "send"} => sigalrm' = "ignorada",
               emisor'[i] \in Cierre =>
                    sigalrm' = "ignorada" \/ "SIGALRM" \in mascara'[i] \/ reloj'[i] = "no"
        PROVE  Propios'
    BY <1>1, <1>2, <2>2, <2>3 DEF Propios, EnCurso, Cierre
  <2>4. /\ emisor[i] \notin {"hilo", "disponible"} => i \in reservado
        /\ emisor[i] \notin {"inicio", "hilo", "disponible"} => envio = i
        /\ emisor[i] \in {"mata", "enviando", "send"} => sigalrm = "ignorada"
        /\ emisor[i] \in Cierre =>
              sigalrm = "ignorada" \/ "SIGALRM" \in mascara[i] \/ reloj[i] = "no"
        /\ emisor[i] \in AntesDelReloj => reloj[i] = "no"
    BY <2>1 DEF Propios, RelojDe
  <2>5. CASE \/ Inicio(i) \/ InstalaFcancel(i) \/ CrearSocket(i) \/ GuardaSocket(i)
             \/ Fsend(i) \/ CreaTimeout(i) \/ EsperaAccept(i)
    <3>1. /\ UNCHANGED reservado
          /\ \/ emisor[i] = "inicio" /\ envio' = i
             \/ emisor[i] \notin {"inicio", "hilo", "disponible"} /\ envio' = envio
          /\ emisor[i] \notin {"hilo", "disponible"}
          /\ emisor'[i] \in {"senal", "socket", "guardasocket", "fsend", "timeout", "espera", "accept",
                             "dialogo"}
          /\ emisor'[i] = "dialogo" => emisor[i] \in AntesDelReloj /\ reloj' = reloj
      BY <1>0, <2>5 DEF Inicio, InstalaFcancel, CrearSocket, GuardaSocket, Fsend, CreaTimeout,
         EsperaAccept, En, Va, AntesDelReloj
    <3> QED
      BY <2>3, <2>4, <3>1 DEF Cierre
  <2>6. CASE \/ AceptarConexion(i) \/ GuardaDesc(i) \/ IgnoraAlarma(i) \/ MataTimeout(i)
             \/ Enviando(i) \/ Send(i)
    <3>1. /\ UNCHANGED <<reservado, envio>> /\ emisor[i] \notin {"inicio", "hilo", "disponible"}
          /\ emisor'[i] \in {"guardadesc", "ignora", "mata", "enviando", "send", "dialogo"}
          /\ emisor'[i] \notin {"guardadesc", "ignora"} => sigalrm' = "ignorada"
      BY <1>0, <2>4, <2>6 DEF AceptarConexion, GuardaDesc, IgnoraAlarma, MataTimeout, Enviando,
         Send, En, Va
    <3> QED
      BY <2>3, <2>4, <3>1 DEF Cierre
  <2>7. CASE CerrarEnvio(i)
    <3>1. /\ UNCHANGED <<reloj, sigalrm>> /\ emisor[i] \in Cierre
          /\ emisor'[i] \in Cierre \cup {"exit"}
          /\ emisor'[i] \notin {"hilo", "disponible", "exit"}
                => UNCHANGED <<reservado, envio>> /\ emisor[i] \notin {"hilo", "disponible"}
      BY <1>0, <1>4, <2>7 DEF CerrarEnvio, CerrarDialogo, CerrarDescriptores, CerrarKill,
         CerrarFree, CerrarHilo, CerrarDisponible, En, Va, Cierre
    <3> QED
      BY <1>1, <2>3, <2>4, <3>1 DEF EnCurso, Cierre
  <2> QED
    BY <2>5, <2>6, <2>7 DEF FileSendFunc
<1> QED
  BY <1>3, <1>4

(* And after every step: the alarm of a transfer does not close another.   *)
LEMMA PropiosPaso ==
    ASSUME Tipos, UsoInv, Numerados, EnvioSolo, RelojDe, RelojDe', Propios,
           [NextCliente]_<<vars, audioVars>>
    PROVE  Propios'
<1>0. /\ emisor \in [{Otra} \cup Envios -> Lugares \cup {"ajeno"}] /\ Otra \notin Envios
      /\ mascara \in [Envios -> SUBSET {"SIGALRM", "SIGUSR2"}]
      /\ reloj \in [Envios -> LugaresReloj]
      /\ destino \in Seq(Nicks) /\ Len(destino) \in Nat
      /\ gui = "ocupa" => Len(destino) < modo.envios
      /\ modo.envios \in 0..MaxEnvios /\ MaxEnvios \in Nat
  BY ModoTipo, EnvioFicheroAssumption DEF Tipos, TipoHilos, TipoSenales, TipoInterfaz,
     Envios, Otra
<1>1. modo' = modo
  BY InterfazDeja, RedDeja, ReceptorDeja, EmisorDeja, RelojDeja, SenalesDeja, ConectaDeja,
     InterfazAudioDeja, RedAudioDeja, CierreDeja, HablaDeja, EscuchaDeja, SenalesAudioDeja
     DEF NextCliente, Next, FileSendFunc
<1> SUFFICES ASSUME ~modo.cancelan, ~modo.fallan, ~modo.cuelgan, SinTardias, SinTardias'
             PROVE  Propios'
  BY <1>1, SorpresasCrecen DEF Propios
<1>2. /\ emisor[Otra] = "no" /\ senales = {}
      /\ \A i \in Envios : "SIGUSR2" \notin pendiente[i] /\ emisor[i] # "ajeno"
  BY DEF UsoInv, UsoCuelga, UsoFcancel
<1>3. CASE Interfaz /\ UNCHANGED audioVars
  <2>1. UNCHANGED <<modo, envio, sigalrm, mascara, reloj>>
    BY <1>3, InterfazDeja
  <2>2. CASE SendFile
    BY <2>1, <2>2 DEF SendFile, Propios, EnCurso
  <2>3. CASE SendFileOcupa
    <3>1. PICK n \in Nicks : destino' = Append(destino, n)
      BY <2>3 DEF SendFileOcupa
    <3>2. Len(destino') = Len(destino) + 1 /\ emisor' = emisor /\ gui = "ocupa"
          /\ reservado' = reservado \cup {Len(destino) + 1}
      BY <1>0, <2>3, <3>1 DEF SendFileOcupa, hechos
    <3> QED
      BY <2>1, <3>2 DEF Propios, EnCurso, hechos
  <2>4. CASE SendFileCrea
    <3>1. /\ gui = "crea" /\ gui' = "libre" /\ emisor' = [emisor EXCEPT ![hechos] = "inicio"]
          /\ UNCHANGED <<reservado, destino>>
      BY <2>4 DEF SendFileCrea, Va
    <3>2. hechos \in reservado /\ \A i \in Envios : emisor[i] \in {"no", "exit", "fin"}
      BY <3>1 DEF Propios, EnvioSolo, EnCurso
    <3> QED
      BY <1>0, <2>1, <3>1, <3>2 DEF Propios, EnCurso, Cierre
  <2> QED
    BY <1>3, <2>2, <2>3, <2>4 DEF Interfaz, SendFileFalla
<1>4. ASSUME NEW i \in Envios, FileSendFunc(i), UNCHANGED audioVars
      PROVE  Propios'
  BY <1>4, PropiosEmisor
<1>5. ~CerrarEnvio(Otra)
  BY <1>2, EmisorDe DEF FileSendFunc
<1>6. ASSUME ~(Interfaz /\ UNCHANGED audioVars), NextCliente, UNCHANGED <<envio, sigalrm,
                                                                          reservado, mascara>>,
             \A i \in Envios : emisor'[i] = emisor[i],
             \A i \in Envios : reloj[i] = "no" => reloj'[i] = "no"
      PROVE  Propios'
  <2>1. UNCHANGED destino /\ (gui' = "crea" => gui = "crea")
    BY <1>6, GuiAjena
  <2> QED
    BY <1>1, <1>6, <2>1 DEF Propios, EnCurso, hechos
<1>7. ASSUME NEW i \in Envios, Senales(i), UNCHANGED audioVars
      PROVE  Propios'
  <2>1. UNCHANGED <<envio, sigalrm, reservado, gui, destino>>
    BY <1>7, SenalesDeja
  <2>2. CASE ManejadorTimeout(i)
    <3>1. UNCHANGED <<mascara, emisor>>
          /\ (reloj' = reloj \/ (i \in usr1 /\ reloj' = [reloj EXCEPT ![i] = "fin"]))
      BY <2>2 DEF ManejadorTimeout
    <3>2. \A k \in Envios : reloj[k] = "no" => reloj'[k] = "no"
      BY <1>0, <3>1 DEF RelojDe
    <3> QED
      BY <1>1, <2>1, <3>1, <3>2 DEF Propios, EnCurso, hechos
  <2>3. CASE Manejador(i, "SIGALRM")
    <3>1. /\ mascara' = [mascara EXCEPT ![i] = @ \cup {"SIGALRM"}] /\ reloj' = reloj
          /\ "SIGALRM" \in pendiente[i] /\ "SIGALRM" \notin mascara[i]
          /\ emisor[i] \notin {"no", "fin"}
          /\ \/ emisor' = emisor
             \/ /\ sigalrm = "manejador_aceptar" /\ emisor' = [emisor EXCEPT ![i] = "dialogo"]
                /\ emisor[i] # "exit"
      <4>1. "manejador_fcancel" # sigalrm
        BY DEF Tipos, TipoSenales
      <4> QED
        BY <2>3, <4>1 DEF Manejador, Va, Sorprende, Delicados, SinTardias
    <3>2. CASE emisor' = emisor
      BY <1>0, <1>1, <2>1, <3>1, <3>2 DEF Propios, EnCurso, hechos
    <3>3. CASE /\ sigalrm = "manejador_aceptar" /\ emisor' = [emisor EXCEPT ![i] = "dialogo"]
               /\ emisor[i] # "exit"
      <4>1. emisor[i] \notin {"inicio", "hilo", "disponible", "exit"}
        BY <3>1, <3>3 DEF RelojDe, AntesDelReloj, Propios, Cierre
      <4>2. i \in reservado /\ envio = i
        BY <3>1, <4>1 DEF Propios, EnCurso
      <4> QED
        BY <1>0, <1>1, <2>1, <3>1, <3>3, <4>2 DEF Propios, EnCurso, hechos
    <3> QED
      BY <3>1, <3>2, <3>3
  <2>4. ~Manejador(i, "SIGUSR2")
    BY <1>2 DEF Manejador
  <2> QED
    BY <1>7, <2>2, <2>3, <2>4 DEF Senales
<1>8. CASE SenalesAudio
  <2>1. PICK i \in Envios : TimeoutAjeno(i)
    BY <1>2, <1>8 DEF SenalesAudio, ManejadorHabla, ManejadorEscucha, FcancelAjeno
  <2>2. /\ UNCHANGED <<mascara, emisor>> /\ reloj' = [reloj EXCEPT ![i] = "ajeno"] /\ reloj[i] # "no"
    BY <2>1 DEF TimeoutAjeno, RelojDe
  <2>3. \A k \in Envios : reloj[k] = "no" => reloj'[k] = "no"
    BY <1>0, <2>2
  <2> QED
    BY <1>1, <1>8, <2>2, <2>3, SenalesAudioDeja DEF Propios, EnCurso, hechos
<1>9. ASSUME NEW h \in Hebras, CerrarAudio(h)
      PROVE  Propios'
  <2>1. /\ \A i \in Envios : emisor'[i] = emisor[i]
        /\ \A i \in Envios : reloj[i] = "no" => reloj'[i] = "no"
    BY <1>0, <1>2, <1>9, CierreDe
  <2>2. NextCliente /\ UNCHANGED <<gui, destino, modo, envio, sigalrm, reservado, mascara>>
    BY <1>9, CierreDeja DEF NextCliente
  <2> QED
    BY <2>1, <2>2 DEF Propios, EnCurso, hechos
<1>10. ASSUME NEW i \in Envios, TimeoutAceptar(i), UNCHANGED audioVars
       PROVE  Propios'
  <2>1. \A k \in Envios : reloj[k] = "no" => reloj'[k] = "no"
    BY <1>0, <1>10 DEF TimeoutAceptar, TimeoutSignal, TimeoutSleep, TimeoutFin
  <2> QED
    BY <1>1, <1>10, <2>1, RelojDeja DEF Propios, EnCurso, hechos
<1>11. ASSUME NextCliente, ~(Interfaz /\ UNCHANGED audioVars),
              UNCHANGED <<envio, sigalrm, reservado, mascara, emisor, reloj>>
       PROVE  Propios'
  BY <1>6, <1>11
<1>12. CASE UNCHANGED <<vars, audioVars>>
  BY <1>12 DEF Propios, EnCurso, hechos
<1>13. CASE NextCliente
  BY <1>3, <1>4, <1>5, <1>7, <1>8, <1>9, <1>10, <1>11, <1>13, RedDeja, ReceptorDeja,
     ConectaDeja, InterfazAudioDeja, RedAudioDeja, HablaDeja, EscuchaDeja DEF NextCliente,
     Next
<1> QED
  BY <1>12, <1>13

(* A sending thread reads and frees its own structure, which is still in   *)
(* memory, in every race of accept, the timeout thread and SIGALRM: when   *)
(* nothing fails, nobody hangs up and there is no FCANCEL, and no SIGALRM  *)
(* is taken after cliente.envio = DISPONIBLE.                              *)
THEOREM DatosPropiosSiempre == SpecCliente => []DatosPropios
<1>1. InitCliente => RelojDe /\ Propios
  BY DEF InitCliente, Init, RelojDe, Propios, EnCurso, Cierre
<1>2. Propios => DatosPropios
  BY DEF Propios, DatosPropios
<1>3. Tipos /\ UsoInv /\ Numerados /\ EnvioSolo /\ RelojDe /\ Propios /\ [NextCliente]_<<vars, audioVars>>
        => (RelojDe /\ Propios)'
  BY RelojDePaso, PropiosPaso
<1> QED
  BY <1>1, <1>2, <1>3, TiposSiempre, UsoSiempre, EnvioSoloSiempre, PTL DEF SpecCliente
-----------------------------------------------------------------------------
(* Conversations.                                                          *)

(* What a step does to a thread that talks, and to the state of the client.*)
LEMMA HablaAjena ==
    ASSUME Tipos, UsoInv, SinFicheros, NextCliente, ~RedAudio,
           ~\E i \in Hablas : ManejadorHabla(i) \/ AudiochatSend(i),
           ~\E h \in Hebras : CerrarAudio(h)
    PROVE  /\ UNCHANGED <<modo, audiochatsend, hablados, audio_send_thread_th>>
           /\ (red' = "audiocrea" <=> red = "audiocrea") /\ (red' = "audio" <=> red = "audio")
           /\ \A i \in Hablas : paso'[<<"habla", i>>] = paso[<<"habla", i>>]
<1>0. /\ paso \in [Hebras -> LugaresAudio]
      /\ \A i \in Envios : emisor[i] = "no" /\ i \notin usr1
      /\ \A i \in Hablas : <<"habla", i>> \in Hebras
  BY DEF Tipos, TipoPaso, UsoInv, UsoFicheros, Hebras
<1>1. CASE RecvPthread /\ UNCHANGED audioVars
  <2>1. (red' = "audiocrea" <=> red = "audiocrea") /\ (red' = "audio" <=> red = "audio")
    BY <1>1 DEF RecvPthread, ParseFcancel, Comprueba, FcancelEnvio, FcancelNick,
       FcancelHilo, FcancelKill, ParseFsend, Dialogo, FsendOcupa, FsendCrea
  <2> QED
    BY <1>1, <2>1, RedDeja
<1>2. CASE InterfazAudio
  <2>1. \A i \in Hablas : paso'[<<"habla", i>>] = paso[<<"habla", i>>]
    BY <1>0, <1>2 DEF InterfazAudio, StartAudioChat, StartOcupado, StopAudioChat,
       StartSocket, StartCrea, ExitAudioChat, ExitKill, A
  <2> QED
    BY <1>2, <2>1, InterfazAudioDeja
<1>3. ASSUME NEW j \in Escuchas, AudiochatRecv(j)
      PROVE  \A i \in Hablas : paso'[<<"habla", i>>] = paso[<<"habla", i>>]
  BY <1>0, <1>3 DEF AudiochatRecv, EscuchaInicio, EscuchaAbre, EscuchaFalla, A
<1>4. CASE SenalesAudio
  <2>1. PICK j \in Escuchas : ManejadorEscucha(j)
    BY <1>0, <1>4 DEF SenalesAudio, FcancelAjeno, TimeoutAjeno
  <2>2. \A i \in Hablas : paso'[<<"habla", i>>] = paso[<<"habla", i>>]
    BY <1>0, <2>1 DEF ManejadorEscucha, A
  <2> QED
    BY <1>4, <2>2, SenalesAudioDeja
<1> QED
  BY <1>1, <1>2, <1>3, <1>4, InterfazDeja, ReceptorDeja, EmisorDeja, RelojDeja,
     SenalesDeja, ConectaDeja, EscuchaDeja DEF NextCliente, Next, FileSendFunc

(* audiochatSend is "OCUPADO" exactly through the hands of the thread that *)
(* reads from the server and, after it, of a thread that talks.            *)
HablaInv ==
    SinFicheros /\ ~modo.fallan /\ audiochatsend # "DISPONIBLE" =>
        \/ red = "audiocrea"
        \/ \E i \in Hablas : Hablando(i) /\ paso[<<"habla", i>>] \notin {"recv_datos", "recv_fin"}

(* The state of the client has a thread behind it after every step.        *)
LEMMA HablaPaso ==
    ASSUME Tipos, UsoInv, HablaInv, [NextCliente]_<<vars, audioVars>>
    PROVE  HablaInv'
<1>0. /\ paso \in [Hebras -> LugaresAudio]
      /\ \A i \in Hablas : <<"habla", i>> \in Hebras
      /\ red = "audiocrea" => hablados \in Hablas
  BY AudioChatAssumption DEF Tipos, TipoPaso, TipoRed, Hebras, Hablas
<1>1. modo' = modo
  BY InterfazDeja, RedDeja, ReceptorDeja, EmisorDeja, RelojDeja, SenalesDeja, ConectaDeja,
     InterfazAudioDeja, RedAudioDeja, CierreDeja, HablaDeja, EscuchaDeja, SenalesAudioDeja
     DEF NextCliente, Next, FileSendFunc
<1> SUFFICES ASSUME SinFicheros, ~modo.fallan
             PROVE  HablaInv'
  BY <1>1 DEF HablaInv, SinFicheros
<1>2. CASE RedAudio
  <2>1. CASE ParseAudiochat \/ ParseAudioexit \/ AudioexitKill
    BY <2>1 DEF ParseAudiochat, ParseAudioexit, AudioexitKill, HablaInv, Hablando, SinFicheros
  <2>2. CASE AudioDialogo
    <3>1. paso' = paso /\ red = "audio" /\ (red' = "audiocrea" \/ audiochatsend' = audiochatsend)
      BY <2>2 DEF AudioDialogo
    <3> QED
      BY <1>1, <3>1 DEF HablaInv, Hablando, SinFicheros
  <2>3. CASE AudioCrea
    <3>1. hablados \in Hablas /\ paso' = [paso EXCEPT ![<<"habla", hablados>>] = "inicio"]
      BY <1>0, <2>3 DEF AudioCrea, A
    <3> QED
      BY <1>0, <3>1 DEF HablaInv, Hablando
  <2> QED
    BY <1>2, <2>1, <2>2, <2>3 DEF RedAudio
<1>3. ASSUME NEW i \in Hablas, ManejadorHabla(i)
      PROVE  HablaInv'
  <2>1. UNCHANGED <<audiochatsend, red>> /\ sigusr1 # "manejador_timeout"
        /\ (paso' = paso \/ paso' = [paso EXCEPT ![<<"habla", i>>] = "recv_disponible"])
    BY <1>3 DEF ManejadorHabla, A, UsoInv, UsoFicheros
  <2> QED
    BY <1>0, <1>1, <2>1 DEF HablaInv, Hablando, SinFicheros
<1>4. ASSUME NEW i \in Hablas, AudiochatSend(i)
      PROVE  HablaInv'
  <2>1. UNCHANGED <<audiochatsend, red>>
    BY <1>4, HablaDeja
  <2>2. \/ \E a : /\ a \notin {"no", "fin", "recv_datos", "recv_fin"}
                  /\ paso' = [paso EXCEPT ![<<"habla", i>>] = a]
        \/ paso' = paso
    BY <1>4 DEF AudiochatSend, HablaInicio, HablaSocket, HablaAbre, HablaFalla, A
  <2> QED
    BY <1>0, <1>1, <2>1, <2>2 DEF HablaInv, Hablando, SinFicheros
<1>5. ASSUME NEW h \in Hebras, CerrarAudio(h)
      PROVE  HablaInv'
  <2>1. UNCHANGED red /\ \A k \in Hebras : k # h => paso'[k] = paso[k]
    BY <1>5, CierreDe, CierreDeja
  <2>2. CASE SendFin(h) \/ RecvDisponible(h)
    BY <2>2 DEF SendFin, RecvDisponible, HablaInv
  <2>3. CASE SendDatos(h) \/ SendSocket(h)
    <3>1. audiochatsend' = audiochatsend
          /\ \E a : a \notin {"no", "fin", "recv_datos", "recv_fin"} /\ paso' = [paso EXCEPT ![h] = a]
      BY <2>3 DEF SendDatos, SendSocket, A
    <3> QED
      BY <1>0, <1>1, <2>1, <3>1 DEF HablaInv, Hablando, SinFicheros
  <2>4. CASE RecvDatos(h) \/ RecvFin(h)
    <3>1. audiochatsend' = audiochatsend /\ paso[h] \in {"recv_datos", "recv_fin"}
      BY <2>4 DEF RecvDatos, RecvFin, Cierra, En_
    <3> QED
      BY <1>0, <1>1, <2>1, <3>1 DEF HablaInv, Hablando, SinFicheros
  <2> QED
    BY <1>5, <2>2, <2>3, <2>4 DEF CerrarAudio
<1>6. CASE UNCHANGED <<vars, audioVars>>
  BY <1>6 DEF HablaInv, Hablando, SinFicheros
<1>7. CASE /\ NextCliente /\ ~RedAudio
           /\ ~\E i \in Hablas : ManejadorHabla(i) \/ AudiochatSend(i)
           /\ ~\E h \in Hebras : CerrarAudio(h)
  <2>1. /\ audiochatsend' = audiochatsend /\ (red' = "audiocrea" <=> red = "audiocrea")
        /\ \A i \in Hablas : paso'[<<"habla", i>>] = paso[<<"habla", i>>]
    BY <1>7, HablaAjena
  <2> QED
    BY <1>1, <2>1 DEF HablaInv, Hablando, SinFicheros
<1> QED
  BY <1>2, <1>3, <1>4, <1>5, <1>6, <1>7

(* A client that says it is talking has a thread that talks, so after a    *)
(* hang up or a failed start it can be called again: with no file transfers*)
(* and with threads to be had.                                             *)
THEOREM OcupadoSiHablaSiempre == SpecCliente => []OcupadoSiHabla
<1>1. InitCliente => HablaInv
  BY DEF InitCliente, AudioInit, HablaInv
<1>2. HablaInv => OcupadoSiHabla
  BY DEF HablaInv, OcupadoSiHabla
<1>3. Tipos /\ UsoInv /\ HablaInv /\ [NextCliente]_<<vars, audioVars>> => HablaInv'
  BY HablaPaso
<1> QED
  BY <1>1, <1>2, <1>3, TiposSiempre, UsoSiempre, PTL DEF SpecCliente

(* While one thread talks, or is about to be created, no other does and the*)
(* client says so.                                                         *)
EmisionInv ==
    ~modo.cuelgan /\ modo.escuchan = 0 /\ SinFicheros =>
        /\ \A i, j \in Hablas : Hablando(i) /\ Hablando(j) => i = j
        /\ \A i \in Hablas : Hablando(i) => audiochatsend # "DISPONIBLE"
        /\ red \in {"audio", "audiocrea"} => \A i \in Hablas : ~Hablando(i)
        /\ red = "audiocrea" => audiochatsend # "DISPONIBLE"
        /\ \A i \in Hablas : paso[<<"habla", i>>] \notin {"recv_disponible", "recv_datos", "recv_fin"}

(* One thread talks after every step.                                      *)
LEMMA EmisionPaso ==
    ASSUME Tipos, UsoInv, EmisionInv, [NextCliente]_<<vars, audioVars>>
    PROVE  EmisionInv'
<1>0. /\ paso \in [Hebras -> LugaresAudio]
      /\ \A i \in Hablas : <<"habla", i>> \in Hebras
      /\ red = "audiocrea" => hablados \in Hablas
  BY AudioChatAssumption DEF Tipos, TipoPaso, TipoRed, Hebras, Hablas
<1>1. modo' = modo
  BY InterfazDeja, RedDeja, ReceptorDeja, EmisorDeja, RelojDeja, SenalesDeja, ConectaDeja,
     InterfazAudioDeja, RedAudioDeja, CierreDeja, HablaDeja, EscuchaDeja, SenalesAudioDeja
     DEF NextCliente, Next, FileSendFunc
<1> SUFFICES ASSUME ~modo.cuelgan, modo.escuchan = 0, SinFicheros
             PROVE  EmisionInv'
  BY <1>1 DEF EmisionInv, SinFicheros
<1>2. CASE RedAudio
  <2>1. CASE ParseAudiochat \/ ParseAudioexit \/ AudioexitKill
    BY <2>1 DEF ParseAudiochat, ParseAudioexit, AudioexitKill, EmisionInv, Hablando
  <2>2. CASE AudioDialogo
    <3>1. /\ paso' = paso /\ red = "audio"
          /\ \/ red' = "audiocrea" /\ audiochatsend' = "OCUPADO"
             \/ red' = "libre" /\ audiochatsend' = audiochatsend
      BY <2>2 DEF AudioDialogo
    <3> QED
      BY <3>1 DEF EmisionInv, Hablando
  <2>3. CASE AudioCrea
    <3>1. /\ red = "audiocrea" /\ red' = "libre" /\ audiochatsend' = audiochatsend
          /\ \/ hablados \in Hablas /\ paso' = [paso EXCEPT ![<<"habla", hablados>>] = "inicio"]
             \/ paso' = paso
      BY <1>0, <2>3 DEF AudioCrea, A
    <3> QED
      BY <1>0, <3>1 DEF EmisionInv, Hablando
  <2> QED
    BY <1>2, <2>1, <2>2, <2>3 DEF RedAudio
<1>3. ~\E i \in Hablas : ManejadorHabla(i)
  BY DEF ManejadorHabla, UsoInv, UsoCuelga
<1>4. ASSUME NEW i \in Hablas, AudiochatSend(i)
      PROVE  EmisionInv'
  <2>1. UNCHANGED <<audiochatsend, red>>
    BY <1>4, HablaDeja
  <2>2. /\ Hablando(i)
        /\ \/ \E a : a \notin {"no", "fin", "recv_disponible", "recv_datos", "recv_fin"}
                     /\ paso' = [paso EXCEPT ![<<"habla", i>>] = a]
           \/ paso' = paso
    BY <1>4 DEF AudiochatSend, HablaInicio, HablaSocket, HablaAbre, HablaFalla, A, En_,
       Hablando
  <2> QED
    BY <1>0, <1>1, <2>1, <2>2 DEF EmisionInv, Hablando
<1>5. ASSUME NEW h \in Hebras, CerrarAudio(h)
      PROVE  EmisionInv'
  <2>1. UNCHANGED red /\ paso[h] # "no"
    BY <1>5, CierreDe, CierreDeja
  <2>2. PICK i \in Hablas : h = <<"habla", i>>
    <3>1. \/ \E i \in Hablas : h = <<"habla", i>>
          \/ \E j \in Escuchas : h = <<"escucha", j>>
          \/ \E i \in Envios : h = <<"emisor", i>> \/ h = <<"reloj", i>>
      BY DEF Hebras
    <3> QED
      BY <2>1, <3>1 DEF UsoInv, UsoFicheros, UsoConversa
  <2>3. /\ Hablando(i)
        /\ \/ /\ audiochatsend' = audiochatsend
              /\ \E a : a \in {"send_socket", "send_fin"} /\ paso' = [paso EXCEPT ![h] = a]
           \/ paso' = [paso EXCEPT ![h] = "fin"]
    BY <1>5, <2>2 DEF CerrarAudio, SendDatos, SendSocket, SendFin, RecvDisponible,
       RecvDatos, RecvFin, Cierra, En_, Sale, A, EmisionInv, Hablando
  <2> QED
    BY <1>0, <1>1, <2>1, <2>2, <2>3 DEF EmisionInv, Hablando
<1>6. CASE UNCHANGED <<vars, audioVars>>
  BY <1>6 DEF EmisionInv, Hablando
<1>7. CASE /\ NextCliente /\ ~RedAudio
           /\ ~\E i \in Hablas : AudiochatSend(i)
           /\ ~\E h \in Hebras : CerrarAudio(h)
  <2>1. /\ audiochatsend' = audiochatsend
        /\ (red' = "audiocrea" <=> red = "audiocrea") /\ (red' = "audio" <=> red = "audio")
        /\ \A i \in Hablas : paso'[<<"habla", i>>] = paso[<<"habla", i>>]
    BY <1>3, <1>7, HablaAjena
  <2> QED
    BY <1>1, <2>1 DEF EmisionInv, Hablando
<1> QED
  BY <1>2, <1>4, <1>5, <1>6, <1>7

(* No two threads use the globals of audiochatSend (audiodata,             *)
(* socketsendaudio, flagsendaudio) when others start every conversation,   *)
(* they end by themselves and there are no file transfers.                 *)
THEOREM UnaEmisionSiempre == SpecCliente => []UnaEmision
<1>1. InitCliente => EmisionInv
  <2> SUFFICES ASSUME InitCliente PROVE EmisionInv
    OBVIOUS
  <2>1. \A i \in Hablas : <<"habla", i>> \in Hebras
    BY DEF Hebras
  <2> QED
    BY <2>1 DEF InitCliente, Init, AudioInit, EmisionInv, Hablando
<1>2. EmisionInv => UnaEmision
  BY DEF EmisionInv, UnaEmision
<1>3. Tipos /\ UsoInv /\ EmisionInv /\ [NextCliente]_<<vars, audioVars>> => EmisionInv'
  BY EmisionPaso
<1> QED
  BY <1>1, <1>2, <1>3, TiposSiempre, UsoSiempre, PTL DEF SpecCliente
-----------------------------------------------------------------------------
(* What a conversation held is given back.                                 *)

(* The end of a conversation in which one talks.                           *)
EnSend == {"send_datos", "send_socket", "send_fin"}

(* The end of one in which one listens.                                    *)
EnRecv == {"recv_disponible", "recv_datos", "recv_fin"}

(* Nobody hanging up, a thread runs the end of its own kind of conversation *)
(* or, as a handler, the one that the signal of a file leads to.           *)
LugarDe ==
    /\ \A i \in Hablas : paso[<<"habla", i>>] \notin EnRecv
    /\ \A j \in Escuchas : paso[<<"escucha", j>>] \notin EnSend
    /\ \A k \in Envios : paso[<<"emisor", k>>] \notin EnRecv /\ paso[<<"reloj", k>>] \notin EnSend

(* The conversations there have been are the first ones, and the one being *)
(* prepared has no thread yet.                                             *)
Preparadas ==
    /\ hablados <= modo.hablan /\ escuchados <= modo.escuchan
    /\ \A i \in Hablas : paso[<<"habla", i>>] # "no" => i <= hablados
    /\ \A j \in Escuchas : paso[<<"escucha", j>>] # "no" => j <= escuchados
    /\ red = "audiocrea" => paso[<<"habla", hablados>>] = "no"
    /\ gui = "audiocrea" => paso[<<"escucha", escuchados>>] = "no"

(* The handlers of a conversation are not there before it.                 *)
AntesDe ==
    /\ modo.hablan = 1 /\ modo.escuchan = 0 =>
        \A i \in Hablas : i = 1 /\ paso[<<"habla", i>>] \in {"no", "inicio"} =>
            sigusr2 # "manejadorexitsend" /\ \A k \in Envios : paso[<<"emisor", k>>] = "no"
    /\ modo.hablan = 0 /\ modo.escuchan = 1 =>
        \A j \in Escuchas : j = 1 /\ paso[<<"escucha", j>>] \in {"no", "inicio"} =>
            sigusr1 # "manejadorexitaudio" /\ \A k \in Envios : paso[<<"reloj", k>>] = "no"

(* A thread that talks holds what audiodata and socketsendaudio say.       *)
EmiteInv ==
    Vivo /\ ConversacionSola =>
        /\ flagsendaudio < 0 => audiodata = 0
        /\ \A h \in Hebras : paso[h] \in {"send_socket", "send_fin"} => audiodata = 0
        /\ \A h \in Hebras : paso[h] = "send_fin" => \A i \in Hablas : <<"socket", i>> \notin recursos
        /\ \A i \in Hablas :
            /\ paso[<<"habla", i>>] \in {"no", "inicio", "fin"} => <<"socket", i>> \notin recursos
            /\ paso[<<"habla", i>>] = "fin" => <<"envio", i>> \notin recursos
            /\ paso[<<"habla", i>>] \notin {"no", "inicio", "fin"} =>
                /\ <<"envio", i>> \in recursos => audiodata = i
                /\ <<"socket", i>> \in recursos => socketsendaudio = i /\ flagsendaudio >= 1

(* What a thread that listens holds.                                       *)
Suyo(j) == {<<"udp", j>>, <<"recepcion", j>>} \cap recursos

(* One that listens, what audiodatarecv says.                              *)
RecibeInv ==
    Vivo /\ ConversacionSola =>
        \A j \in Escuchas :
            /\ paso[<<"escucha", j>>] = "fin" => Suyo(j) = {}
            /\ paso[<<"escucha", j>>] \notin {"no", "inicio", "fin"} =>
                /\ Suyo(j) # {} => audiodatarecv = j /\ flagrecvaudio >= 1
                /\ \A h \in Hebras : paso[h] = "recv_fin" => Suyo(j) = {}

(* All of it, for conversations nobody hangs up.                           *)
AudioInv == ~modo.cuelgan => LugarDe /\ Preparadas /\ AntesDe /\ EmiteInv /\ RecibeInv

(* The ways in which a thread gets somewhere else in audiochat.c.          *)
Cambio(h, a) ==
    \/ AudioCrea /\ h = <<"habla", hablados>> /\ a = "inicio"
    \/ StartCrea /\ h = <<"escucha", escuchados>> /\ a = "inicio"
    \/ CerrarAudio(h) /\ paso[h] \in EnSend /\ a \in {"send_socket", "send_fin", "fin"}
    \/ CerrarAudio(h) /\ paso[h] \in EnRecv /\ a \in {"recv_datos", "recv_fin", "fin"}
    \/ \E i \in Hablas : /\ AudiochatSend(i) /\ h = <<"habla", i>>
                         /\ paso[h] \in {"inicio", "socket", "abre", "habla"}
                         /\ a \in {"socket", "abre", "habla", "send_datos"}
    \/ \E j \in Escuchas : /\ AudiochatRecv(j) /\ h = <<"escucha", j>>
                           /\ paso[h] \in {"inicio", "abre", "escucha"}
                           /\ a \in {"abre", "escucha", "recv_disponible"}
    \/ \E k \in Envios : FcancelAjeno(k) /\ h = <<"emisor", k>> /\ a = "send_datos"
    \/ \E k \in Envios : TimeoutAjeno(k) /\ h = <<"reloj", k>> /\ a = "recv_disponible"

(* The kinds of thread that may be in audiochat.c.                         *)
LEMMA HebraEs ==
    ASSUME NEW h \in Hebras
    PROVE  \/ \E i \in Hablas : h = <<"habla", i>>
           \/ \E j \in Escuchas : h = <<"escucha", j>>
           \/ \E k \in Envios : h = <<"emisor", k>> \/ h = <<"reloj", k>>
BY DEF Hebras

(* A thread gets somewhere else in audiochat.c only in those ways.         *)
LEMMA PasoCambia ==
    ASSUME Tipos, UsoInv, ~modo.cuelgan, NextCliente, paso' # paso
    PROVE  \E h \in Hebras, a \in LugaresAudio : Cambio(h, a) /\ paso' = [paso EXCEPT ![h] = a]
<1> DEFINE Meta == \E h \in Hebras, a \in LugaresAudio : Cambio(h, a) /\ paso' = [paso EXCEPT ![h] = a]
<1>0. /\ red = "audiocrea" => <<"habla", hablados>> \in Hebras
      /\ gui = "audiocrea" => <<"escucha", escuchados>> \in Hebras
      /\ \A i \in Hablas : <<"habla", i>> \in Hebras
      /\ \A j \in Escuchas : <<"escucha", j>> \in Hebras
      /\ \A k \in Envios : <<"emisor", k>> \in Hebras /\ <<"reloj", k>> \in Hebras
  BY AudioChatAssumption DEF Tipos, TipoRed, TipoInterfaz, Hebras, Hablas, Escuchas
<1>1. ASSUME InterfazAudio PROVE Meta
  <2>1. StartCrea /\ gui = "audiocrea" /\ paso' = [paso EXCEPT ![<<"escucha", escuchados>>] = "inicio"]
    BY <1>1 DEF InterfazAudio, StartAudioChat, StartOcupado, StopAudioChat, StartSocket,
       StartCrea, ExitAudioChat, ExitKill, A
  <2>2. Cambio(<<"escucha", escuchados>>, "inicio")
    BY <2>1 DEF Cambio
  <2> QED
    BY <1>0, <2>1, <2>2 DEF LugaresAudio
<1>2. ASSUME RedAudio PROVE Meta
  <2>1. AudioCrea /\ red = "audiocrea" /\ paso' = [paso EXCEPT ![<<"habla", hablados>>] = "inicio"]
    BY <1>2 DEF RedAudio, ParseAudiochat, AudioDialogo, AudioCrea, ParseAudioexit,
       AudioexitKill, A
  <2>2. Cambio(<<"habla", hablados>>, "inicio")
    BY <2>1 DEF Cambio
  <2> QED
    BY <1>0, <2>1, <2>2 DEF LugaresAudio
<1>3. ASSUME NEW h \in Hebras, CerrarAudio(h)
      PROVE  Meta
  <2>1. PICK a \in LugaresAudio : /\ paso' = [paso EXCEPT ![h] = a]
                                  /\ \/ paso[h] \in EnSend /\ a \in {"send_socket", "send_fin", "fin"}
                                     \/ paso[h] \in EnRecv /\ a \in {"recv_datos", "recv_fin", "fin"}
    BY <1>3 DEF CerrarAudio, SendDatos, SendSocket, SendFin, RecvDisponible, RecvDatos,
       RecvFin, Cierra, En_, Sale, A, EnSend, EnRecv, LugaresAudio
  <2>2. Cambio(h, a)
    BY <1>3, <2>1 DEF Cambio
  <2> QED
    BY <1>0, <2>1, <2>2
<1>4. ASSUME NEW i \in Hablas, AudiochatSend(i)
      PROVE  Meta
  <2>1. PICK a \in LugaresAudio : /\ paso' = [paso EXCEPT ![<<"habla", i>>] = a]
                                  /\ paso[<<"habla", i>>] \in {"inicio", "socket", "abre", "habla"}
                                  /\ a \in {"socket", "abre", "habla", "send_datos"}
    BY <1>4 DEF AudiochatSend, HablaInicio, HablaSocket, HablaAbre, HablaFalla, A, En_,
       LugaresAudio
  <2>2. Cambio(<<"habla", i>>, a)
    BY <1>4, <2>1 DEF Cambio
  <2> QED
    BY <1>0, <2>1, <2>2
<1>5. ASSUME NEW j \in Escuchas, AudiochatRecv(j)
      PROVE  Meta
  <2>1. PICK a \in LugaresAudio : /\ paso' = [paso EXCEPT ![<<"escucha", j>>] = a]
                                  /\ paso[<<"escucha", j>>] \in {"inicio", "abre", "escucha"}
                                  /\ a \in {"abre", "escucha", "recv_disponible"}
    BY <1>5 DEF AudiochatRecv, EscuchaInicio, EscuchaAbre, EscuchaFalla, A, En_,
       LugaresAudio
  <2>2. Cambio(<<"escucha", j>>, a)
    BY <1>5, <2>1 DEF Cambio
  <2> QED
    BY <1>0, <2>1, <2>2
<1>6. ASSUME NEW k \in Envios, FcancelAjeno(k)
      PROVE  Meta
  <2>1. Cambio(<<"emisor", k>>, "send_datos")
    BY <1>6 DEF Cambio
  <2> QED
    BY <1>0, <1>6, <2>1 DEF FcancelAjeno, A, LugaresAudio
<1>7. ASSUME NEW k \in Envios, TimeoutAjeno(k)
      PROVE  Meta
  <2>1. Cambio(<<"reloj", k>>, "recv_disponible")
    BY <1>7 DEF Cambio
  <2> QED
    BY <1>0, <1>7, <2>1 DEF TimeoutAjeno, A, LugaresAudio
<1>8. /\ ~\E i \in Hablas : ManejadorHabla(i)
      /\ ~\E j \in Escuchas : ManejadorEscucha(j)
  BY DEF UsoInv, UsoCuelga, ManejadorHabla, ManejadorEscucha
<1>9. \/ InterfazAudio \/ RedAudio
      \/ \E h \in Hebras : CerrarAudio(h)
      \/ \E i \in Hablas : AudiochatSend(i)
      \/ \E j \in Escuchas : AudiochatRecv(j)
      \/ \E k \in Envios : FcancelAjeno(k) \/ TimeoutAjeno(k)
  BY <1>8 DEF NextCliente, SenalesAudio
<1>10. Meta
  <2> HIDE DEF Meta
  <2> QED
    BY <1>1, <1>2, <1>3, <1>4, <1>5, <1>6, <1>7, <1>9
<1> QED
  BY <1>10

(* What those steps leave alone, and what the others do.                   *)
LEMMA AudioQuieto ==
    ASSUME Tipos, NextCliente, ~InterfazAudio, ~RedAudio
    PROVE  /\ UNCHANGED <<modo, hablados, escuchados>>
           /\ (red' = "audiocrea" => red = "audiocrea") /\ (gui' = "audiocrea" => gui = "audiocrea")
<1>1. CASE RecvPthread /\ UNCHANGED audioVars
  <2>1. red' = "audiocrea" => red = "audiocrea"
    BY <1>1 DEF RecvPthread, ParseFcancel, Comprueba, FcancelEnvio, FcancelNick,
       FcancelHilo, FcancelKill, ParseFsend, Dialogo, FsendOcupa, FsendCrea
  <2> QED
    BY <1>1, <2>1, RedDeja
<1>2. CASE Interfaz /\ UNCHANGED audioVars
  <2>1. gui' = "audiocrea" => gui = "audiocrea"
    BY <1>2 DEF Interfaz, SendFile, SendFileOcupa, SendFileCrea, SendFileFalla
  <2> QED
    BY <1>2, <2>1, InterfazDeja
<1> QED
  BY <1>1, <1>2, ReceptorDeja, EmisorDeja, RelojDeja, SenalesDeja, ConectaDeja, CierreDeja,
     HablaDeja, EscuchaDeja, SenalesAudioDeja DEF NextCliente, Next, FileSendFunc

(* Threads stay in the end of their own kind of conversation.              *)
LEMMA LugarPaso ==
    ASSUME Tipos, UsoInv, ~modo.cuelgan, LugarDe, NextCliente
    PROVE  LugarDe'
<1>1. CASE paso' = paso
  BY <1>1 DEF LugarDe
<1>2. CASE paso' # paso
  <2>1. PICK h \in Hebras, a \in LugaresAudio : Cambio(h, a) /\ paso' = [paso EXCEPT ![h] = a]
    BY <1>2, PasoCambia
  <2>2. /\ h[1] = "habla" => a \notin EnRecv
        /\ h[1] = "escucha" => a \notin EnSend
        /\ h[1] = "emisor" => a \notin EnRecv
        /\ h[1] = "reloj" => a \notin EnSend
    <3>1. /\ h[1] = "habla" => paso[h] \notin EnRecv
          /\ h[1] = "escucha" => paso[h] \notin EnSend
          /\ h[1] = "emisor" => paso[h] \notin EnRecv
          /\ h[1] = "reloj" => paso[h] \notin EnSend
      <4>1. ASSUME NEW i \in Hablas, h = <<"habla", i>>
            PROVE  h[1] = "habla" /\ paso[h] \notin EnRecv
        BY <4>1 DEF LugarDe
      <4>2. ASSUME NEW j \in Escuchas, h = <<"escucha", j>>
            PROVE  h[1] = "escucha" /\ paso[h] \notin EnSend
        BY <4>2 DEF LugarDe
      <4>3. ASSUME NEW k \in Envios, h = <<"emisor", k>>
            PROVE  h[1] = "emisor" /\ paso[h] \notin EnRecv
        BY <4>3 DEF LugarDe
      <4>4. ASSUME NEW k \in Envios, h = <<"reloj", k>>
            PROVE  h[1] = "reloj" /\ paso[h] \notin EnSend
        BY <4>4 DEF LugarDe
      <4> QED
        BY <4>1, <4>2, <4>3, <4>4, HebraEs
    <3> QED
      BY <2>1, <3>1 DEF Cambio, EnSend, EnRecv
  <2>3. \A k \in Hebras : paso'[k] = IF k = h THEN a ELSE paso[k]
    BY <2>1 DEF Tipos, TipoPaso
  <2>4. /\ \A i \in Hablas : <<"habla", i>> \in Hebras
        /\ \A j \in Escuchas : <<"escucha", j>> \in Hebras
        /\ \A k \in Envios : <<"emisor", k>> \in Hebras /\ <<"reloj", k>> \in Hebras
    BY DEF Hebras
  <2> QED
    BY <2>2, <2>3, <2>4 DEF LugarDe
<1> QED
  BY <1>1, <1>2

(* Conversations get their numbers in order, after every step.             *)
LEMMA PreparadasPaso ==
    ASSUME Tipos, UsoInv, ~modo.cuelgan, Preparadas, NextCliente
    PROVE  Preparadas'
<1>0. /\ paso \in [Hebras -> LugaresAudio] /\ modo.hablan \in Nat /\ modo.escuchan \in Nat
      /\ hablados \in Nat /\ escuchados \in Nat
      /\ red = "audio" => hablados < modo.hablan
      /\ gui = "audio" => escuchados < modo.escuchan
      /\ modo.hablan \in 0..MaxHablan /\ modo.escuchan \in 0..MaxEscuchan
      /\ MaxHablan \in Nat /\ MaxEscuchan \in Nat
      /\ \A i \in Hablas : <<"habla", i>> \in Hebras
      /\ \A j \in Escuchas : <<"escucha", j>> \in Hebras
  BY ModoTipo, AudioChatAssumption DEF Tipos, TipoInterfaz, TipoRed, TipoPaso, Hebras
<1>1. CASE InterfazAudio
  <2>1. UNCHANGED <<modo, red, hablados>>
    BY <1>1, InterfazAudioDeja
  <2>2. CASE StartSocket
    <3>1. /\ paso' = paso /\ gui = "audio"
          /\ \/ escuchados' = escuchados + 1 /\ gui' = "audiocrea"
             \/ escuchados' = escuchados /\ gui' = "libre"
      BY <2>2 DEF StartSocket
    <3>2. \/ escuchados' = escuchados + 1 /\ escuchados' \in Escuchas /\ paso[<<"escucha", escuchados'>>] = "no"
          \/ escuchados' = escuchados /\ gui' = "libre"
      BY <1>0, <3>1 DEF Preparadas, Escuchas
    <3> QED
      BY <1>0, <2>1, <3>1, <3>2 DEF Preparadas, Escuchas
  <2>3. CASE StartCrea
    <3>1. /\ gui' = "libre" /\ escuchados' = escuchados
          /\ paso' = paso \/ paso' = [paso EXCEPT ![<<"escucha", escuchados>>] = "inicio"]
      BY <2>3 DEF StartCrea, A
    <3>2. <<"habla", hablados>> # <<"escucha", escuchados>>
      OBVIOUS
    <3>3. red = "audiocrea" => <<"habla", hablados>> \in Hebras
      BY <1>0 DEF Tipos, TipoRed, Hablas
    <3> QED
      BY <1>0, <2>1, <3>1, <3>2, <3>3 DEF Preparadas
  <2>4. CASE StartAudioChat \/ StartOcupado \/ StopAudioChat \/ ExitAudioChat \/ ExitKill
    <3>1. UNCHANGED <<paso, escuchados>> /\ gui' # "audiocrea"
      BY <2>4 DEF StartAudioChat, StartOcupado, StopAudioChat, ExitAudioChat, ExitKill
    <3> QED
      BY <2>1, <3>1 DEF Preparadas
  <2> QED
    BY <1>1, <2>2, <2>3, <2>4 DEF InterfazAudio
<1>2. CASE RedAudio
  <2>1. UNCHANGED <<modo, gui, escuchados>>
    BY <1>2, RedAudioDeja
  <2>2. CASE AudioDialogo
    <3>1. /\ paso' = paso /\ red = "audio"
          /\ \/ hablados' = hablados + 1 /\ red' = "audiocrea"
             \/ hablados' = hablados /\ red' = "libre"
      BY <2>2 DEF AudioDialogo
    <3>2. \/ hablados' = hablados + 1 /\ hablados' \in Hablas /\ paso[<<"habla", hablados'>>] = "no"
          \/ hablados' = hablados /\ red' = "libre"
      BY <1>0, <3>1 DEF Preparadas, Hablas
    <3> QED
      BY <1>0, <2>1, <3>1, <3>2 DEF Preparadas, Hablas
  <2>3. CASE AudioCrea
    <3>1. /\ red' = "libre" /\ hablados' = hablados
          /\ paso' = paso \/ paso' = [paso EXCEPT ![<<"habla", hablados>>] = "inicio"]
      BY <2>3 DEF AudioCrea, A
    <3>2. <<"habla", hablados>> # <<"escucha", escuchados>>
      OBVIOUS
    <3>3. gui = "audiocrea" => <<"escucha", escuchados>> \in Hebras
      BY <1>0 DEF Tipos, TipoInterfaz, Escuchas
    <3> QED
      BY <1>0, <2>1, <3>1, <3>2, <3>3 DEF Preparadas
  <2>4. CASE ParseAudiochat \/ ParseAudioexit \/ AudioexitKill
    <3>1. UNCHANGED <<paso, hablados>> /\ red' # "audiocrea"
      BY <2>4 DEF ParseAudiochat, ParseAudioexit, AudioexitKill
    <3> QED
      BY <2>1, <3>1 DEF Preparadas
  <2> QED
    BY <1>2, <2>2, <2>3, <2>4 DEF RedAudio
<1>3. CASE ~InterfazAudio /\ ~RedAudio
  <2>1. /\ UNCHANGED <<modo, hablados, escuchados>>
        /\ (red' = "audiocrea" => red = "audiocrea") /\ (gui' = "audiocrea" => gui = "audiocrea")
    BY <1>3, AudioQuieto
  <2>2. CASE paso' = paso
    BY <2>1, <2>2 DEF Preparadas
  <2>3. CASE paso' # paso
    <3>1. PICK h \in Hebras, a \in LugaresAudio : Cambio(h, a) /\ paso' = [paso EXCEPT ![h] = a]
      BY <2>3, PasoCambia
    <3>2. h[1] \in {"habla", "escucha"} => paso[h] # "no"
      BY <1>3, <3>1 DEF Cambio, InterfazAudio, RedAudio, EnSend, EnRecv
    <3>3. /\ red = "audiocrea" => <<"habla", hablados>> \in Hebras
          /\ gui = "audiocrea" => <<"escucha", escuchados>> \in Hebras
      BY <1>0 DEF Tipos, TipoRed, TipoInterfaz, Hablas, Escuchas
    <3> QED
      BY <1>0, <2>1, <3>1, <3>2, <3>3 DEF Preparadas
  <2> QED
    BY <2>2, <2>3
<1> QED
  BY <1>1, <1>2, <1>3

(* The same, for a thread that has moved.                                  *)
LEMMA PasoDe ==
    ASSUME Tipos, UsoInv, ~modo.cuelgan, NextCliente, NEW k \in Hebras, paso'[k] # paso[k]
    PROVE  Cambio(k, paso'[k])
<1>1. PICK h \in Hebras, a \in LugaresAudio : Cambio(h, a) /\ paso' = [paso EXCEPT ![h] = a]
  BY PasoCambia
<1>2. k = h /\ paso'[k] = a
  BY <1>1 DEF Tipos, TipoPaso
<1> QED
  BY <1>1, <1>2

(* Only a thread of audiochat.c that starts installs its handlers.         *)
LEMMA InstalaQuien ==
    ASSUME NextCliente,
           \/ sigusr2' = "manejadorexitsend" /\ sigusr2 # "manejadorexitsend"
           \/ sigusr1' = "manejadorexitaudio" /\ sigusr1 # "manejadorexitaudio"
    PROVE  (\E i \in Hablas : HablaInicio(i)) \/ (\E j \in Escuchas : EscuchaInicio(j))
<1>1. ASSUME NEW i, FileSendFunc(i)
      PROVE  sigusr2' \in {sigusr2, "manejador_fcancel"}
  BY <1>1 DEF FileSendFunc, Inicio, InstalaFcancel, CrearSocket, GuardaSocket, Fsend,
     CreaTimeout, EsperaAccept, AceptarConexion, GuardaDesc, IgnoraAlarma, MataTimeout,
     Enviando, Send, CerrarEnvio, CerrarDialogo, CerrarDescriptores, CerrarKill, CerrarFree,
     CerrarHilo, CerrarDisponible, TerminaEnvio
<1>2. ASSUME NEW i, TimeoutAceptar(i)
      PROVE  sigusr1' \in {sigusr1, "manejador_timeout"}
  BY <1>2 DEF TimeoutAceptar, TimeoutSignal, TimeoutSleep, TimeoutFin
<1>3. ASSUME NEW i, AudiochatSend(i), ~HablaInicio(i)
      PROVE  UNCHANGED <<sigusr1, sigusr2>>
  BY <1>3 DEF AudiochatSend, HablaSocket, HablaAbre, HablaFalla
<1>4. ASSUME NEW j, AudiochatRecv(j), ~EscuchaInicio(j)
      PROVE  UNCHANGED <<sigusr1, sigusr2>>
  BY <1>4 DEF AudiochatRecv, EscuchaAbre, EscuchaFalla
<1> QED
  BY <1>1, <1>2, <1>3, <1>4, InterfazDeja, RedDeja, ReceptorDeja, EmisorDeja, RelojDeja,
     SenalesDeja, ConectaDeja, InterfazAudioDeja, RedAudioDeja, CierreDeja,
     SenalesAudioDeja DEF NextCliente, Next, FileSendFunc

(* Nobody runs the handlers of a conversation before it, after every step. *)
LEMMA AntesPaso ==
    ASSUME Tipos, UsoInv, ~modo.cuelgan, Preparadas, AntesDe, NextCliente
    PROVE  AntesDe'
<1>0. /\ paso \in [Hebras -> LugaresAudio] /\ hablados \in Nat /\ escuchados \in Nat
      /\ \A i \in Hablas : <<"habla", i>> \in Hebras
      /\ \A j \in Escuchas : <<"escucha", j>> \in Hebras
      /\ \A k \in Envios : <<"emisor", k>> \in Hebras /\ <<"reloj", k>> \in Hebras
  BY DEF Tipos, TipoInterfaz, TipoRed, TipoPaso, Hebras
<1>1. modo' = modo
  BY InterfazDeja, RedDeja, ReceptorDeja, EmisorDeja, RelojDeja, SenalesDeja, ConectaDeja,
     InterfazAudioDeja, RedAudioDeja, CierreDeja, HablaDeja, EscuchaDeja, SenalesAudioDeja
     DEF NextCliente, Next, FileSendFunc
<1>2. ASSUME modo.hablan = 1, modo.escuchan = 0, 1 \in Hablas, paso'[<<"habla", 1>>] \in {"no", "inicio"}
      PROVE  sigusr2' # "manejadorexitsend" /\ \A k \in Envios : paso'[<<"emisor", k>>] = "no"
  <2>1. paso[<<"habla", 1>>] \in {"no", "inicio"}
    <3>1. CASE paso'[<<"habla", 1>>] # paso[<<"habla", 1>>]
      <4>1. Cambio(<<"habla", 1>>, paso'[<<"habla", 1>>])
        BY <1>0, <1>2, <3>1, PasoDe
      <4>2. hablados = 1 /\ red = "audiocrea"
        BY <1>2, <4>1 DEF Cambio, AudioCrea
      <4> QED
        BY <4>2 DEF Preparadas
    <3> QED
      BY <1>2, <3>1
  <2>2. sigusr2 # "manejadorexitsend" /\ \A k \in Envios : paso[<<"emisor", k>>] = "no"
    BY <1>2, <2>1 DEF AntesDe
  <2>3. ASSUME NEW i \in Hablas, HablaInicio(i)
        PROVE  FALSE
    <3>1. paso[<<"habla", i>>] = "inicio" /\ paso' = [paso EXCEPT ![<<"habla", i>>] = "socket"]
      BY <2>3 DEF HablaInicio, En_, A
    <3>2. i <= hablados /\ hablados <= modo.hablan
      BY <3>1 DEF Preparadas
    <3>3. i = 1
      BY <1>0, <1>2, <3>2 DEF Hablas
    <3> QED
      BY <1>0, <1>2, <3>1, <3>3
  <2>4. ASSUME NEW j \in Escuchas, EscuchaInicio(j)
        PROVE  FALSE
    BY <1>2, <2>4 DEF EscuchaInicio, En_, UsoInv, UsoConversa
  <2>5. ASSUME NEW k \in Envios
        PROVE  paso'[<<"emisor", k>>] = "no"
    <3>1. CASE paso'[<<"emisor", k>>] # paso[<<"emisor", k>>]
      <4>1. Cambio(<<"emisor", k>>, paso'[<<"emisor", k>>])
        BY <1>0, <3>1, PasoDe
      <4> QED
        BY <2>2, <4>1 DEF Cambio, FcancelAjeno, EnSend, EnRecv
    <3> QED
      BY <2>2, <3>1
  <2> QED
    BY <2>2, <2>3, <2>4, <2>5, InstalaQuien
<1>3. ASSUME modo.hablan = 0, modo.escuchan = 1, 1 \in Escuchas, paso'[<<"escucha", 1>>] \in {"no", "inicio"}
      PROVE  sigusr1' # "manejadorexitaudio" /\ \A k \in Envios : paso'[<<"reloj", k>>] = "no"
  <2>1. paso[<<"escucha", 1>>] \in {"no", "inicio"}
    <3>1. CASE paso'[<<"escucha", 1>>] # paso[<<"escucha", 1>>]
      <4>1. Cambio(<<"escucha", 1>>, paso'[<<"escucha", 1>>])
        BY <1>0, <1>3, <3>1, PasoDe
      <4>2. escuchados = 1 /\ gui = "audiocrea"
        BY <1>3, <4>1 DEF Cambio, StartCrea
      <4> QED
        BY <4>2 DEF Preparadas
    <3> QED
      BY <1>3, <3>1
  <2>2. sigusr1 # "manejadorexitaudio" /\ \A k \in Envios : paso[<<"reloj", k>>] = "no"
    BY <1>3, <2>1 DEF AntesDe
  <2>3. ASSUME NEW j \in Escuchas, EscuchaInicio(j)
        PROVE  FALSE
    <3>1. paso[<<"escucha", j>>] = "inicio" /\ paso' = [paso EXCEPT ![<<"escucha", j>>] = "abre"]
      BY <2>3 DEF EscuchaInicio, En_, A
    <3>2. j <= escuchados /\ escuchados <= modo.escuchan
      BY <3>1 DEF Preparadas
    <3>3. j = 1
      BY <1>0, <1>3, <3>2 DEF Escuchas
    <3> QED
      BY <1>0, <1>3, <3>1, <3>3
  <2>4. ASSUME NEW i \in Hablas, HablaInicio(i)
        PROVE  FALSE
    BY <1>3, <2>4 DEF HablaInicio, En_, UsoInv, UsoConversa
  <2>5. ASSUME NEW k \in Envios
        PROVE  paso'[<<"reloj", k>>] = "no"
    <3>1. CASE paso'[<<"reloj", k>>] # paso[<<"reloj", k>>]
      <4>1. Cambio(<<"reloj", k>>, paso'[<<"reloj", k>>])
        BY <1>0, <3>1, PasoDe
      <4> QED
        BY <2>2, <4>1 DEF Cambio, TimeoutAjeno, EnSend, EnRecv
    <3> QED
      BY <2>2, <3>1
  <2> QED
    BY <2>2, <2>3, <2>4, <2>5, InstalaQuien
<1> QED
  BY <1>1, <1>2, <1>3 DEF AntesDe

(* Under ConversacionSola only one thread talks and one listens.           *)
LEMMA HablaSola ==
    ASSUME Tipos, UsoInv, EmisionInv, ~modo.cuelgan, Preparadas, ConversacionSola,
           NEW i \in Hablas, NEW k \in Hablas, Hablando(i), Hablando(k)
    PROVE  i = k
<1>1. i <= hablados /\ k <= hablados /\ hablados <= modo.hablan
  BY DEF Preparadas, Hablando
<1>2. hablados \in Nat /\ modo.hablan \in Nat /\ modo.escuchan \in Nat
  BY ModoTipo DEF Tipos, TipoInterfaz, TipoRed
<1>3. CASE modo.hablan <= 1
  BY <1>1, <1>2, <1>3 DEF Hablas
<1>4. CASE SinFicheros /\ modo.escuchan = 0
  BY <1>4 DEF EmisionInv
<1> QED
  BY <1>2, <1>3, <1>4 DEF ConversacionSola

(* Under ConversacionSola there is one conversation that the user starts.  *)
LEMMA EscuchaSola ==
    ASSUME Tipos, UsoInv, ~modo.cuelgan, Preparadas, ConversacionSola,
           NEW j \in Escuchas, paso[<<"escucha", j>>] # "no"
    PROVE  j = 1 /\ modo.escuchan = 1 /\ escuchados = 1
<1>1. j <= escuchados /\ escuchados <= modo.escuchan
  BY DEF Preparadas
<1>2. escuchados \in Nat /\ modo.hablan \in Nat /\ modo.escuchan \in Nat
  BY ModoTipo DEF Tipos, TipoInterfaz, TipoRed
<1>3. modo.escuchan <= 1
  BY <1>2 DEF ConversacionSola
<1> QED
  BY <1>1, <1>2, <1>3 DEF Escuchas

(* Nobody gives back what a thread that begins is about to use.            *)
LEMMA NadieCierraSend ==
    ASSUME Tipos, UsoInv, EmisionInv, ~modo.cuelgan, LugarDe, Preparadas, AntesDe, ConversacionSola,
           NEW i \in Hablas, paso[<<"habla", i>>] = "inicio",
           NEW h \in Hebras, paso[h] \in EnSend
    PROVE  FALSE
<1>1. ASSUME NEW k \in Hablas, h = <<"habla", k>>
      PROVE  FALSE
  BY <1>1, HablaSola DEF Hablando, EnSend
<1>2. ASSUME NEW j \in Escuchas, h = <<"escucha", j>>
      PROVE  FALSE
  BY <1>2 DEF LugarDe
<1>3. ASSUME NEW k \in Envios, h = <<"reloj", k>>
      PROVE  FALSE
  BY <1>3 DEF LugarDe
<1>4. ASSUME NEW k \in Envios, h = <<"emisor", k>>
      PROVE  FALSE
  <2>1. ~SinFicheros
    BY <1>4 DEF UsoInv, UsoFicheros, EnSend
  <2>2. hablados \in Nat /\ modo.hablan \in Nat /\ modo.escuchan \in Nat
    BY ModoTipo DEF Tipos, TipoInterfaz, TipoRed
  <2>3. i <= hablados /\ hablados <= modo.hablan
    BY DEF Preparadas
  <2>4. modo.hablan = 1 /\ modo.escuchan = 0 /\ i = 1
    BY <2>1, <2>2, <2>3 DEF ConversacionSola, Hablas
  <2> QED
    BY <1>4, <2>4 DEF AntesDe, EnSend
<1> QED
  BY <1>1, <1>2, <1>3, <1>4, HebraEs

(* The same for the thread that listens.                                   *)
LEMMA NadieCierraRecv ==
    ASSUME Tipos, UsoInv, ~modo.cuelgan, LugarDe, Preparadas, AntesDe, ConversacionSola,
           NEW j \in Escuchas, paso[<<"escucha", j>>] = "inicio",
           NEW h \in Hebras, paso[h] \in EnRecv
    PROVE  FALSE
<1>1. ASSUME NEW k \in Escuchas, h = <<"escucha", k>>
      PROVE  FALSE
  BY <1>1, EscuchaSola DEF EnRecv
<1>2. ASSUME NEW i \in Hablas, h = <<"habla", i>>
      PROVE  FALSE
  BY <1>2 DEF LugarDe
<1>3. ASSUME NEW k \in Envios, h = <<"emisor", k>>
      PROVE  FALSE
  BY <1>3 DEF LugarDe
<1>4. ASSUME NEW k \in Envios, h = <<"reloj", k>>
      PROVE  FALSE
  <2>1. ~SinFicheros
    BY <1>4 DEF UsoInv, UsoFicheros, EnRecv
  <2>2. modo.hablan \in Nat /\ modo.escuchan \in Nat
    BY ModoTipo DEF Tipos, TipoInterfaz, TipoRed
  <2>3. modo.hablan = 0 /\ modo.escuchan = 1 /\ j = 1
    BY <2>1, <2>2, EscuchaSola DEF ConversacionSola
  <2> QED
    BY <1>4, <2>3 DEF AntesDe, EnRecv
<1> QED
  BY <1>1, <1>2, <1>3, <1>4, HebraEs

(* A step that does not touch what is sent keeps what is said of it.       *)
LEMMA EmiteQuieto ==
    ASSUME Tipos, EmiteInv, NextCliente, modo' = modo,
           UNCHANGED <<audiodata, socketsendaudio, flagsendaudio>>,
           \A i \in Hablas : /\ paso'[<<"habla", i>>] = paso[<<"habla", i>>]
                             /\ <<"socket", i>> \in recursos' => <<"socket", i>> \in recursos
                             /\ <<"envio", i>> \in recursos' =>
                                    <<"envio", i>> \in recursos \/ paso[<<"habla", i>>] = "no",
           \A h \in Hebras : paso'[h] \in {"send_socket", "send_fin"} => paso'[h] = paso[h]
    PROVE  EmiteInv'
<1>1. Vivo /\ (ConversacionSola' <=> ConversacionSola)
  BY SoloVivo DEF ConversacionSola, SinFicheros
<1> QED
  BY <1>1 DEF EmiteInv

(* What a talking thread holds is named by the globals after every step.   *)
LEMMA EmitePaso ==
    ASSUME Tipos, UsoInv, EmisionInv, ~modo.cuelgan, LugarDe, Preparadas, AntesDe, EmiteInv, NextCliente
    PROVE  EmiteInv'
<1>0. /\ paso \in [Hebras -> LugaresAudio]
      /\ \A i \in Hablas : <<"habla", i>> \in Hebras
      /\ Vivo /\ flagsendaudio \in -1..2
  BY SoloVivo DEF Tipos, TipoPaso, TipoAudio, Hebras
<1>1. modo' = modo
  BY InterfazDeja, RedDeja, ReceptorDeja, EmisorDeja, RelojDeja, SenalesDeja, ConectaDeja,
     InterfazAudioDeja, RedAudioDeja, CierreDeja, HablaDeja, EscuchaDeja, SenalesAudioDeja
     DEF NextCliente, Next, FileSendFunc
<1> SUFFICES ASSUME ConversacionSola
             PROVE  EmiteInv'
  BY <1>1 DEF EmiteInv, ConversacionSola, SinFicheros
<1>2. /\ flagsendaudio < 0 => audiodata = 0
      /\ \A h \in Hebras : paso[h] \in {"send_socket", "send_fin"} => audiodata = 0
      /\ \A h \in Hebras : paso[h] = "send_fin" => \A i \in Hablas : <<"socket", i>> \notin recursos
      /\ \A i \in Hablas :
            /\ paso[<<"habla", i>>] \in {"no", "inicio", "fin"} => <<"socket", i>> \notin recursos
            /\ paso[<<"habla", i>>] = "fin" => <<"envio", i>> \notin recursos
            /\ paso[<<"habla", i>>] \notin {"no", "inicio", "fin"} =>
                /\ <<"envio", i>> \in recursos => audiodata = i
                /\ <<"socket", i>> \in recursos => socketsendaudio = i /\ flagsendaudio >= 1
  BY <1>0 DEF EmiteInv
<1>3. CASE RedAudio
  <2>1. UNCHANGED <<audiodata, socketsendaudio, flagsendaudio>>
    BY <1>3, RedAudioDeja
  <2>2. CASE AudioCrea
    <3>1. paso' = paso \/ paso' = [paso EXCEPT ![<<"habla", hablados>>] = "inicio"]
      BY <2>2 DEF AudioCrea, A
    <3>2. recursos' = recursos /\ paso[<<"habla", hablados>>] = "no"
      BY <2>2 DEF AudioCrea, Preparadas
    <3> QED
      BY <1>0, <1>2, <2>1, <3>1, <3>2 DEF EmiteInv
  <2>3. CASE AudioDialogo
    <3>1. paso' = paso /\ red = "audio"
          /\ (recursos' = recursos \/ recursos' = recursos \cup {<<"envio", hablados + 1>>})
      BY <2>3 DEF AudioDialogo
    <3>2. hablados \in Nat
      BY DEF Tipos, TipoRed
    <3>3. \A i \in Hablas : i = hablados + 1 => paso[<<"habla", i>>] = "no"
      BY <3>2 DEF Preparadas, Hablas
    <3>4. ASSUME NEW i \in Hablas
          PROVE  /\ <<"socket", i>> \in recursos' => <<"socket", i>> \in recursos
                 /\ <<"envio", i>> \in recursos' =>
                        <<"envio", i>> \in recursos \/ paso[<<"habla", i>>] = "no"
      <4>1. <<"socket", i>> # <<"envio", hablados + 1>>
        OBVIOUS
      <4>2. <<"envio", i>> = <<"envio", hablados + 1>> => i = hablados + 1
        OBVIOUS
      <4> QED
        BY <3>1, <3>3, <4>1, <4>2
    <3> QED
      BY <1>1, <2>1, <3>1, <3>4, EmiteQuieto
  <2>4. CASE ParseAudiochat \/ ParseAudioexit \/ AudioexitKill
    BY <1>1, <2>1, <2>4, EmiteQuieto DEF ParseAudiochat, ParseAudioexit, AudioexitKill
  <2> QED
    BY <1>3, <2>2, <2>3, <2>4 DEF RedAudio
<1>4. CASE InterfazAudio
  <2>1. UNCHANGED <<audiodata, socketsendaudio, flagsendaudio>>
    BY <1>4, InterfazAudioDeja
  <2>2. \A i \in Hablas : paso'[<<"habla", i>>] = paso[<<"habla", i>>]
    BY <1>0, <1>4 DEF InterfazAudio, StartAudioChat, StartOcupado, StopAudioChat,
       StartSocket, StartCrea, ExitAudioChat, ExitKill, A
  <2>3. \A h \in Hebras : paso'[h] \in {"send_socket", "send_fin"} => paso'[h] = paso[h]
    BY <1>0, <1>4 DEF InterfazAudio, StartAudioChat, StartOcupado, StopAudioChat,
       StartSocket, StartCrea, ExitAudioChat, ExitKill, A
  <2>4. \A i \in Hablas : /\ <<"socket", i>> \in recursos' => <<"socket", i>> \in recursos
                          /\ <<"envio", i>> \in recursos' => <<"envio", i>> \in recursos
    BY <1>4 DEF InterfazAudio, StartAudioChat, StartOcupado, StopAudioChat, StartSocket,
       StartCrea, ExitAudioChat, ExitKill
  <2> QED
    BY <1>1, <2>1, <2>2, <2>3, <2>4, EmiteQuieto
<1>5. ASSUME NEW h \in Hebras, SendDatos(h)
      PROVE  EmiteInv'
  <2>1. /\ audiodata' = 0 /\ UNCHANGED <<socketsendaudio, flagsendaudio, proceso>>
        /\ paso[h] = "send_datos" /\ paso' = [paso EXCEPT ![h] = "send_socket"]
        /\ recursos' \subseteq recursos
        /\ \A i \in Hablas : <<"envio", i>> \in recursos' => audiodata # i
    BY <1>0, <1>2, <1>5 DEF SendDatos, Cierra, En_, A, Hablas
  <2>2. \A i \in Hablas : paso[<<"habla", i>>] \notin {"no", "inicio", "fin"} => <<"envio", i>> \notin recursos'
    BY <1>2, <2>1
  <2> QED
    BY <1>0, <1>2, <2>1, <2>2 DEF EmiteInv
<1>6. ASSUME NEW h \in Hebras, SendSocket(h)
      PROVE  EmiteInv'
  <2>1. /\ UNCHANGED <<audiodata, flagsendaudio>>
        /\ paso[h] = "send_socket" /\ paso' = [paso EXCEPT ![h] = "send_fin"]
        /\ recursos' \subseteq recursos
        /\ flagsendaudio >= 1 => <<"socket", socketsendaudio>> \notin recursos'
    BY <1>0, <1>6 DEF SendSocket, Cierra, En_, A
  <2>2. \A i \in Hablas : <<"socket", i>> \notin recursos'
    BY <1>2, <2>1
  <2> QED
    BY <1>0, <1>2, <2>1, <2>2 DEF EmiteInv
<1>7. ASSUME NEW h \in Hebras, SendFin(h)
      PROVE  EmiteInv'
  <2>1. /\ UNCHANGED <<audiodata, socketsendaudio, recursos>> /\ flagsendaudio' = -1
        /\ paso[h] = "send_fin" /\ paso' = [paso EXCEPT ![h] = "fin"]
    BY <1>7 DEF SendFin, Cierra, En_, Sale, A
  <2>2. audiodata = 0 /\ \A i \in Hablas : <<"socket", i>> \notin recursos
    BY <1>2, <2>1
  <2>3. \A i \in Hablas : paso[<<"habla", i>>] \notin {"no", "inicio", "fin"} => <<"envio", i>> \notin recursos
    <3>1. \A i \in Hablas : i # 0
      BY AudioChatAssumption DEF Hablas
    <3> QED
      BY <1>2, <2>2, <3>1
  <2> QED
    BY <1>0, <1>2, <2>1, <2>2, <2>3 DEF EmiteInv
<1>8. ASSUME NEW h \in Hebras, RecvDisponible(h) \/ RecvDatos(h) \/ RecvFin(h)
      PROVE  EmiteInv'
  <2>1. /\ UNCHANGED <<audiodata, socketsendaudio, flagsendaudio>> /\ paso[h] \in EnRecv
        /\ \E a : paso' = [paso EXCEPT ![h] = a] /\ a \notin {"send_socket", "send_fin"}
        /\ recursos' \subseteq recursos
    BY <1>8 DEF RecvDisponible, RecvDatos, RecvFin, Cierra, En_, Sale, A, EnRecv
  <2>2. \A i \in Hablas : h # <<"habla", i>>
    BY <2>1 DEF LugarDe
  <2> QED
    BY <1>0, <1>1, <2>1, <2>2, EmiteQuieto
<1>9. ASSUME NEW i \in Hablas, HablaInicio(i)
      PROVE  EmiteInv'
  <2>1. /\ audiodata' = i /\ flagsendaudio' = 0 /\ UNCHANGED <<socketsendaudio, recursos>>
        /\ paso[<<"habla", i>>] = "inicio" /\ paso' = [paso EXCEPT ![<<"habla", i>>] = "socket"]
    BY <1>9 DEF HablaInicio, En_, A
  <2>2. \A h \in Hebras : paso[h] \notin EnSend
    BY <2>1, NadieCierraSend
  <2>3. \A k \in Hablas : k # i => paso[<<"habla", k>>] \in {"no", "fin"}
    BY <2>1, HablaSola DEF Hablando
  <2> QED
    BY <1>0, <1>2, <2>1, <2>2, <2>3 DEF EmiteInv, EnSend
<1>10. ASSUME NEW i \in Hablas, HablaSocket(i)
       PROVE  EmiteInv'
  <2>1. /\ UNCHANGED audiodata /\ paso[<<"habla", i>>] = "socket"
        /\ \/ /\ recursos' = recursos \cup {<<"socket", i>>} /\ socketsendaudio' = i /\ flagsendaudio' = 1
              /\ Vivo' => audiodata # 0
              /\ paso' = [paso EXCEPT ![<<"habla", i>>] = "abre"]
           \/ /\ UNCHANGED <<recursos, socketsendaudio, flagsendaudio>>
              /\ paso' = [paso EXCEPT ![<<"habla", i>>] = "send_datos"]
    BY <1>10 DEF HablaSocket, En_, A, Vivo
  <2>2. \A k \in Hablas : k # i => paso[<<"habla", k>>] \in {"no", "fin"}
    BY <2>1, HablaSola DEF Hablando
  <2> QED
    BY <1>0, <1>2, <2>1, <2>2 DEF EmiteInv
<1>11. ASSUME NEW i \in Hablas, HablaAbre(i) \/ HablaFalla(i)
       PROVE  EmiteInv'
  <2>1. /\ UNCHANGED <<audiodata, recursos, socketsendaudio>> /\ paso[<<"habla", i>>] \in {"abre", "habla"}
        /\ \/ audiodata # 0 /\ flagsendaudio' = 2 /\ paso' = [paso EXCEPT ![<<"habla", i>>] = "habla"]
           \/ ~Vivo'
           \/ UNCHANGED flagsendaudio /\ paso' = [paso EXCEPT ![<<"habla", i>>] = "send_datos"]
    BY <1>11 DEF HablaAbre, HablaFalla, En_, A, Vivo
  <2> QED
    BY <1>0, <1>2, <2>1 DEF EmiteInv
<1>12. ASSUME NEW j \in Escuchas, AudiochatRecv(j)
       PROVE  EmiteInv'
  <2>1. UNCHANGED <<audiodata, socketsendaudio, flagsendaudio, recursos>>
    BY <1>12, EscuchaDeja
  <2>2. paso' = paso
        \/ \E a : paso' = [paso EXCEPT ![<<"escucha", j>>] = a] /\ a \notin {"send_socket", "send_fin"}
    BY <1>12 DEF AudiochatRecv, EscuchaInicio, EscuchaAbre, EscuchaFalla, A
  <2> QED
    BY <1>0, <1>1, <2>1, <2>2, EmiteQuieto
<1>13. CASE SenalesAudio
  <2>1. UNCHANGED <<audiodata, socketsendaudio, flagsendaudio, recursos>>
    BY <1>13, SenalesAudioDeja
  <2>2. PICK k \in Envios : FcancelAjeno(k) \/ TimeoutAjeno(k)
    BY <1>13 DEF SenalesAudio, UsoInv, UsoCuelga, ManejadorHabla, ManejadorEscucha
  <2>3. \/ paso' = [paso EXCEPT ![<<"emisor", k>>] = "send_datos"]
        \/ paso' = [paso EXCEPT ![<<"reloj", k>>] = "recv_disponible"]
    BY <2>2 DEF FcancelAjeno, TimeoutAjeno, A
  <2> QED
    BY <1>0, <1>1, <2>1, <2>3, EmiteQuieto
<1>14. CASE UNCHANGED audioVars
  BY <1>1, <1>14, EmiteQuieto
<1> QED
  BY <1>3, <1>4, <1>5, <1>6, <1>7, <1>8, <1>9, <1>10, <1>11, <1>12, <1>13, <1>14 DEF
     NextCliente, CerrarAudio, AudiochatSend

(* A step that does not touch what is received keeps what is said of it.   *)
LEMMA RecibeQuieto ==
    ASSUME Tipos, RecibeInv, NextCliente, modo' = modo,
           UNCHANGED <<audiodatarecv, flagrecvaudio>>,
           \A j \in Escuchas : /\ paso'[<<"escucha", j>>] = paso[<<"escucha", j>>]
                               /\ Suyo(j)' \subseteq Suyo(j) \/ paso[<<"escucha", j>>] = "no",
           \A h \in Hebras : paso'[h] = "recv_fin" => paso'[h] = paso[h]
    PROVE  RecibeInv'
<1>1. Vivo /\ (ConversacionSola' <=> ConversacionSola)
  BY SoloVivo DEF ConversacionSola, SinFicheros
<1> QED
  BY <1>1 DEF RecibeInv

(* What a listening thread holds is named by the globals after every step. *)
LEMMA RecibePaso ==
    ASSUME Tipos, UsoInv, ~modo.cuelgan, LugarDe, Preparadas, AntesDe, RecibeInv, NextCliente
    PROVE  RecibeInv'
<1>0. /\ paso \in [Hebras -> LugaresAudio]
      /\ \A j \in Escuchas : <<"escucha", j>> \in Hebras
      /\ Vivo /\ flagrecvaudio \in -1..2
      /\ \A j \in Escuchas : j # 0
  BY SoloVivo, AudioChatAssumption DEF Tipos, TipoPaso, TipoAudio, Hebras, Escuchas
<1>1. modo' = modo
  BY InterfazDeja, RedDeja, ReceptorDeja, EmisorDeja, RelojDeja, SenalesDeja, ConectaDeja,
     InterfazAudioDeja, RedAudioDeja, CierreDeja, HablaDeja, EscuchaDeja, SenalesAudioDeja
     DEF NextCliente, Next, FileSendFunc
<1> SUFFICES ASSUME ConversacionSola
             PROVE  RecibeInv'
  BY <1>1 DEF RecibeInv, ConversacionSola, SinFicheros
<1>2. \A j \in Escuchas :
        /\ paso[<<"escucha", j>>] = "fin" => Suyo(j) = {}
        /\ paso[<<"escucha", j>>] \notin {"no", "inicio", "fin"} =>
            /\ Suyo(j) # {} => audiodatarecv = j /\ flagrecvaudio >= 1
            /\ \A h \in Hebras : paso[h] = "recv_fin" => Suyo(j) = {}
  BY <1>0 DEF RecibeInv
<1>3. CASE InterfazAudio
  <2>1. UNCHANGED <<audiodatarecv, flagrecvaudio>>
    BY <1>3, InterfazAudioDeja
  <2>2. CASE StartCrea
    <3>1. paso' = paso \/ paso' = [paso EXCEPT ![<<"escucha", escuchados>>] = "inicio"]
      BY <2>2 DEF StartCrea, A
    <3>2. recursos' = recursos /\ paso[<<"escucha", escuchados>>] = "no"
      BY <2>2 DEF StartCrea, Preparadas
    <3> QED
      BY <1>0, <1>2, <2>1, <3>1, <3>2 DEF RecibeInv, Suyo
  <2>3. CASE StartSocket
    <3>1. paso' = paso /\ gui = "audio"
          /\ \/ recursos' = recursos
             \/ recursos' = recursos \cup ({"udp", "recepcion", "direccion"} \X {escuchados + 1})
      BY <2>3 DEF StartSocket
    <3>2. escuchados \in Nat
      BY DEF Tipos, TipoInterfaz
    <3>3. \A j \in Escuchas : j = escuchados + 1 => paso[<<"escucha", j>>] = "no"
      BY <3>2 DEF Preparadas, Escuchas
    <3>4. ASSUME NEW j \in Escuchas
          PROVE  Suyo(j)' \subseteq Suyo(j) \/ paso[<<"escucha", j>>] = "no"
      <4>1. CASE j # escuchados + 1
        BY <3>1, <4>1 DEF Suyo
      <4> QED
        BY <3>3, <4>1
    <3> QED
      BY <1>1, <2>1, <3>1, <3>4, RecibeQuieto
  <2>4. CASE StartAudioChat \/ StartOcupado \/ StopAudioChat \/ ExitAudioChat \/ ExitKill
    <3>1. UNCHANGED <<paso, recursos>>
      BY <2>4 DEF StartAudioChat, StartOcupado, StopAudioChat, ExitAudioChat, ExitKill
    <3> QED
      BY <1>1, <2>1, <3>1, RecibeQuieto DEF Suyo
  <2> QED
    BY <1>3, <2>2, <2>3, <2>4 DEF InterfazAudio
<1>4. CASE RedAudio
  <2>1. UNCHANGED <<audiodatarecv, flagrecvaudio>>
    BY <1>4, RedAudioDeja
  <2>2. /\ \A j \in Escuchas : paso'[<<"escucha", j>>] = paso[<<"escucha", j>>]
        /\ \A h \in Hebras : paso'[h] = "recv_fin" => paso'[h] = paso[h]
    BY <1>0, <1>4 DEF RedAudio, ParseAudiochat, AudioDialogo, AudioCrea, ParseAudioexit,
       AudioexitKill, A
  <2>3. \A j \in Escuchas : Suyo(j)' \subseteq Suyo(j)
    BY <1>4 DEF RedAudio, ParseAudiochat, AudioDialogo, AudioCrea, ParseAudioexit,
       AudioexitKill, Suyo
  <2> QED
    BY <1>1, <2>1, <2>2, <2>3, RecibeQuieto
<1>5. ASSUME NEW h \in Hebras, SendDatos(h) \/ SendSocket(h) \/ SendFin(h)
      PROVE  RecibeInv'
  <2>1. /\ UNCHANGED <<audiodatarecv, flagrecvaudio>> /\ paso[h] \in EnSend
        /\ \E a : paso' = [paso EXCEPT ![h] = a] /\ a # "recv_fin"
        /\ recursos' \subseteq recursos
    BY <1>5 DEF SendDatos, SendSocket, SendFin, Cierra, En_, Sale, A, EnSend
  <2>2. \A j \in Escuchas : h # <<"escucha", j>>
    BY <2>1 DEF LugarDe
  <2> QED
    BY <1>0, <1>1, <2>1, <2>2, RecibeQuieto DEF Suyo
<1>6. ASSUME NEW h \in Hebras, RecvDisponible(h)
      PROVE  RecibeInv'
  <2>1. /\ UNCHANGED <<audiodatarecv, flagrecvaudio, recursos>>
        /\ paso[h] = "recv_disponible" /\ paso' = [paso EXCEPT ![h] = "recv_datos"]
    BY <1>6 DEF RecvDisponible, Cierra, En_, A
  <2> QED
    BY <1>0, <1>2, <2>1 DEF RecibeInv, Suyo
<1>7. ASSUME NEW h \in Hebras, RecvDatos(h)
      PROVE  RecibeInv'
  <2>1. /\ paso[h] = "recv_datos" /\ paso' = [paso EXCEPT ![h] = "recv_fin"]
        /\ recursos' \subseteq recursos
        /\ audiodatarecv # 0 /\ flagrecvaudio >= 1 => {<<"udp", audiodatarecv>>, <<"recepcion", audiodatarecv>>}
                                                         \cap recursos' = {}
    BY <1>0, <1>7 DEF RecvDatos, Cierra, En_, A
  <2>2. ASSUME NEW j \in Escuchas, paso[<<"escucha", j>>] \notin {"no", "inicio"}
        PROVE  Suyo(j)' = {}
    <3>1. CASE Suyo(j) = {}
      BY <2>1, <3>1 DEF Suyo
    <3>2. CASE Suyo(j) # {}
      <4>1. audiodatarecv = j /\ flagrecvaudio >= 1 /\ j # 0
        BY <1>0, <1>2, <2>2, <3>2
      <4> QED
        BY <2>1, <4>1 DEF Suyo
    <3> QED
      BY <3>1, <3>2
  <2>3. \A j \in Escuchas : paso'[<<"escucha", j>>] \notin {"no", "inicio"} =>
                              paso[<<"escucha", j>>] \notin {"no", "inicio"}
    BY <1>0, <2>1
  <2> QED
    BY <2>2, <2>3 DEF RecibeInv
<1>8. ASSUME NEW h \in Hebras, RecvFin(h)
      PROVE  RecibeInv'
  <2>1. /\ UNCHANGED <<audiodatarecv, recursos>>
        /\ paso[h] = "recv_fin" /\ paso' = [paso EXCEPT ![h] = "fin"]
    BY <1>8 DEF RecvFin, Cierra, En_, Sale, A
  <2>2. \A j \in Escuchas : paso[<<"escucha", j>>] \notin {"no", "inicio"} => Suyo(j) = {}
    BY <1>2, <2>1
  <2> QED
    BY <1>0, <2>1, <2>2 DEF RecibeInv, Suyo
<1>9. ASSUME NEW j \in Escuchas, EscuchaInicio(j)
      PROVE  RecibeInv'
  <2>1. /\ audiodatarecv' = j /\ flagrecvaudio' = 1 /\ UNCHANGED recursos
        /\ paso[<<"escucha", j>>] = "inicio" /\ paso' = [paso EXCEPT ![<<"escucha", j>>] = "abre"]
    BY <1>9 DEF EscuchaInicio, En_, A
  <2>2. \A h \in Hebras : paso[h] \notin EnRecv
    BY <2>1, NadieCierraRecv
  <2>3. \A k \in Escuchas : k # j => paso[<<"escucha", k>>] = "no"
    BY <2>1, EscuchaSola
  <2>4. <<"escucha", j>> \in Hebras /\ paso'[<<"escucha", j>>] = "abre"
    BY <1>0, <2>1
  <2>5. \A h \in Hebras : paso'[h] # "recv_fin"
    BY <1>0, <2>1, <2>2 DEF EnRecv
  <2>6. \A k \in Escuchas : k # j => paso'[<<"escucha", k>>] = "no"
    <3>1. \A k \in Escuchas : k # j => <<"escucha", k>> # <<"escucha", j>>
      OBVIOUS
    <3> QED
      BY <1>0, <2>1, <2>3, <3>1
  <2>7. flagrecvaudio' >= 1
    BY <2>1
  <2> QED
    BY <2>1, <2>4, <2>5, <2>6, <2>7 DEF RecibeInv
<1>10. ASSUME NEW j \in Escuchas, EscuchaAbre(j) \/ EscuchaFalla(j)
       PROVE  RecibeInv'
  <2>1. /\ UNCHANGED <<audiodatarecv, recursos>> /\ paso[<<"escucha", j>>] \in {"abre", "escucha"}
        /\ flagrecvaudio' \in {flagrecvaudio, 2}
        /\ paso' = paso
           \/ \E a : paso' = [paso EXCEPT ![<<"escucha", j>>] = a] /\ a \in {"escucha", "recv_disponible"}
    BY <1>10 DEF EscuchaAbre, EscuchaFalla, En_, A
  <2>2. flagrecvaudio >= 1 => flagrecvaudio' >= 1
    BY <1>0, <2>1
  <2>3. \A h \in Hebras : paso'[h] = "recv_fin" => paso[h] = "recv_fin"
    BY <1>0, <2>1
  <2>4. ASSUME NEW k \in Escuchas
        PROVE  /\ paso'[<<"escucha", k>>] = "fin" => paso[<<"escucha", k>>] = "fin"
               /\ paso'[<<"escucha", k>>] \notin {"no", "inicio", "fin"} =>
                    paso[<<"escucha", k>>] \notin {"no", "inicio", "fin"}
    BY <1>0, <2>1
  <2>5. \A k \in Escuchas : Suyo(k)' = Suyo(k)
    BY <2>1 DEF Suyo
  <2> QED
    BY <1>2, <2>1, <2>2, <2>3, <2>4, <2>5 DEF RecibeInv
<1>11. ASSUME NEW i \in Hablas, AudiochatSend(i)
       PROVE  RecibeInv'
  <2>1. UNCHANGED <<audiodatarecv, flagrecvaudio>>
    BY <1>11, HablaDeja
  <2>2. paso' = paso
        \/ \E a : paso' = [paso EXCEPT ![<<"habla", i>>] = a] /\ a # "recv_fin"
    BY <1>11 DEF AudiochatSend, HablaInicio, HablaSocket, HablaAbre, HablaFalla, A
  <2>3. \A j \in Escuchas : Suyo(j)' \subseteq Suyo(j)
    BY <1>11 DEF AudiochatSend, HablaInicio, HablaSocket, HablaAbre, HablaFalla, Suyo
  <2> QED
    BY <1>0, <1>1, <2>1, <2>2, <2>3, RecibeQuieto
<1>12. CASE SenalesAudio
  <2>1. UNCHANGED <<audiodatarecv, flagrecvaudio, recursos>>
    BY <1>12, SenalesAudioDeja
  <2>2. PICK k \in Envios : FcancelAjeno(k) \/ TimeoutAjeno(k)
    BY <1>12 DEF SenalesAudio, UsoInv, UsoCuelga, ManejadorHabla, ManejadorEscucha
  <2>3. \/ paso' = [paso EXCEPT ![<<"emisor", k>>] = "send_datos"]
        \/ paso' = [paso EXCEPT ![<<"reloj", k>>] = "recv_disponible"]
    BY <2>2 DEF FcancelAjeno, TimeoutAjeno, A
  <2> QED
    BY <1>0, <1>1, <2>1, <2>3, RecibeQuieto DEF Suyo
<1>13. CASE UNCHANGED audioVars
  BY <1>1, <1>13, RecibeQuieto DEF Suyo
<1> QED
  BY <1>3, <1>4, <1>5, <1>6, <1>7, <1>8, <1>9, <1>10, <1>11, <1>12, <1>13 DEF NextCliente,
     CerrarAudio, AudiochatRecv

(* A conversation that ended by itself, and in one direction or alone, has *)
(* closed its socket and freed its structure, also when the handler of a   *)
(* signal of a file transfer did it in another thread.  The address of the *)
(* structure, which nothing frees, is not among what it says is freed.     *)
THEOREM AudioDevueltoSiempre == SpecCliente => []AudioDevuelto
<1>1. InitCliente => AudioInv
  <2> SUFFICES ASSUME InitCliente PROVE AudioInv
    OBVIOUS
  <2>1. /\ \A k \in Envios : <<"emisor", k>> \in Hebras /\ <<"reloj", k>> \in Hebras
        /\ \A i \in Hablas : <<"habla", i>> \in Hebras
        /\ \A j \in Escuchas : <<"escucha", j>> \in Hebras
    BY DEF Hebras
  <2>2. modo.hablan \in Nat /\ modo.escuchan \in Nat
    BY ModoTipo DEF InitCliente, Init
  <2>3. /\ \A h \in Hebras : paso[h] = "no"
        /\ recursos = {} /\ hablados = 0 /\ escuchados = 0
        /\ red = "libre" /\ gui = "libre"
        /\ audiodata = 0 /\ flagsendaudio = 0
        /\ sigusr1 # "manejadorexitaudio" /\ sigusr2 # "manejadorexitsend"
    BY DEF InitCliente, Init, AudioInit
  <2>4. LugarDe
    BY <2>1, <2>3 DEF LugarDe, EnSend, EnRecv
  <2>5. Preparadas
    BY <2>1, <2>2, <2>3 DEF Preparadas
  <2>6. AntesDe
    BY <2>1, <2>3 DEF AntesDe
  <2>7. EmiteInv
    BY <2>1, <2>3 DEF EmiteInv
  <2>8. RecibeInv
    BY <2>1, <2>3 DEF RecibeInv
  <2> QED
    BY <2>4, <2>5, <2>6, <2>7, <2>8 DEF AudioInv
<1>2. Tipos /\ UsoInv /\ EmisionInv /\ AudioInv /\ [NextCliente]_<<vars, audioVars>> => AudioInv'
  <2> SUFFICES ASSUME Tipos, UsoInv, EmisionInv, AudioInv, [NextCliente]_<<vars, audioVars>>
               PROVE  AudioInv'
    OBVIOUS
  <2>1. CASE NextCliente
    <3>1. modo' = modo
      BY <2>1, InterfazDeja, RedDeja, ReceptorDeja, EmisorDeja, RelojDeja, SenalesDeja,
         ConectaDeja, InterfazAudioDeja, RedAudioDeja, CierreDeja, HablaDeja, EscuchaDeja,
         SenalesAudioDeja DEF NextCliente, Next, FileSendFunc
    <3> QED
      BY <2>1, <3>1, LugarPaso, PreparadasPaso, AntesPaso, EmitePaso, RecibePaso DEF
         AudioInv
  <2>2. CASE UNCHANGED <<vars, audioVars>>
    BY <2>2 DEF AudioInv, LugarDe, Preparadas, AntesDe, EmiteInv, RecibeInv, Suyo, Vivo,
       ConversacionSola, SinFicheros
  <2> QED
    BY <2>1, <2>2
<1>3. AudioInv => AudioDevuelto
  BY DEF AudioInv, EmiteInv, RecibeInv, Suyo, AudioDevuelto
<1>4. InitCliente => EmisionInv
  <2> SUFFICES ASSUME InitCliente PROVE EmisionInv
    OBVIOUS
  <2>1. \A i \in Hablas : <<"habla", i>> \in Hebras
    BY DEF Hebras
  <2> QED
    BY <2>1 DEF InitCliente, Init, AudioInit, EmisionInv, Hablando
<1>5. Tipos /\ UsoInv /\ EmisionInv /\ [NextCliente]_<<vars, audioVars>> => EmisionInv'
  BY EmisionPaso
<1> QED
  BY <1>1, <1>2, <1>3, <1>4, <1>5, TiposSiempre, UsoSiempre, PTL DEF SpecCliente
====
