------------------------------ MODULE AudioChat ------------------------------
(***************************************************************************)
(* Audio conversations in the client (audiochat.c), together with its file *)
(* transfers.  The thread of audiochatRecv is started by the user          *)
(* (IRCInterface_StartAudioChat) and that of audiochatSend by an AUDIOCHAT *)
(* from another user (parse_audiochat).  To hang up, the user signals the  *)
(* first with SIGUSR2 and an AUDIOEXIT signals the second with SIGUSR1.    *)
(*                                                                         *)
(* Each of the three programs, file_send_func, its timeout and these two,  *)
(* installs its own handlers for these signals when it starts, and the     *)
(* disposition is one for the process: a thread runs the handler that was  *)
(* installed last, which may be that of another program.  All handlers end *)
(* the thread they run in.                                                 *)
(***************************************************************************)
EXTENDS EnvioFichero, Integers

CONSTANTS
    MaxHablan,   \* bound: AUDIOCHAT that arrive
    MaxEscuchan  \* bound: conversations the user starts

ASSUME AudioChatAssumption ==
    /\ MaxHablan \in Nat
    /\ MaxEscuchan \in Nat
    /\ \A m \in Modos :
        /\ m.hablan \in 0..MaxHablan
        /\ m.escuchan \in 0..MaxEscuchan
        /\ m.cuelgan \in BOOLEAN    \* both users may hang up
        /\ m.silencian \in BOOLEAN  \* the user may stop the sound for a while

Hablas == 1..MaxHablan
Escuchas == 1..MaxEscuchan

(* Threads that may be in the code of audiochat.c: its own, and by way of  *)
(* its handlers those of the file transfer.                                *)
Hebras == ({"habla"} \X Hablas) \cup ({"escucha"} \X Escuchas)
            \cup ({"emisor", "reloj"} \X Envios)

VARIABLES
    \* struct cliente
    audiochatsend, audiochatrecv,
    audio_send_thread_th, audio_recv_thread_th, \* the thread's number, or 0
    playing,
    \* globals of audiochat.c: the conversation they hold, or 0
    audiodata, socketsendaudio, audiodatarecv,
    flagsendaudio, flagrecvaudio,
    \* threads
    hablados, escuchados,   \* threads prepared so far
    paso,                   \* paso[h]: where thread h is
    manejando,              \* threads that run the handler of the signal
    senales,                \* audio threads with their signal pending
    recursos                \* structures and descriptors in use

audioCliente == <<audiochatsend, audiochatrecv, audio_send_thread_th,
                  audio_recv_thread_th, playing>>
datosSend == <<audiodata, socketsendaudio, flagsendaudio>>
datosRecv == <<audiodatarecv, flagrecvaudio>>
audioHebras == <<hablados, escuchados, manejando, senales>>
audioVars == <<audioCliente, datosSend, datosRecv, audioHebras, paso, recursos>>

AudioInit ==
    /\ audiochatsend = "DISPONIBLE"
    /\ audiochatrecv = "DISPONIBLE"
    /\ audio_send_thread_th = 0
    /\ audio_recv_thread_th = 0
    /\ playing = 0
    /\ audiodata = 0
    /\ socketsendaudio = 0
    /\ audiodatarecv = 0
    /\ flagsendaudio = 0
    /\ flagrecvaudio = 0
    /\ hablados = 0
    /\ escuchados = 0
    /\ paso = [h \in Hebras |-> "no"]
    /\ manejando = {}
    /\ senales = {}
    /\ recursos = {}

(* File transfer variables that a step of the audio chat leaves alone.     *)
sinGui == <<estado, globales, destino, recibe, emisor, reloj, pendiente, usr1,
            disposiciones, fuera>>
sinRed == <<estado, globales, interfaz, recepcion, ofertas, receptor, fcancel, emisor,
            reloj, pendiente, usr1, disposiciones, fuera>>
sinProceso == <<estado, globales, interfaz, recibe, emisor, reloj, pendiente, usr1,
                disposiciones, modo, conectado, reservado, abiertos, cancelado>>

En_(h, lugar) == Vivo /\ paso[h] = lugar
A(h, lugar) == paso' = [paso EXCEPT ![h] = lugar]

Terminada(h) == paso[h] = "fin" \/ (paso[h] = "cerrar_envio" /\ emisor[Otra] = "fin")

(* pthread_kill for audio thread n, whose number was read again: 0 by now, *)
(* or one that has ended, is undefined.                                    *)
Senala(tipo, n) ==
    \/ /\ n # 0
       /\ ~Terminada(<<tipo, n>>)
       /\ senales' = senales \cup {<<tipo, n>>}
       /\ UNCHANGED proceso
    \/ /\ n # 0 => Terminada(<<tipo, n>>)
       /\ proceso' \in {"vivo", "muerto"}
       /\ UNCHANGED senales

-----------------------------------------------------------------------------
(* The interface                                                           *)

StartAudioChat ==
    /\ Vivo
    /\ gui = "libre"
    /\ escuchados < modo.escuchan
    /\ audiochatrecv = "DISPONIBLE"
    /\ audiochatrecv' = "OCUPADO"
    /\ gui' = "audio"
    /\ UNCHANGED <<sinGui, audiochatsend, audio_send_thread_th, audio_recv_thread_th,
                   playing, datosSend, datosRecv, audioHebras, paso, recursos>>

(* The conversation that StopAudioChat silenced goes on.                   *)
StartOcupado ==
    /\ Vivo
    /\ gui = "libre"
    /\ escuchados > 0
    /\ audiochatrecv # "DISPONIBLE"
    /\ playing = 0
    /\ playing' = 1
    /\ UNCHANGED <<vars, audiochatsend, audiochatrecv, audio_send_thread_th,
                   audio_recv_thread_th, datosSend, datosRecv, audioHebras, paso, recursos>>

StopAudioChat ==
    /\ Vivo
    /\ modo.silencian
    /\ gui = "libre"
    /\ escuchados > 0
    /\ playing' = 0
    /\ UNCHANGED <<vars, audiochatsend, audiochatrecv, audio_send_thread_th,
                   audio_recv_thread_th, datosSend, datosRecv, audioHebras, paso, recursos>>

(* The socket, AUDIOCHAT to the other user, the structure and the address  *)
(* it points to; or no socket.                                             *)
StartSocket ==
    /\ Vivo
    /\ gui = "audio"
    /\ \/ /\ escuchados' = escuchados + 1
          /\ recursos' = recursos \cup ({"udp", "recepcion", "direccion"} \X {escuchados'})
          /\ playing' = 1
          /\ gui' = "audiocrea"
          /\ UNCHANGED audiochatrecv
       \/ /\ audiochatrecv' = "DISPONIBLE"
          /\ gui' = "libre"
          /\ UNCHANGED <<escuchados, recursos, playing>>
    /\ UNCHANGED <<sinGui, audiochatsend, audio_send_thread_th, audio_recv_thread_th,
                   datosSend, datosRecv, hablados, manejando, senales, paso>>

(* A failed pthread_create is not less than 0: nothing is undone.          *)
StartCrea ==
    /\ Vivo
    /\ gui = "audiocrea"
    /\ gui' = "libre"
    /\ \/ /\ audio_recv_thread_th' = escuchados
          /\ A(<<"escucha", escuchados>>, "inicio")
       \/ modo.fallan /\ UNCHANGED <<audio_recv_thread_th, paso>>
    /\ UNCHANGED <<sinGui, audiochatsend, audiochatrecv, audio_send_thread_th, playing,
                   datosSend, datosRecv, audioHebras, recursos>>

ExitAudioChat ==
    /\ Vivo
    /\ modo.cuelgan
    /\ gui = "libre"
    /\ audio_recv_thread_th # 0
    /\ gui' = "audiosale"
    /\ UNCHANGED <<sinGui, audioVars>>

ExitKill ==
    /\ Vivo
    /\ gui = "audiosale"
    /\ gui' = "libre"
    /\ Senala("escucha", audio_recv_thread_th)
    /\ UNCHANGED <<estado, globales, destino, recibe, emisor, reloj, pendiente, usr1,
                   disposiciones, modo, conectado, reservado, abiertos, cancelado,
                   audioCliente, datosSend, datosRecv, hablados, escuchados, manejando,
                   paso, recursos>>

-----------------------------------------------------------------------------
(* recv_pthread: parse_audiochat, parse_audioexit                          *)

(* A client that is talking only answers AUDIOCANCEL.  Otherwise the user  *)
(* is asked, and may refuse.                                               *)
ParseAudiochat ==
    /\ Vivo
    /\ red = "libre"
    /\ hablados < modo.hablan
    /\ audiochatsend = "DISPONIBLE"
    /\ red' = "audio"
    /\ UNCHANGED <<sinRed, audioVars>>

AudioDialogo ==
    /\ Vivo
    /\ red = "audio"
    /\ \/ /\ audiochatsend' = "OCUPADO"
          /\ hablados' = hablados + 1
          /\ recursos' = recursos \cup {<<"envio", hablados'>>}
          /\ red' = "audiocrea"
       \/ /\ red' = "libre"
          /\ UNCHANGED <<audiochatsend, hablados, recursos>>
    /\ UNCHANGED <<sinRed, audiochatrecv, audio_send_thread_th, audio_recv_thread_th,
                   playing, datosSend, datosRecv, escuchados, manejando, senales, paso>>

(* Mutant: the state is given back by whoever created the thread.          *)
AudioCrea_YaDisponible ==
    /\ Vivo
    /\ red = "audiocrea"
    /\ red' = "libre"
    /\ audio_send_thread_th' = hablados
    /\ audiochatsend' = "DISPONIBLE"
    /\ A(<<"habla", hablados>>, "inicio")
    /\ UNCHANGED <<sinRed, audiochatrecv, audio_recv_thread_th, playing,
                   datosSend, datosRecv, audioHebras, recursos>>

AudioCrea ==
    /\ Vivo
    /\ red = "audiocrea"
    /\ red' = "libre"
    /\ \/ /\ audio_send_thread_th' = hablados
          /\ A(<<"habla", hablados>>, "inicio")
       \/ modo.fallan /\ UNCHANGED <<audio_send_thread_th, paso>>
    /\ UNCHANGED <<sinRed, audiochatsend, audiochatrecv, audio_recv_thread_th, playing,
                   datosSend, datosRecv, audioHebras, recursos>>

ParseAudioexit ==
    /\ Vivo
    /\ modo.cuelgan
    /\ red = "libre"
    /\ audio_send_thread_th # 0
    /\ red' = "audiosale"
    /\ UNCHANGED <<sinRed, audioVars>>

AudioexitKill ==
    /\ Vivo
    /\ red = "audiosale"
    /\ red' = "libre"
    /\ Senala("habla", audio_send_thread_th)
    /\ UNCHANGED <<estado, globales, interfaz, recepcion, ofertas, receptor, fcancel, emisor,
                   reloj, pendiente, usr1, disposiciones, modo, conectado, reservado, abiertos,
                   cancelado, audioCliente, datosSend, datosRecv, hablados, escuchados,
                   manejando, paso, recursos>>

-----------------------------------------------------------------------------
(* cerrarAudioSend and cerrarAudioRecv, in whatever thread runs them       *)

(* The thread is in that function: one of the file transfer, as a handler. *)
Cierra(h, lugar) ==
    /\ En_(h, lugar)
    /\ h[1] = "emisor" => emisor[h[2]] = "ajeno"
    /\ h[1] = "reloj" => reloj[h[2]] = "ajeno"

(* pthread_exit follows.                                                   *)
Sale(h) ==
    /\ A(h, "fin")
    /\ emisor' = IF h[1] = "emisor" THEN [emisor EXCEPT ![h[2]] = "fin"] ELSE emisor
    /\ reloj' = IF h[1] = "reloj" THEN [reloj EXCEPT ![h[2]] = "fin"] ELSE reloj
    /\ UNCHANGED <<estado, globales, interfaz, recibe, pendiente, usr1, disposiciones, fuera>>

SendDatos(h) ==
    /\ Cierra(h, "send_datos")
    /\ \/ /\ audiodata # 0
          /\ flagsendaudio >= 0
          /\ recursos' = recursos \ {<<"envio", audiodata>>}
          /\ audiodata' = 0
       \/ /\ audiodata = 0 \/ flagsendaudio < 0
          /\ UNCHANGED <<audiodata, recursos>>
    /\ A(h, "send_socket")
    /\ UNCHANGED <<vars, audioCliente, socketsendaudio, flagsendaudio, datosRecv, audioHebras>>

(* Mutant: the descriptor is not closed.                                   *)
SendSocket_SinClose(h) ==
    /\ Cierra(h, "send_socket")
    /\ A(h, "send_fin")
    /\ UNCHANGED <<vars, audioCliente, datosSend, recursos, datosRecv, audioHebras>>

SendSocket(h) ==
    /\ Cierra(h, "send_socket")
    /\ \/ /\ flagsendaudio >= 1
          /\ recursos' = recursos \ {<<"socket", socketsendaudio>>}
          /\ socketsendaudio' = 0
       \/ /\ flagsendaudio < 1
          /\ UNCHANGED <<socketsendaudio, recursos>>
    /\ A(h, "send_fin")
    /\ UNCHANGED <<vars, audioCliente, audiodata, flagsendaudio, datosRecv, audioHebras>>

(* Mutant: the state is left as it was.                                    *)
SendFin_SinDisponible(h) ==
    /\ Cierra(h, "send_fin")
    /\ flagsendaudio' = -1
    /\ audio_send_thread_th' = 0
    /\ Sale(h)
    /\ UNCHANGED <<audiochatsend, audiochatrecv, audio_recv_thread_th, playing, audiodata,
                   socketsendaudio, datosRecv, audioHebras, recursos>>

SendFin(h) ==
    /\ Cierra(h, "send_fin")
    /\ flagsendaudio' = -1
    /\ audio_send_thread_th' = 0
    /\ audiochatsend' = "DISPONIBLE"
    /\ audiochatrecv' = "DISPONIBLE"
    /\ Sale(h)
    /\ UNCHANGED <<audio_recv_thread_th, playing, audiodata, socketsendaudio, datosRecv,
                   audioHebras, recursos>>

RecvDisponible(h) ==
    /\ Cierra(h, "recv_disponible")
    /\ audiochatsend' = "DISPONIBLE"
    /\ audiochatrecv' = "DISPONIBLE"
    /\ A(h, "recv_datos")
    /\ UNCHANGED <<vars, audio_send_thread_th, audio_recv_thread_th, playing, datosSend,
                   datosRecv, audioHebras, recursos>>

(* Only the structure is freed, not the address it points to.              *)
RecvDatos(h) ==
    /\ Cierra(h, "recv_datos")
    /\ \/ /\ audiodatarecv # 0
          /\ flagrecvaudio >= 1
          /\ recursos' = recursos \ {<<"udp", audiodatarecv>>, <<"recepcion", audiodatarecv>>}
          /\ audiodatarecv' = 0
       \/ /\ audiodatarecv = 0 \/ flagrecvaudio < 1
          /\ UNCHANGED <<audiodatarecv, recursos>>
    /\ A(h, "recv_fin")
    /\ UNCHANGED <<vars, audioCliente, datosSend, flagrecvaudio, audioHebras>>

RecvFin(h) ==
    /\ Cierra(h, "recv_fin")
    /\ flagrecvaudio' = -1
    /\ audio_recv_thread_th' = 0
    /\ Sale(h)
    /\ UNCHANGED <<audiochatsend, audiochatrecv, audio_send_thread_th, playing, datosSend,
                   audiodatarecv, audioHebras, recursos>>

-----------------------------------------------------------------------------
(* audiochatSend                                                           *)

(* Both threads install the same two handlers.                             *)
Instala ==
    /\ sigusr1' = "manejadorexitaudio"
    /\ sigusr2' = "manejadorexitsend"
    /\ UNCHANGED <<estado, globales, interfaz, recibe, emisor, reloj, pendiente, usr1,
                   mascara, sorpresas, sigalrm, fuera>>

HablaInicio(i) ==
    /\ En_(<<"habla", i>>, "inicio")
    /\ audiodata' = i
    /\ flagsendaudio' = 0
    /\ Instala
    /\ A(<<"habla", i>>, "socket")
    /\ UNCHANGED <<audioCliente, socketsendaudio, datosRecv, audioHebras, recursos>>

(* Reading the port from a structure that is gone ends the process.        *)
HablaSocket(i) ==
    /\ En_(<<"habla", i>>, "socket")
    /\ \/ /\ recursos' = recursos \cup {<<"socket", i>>}
          /\ socketsendaudio' = i
          /\ flagsendaudio' = 1
          /\ proceso' = IF audiodata = 0 THEN "muerto" ELSE "vivo"
          /\ A(<<"habla", i>>, "abre")
       \/ /\ A(<<"habla", i>>, "send_datos")
          /\ UNCHANGED <<recursos, socketsendaudio, flagsendaudio, proceso>>
    /\ UNCHANGED <<sinProceso, audioCliente, audiodata, datosRecv, audioHebras>>

HablaAbre(i) ==
    /\ En_(<<"habla", i>>, "abre")
    /\ \/ /\ audiodata # 0
          /\ flagsendaudio' = 2
          /\ A(<<"habla", i>>, "habla")
          /\ UNCHANGED proceso
       \/ /\ audiodata = 0
          /\ proceso' = "muerto"
          /\ UNCHANGED <<flagsendaudio, paso>>
       \/ /\ A(<<"habla", i>>, "send_datos")
          /\ UNCHANGED <<flagsendaudio, proceso>>
    /\ UNCHANGED <<sinProceso, audioCliente, audiodata, socketsendaudio, datosRecv,
                   audioHebras, recursos>>

(* sendto fails.                                                           *)
HablaFalla(i) ==
    /\ En_(<<"habla", i>>, "habla")
    /\ A(<<"habla", i>>, "send_datos")
    /\ UNCHANGED <<vars, audioCliente, datosSend, datosRecv, audioHebras, recursos>>

-----------------------------------------------------------------------------
(* audiochatRecv                                                           *)

EscuchaInicio(j) ==
    /\ En_(<<"escucha", j>>, "inicio")
    /\ audiodatarecv' = j
    /\ flagrecvaudio' = 1
    /\ Instala
    /\ A(<<"escucha", j>>, "abre")
    /\ UNCHANGED <<audioCliente, datosSend, audioHebras, recursos>>

EscuchaAbre(j) ==
    /\ En_(<<"escucha", j>>, "abre")
    /\ \/ /\ flagrecvaudio' = 2
          /\ A(<<"escucha", j>>, "escucha")
       \/ /\ A(<<"escucha", j>>, "recv_disponible")
          /\ UNCHANGED flagrecvaudio
    /\ UNCHANGED <<vars, audioCliente, datosSend, audiodatarecv, audioHebras, recursos>>

(* recvfrom fails, or brings nothing; each call reads audiodatarecv again. *)
EscuchaFalla(j) ==
    /\ En_(<<"escucha", j>>, "escucha")
    /\ \/ /\ A(<<"escucha", j>>, "recv_disponible")
          /\ UNCHANGED proceso
       \/ /\ audiodatarecv = 0
          /\ proceso' = "muerto"
          /\ UNCHANGED paso
    /\ UNCHANGED <<sinProceso, audioCliente, datosSend, datosRecv, audioHebras, recursos>>

-----------------------------------------------------------------------------
(* Signals                                                                 *)

(* Mutant: manejadorexitaudio frees, and does not end the thread.          *)
ManejadorHabla_SinSalir(i) ==
    /\ Vivo
    /\ <<"habla", i>> \in senales \ manejando
    /\ senales' = senales \ {<<"habla", i>>}
    /\ manejando' = manejando \cup {<<"habla", i>>}
    /\ audiochatsend' = "DISPONIBLE"
    /\ audiochatrecv' = "DISPONIBLE"
    /\ UNCHANGED <<vars, audio_send_thread_th, audio_recv_thread_th, playing,
                   datosSend, datosRecv, hablados, escuchados, paso, recursos>>

(* SIGUSR1 in the thread of audiochatSend.                                 *)
ManejadorHabla(i) ==
    LET h == <<"habla", i>> IN
    /\ Vivo
    /\ h \in senales \ manejando
    /\ ~Terminada(h)
    /\ senales' = senales \ {h}
    /\ manejando' = manejando \cup {h}
    /\ \/ /\ sigusr1 = "defecto"
          /\ proceso' = "muerto"
          /\ UNCHANGED <<t_aux, paso>>
       \/ /\ sigusr1 = "manejadorexitaudio"
          /\ A(h, "recv_disponible")
          /\ UNCHANGED <<t_aux, proceso>>
       \/ /\ sigusr1 = "manejador_timeout"
          /\ t_aux' = 0
          /\ A(h, "fin")
          /\ UNCHANGED proceso
    /\ UNCHANGED <<estado, envio, socket_envio, desc_envio, interfaz, recibe, emisor, reloj,
                   pendiente, usr1, disposiciones, modo, conectado, reservado, abiertos,
                   cancelado, audioCliente, datosSend, datosRecv, hablados, escuchados, recursos>>

(* SIGUSR2 in that of audiochatRecv: it may run cerrar_envio.              *)
ManejadorEscucha(j) ==
    LET h == <<"escucha", j>> IN
    /\ Vivo
    /\ h \in senales \ manejando
    /\ ~Terminada(h)
    /\ senales' = senales \ {h}
    /\ manejando' = manejando \cup {h}
    /\ \/ /\ sigusr2 = "defecto"
          /\ proceso' = "muerto"
          /\ UNCHANGED <<emisor, paso>>
       \/ /\ sigusr2 = "manejadorexitsend"
          /\ A(h, "send_datos")
          /\ UNCHANGED <<emisor, proceso>>
       \/ /\ sigusr2 = "manejador_fcancel"
          /\ A(h, "cerrar_envio")
          /\ Va(Otra, "dialogo")
          /\ UNCHANGED proceso
    /\ UNCHANGED <<estado, globales, interfaz, recibe, reloj, pendiente, usr1, disposiciones,
                   modo, conectado, reservado, abiertos, cancelado, audioCliente, datosSend,
                   datosRecv, hablados, escuchados, recursos>>

(* SIGUSR2 of an FCANCEL in the sending thread of a file.                  *)
FcancelAjeno(i) ==
    /\ Vivo
    /\ emisor[i] \notin {"no", "fin"}
    /\ "SIGUSR2" \in pendiente[i] \ mascara[i]
    /\ sigusr2 = "manejadorexitsend"
    /\ mascara' = [mascara EXCEPT ![i] = @ \cup {"SIGUSR2"}]
    /\ pendiente' = [pendiente EXCEPT ![i] = @ \ {"SIGUSR2"}]
    /\ Sorprende(i)
    /\ Va(i, "ajeno")
    /\ A(<<"emisor", i>>, "send_datos")
    /\ UNCHANGED <<estado, globales, interfaz, recibe, reloj, usr1, sigalrm, sigusr1, sigusr2,
                   fuera, audioCliente, datosSend, datosRecv, audioHebras, recursos>>

(* SIGUSR1 in its timeout thread.                                          *)
TimeoutAjeno(i) ==
    /\ Vivo
    /\ i \in usr1
    /\ reloj[i] \notin {"ajeno", "fin"}
    /\ sigusr1 = "manejadorexitaudio"
    /\ usr1' = usr1 \ {i}
    /\ reloj' = [reloj EXCEPT ![i] = "ajeno"]
    /\ A(<<"reloj", i>>, "recv_disponible")
    /\ UNCHANGED <<estado, globales, interfaz, recibe, emisor, pendiente, disposiciones,
                   fuera, audioCliente, datosSend, datosRecv, audioHebras, recursos>>

-----------------------------------------------------------------------------

InterfazAudio ==
    \/ StartAudioChat
    \/ StartOcupado
    \/ StopAudioChat
    \/ StartSocket
    \/ StartCrea
    \/ ExitAudioChat
    \/ ExitKill

RedAudio ==
    \/ ParseAudiochat
    \/ AudioDialogo
    \/ AudioCrea
    \/ ParseAudioexit
    \/ AudioexitKill

CerrarAudio(h) ==
    \/ SendDatos(h)
    \/ SendSocket(h)
    \/ SendFin(h)
    \/ RecvDisponible(h)
    \/ RecvDatos(h)
    \/ RecvFin(h)

AudiochatSend(i) == HablaInicio(i) \/ HablaSocket(i) \/ HablaAbre(i) \/ HablaFalla(i)
AudiochatRecv(j) == EscuchaInicio(j) \/ EscuchaAbre(j) \/ EscuchaFalla(j)

SenalesAudio ==
    \/ \E i \in Hablas : ManejadorHabla(i)
    \/ \E j \in Escuchas : ManejadorEscucha(j)
    \/ \E i \in Envios : FcancelAjeno(i) \/ TimeoutAjeno(i)

NextCliente ==
    \/ Next /\ UNCHANGED audioVars
    \/ CerrarEnvio(Otra) /\ UNCHANGED audioVars
    \/ InterfazAudio
    \/ RedAudio
    \/ \E h \in Hebras : CerrarAudio(h)
    \/ \E i \in Hablas : AudiochatSend(i)
    \/ \E j \in Escuchas : AudiochatRecv(j)
    \/ SenalesAudio

InitCliente == Init /\ AudioInit

SpecCliente == InitCliente /\ [][NextCliente]_<<vars, audioVars>>

(* What the scheduler does: it runs the threads, delivers their signals,   *)
(* and time passes.  Every thread has a few steps to take before it ends   *)
(* or waits for somebody, so that one of them at a time is enough.  Nobody *)
(* has to connect, and a file or a conversation need not end.              *)
Planificador ==
    \/ \E i \in Envios :
        /\ \/ FileSendFunc(i) /\ emisor[i] # "send"
           \/ TimeoutAceptar(i)
           \/ Senales(i)
        /\ UNCHANGED audioVars
    \/ \E h \in Hebras : CerrarAudio(h)
    \/ SenalesAudio

FairSpecCliente == SpecCliente /\ WF_<<vars, audioVars>>(Planificador)
=============================================================================
