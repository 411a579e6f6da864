------------------------ MODULE AudioChatPropiedades ------------------------
(***************************************************************************)
(* What the audio conversations of the client must keep true, by           *)
(* themselves and next to its file transfers.                              *)
(***************************************************************************)
EXTENDS AudioChat, EnvioFicheroPropiedades

Hablando(i) == paso[<<"habla", i>>] \notin {"no", "fin"}
Escuchando(j) == paso[<<"escucha", j>>] \notin {"no", "fin", "cerrar_envio"}
SinFicheros == modo.envios = 0

(* Type invariant of AudioChat, with that of the file transfers.           *)
AudioTypeOK ==
    /\ TypeOK
    /\ {audiochatsend, audiochatrecv} \subseteq {"DISPONIBLE", "OCUPADO"}
    /\ {audio_send_thread_th, hablados, audiodata, socketsendaudio} \subseteq 0..MaxHablan
    /\ {audio_recv_thread_th, escuchados, audiodatarecv} \subseteq 0..MaxEscuchan
    /\ playing \in {0, 1}
    /\ {flagsendaudio, flagrecvaudio} \subseteq -1..2
    /\ paso \in [Hebras -> {"no", "inicio", "socket", "abre", "habla", "escucha",
                            "send_datos", "send_socket", "send_fin", "recv_disponible",
                            "recv_datos", "recv_fin", "cerrar_envio", "fin"}]
    /\ {manejando, senales} \subseteq SUBSET Hebras
    /\ recursos \subseteq ({"envio", "socket"} \X Hablas) \cup ({"udp", "recepcion", "direccion"} \X Escuchas)

(* A client that says it is talking has a thread that talks, so whoever    *)
(* hung up, or could not begin, can be called again.                       *)
OcupadoSiHabla ==
    Vivo /\ SinFicheros /\ ~modo.fallan /\ audiochatsend # "DISPONIBLE" =>
        red = "audiocrea" \/ \E i \in Hablas : Hablando(i)

(* One thread at a time uses the globals of audiochatSend, if nobody hangs *)
(* up, the user starts no conversation and no file is sent: the end of     *)
(* either conversation, in cerrarAudioRecv, makes the client available     *)
(* while it is still talking, and so may the signals of a file transfer,   *)
(* which run the handlers of audiochat.c in its threads.                   *)
UnaEmision ==
    ~modo.cuelgan /\ modo.escuchan = 0 /\ SinFicheros =>
        \A i, j \in Hablas : Hablando(i) /\ Hablando(j) => i = j

(* A single conversation, or without files one each way, or several that   *)
(* others start: cerrarAudioRecv makes the client available before it gives *)
(* back what it received with, and the user may start another one then.    *)
ConversacionSola ==
    \/ modo.hablan + modo.escuchan <= 1
    \/ SinFicheros /\ modo.escuchan = 0
    \/ SinFicheros /\ modo.hablan = 1 /\ modo.escuchan = 1

(* Conversations that end by themselves give back their sockets and their  *)
(* structures, also when an FCANCEL runs cerrarAudioSend in the thread of a*)
(* file.  It does not speak of the address, which IRCInterface_StartAudio- *)
(* Chat allocates apart and cerrarAudioRecv never frees: that one is left  *)
(* behind by every conversation the user starts.  (A handler closes what   *)
(* the thread it ends does not use.)                                       *)
AudioDevuelto ==
    Vivo /\ ~modo.cuelgan /\ ConversacionSola =>
        /\ \A i \in Hablas : paso[<<"habla", i>>] = "fin" =>
            {<<"envio", i>>, <<"socket", i>>} \cap recursos = {}
        /\ \A j \in Escuchas : paso[<<"escucha", j>>] = "fin" =>
            {<<"udp", j>>, <<"recepcion", j>>} \cap recursos = {}

(* Whoever is told to stop, by FCANCEL or by AUDIOEXIT, does, whichever of *)
(* the handlers of that signal is installed.                               *)
SenalTermina ==
    []<>(Vivo =>
        /\ \A i \in Envios :
            "SIGUSR2" \in pendiente[i] \cup mascara[i] => emisor[i] = "fin"
        /\ \A i \in Hablas :
            <<"habla", i>> \in senales \cup manejando => Terminada(<<"habla", i>>))
=============================================================================
