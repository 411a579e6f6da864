# Verification of redesII

redesII is an IRC server, a GTK client for it and a bot, written in C over POSIX sockets, threads
and signals. This directory holds TLA+ models of the parts whose behaviour is hard to test, TLC
runs that check them on small instances and TLAPS proofs that hold for every instance.

File names below are relative to the repository; `config.c`, `funciones_servidor.c` and so on are in
`srclib/`.

- [The system](#the-system)
- [The modules](#the-modules)
- [What the runs check](#what-the-runs-check)
- [Bounds](#bounds)
- [Fairness](#fairness)
- [What is proved](#what-is-proved)
- [Where code and documentation part](#where-code-and-documentation-part)
- [What is not modelled](#what-is-not-modelled)
- [Plan](#plan)
- [Running it](#running-it)

## The system

### Server

| Component | State | Operations | Shared with |
|---|---|---|---|
| Select loop (`config.c`, `red_servidor.c`) | `activeFD` under `mutexDescr`, the copy `readFD`, the buffer of one `recv` | `lanzarServidor`: copy the set, `select`, accept, `recv`, take the descriptor out, start a thread | message threads: `activeFD`; they wake it with SIGUSR1 |
| Message threads (`manejaMensaje`, `procesaComando` in `funciones_servidor.c`) | the message (`datos`) and the command in hand | split into commands, execute each, `addFd` or `cerrarConexion` | everything below |
| Temporary users (`conexion_temp.c`) | a doubly linked list under `mutexTempUser` | `newTempUser`, `pullTempUser`, `setNickTemporal`, `deleteTempUser`, `liberaTodosTempUser` | main thread, message threads, the SIGINT handler |
| Registration commands (`funciones_registro.c`) | the temporary user of the socket, then the user in the data base | NICK, USER, JOIN, LIST, WHO | the data base |
| Channel and message commands (`funciones_servidor.c`) | the data base; the static state of `strtok` | PART, KICK, MODE, TOPIC, PRIVMSG, NAMES, WHOIS, AWAY, PING, PONG, MOTD, QUIT | the data base; each other's sockets |
| Ping-pong (`rutinaPingPong`, `manejadorSIGALRM`) | an alarm every 20 s with `-p` | lists users; the PING itself is commented out | interrupts `select` |
| Signals (`config.c`) | dispositions of SIGINT, SIGUSR1, SIGALRM | `manejadorSigint` closes and ends the server | runs over whatever the main thread does |
| SSL (`ssl.c`, `lanzarServidorSSL`) | one context, one `SSL*` per descriptor | handshake, reads and writes over SSL | the loop repeated with other reads |
| Start (`src/servidor.c`, `daemonizar`) | options, log, listening socket | once, before any thread | |

The data base of users and channels (`IRCTAD*`), the parser and the message builders (`IRCParse_*`,
`IRCMsg_*`) are linked libraries that are not in the repository.

### Client and bot

| Component | State | Operations | Shared with |
|---|---|---|---|
| File transfer (`file_send.c`, `comandos_noirc.c`, `IRCInterface_SendFile` in `src/xchat2.c`) | `cliente.envio`, `cliente.recepcion`, the thread identifier, the globals of `file_send.c`, no mutex | send, receive, FSEND, FCANCEL, timeout | interface thread, receive thread, sending, timeout and receiving threads, signals between them |
| Audio chat (`audiochat.c`) | `cliente.audio*`, two threads | open, refuse, close, by SIGUSR1 and SIGUSR2 | signal dispositions of the file transfer |
| Connection (`red_cliente.c`, `irc_cliente.c`) | socket, registration, a receive thread, a mutex for sending | connect, register, read and dispatch, disconnect | interface |
| Replies and commands (`irc_cliente.c`, `comandos_cliente.c`, `src/xchat2.c`) | the channels and nicks shown | one handler per reply, one per user command | linked GTK interface |
| Bot (`bot.c`, `src/bot_galletas.c`) | socket, buffer | connect, join, answer | single-threaded |
| Echo programs (`src/*_echo.c`) | | demonstrate `ssl.c` | |

### How they interact, and what is hard

A message takes this way: the main thread reads it, removes its descriptor from `activeFD`, starts a
detached thread and forgets about it. The thread executes the commands, each of which calls the
temporary list and the data base, and writes to the sockets of other connections. At the end it adds
the descriptor to `activeFD` and sends SIGUSR1 to the process, so that `select` returns with EINTR and
is called again with the new set. A connection ends in one of two ways: in the main thread, when
`recv` finds the peer gone, or in a message thread that executes QUIT. Both call `cerrarConexion`.

What that exposes the code to, and the property each component stands or falls with:

- *Descriptors are reused as soon as they are closed.* The loop, the temporary list and the data base
  all name a connection by its descriptor. A record that outlives its connection gives its identity to
  the next one; a step taken for a descriptor after `close` is taken for somebody else.
- *One thread per message, not per connection.* Order and exclusion of a client's commands rest only on
  the descriptor being out of the set while a thread has it.
- *A lost wake-up.* The new set reaches `select` only if the signal finds it waiting.
- *Locks held for one operation at a time.* Look up here, act there: `deleteTempUser`, `nick`, `kick`,
  `enviarMensajeACanal`.
- *Signal handlers that lock mutexes* and free what threads use.
- *Process-wide hidden state:* `strtok`, signal dispositions.
- *In the client, seven kinds of threads over globals without a mutex,* that end each other with
  signals which may come late, or run into the handler that another part of the program installed.
- *The client's windows are a copy* of what the server knows, kept by messages that come in the order the
  server's threads write them, not in that of what they tell.
- *With SSL,* the readiness that `select` reports is not that of the data, and a handshake is
  waited for in the only thread that could serve the others.

## The modules

| Module | Models | Used by |
|---|---|---|
| `Servidor` | select loop with and without SSL, message threads, opening and closing of connections, reads that cut a command | `ServidorPropiedades` |
| `ServicioConexiones` | abstract: what the loop promises its clients | refined by `Servidor` |
| `ServidorPropiedades` | properties, refinement mapping, inductive invariants | `MCServidor`, `ServidorPruebas` |
| `ServidorPruebas` | theorems and proofs: types, who has a descriptor, whose identity | `ServidorPruebasMensajes` |
| `ServidorPruebasMensajes` | theorems and proofs: what `select` gets, commands lost or repeated, one identity, SSL objects; the loop implements `ServicioConexiones`; no connection is forgotten | |
| `TempUserList` | the linked list with its pointers, its mutex, its callers, and SIGINT | `TempUserListPropiedades` |
| `TempUserListPruebas` | theorems and proofs: the links, the pointers of the threads, and that the list implements `UsuariosTemporales` | |
| `UsuariosTemporales` | abstract: an atomic queue of users | refined by `TempUserList` |
| `Comandos` | every command, over the data base, by several threads | `ComandosPropiedades` |
| `ComandosPruebas` | theorems and proofs: nicks, rights, broadcasts, the victim of a KICK | |
| `EnvioFichero` | file transfers in the client | `AudioChat`, `EnvioFicheroPropiedades` |
| `AudioChat` | audio conversations, composed with the file transfers | `AudioChatPropiedades` |
| `AudioChatPruebas` | theorems and proofs about both, under each other's signals | |
| `Cliente` | several clients, from the user's orders to the windows, and the server's answers | `ClientePropiedades`, `ClientePruebas` |
| `ClientePruebas` | theorems and proofs: sending with the mutex | `ClientePruebasVista` |
| `ClientePruebasVista` | theorems and proofs: types of all that is sent and kept, and whoever is on the channel sees itself there | `ClientePruebasFiel` |
| `ClientePruebasFiel` | theorems and proofs: the windows end up saying what the server has | |
| `*Propiedades` | the properties of each | `MC*` |
| `MCServidor`, `MCTempUserList`, `MCComandos`, `MCAudioChat`, `MCCliente` | instances for TLC | the `.cfg` files |

Operators named `X_Y` after an operator `X`, marked *Mutant*, are forms of `X` with one plausible
mistake. They take part in no behaviour; they document which mistake each property catches.

The modules are tied together by what each assumes. `TempUserList` lets no two threads work for one
socket (guard of `Llama`), and `Comandos` names a thread by its descriptor: both rest on
`UnHiloPorConexion`, which is checked and proved about `Servidor`. `Servidor` treats
`deleteTempUser` and the other list functions as single steps: `ImplementaCola` of `TempUserList`
is the reason it may. `AudioChat` extends `EnvioFichero`: the two parts of the client share the signal
dispositions and the threads of its interface, so each step of one leaves the other's variables alone
except those. `Cliente` has the server's side of a command as `Comandos` does, with less detail of its
errors and with contents in the messages.

### Servidor

| Variables | In the code |
|---|---|
| `activeFD`, `readFD`, `eintr` | the set, its copy in the main thread, and whether SIGUSR1 has interrupted the `select` in progress |
| `canal` | `SSL_sockets`: the connection for which the SSL object of each descriptor was made |
| `temps`, `bd` | temporary users and registered users, by socket, with the connection each was made for |
| `pc`, `fd`, `con`, `sig`, `ult`, `nick` | program counter and locals of each thread; `con` is the connection of the message, which the code does not know |
| `ssl` | `ssl_active`, fixed at the start: `lanzarServidorSSL` runs instead of `lanzarServidor` |
| `guion`, `llegadas`, `enviados`, `aceptadas`, `duenno`, `leidos`, `recibidos`, `fin` | clients and kernel: who stands behind a descriptor, what is sent, taken out of the socket and handed over, who has closed |
| `hechos`, `cortados` | history: commands executed as they were sent, and commands that the end of a read has cut |

A thread's step is one access to shared state. `activeFD` is only touched inside
critical sections of `mutexDescr` that hold one operation, so the mutex itself is not a variable. Steps of
the main thread, in order: `SetReadFD`, `EntraSelect`, `SelectListo` or `SelectInterrumpido`, then for
each descriptor `AceptarConexion` and the three steps of `nuevaConexion`, or `RecvCierre`/`RecvError`
and the five of `cerrarConexion` (six with SSL), or `RecvDatos`, `DeleteFd`, `CreaHilo`; `FinRecorrido`. A thread
executes `EjecutaOtro`, `EjecutaUser`, `EjecutaQuit`, then `AddFd` and `Kill`, or the steps of
`cerrarConexion`. USER that registers is two steps: the user enters the data base (`EjecutaUser`), and after
the welcome the temporary one goes (`UserDeleteTempUser`); the connection is in both places in between.

A read takes `MAX_BUFFER` bytes or what there is, and `manejaMensaje` executes each line it finds, so a command
may be cut in two. Each command is two pieces, its halves: `enviados`, `leidos`, `recibidos`, `sig` and `ult` count
pieces. A client's write may end after any of `Finales` pieces, the buffer holds `MaxBuffer` of them, and what `RecvDatos`
hands over may begin or end in the middle of a command. `manejaMensaje` then executes a first half as the same command with less
text or as another (`OTRO`), and a second half as whatever it spells (`Restos`); neither counts as the
command sent, and `cortados` remembers which it was (`EjecutaTrozo`; the others are `EjecutaEntera`).

With `ssl`, the loop is the same but for four things. `CanalNuevo` makes an SSL object for the accepted descriptor, whatever was there before;
`CerrarCanal` frees it before the `close`, and a read without one fails (`SinCanal`). The loop waits in the handshake
of the new client (`saluda`), which ends with `AceptarCanal` or with `CanalFalla`; it may do either, and
`EsperaSaludo` says that it need do neither while the client is there. `RecvDatos` takes a whole record out of
the socket (`leidos`), which is what a client wrote in one call or several, and hands over what fits in the buffer (`recibidos`); the rest stays
in the SSL layer, and `HayDatos`, which is what `select` sees, only knows of the socket. At the end of a
connection `SSL_read` may return -1 instead of 0, again and again. A client sends nothing before its handshake.

Connections are numbered by arrival. The program never sees these numbers: they let the properties say
*whose* descriptor, user or message it is.

`ServicioConexiones` is the promise without threads or descriptors: a connection is absent, waiting,
attended or closed; its commands are executed one at a time, in order, none twice, only while it is attended. One may be left out,
because a read may cut it. The refinement maps each connection's state from `duenno`, `aceptadas` and `pc`.

### TempUserList

The nodes are addresses with the fields of `TempUser`; `reservado` is the heap. The search under the
mutex (`Avanza`, `Encuentra`, `NoEncuentra`) goes node by node, and the two critical sections of
`deleteTempUser` are two steps (`Encuentra`, `Desenlaza`), with the interval between them open to other
threads. `Calloc` may return any free address, one used before included, with fields zero; it may fail.
`setNickTemporal`, and the part of `user` that reads the nick, use the pointer outside the mutex.
`ManejadorSigint` stops the main thread wherever it is and starts `cerrarServidor` on top of it.
`lista` is a history variable: the nodes in the order they were linked.

### Comandos

A command is a handler with a step per call of the data base or per `send`: `IRCTAD*` calls are atomic
by their own locks, and nothing is held between two of them. The base is `bd` (who is registered with
each socket), `ausentes`, and `miembros`, `operadores` and `cerrado` of one channel; operators are those who
created it, as no code of the server gives the mode to another user, and `cerrado` stands for the modes that
refuse JOIN. The topic only shows in replies and is left out: `Topic`, like PING, MOTD, WHO and unknown
commands, is its reply. A broadcast is `ListNicks` (the nicks are copied),
then for each one `Mira` (its socket is looked up) and `Envia` (written to). `strtok` is `resto`,
`restoDe`, `liberado`: what is left of the string some thread started last, whose string it is, and
whether it was freed; after that a call may find anything. `Enviar` models a peer that has closed: it
answers with a reset, and the next `send` kills the process, since nobody handles SIGPIPE.
`testigos` and `victima` are history: who was on the channel, under one nick, since the list was made and
has not got the message; and whom a KICK has to tell.

The scripts in `MCComandos` are the inputs: what each client may send, in order, at any speed.

### EnvioFichero

`emisor`, `reloj` and `receptor` are the program counters of the sending thread, its timeout thread
and the receiving thread of each transfer; `gui` and `red` those of the interface and of the receive
thread. Signals sent to a thread stay in `pendiente` or `usr1` until it takes them, which may be in the
middle of anything; `mascara` blocks the signal whose handler is running; dispositions are of the process. `cerrar_envio` is six
steps, as in the code: dialog, descriptors, the signal to the timeout thread, `free`, the thread identifier, and last of all
`DISPONIBLE`; `pthread_exit` (`TerminaEnvio`) is one more, and a signal may come before it too. `socket` and `accept` are a step
each, and the store of what they return another (`CrearSocket`, `GuardaSocket`; `AceptarConexion`, `GuardaDesc`). `parse_fcancel` is five: the
state, the structure, the nick, the thread identifier and the signal; `cerrar_envio` may have freed the structure in between.
`sorpresas` is history: where a handler that ends a sending thread found it, if it had a descriptor that was not stored yet or
had already made the client available (`SinTardias`: the latter never happened).
`abiertos` and `reservado` are the descriptors and structures in use. `modo` is the scenario: how much is sent
and received, whether receivers connect, FCANCEL may come and resources may be refused.

### AudioChat

`paso` is the program counter of each audio thread: `habla` for `audiochatSend`, started by an AUDIOCHAT from
another user, and `escucha` for `audiochatRecv`, started by the user. The file transfer's threads have a
`paso` too, because they may be made to run an audio handler. `cerrarAudioSend` and `cerrarAudioRecv` are three steps
each. A signal is pending in `senales` until the thread takes it; then it runs whichever handler is installed
(`sigusr1`, `sigusr2` of `EnvioFichero`) and is in `manejando`. Whoever hangs up looks at the thread identifier in one step and
signals it in the next (`ExitAudioChat` and `ExitKill`, `ParseAudioexit` and `AudioexitKill`).
`recursos` are the sockets and structures in use, and the address of each structure of the receiving side, which nothing gives back.
`Otra` is the name under which an audio thread runs `cerrar_envio`.

### Cliente

| Variables | In the code |
|---|---|
| `registro`, `socket`, `cnick`, `mutex` | fields of `cliente` |
| `abiertas`, `vista`, `vistas` | windows, the nicks listed in each, and the orders whose answer was shown |
| `hecho`, `preguntas`, `conexiones` | the user: orders given, those that have an answer, connections made |
| `receptor`, `lee`, `buffer`, `tabla` | the thread of `recibirMensajes` of each connection, the connection its `recv` reads, what it has read, and `comandos_recv` |
| `escribe`, `fichero` | messages half written, and the thread that offers a file |
| `alServidor`, `alCliente`, `cerrada` | the network: both directions in order, and what the server has closed |
| `temporal`, `nombre`, `miembros`, `operadores`, `cerrado`, `hilo` | the server: its data base, and what each of its threads still has to send |

An order of the user is one action per function of `xchat2.c` or command of `comandos_cliente.c`. `send` may
take a message in two pieces (`trozos`); what another thread writes in between is noted in `cruces`. The
answers are taken by `Maneja`, one function of `irc_cliente.c` at a time, and each changes the windows as that
function does. The server's thread for a connection executes a command in one step (`Ejecuta`) and
sends what follows from it one message at a time, in between the steps of all the others.

## What the runs check

| Run | Properties | What it shows |
|---|---|---|
| `servidor_seguridad` | `TypeOK` `UnHiloPorConexion` `TempsDelDuenno` `BDDelDuenno` `Identificada` `SelectValido` `SinPerdidas` `CanalDelDuenno` `ImplementaServicio` | With and without SSL, one client that registers and quits with a command still in the message, another that registers, and writes and reads that end in the middle of a command. In every interleaving one thread at most works for a connection, neither an identity nor an SSL object passes to the next owner of the descriptor, `select` never gets a closed descriptor nor the loop a `recv` that blocks, no command that a read holds whole is lost or repeated, and the whole implements `ServicioConexiones`. |
| `servidor_vida` | `DescriptorVigilado` `MensajeAtendido` `ConexionAceptada` | Under fairness, with the alarm of `-p`, with and without SSL, clients that leave by closing, and more clients than descriptors: every open connection is watched or served, every command is executed (or cut by the end of a read), and a connection is accepted when there is a descriptor for it. With SSL, unless from some time on the loop waits for a handshake, or the command stays in the SSL layer. |
| `servidor_quit_reutiliza` | `DescriptorVigilado`, violated | See [below](#where-code-and-documentation-part). |
| `servidor_despertar` | `SelectActualizado`, violated | See below. |
| `temporales_seguridad` | `BienEnlazada` `SinUsoTrasLiberar` `SinFugas` `UnoPorSocket` `ImplementaCola` | The list is well linked in both directions after every insertion and deletion, no thread uses a node that was freed, none is lost, and look-up and unlinking in separate critical sections still look atomic to the callers. |
| `temporales_vida` | `BusquedaTermina` `SigintTerminaSinMutex` | No search goes round for ever; SIGINT ends the server if the interrupted thread has not got the mutex. |
| `temporales_sigint_mutex` | `SigintTermina`, violated | See below. |
| `comandos_seguridad` | `EntregaCompleta` `OperadorAutorizado` `NickDeUno` | Five scenarios of three clients. A channel message reaches all who stay under one nick, and that of a KICK its victim too; KICK and MODE act with rights that still hold; a nick names one live connection, and the channel lists no other. |
| `ficheros_seguridad` | `AudioTypeOK` `UnSoloEnvio` `DatosPropios` `OcupadoSiRecibe` `TodoDevuelto` `UnaRecepcion` `LibreTrasEnviar` `OcupadoSiHabla` `UnaEmision` `AudioDevuelto` `EsperaAcotada` `SenalTermina` | Thirteen scenarios of transfers, receptions and conversations, alone and together. With the exceptions that each property names, two of a kind do not overlap; a thread works on its own data; whatever ends gives back what it took and leaves the client free, whether by itself, by FCANCEL, by a timeout or for lack of a resource; a wait for the receiver is bounded; and who is told to stop does, whichever handler is installed. |
| `cliente_seguridad` | `ClienteTypeOK` `VistaFiel` `VistaPropia` `SinCruces` `TodoRespondido` `NickLiberado` | Nine scenarios of two users. Once everything has arrived, each client shows the channel and the members that the server has; messages of two threads do not cross; every order is answered; and the nick of a connection that was closed is free again. |
| `ficheros_ocupado` | `OcupadoSiEnvia`, violated | See below. |
| `ficheros_fcancel_cruzado` | `CanceladoPorDestino`, violated | See below. |

Each property of a passing run is violated if one definition is replaced by its mutant, as listed under
`mutants` in `PROJECT.json`: `addFd` before the last command, `deleteFd` left out, `DISPONIBLE` before
`free`, a search that does not compare, and so on.

Several properties except, by name, a case in which the code does not keep them: a command cut by the end of a read, the rest of a
record of SSL, a signal that comes after its thread has made the client available, an FCANCEL
that meets a conversation, a second connection of the same client. Each of these cases is told
[below](#where-code-and-documentation-part); the comment of the property says which it is. `VistaFiel` is
about commands that the server executes one at a time, because with threads it does not hold, and about users that have
not left nor changed nick (`Fiable`), which the server tells nobody else about.

`CHECK_DEADLOCK FALSE` appears where the system may really stop: clients have nothing more to send, the
process has ended, or it waits for input (of a handshake too). `temporales_seguridad` checks deadlock.

## Bounds

- `MaxConns`, `Fds`: two descriptors and two or three connections. Two connections at a time are what it
  takes to confuse one with the other, and a third (or a second, on the descriptor the first has left) is
  what it takes to reuse a number. `servidor_vida` has more clients than descriptors so that `accept` fails.
- `Hilos`: two threads besides the main one, so that they meet; three in the violation runs, where a
  thread that is about to end must not keep the others from starting. With fewer threads than messages, `CreaHiloFalla` happens.
- `Seguros`: both values of `ssl` in the passing runs of the server; the violation runs are about the loop without SSL.
- `MaxBuffer`, `Finales`: pieces of two to a command. With three in a buffer, and writes that end after two, three or six, a command is cut
  by the end of a write, by the buffer, by both, or not at all. In `servidor_vida`, which asks that what was not cut be executed,
  a write is two commands and a read takes one of them (without SSL) or leaves the other in the SSL layer.
- `Restos`: the second half of a command may be taken for any other in `servidor_seguridad`, USER and QUIT included; for one that does nothing
  in the other runs, which are about connections without QUIT or about whole commands.
- `Guiones`, `Escenarios`: what clients send. At most six commands each, sent at any moment.
- `Nodos`, `Sockets`: three in `temporales_seguridad`, the shortest list with a middle node, and an address to use again. Nodes and
  sockets are symmetric in `temporales_seguridad`: no property names one, and no liveness is checked there.
- `MaxEnvios`, `MaxRecepciones`: two of the kind whose overlap the property is about, so that one is
  over, or about to be, when the next starts.
- `MaxHablan`, `MaxEscuchan`, `Modos` (`AudioChat`): conversations, and which of transfers, receptions,
  FCANCEL, hanging up, silence and refused resources occur together. All at once is out of reach; the scenarios
  have each alone, transfers, receptions and incoming conversations twice, and each pair that shares a signal: a transfer with FCANCEL beside
  a conversation, and a transfer that waits beside a conversation that is hung up. In `ficheros_seguridad` no scenario has two transfers
  with FCANCEL, nor one that is hung up with neither files nor refused resources: those cases of `UnSoloEnvio` and of `OcupadoSiHabla` are reached by the proofs only.
- `Usuarios`, `Conexiones`, `Modos` (`Cliente`): two users, one of which may connect twice; what each orders,
  up to five orders; whether users wait for their answers, the server executes one command at a time, messages
  go in pieces, and sockets or threads are refused.
- `Cierran`: one client may close without QUIT at any moment in `Comandos`.

`MaxConns`, `MaxEnvios`, `MaxRecepciones`, `MaxHablan`, `MaxEscuchan` and the scripts bound how long a behaviour is; the code's
loops have no such end. There are no other bounds: no state constraint, no view.

## Fairness

`Servidor`: weak fairness of the main thread (`LanzarServidor`), of each message thread and of the timer of `-p`
(`alarm`, set again by its handler). The operating system runs every thread that can run; no operation of the loop is blocked by
another thread for longer than a critical section. Nothing is assumed of clients: they may never send or close. In
particular the main thread is not promised that `SSL_accept` returns: the fairness is that of
`LanzarServidor /\ ~EsperaSaludo`, and `MensajeAtendido` and `ConexionAceptada` name what that costs.

`TempUserList`: weak fairness per thread, which is enough for whoever has the mutex; only the SIGINT
handler is given the mutex under strong fairness, because other threads take it again and again and a
thread that waits does get it in the end. No fairness for calls or for SIGINT itself.

`EnvioFichero` and `AudioChat`: weak fairness of `Planificador`, which is any step of the sending threads, of the
timeout threads (time passes), of the ends of conversations, and any delivery of a signal. One condition for all of them
is enough, and less than the system gives, because each takes a few steps and then ends or waits. None for the
receiver, who need not connect, nor for `Send`: a file may be as long as one likes.

`Cliente`: the same for its `Planificador`: threads of clients and of the server. Users may stop at any time. No thread
works for ever without a new order, so there is none that the others could wait behind.

`Comandos` has only safety properties.

## What is proved

Every safety invariant and action property that a passing run checks is a theorem, and so are both refinements; what is
left to TLC is liveness. The theorems hold for every value of the constants
that satisfies the assumptions of the component's module; where one has a hypothesis of its own, the table says so.

### The server's loop

For any descriptors, threads, connections, buffer size, client scripts and use of SSL that satisfy
`ServidorAssumption` (the listening socket is lower than the others, the main thread is not among the
message threads, scripts are sequences of commands, `Restos` has `OTRO`):

| Theorem | Module | |
|---|---|---|
| `TipoCorrecto` | `ServidorPruebas` | `Spec => []TypeOK` |
| `InvarianteSiempre` | `ServidorPruebas` | `Spec => []Invariante` |
| `UnHiloSiempre` | `ServidorPruebas` | `Spec => []UnHiloPorConexion` |
| `TempsSiempre` | `ServidorPruebas` | `Spec => []TempsDelDuenno` |
| `BDSiempre` | `ServidorPruebas` | `Spec => []BDDelDuenno` |
| `SelectValidoSiempre` | `ServidorPruebasMensajes` | `Spec => []SelectValido` |
| `SinPerdidasSiempre` | `ServidorPruebasMensajes` | `Spec => []SinPerdidas` |
| `IdentificadaSiempre` | `ServidorPruebasMensajes` | `Spec => []Identificada` |
| `CanalSiempre` | `ServidorPruebasMensajes` | `Spec => []CanalDelDuenno` |
| `CuentasSiempre` | `ServidorPruebasMensajes` | `Spec => []Cuentas` |
| `ImplementaServicioSiempre` | `ServidorPruebasMensajes` | `Spec => ImplementaServicio` |
| `VigiladoSiempre` | `ServidorPruebasMensajes` | if `SinQuit`: `Spec /\ []HayHilo => []DescriptorVigilado` |

None of the properties of `Servidor` is inductive alone. That a thread's descriptor is not in `activeFD` follows only
if nobody else can add it, and that rests on the main thread having had it alone before, and on
`select` being given only what is open. `Invariante` is `TypeOK /\ Reparto /\ Identidad`:

- `Reparto` says who has each descriptor: owners are distinct and accepted (`DuennoUnico`,
  `DuennoAceptado`); whoever has a descriptor in hand has it alone and it is open (`Exclusion`); it is out of `activeFD` unless
  the main thread is about to take it out (`FueraDeSelect`); the message comes from its owner
  (`MensajeDelDuenno`); what is watched or about to be walked is open (`ActivosAbiertos`, `LeidosAbiertos`).
- `Identidad` says whose users are stored under it: `TempsDelDuenno`, `BDDelDuenno`, and how far a
  `cerrarConexion` in progress has got (`CierreOrdenado`), so that after `close` nothing is left.

`ActivosAbiertos` has the exception of the main thread in `clrFd`: `cerrarConexion` clears the bit after
`close`. The same order in the thread of a QUIT is what breaks `DescriptorVigilado`, and why that property
is no part of the invariant. `VigiladoSiempre` proves it where the code does keep it: no script has a QUIT, nor may half a command be taken for one (`SinQuit`), and
whenever the loop wants a thread there is one (`HayHilo`), as a failure of `pthread_create` goes unnoticed. Then only
the main thread closes, and what it takes out of `activeFD` afterwards nobody has been given yet (`CierraPrincipal`).
`servidor_vida` is a run of that kind, so neither hypothesis is empty.

The proof goes by lemma: `Tipo*` for `TypeOK`, one step per action; `Reparto*` and `Identidad*` split by
actions of the main thread, of a message thread and of `cerrarConexion`, which both execute;
`RepartoMarco` and `IdentidadMarco` for steps of clients and of the timer, which touch none of it.
`InvariantePaso` puts them together.

The first four theorems of `ServidorPruebasMensajes` add to `Invariante` what each needs:

- `SelectValido` needs that what `select` returned stays readable while the main thread walks it. `LeidosListos` says so;
  it is kept because only the main thread reads, because `Exclusion` lets no thread close a descriptor that is in
  `readFD`, and because each step of the walk takes its descriptor out of `readFD` first.
- `SinPerdidas` is about the commands that one read received whole. It needs to know what a message is worth while a thread has it: `Cuentas` says that,
  wherever the thread is in its message, the commands executed are the whole ones before that place (`Hasta`), that a message cuts a command
  only at its two ends (`MensajeDe`, `Cortes`), and that nothing is left for whoever waits to be read (`PorLeer`). A connection that was never accepted
  has nothing received or executed, so that a new one starts even.
- `Identificada` needs what happens between `accept` and `addFd`: no record of the descriptor at all, then a temporary user.
  `Conocidas` follows a connection from there; from `addFd` until `cerrarConexion` it is known in one place
  (`EnUnSitio`), except that USER adds the second (`EnDosSitios`) before it takes the first away, under the exclusion of the message's thread.
- `CanalDelDuenno` needs `Canales`: from `CanalNuevo` to `CerrarCanal` whoever has a descriptor finds the object of its own connection there.

Steps that leave the variables of one of these alone are handled once, by `ListosMarco`, `PasoNeutral`, `ConocidasConserva`
and the lemmas beside them.

`ImplementaServicioSiempre` needs nothing new: under the mapping, each step of the loop or of a thread
is one of `ServicioConexiones`, or changes nothing there. `Invariante` says that whoever attends a connection is one,
and `Cuentas` that the command it executes is later than those it has executed.

### The temporary list

| Theorem of `TempUserListPruebas` | |
|---|---|
| `ListaInvSiempre` | `Spec => []ListaInv` |
| `BienEnlazadaSiempre` | `Spec => [](Intacta => BienEnlazada)`, and without SIGINT `Spec => []BienEnlazada` |
| `UnoPorSocketSiempre`, `SinFugasSiempre`, `SinUsoTrasLiberarSiempre` | the same of `UnoPorSocket`, `SinFugas`, `SinUsoTrasLiberar` |
| `ImplementaColaSiempre` | `Spec /\ []Intacta => ImplementaCola`, and without SIGINT `Spec => ImplementaCola` |

`Intacta` is the time before the handler of SIGINT frees the list under the threads; nothing of it is true after that.
`ListaInv` is in `TempUserListPropiedades`. `Turnos` says who has the mutex and which function each
thread is in; `Punteros`, that a node in a thread's hands is allocated, is the one its socket names, and stays in the
list from the moment it is found until that same thread unlinks it; `Buscado`, how far a search has got: all
the nodes before `aux` are other sockets'. The two critical sections of `deleteTempUser` are safe for one reason only, and
the proof shows which: no two threads work for one socket, so nobody else unlinks the node, and its
neighbours are read again in the second section. `lista`, the ghost sequence, makes the links a formula
(`BienEnlazada`), and each unlinking a lemma about removing one position of a sequence (`ListaMengua`), with its four cases: only user, first, last, middle.

### Commands

| Theorem of `ComandosPruebas` | |
|---|---|
| `ComandosInvSiempre` | `Spec => []ComandosInv` |
| `NickDeUnoSiempre` | `Spec => []NickDeUno` |
| `OperadorAutorizadoSiempre` | `Spec => []OperadorAutorizado` |
| `EntregaCompletaSiempre` | `Spec => []EntregaCompleta` |

`ComandosInv` has, besides the types, `Conexiones` (a descriptor in use is of one connection, and a thread in the middle of a command
has that command in hand), `Registro` (each nick is registered for one connection, and only registered nicks are on the
channel), `Mando` (there is one operator at most, so that the rights KICK looked at can only have been lost by the author's own
doing, and the author's thread is busy), `Entrega` (whoever was on the channel when the list was made, and keeps that nick, is
still in the list, or is the destination about to be written to) and `Aviso` (the same of the victim of a KICK, who comes
after the channel). `strtok` appears nowhere in it: these hold whatever another thread does to its position.

### File transfers and conversations

| Theorem of `AudioChatPruebas` | |
|---|---|
| `AudioTypeOKSiempre` | `SpecCliente => []AudioTypeOK` |
| `UsoSiempre` | `SpecCliente => []UsoInv` |
| `UnaRecepcionSiempre`, `OcupadoSiRecibeSiempre` | of `UnaRecepcion`, `OcupadoSiRecibe` |
| `UnSoloEnvioSiempre`, `LibreTrasEnviarSiempre`, `TodoDevueltoSiempre`, `DatosPropiosSiempre` | of `UnSoloEnvio`, `LibreTrasEnviar`, `TodoDevuelto`, `DatosPropios` |
| `OcupadoSiHablaSiempre`, `UnaEmisionSiempre`, `AudioDevueltoSiempre` | of `OcupadoSiHabla`, `UnaEmision`, `AudioDevuelto` |

All of them are about the composition, with the signals of one part running the handlers of the other. `UsoInv` says
what a scenario can bring about: no handler of `audiochat.c` without a conversation, no `cerrar_envio` in a foreign
thread unless one is hung up. With it each property has an invariant of a few lines: `RecepcionInv` (whoever receives has the client
busy, from the dialog on); `EnvioSolo` (the same for `cliente.envio`, which is taken before there is a thread and given back last);
`DevueltoInv` (what is open is what the globals name, what a thread is about to store, or what a handler left behind, and `cerrar_envio` has got as far as its place says);
`RelojDe` and `Propios` (a timeout thread, its alarm and its signal are of a transfer that started it, and once the alarm is
ignored it cannot run `cerrar_envio` a second time); `HablaInv`, `EmisionInv` and `AudioInv` for the conversations.

Four of the properties were stated more widely before they were proved. No run had contradicted them, as in the scenarios it
took the events never met, but their invariants were not inductive, and what stopped the proof is what the code does:

- `UnSoloEnvio` and `TodoDevuelto`: hanging up the conversation the user started may run `cerrar_envio` in the audio thread,
  which makes the client available in the middle of its own transfer; a second one then starts (`CierraOtro`).
- `UnaEmision`: the end of a transfer may run the handlers of `audiochat.c`, which do the same to a conversation (`SinFicheros`).
- `AudioDevuelto`: `cerrarAudioRecv` makes the client available before it gives back what it received with; a second
  conversation of the user's overwrites the global that names it (`ConversacionSola`). TLC shows it with two.

What the theorems do not say is as much a result as what they say. `UnSoloEnvio`, `DatosPropios` and `TodoDevuelto` have `SinTardias` as a premise: TLC
violates the first two without it, and the third with three transfers. `TodoDevuelto` has one way out for a descriptor, a handler between the call that returned it and the store, and
TLC reaches it for `socket` and for `accept`. `DatosPropios` is about SIGALRM alone. `UnaEmision` is about conversations that others start. `AudioDevuelto` counts sockets and structures, not addresses.
All of these cases are told [below](#where-code-and-documentation-part).

### Sending

For any users, connections and scenarios that satisfy `ClienteAssumption`:

| Theorem of `ClientePruebas` | |
|---|---|
| `EnvioSiempre` | `Spec => []EnvioInv` |
| `SinCrucesSiempre` | `Spec => []SinCruces` |

`EnvioInv` says that, until the user connects a second time, a thread that is in the middle of a message has the mutex
(`ConMutex`), so there is only one, and what it has written has been crossed by nobody but the interface; and the
same of what the server has yet to read (`Recibidas`). The restriction to the first connection is needed:
`IRCInterface_Connect` initialises the mutex again, and a thread that had it then unlocks it for another.

### Windows

Under the same assumption, with commands of any number of users at a time:

| Theorem of `ClientePruebasVista` | |
|---|---|
| `TipoSiempre` | `Spec => []TipoInv` |
| `ClienteTypeOKSiempre` | `Spec => []ClienteTypeOK` |
| `PropiaSiempre` | `Spec => []PropiaInv` |

| Theorem of `ClientePruebasFiel` | |
|---|---|
| `FielSiempre` | `Spec => []FielInv` |
| `VistaFielSiempre` | `Spec => []VistaFiel` |
| `VistaPropiaSiempre` | `Spec => []VistaPropia` |

`TipoInv` has one part for each place where a message or a piece of one may be: the interface, the windows, the orders and
questions, what goes to the server, what the receive thread holds, the data base, and what the server's threads have left to send. Each
part says whose it can be: an answer is about an order that its user gave (`Pide`), a JOIN or a PART in the
thread of a connection is of that connection, and only its own client is told that it is banned. `ClienteTypeOK` follows, and is not inductive alone,
because what a window lists came through all of them.

`VistaPropia` compares two ends of the system, the data base and a window, once everything has arrived. To be inductive it has to
say where the echo of JOIN is meanwhile. `Propia` does: whoever is on the channel has the echo of its JOIN in the
thread of its connection (`hilo`), on the socket (`alCliente`), in what `recv` brought (`buffer`) or already in the window,
and nothing behind it in that order makes the client leave (`Vera`). Around it, `PropiaInv` needs that a connection not yet
made has nothing (`Nuevas`), that the receive thread of the only connection reads from it (`Lectura`), and that
the nick of CONNECT is the first message of a connection (`PrimerNick`), so that nobody takes it later. TLC checked all of
these on small scenarios before they were proved.

`VistaFiel` compares all that both ends list, and rests on `Fiel`, which is about commands in series (`modo.serie`). For one user `u` and one nick `n`
the window of the channel is one of three things (`SeVe`): closed, open without `n`, or open with `n`. Each answer takes it from
one to another (`Efecto`, proved against the handlers of `irc_cliente.c` in `RespuestaSeVe`), and so does each step
that a thread of the server has left (`EfectoPaso`: to the channel, to some nicks, to the author, or names). `Fiel` says that what is
in the buffer and on the socket, in order, takes the window of `u` to some `f` (`Llegara`), and that what the server's threads
have left takes `f` to what the data base says (`Dira`, `Debe`). One thread at most has steps that matter; those of
the others are answers that change no window (`Inocuo`). A command changes both ends of that chain at once, the data base
and the steps left, and the proof has a lemma for each: `JoinLleva`, `PartLleva`, `KickLleva`, `TextoLleva`, `BaneadoLleva`. When nothing is
on its way the chain is empty, and the window shows what the server has.

`Fiel` is about users that have not connected, or are on their first connection under the nick of CONNECT (`Sano`); whoever
is so after a step was so before it (`SanoAntes`), which is why nobody's earlier connection can disturb it. `FielInv`
adds that a closed connection has no nick (`Cerradas`) and that nobody has windows before connecting (`SinAbrir`).

`VistaPropia` has an exception: a user orders KICK (`HayKick`) and commands are not in series. A victim that joins again before it is told
of the KICK closes the window of the channel that it is on. Without KICK it follows from `Propia`; in series, from `VistaFiel`.

Three properties were not what was meant, and the proofs showed it. `ClienteTypeOK` said that every answer shown is to a counted
question; with a thread that fails to start and a second CONNECT, the thread of the first connection may show
an answer that nobody counts (hence `Pide`). `VistaPropia` said nothing of nicks; a NICK that the server executes before JOIN
puts the user on the channel with a name that its client does not know as its own. `VistaFiel` said nothing as soon as anybody left;
now it says so of every two users that have not, whatever the others do.

### Only model-checked

Liveness under fairness, which is out of the proof system's reach as `ENABLED` is: `MensajeAtendido`, `ConexionAceptada`,
`BusquedaTermina`, `SigintTerminaSinMutex`, `EsperaAcotada`, `SenalTermina`, `TodoRespondido` and `NickLiberado`. Induction over
data (such as what a whole traversal of the list returns) is out of reach too, and no run asks for it.

## Where code and documentation part

With a run:

- `servidor_quit_reutiliza`. `cerrarConexion` closes the socket and then calls `deleteFd`
  (`funciones_servidor.c:285-286`). In the thread of a QUIT, the main thread can accept a connection under that
  number and add it in between; `deleteFd` then removes the new connection, which no `select` will
  watch. The report (`doc/G-2302-02-P3-doc.pdf`, p. 5) says a descriptor is out of the set only while it
  is processed.
- `servidor_despertar`. SIGUSR1 between `setReadFD` and `select` (`config.c:465-468`) finds nothing to
  interrupt, and `select` blocks without the descriptor that came back. The report and the comment at
  `config.c:352` say the signal makes `select` wait with it. `pselect`, or a pipe, would close
  the window; with `-p` the alarm bounds the wait (`servidor_vida`).
- `temporales_sigint_mutex`. The handler of SIGINT runs in the main thread and locks `mutexTempUser`, which
  that thread may have already: it then waits for itself.
- `ficheros_ocupado`. `file_recv_func` sets `cliente.envio`, not `cliente.recepcion`
  (`file_send.c:405`), and a client that has received a file can never send one.
- `ficheros_fcancel_cruzado`. `parse_fcancel` checks the nick of the current transfer and then signals the
  thread identifier (`comandos_noirc.c:168-173`), which may be the next transfer's by then.

Seen while modelling, without a run of their own:

- `pthread_create(...) < 0` (`config.c:527`) is never true, as the function returns a positive error. The
  descriptor stays out of `activeFD`, nobody has it, and `DescriptorVigilado` fails in `servidor_vida`
  with one thread fewer.
- `strtok` is used in every thread (`funciones_servidor.c:588`, `773`, `972`, `1255`;
  `funciones_registro.c:603`). In `Comandos`, a PRIVMSG may go on with the destinations of another
  client's, or with freed memory. The report, p. 5, counts two mutexes against race conditions; this state has none.
- `enviarMensajePrivado` may write to a descriptor whose owner has changed since it was looked up; and
  when PART finds a nick gone it has no author to tell (`nickorigin` is NULL) and writes to descriptor 0.
- A message is missed by a user who changes nick between the list and the look-up: `EntregaCompleta`
  promises delivery to those who keep theirs.
- `partirCanal` sends to the whole channel what it sends to the author, also when that is an error
  (`funciones_servidor.c:1180`).
- With `IRCERR_UNDELETABLECHANNEL`, `kick` takes the name of the channel for a nick
  (`funciones_servidor.c:1469`).
- SIGPIPE ends the server when a second message goes to a client that has closed. The report, p. 11-12, and
  `funciones_servidor.c:228` tell of the effect and suspect the socket libraries. `Comandos` has it;
  `Servidor` does not, and its properties hold up to that moment.
- With SIGINT, the list is freed under threads that have pointers to it: `SinUsoTrasLiberar` fails with
  `Sigint = TRUE`.
- SIGUSR1 for the timeout thread (`file_send.c:290`), or SIGUSR1 and SIGUSR2 for an audio thread, end the
  client when no handler is installed yet, and are undefined when the thread has ended.
- `pthread_create(...) == -1` (`comandos_noirc.c:131`) is never true, so a reception without a thread leaves
  the client busy: `OcupadoSiRecibe` fails with `fallan`. The timeout thread's creation is not
  checked (`file_send.c:273`): `EsperaAcotada` fails with it too. The same test is used for the audio threads.
- A command cut by the end of a `recv` (`config.c:500`) is not put together again: `manejaMensaje` executes both halves as
  lines of their own (`funciones_servidor.c:79-80`), and the command is lost or changed. `SinPerdidas`, `MensajeAtendido` and
  `ServicioConexiones` leave such commands out. The client has the same (`irc_cliente.c:79`).
- A second signal inside `cerrar_envio` runs it again, after the `free`: `DatosPropios` fails with `cancelan`, and with `fallan`
  when `accept` fails, as SIGALRM is still active then.
- A SIGALRM or SIGUSR2 between `accept` and the store of its result (`red_servidor.c:110`), or between `socket` and its store (49), ends the
  thread with that descriptor open and known to nobody: `TodoDevuelto` excepts it, by name.
- A signal taken after `cliente.envio = DISPONIBLE` (`file_send.c:81`) and before `pthread_exit` runs `cerrar_envio` in a thread that has nothing more to close.
  If the user has started another transfer, it is that one's socket that is closed, its structure that is freed and its timeout thread that is ended, so
  that it may wait in `accept` for ever: `UnSoloEnvio`, `DatosPropios`, `TodoDevuelto` and `EsperaAcotada` have `SinTardias` as a premise.
- Handlers call `free` and show dialogs, which is undefined in a handler that interrupted `malloc` or the interface. The model has only their steps.

With SSL:

- The rest of a record longer than `MAX_BUFFER` waits inside the SSL layer until something else arrives on the socket
  (`config.c:641`); nothing calls `SSL_pending`.
- One client that stays silent in its handshake stops the loop for all (`config.c:625`).
- Threads call `SSL_write` on the object that the main thread may be reading from, or `cerrarConexion` freeing, without a lock.
  This is not modelled.
- When a connection ends without a close alert, `SSL_read` may return -1 each time: the loop turns round for ever
  and never frees the nick (`config.c:641-644`).

Audio conversations:

- The handler of SIGUSR1 closes the receiving side and that of SIGUSR2 the sending side, but AUDIOEXIT sends SIGUSR1 to the
  sending thread and `IRCInterface_ExitAudioChat` SIGUSR2 to the receiving one: the thread that ends loses its socket and its
  data, and the other loses its state.
- `cerrarAudioRecv` makes both directions `DISPONIBLE` before it closes (`audiochat.c:228-229`): a new conversation can
  overlap with one that is ending. `UnaEmision` fails as soon as the user starts one.
- The address of a structure that receives (`xchat2.c:1442`) is allocated apart, and `cerrarAudioRecv` frees only the structure
  (`audiochat.c:230-233`): each conversation the user starts leaves it behind. When the thread cannot be had the structure stays too (`fallan`).
- Dispositions are of the process: an FCANCEL after a conversation has begun runs `cerrarAudioSend` in the sending
  thread, which stays `OCUPADO` with its descriptors open; and hanging up may run `cerrar_envio` in an audio thread.

Client:

- NICK is answered by the server in its own name, so `rplNick` never finds its author: `cliente.nick` and the windows keep
  the old one. QUIT and NICK are told to nobody else, so those who were on the channel stay in the
  others' lists (`Fiable` leaves them out of `VistaFiel`).
- With threads in the server, lists and members can differ for good: a NAMES computed before somebody's PART leaves
  a ghost; a message in flight opens a window again that was just closed; a KICK answered by an immediate JOIN closes the
  window of a member. `VistaFiel` fails without `serie`.
- `IRCInterface_Connect` initialises `envio_thread_mutex` again, which a thread of the connection before may have; the interface sends
  without the mutex at all (`red_cliente.c:133`).
- With the receive thread of an old connection still in `recv` when its number is used again, two threads read the new one;
  what it had read before opens windows again after a disconnection. `inicializar_comandos_recv` empties
  the table that the other thread is using.
- A command typed before the first connection calls a null pointer (`comandos_cliente` is filled by
  `IRCInterface_Connect`, and not if its thread cannot be created).
- If `pthread_create` fails in `IRCInterface_Connect`, the socket stays open and the nick taken, with `registro` at `CONECTADO`
  (`xchat2.c:596`). It also stays there when the server closes.
- The same of a command cut by the end of a `recv` (`irc_cliente.c:79`) as in the server.
- PART of all channels is sent as `JOIN 0`, which the server answers with an error; `strcmp` with a mode spelt `\\+k` never
  matches, so no password is set; and the parameter of MODE never reaches the data base.
- `rplNamReply` calls a function of the interface that is not for threads (`irc_cliente.c:405`), and `strtok`.

## What is not modelled

- The linked libraries (`IRCTAD`, `IRCParse`, `IRCMsg`, `ircxchat`, `ircsound`, `ircredes`), except as the
  code uses them: a call of the data base is one atomic step and its errors are those a handler tells apart.
- Memory that runs out, except in `newTempUser`; failing mutexes; malformed commands, which are answered and change nothing.
- Topics, texts and the modes of channels, beyond whether they refuse JOIN; several channels, which
  share nothing.
- Of SSL, the inside of the objects, their use by two threads and the client's side. Of the client, LIST, WHO and the windows of other channels.
- The bot and the echo programs, which are sequential and keep no state beyond a buffer.
- The sound of conversations.
- Contents: names, texts, addresses, formats. The parser of messages is in the library.
- Start-up: it is over before the first thread exists.
- `PRUEBAS_IRC`, off in the `Makefile`, adds a broadcast to `cerrarConexion`.

## Plan

Done, in this order: `Servidor` and its proofs, `TempUserList`, `EnvioFichero`, `Comandos`, `AudioChat` composed with the
transfers, `Cliente` and its proofs, SSL in `Servidor`, the rest of the invariants of `Servidor`, the refinements, and the
proofs about the list, the commands, the transfers, the conversations and the windows.

1. For `Comandos`, an abstract specification of a channel (who gets what) to implement, and for `Cliente` the same
   channel as what the windows refine, for commands in series.
2. LIST and WHO in `Cliente`, a second channel, and the client's side of SSL.

## Running it

```
tlc -workers 2 -config servidor_seguridad.cfg MCServidor.tla
tlapm ServidorPruebas.tla
tlapm ServidorPruebasMensajes.tla
tlapm TempUserListPruebas.tla
tlapm ComandosPruebas.tla
tlapm AudioChatPruebas.tla
tlapm ClientePruebas.tla
tlapm ClientePruebasVista.tla
tlapm ClientePruebasFiel.tla
```

`PROJECT.json` lists for every definition the lines of code it models, for every run its module and
properties, and for every hazard the line where it bites.
