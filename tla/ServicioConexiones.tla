------------------------- MODULE ServicioConexiones -------------------------
(***************************************************************************)
(* What the server promises for each connection, whatever threads do the   *)
(* work: it is accepted in the order of arrival, its commands are executed *)
(* one at a time, each at most once and in the order they were sent, never *)
(* two messages at the same time, and none after the connection is closed. *)
(* A command may be left out: the end of a read may cut it in two.         *)
(***************************************************************************)
EXTENDS Naturals, Sequences

CONSTANTS
    Conns,      \* connections, numbered from 1 by arrival
    Comandos    \* positions of the commands of a connection, in the order sent

VARIABLES
    estado,     \* estado[c]: "ausente", "espera", "atendida" or "cerrada"
    hechos      \* hechos[c]: the commands of c executed, by their position

vars == <<estado, hechos>>

Init ==
    /\ estado = [c \in Conns |-> "ausente"]
    /\ hechos = [c \in Conns |-> <<>>]

Pasa(c, de, a) == estado[c] = de /\ estado' = [estado EXCEPT ![c] = a]

Acepta(c) ==
    /\ \A d \in Conns : d < c => estado[d] # "ausente"
    /\ Pasa(c, "ausente", "espera")
    /\ UNCHANGED hechos

EmpiezaMensaje(c) ==
    /\ Pasa(c, "espera", "atendida")
    /\ UNCHANGED hechos

Ejecuta(c) ==
    /\ estado[c] = "atendida"
    /\ \E k \in Comandos :
        /\ \A i \in DOMAIN hechos[c] : hechos[c][i] < k
        /\ hechos' = [hechos EXCEPT ![c] = Append(@, k)]
    /\ UNCHANGED estado

TerminaMensaje(c) ==
    /\ Pasa(c, "atendida", "espera")
    /\ UNCHANGED hechos

Cierra(c) ==
    /\ \/ Pasa(c, "espera", "cerrada")
       \/ Pasa(c, "atendida", "cerrada")
    /\ UNCHANGED hechos

Next ==
    \E c \in Conns :
        \/ Acepta(c)
        \/ EmpiezaMensaje(c)
        \/ Ejecuta(c)
        \/ TerminaMensaje(c)
        \/ Cierra(c)

Spec == Init /\ [][Next]_vars
=============================================================================
